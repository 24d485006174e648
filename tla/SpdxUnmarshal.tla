--------------------------- MODULE SpdxUnmarshal ---------------------------
(***************************************************************************)
(* SBOM graph ingestion: SPDX.unmarshal in src/pkg/sbom/spdx/unmarshal.go. *)
(*                                                                         *)
(* The input document (SpdxDocument) is chosen in Init from a bounded set  *)
(* and never changes.  Each iteration of the relationship loop and of the  *)
(* orphan loop is one step; Go map iteration order (apps, orphanPkgs) is a *)
(* nondeterministic choice.  The loop is shown to implement SbomImport,    *)
(* which states the result over the whole document in one step.           *)
(***************************************************************************)
EXTENDS SpdxDocument

VARIABLES
    pc,           \* "rels" | "orphans" | "done" | "failed"
    i,            \* index of the next relationship of the loop
    osPkgs,       \* local osPkgs of unmarshal
    apps,         \* local apps: application element -> libraries
    orphans,      \* local orphanPkgs (its key set)
    todo,         \* orphans not yet visited by parsePackages
    fbOsPkgs,     \* local osPkgs of parsePackages
    fbApps,       \* local apps of parsePackages: PkgType -> libraries
    sbomOS,       \* s.SBOM.OS
    outPackages,  \* s.Packages (the packages of its single PackageInfo)
    outApps       \* s.SBOM.Applications

vars == <<doc, pc, i, osPkgs, apps, orphans, todo, fbOsPkgs, fbApps,
          sbomOS, outPackages, outApps>>

StoreFallbackNoWriteBack(m, p) ==   \* mutant: apps[pkg.Type] = app forgotten
    m
\* the Go idiom app, ok := apps[t]; if !ok {...}; append; apps[t] = app
StoreFallback(m, p) ==
    IF p.type \in DOMAIN m THEN [m EXCEPT ![p.type] = Append(@, p)]
    ELSE (p.type :> <<p>>) @@ m

AddLibraryPrepend(m, a, p) ==   \* mutant: the library put in front
    [m EXCEPT ![a] = <<p>> \o @]
\* app.Libraries = append(app.Libraries, pkg.Package)
AddLibrary(m, a, p) == [m EXCEPT ![a] = Append(@, p)]

AdoptedSourceOnly(a, b) ==   \* mutant: pkgB stays in orphanPkgs
    {a}
\* delete(orphanPkgs, pkgA...); delete(orphanPkgs, pkgB...)
Adopted(a, b) == {a, b}

-----------------------------------------------------------------------------
Init ==
    /\ doc \in Documents
    /\ pc = "rels"
    /\ i = 1
    /\ osPkgs = <<>>
    /\ apps = <<>>
    /\ orphans = PackageIds
    /\ todo = {}
    /\ fbOsPkgs = <<>>
    /\ fbApps = <<>>
    /\ sbomOS = NoOS
    /\ outPackages = <<>>
    /\ outApps = <<>>

Cur == Relationships[i]
InLoop == pc = "rels" /\ i <= Len(Relationships)
BothKnown == Cur.a \in PackageIds /\ Cur.b \in PackageIds

\* unmarshal.go:100-103: an endpoint that is not a package element
RelMissing ==
    /\ InLoop /\ ~BothKnown
    /\ i' = i + 1
    /\ UNCHANGED <<doc, pc, osPkgs, apps, orphans, todo, fbOsPkgs, fbApps,
                   sbomOS, outPackages, outApps>>

RelToOSSwapped ==   \* mutant: parseOS(*pkgA) instead of parseOS(*pkgB)
    /\ InLoop /\ BothKnown /\ Cur.b \in OSIds
    /\ sbomOS' = Cur.a
    /\ orphans' = orphans \ {Cur.b}
    /\ i' = i + 1
    /\ UNCHANGED <<doc, pc, osPkgs, apps, todo, fbOsPkgs, fbApps,
                   outPackages, outApps>>

\* unmarshal.go:107-109: root package => OS
RelToOS ==
    /\ InLoop /\ BothKnown /\ Cur.b \in OSIds
    /\ sbomOS' = Cur.b
    /\ orphans' = orphans \ {Cur.b}
    /\ i' = i + 1
    /\ UNCHANGED <<doc, pc, osPkgs, apps, todo, fbOsPkgs, fbApps,
                   outPackages, outApps>>

\* unmarshal.go:111-119: OS => OS package
RelOSToPkg ==
    /\ InLoop /\ BothKnown /\ Cur.b \notin OSIds /\ Cur.a \in OSIds
    /\ LET err == ParseErr(Cur.b) IN
         \/ /\ Skipped(err)
            /\ i' = i + 1
            /\ UNCHANGED <<pc, osPkgs, orphans>>
         \/ /\ Fatal(err)
            /\ pc' = "failed"
            /\ UNCHANGED <<i, osPkgs, orphans>>
         \/ /\ err = "ok"
            /\ osPkgs' = Append(osPkgs, parsePkg(Cur.b, getPackageFilePaths))
            /\ orphans' = orphans \ {Cur.b}
            /\ i' = i + 1
            /\ UNCHANGED pc
    /\ UNCHANGED <<doc, apps, todo, fbOsPkgs, fbApps, sbomOS, outPackages, outApps>>

\* unmarshal.go:121-122: root package => application (structural only)
RelToApp ==
    /\ InLoop /\ BothKnown /\ Cur.b \notin OSIds /\ Cur.a \notin OSIds
    /\ Cur.b \in AppIds
    /\ i' = i + 1
    /\ UNCHANGED <<doc, pc, osPkgs, apps, orphans, todo, fbOsPkgs, fbApps,
                   sbomOS, outPackages, outApps>>

\* unmarshal.go:124-141: application => language-specific package; the
\* application is created (initApplication) before its package is parsed.
RelAppToPkg ==
    /\ InLoop /\ BothKnown /\ Cur.b \notin OSIds \cup AppIds
    /\ Cur.a \notin OSIds /\ Cur.a \in AppIds
    /\ LET err == ParseErr(Cur.b)
           app == IF Cur.a \in DOMAIN apps THEN apps ELSE (Cur.a :> <<>>) @@ apps
       IN
         \/ /\ Skipped(err)
            /\ apps' = app
            /\ i' = i + 1
            /\ UNCHANGED <<pc, orphans>>
         \/ /\ Fatal(err)
            /\ apps' = app
            /\ pc' = "failed"
            /\ UNCHANGED <<i, orphans>>
         \/ /\ err = "ok"
            /\ apps' = AddLibrary(app, Cur.a, parsePkg(Cur.b, getPackageFilePaths))
            /\ orphans' = orphans \ Adopted(Cur.a, Cur.b)
            /\ i' = i + 1
            /\ UNCHANGED pc
    /\ UNCHANGED <<doc, osPkgs, todo, fbOsPkgs, fbApps, sbomOS, outPackages, outApps>>

\* no case of the switch matches
RelIgnored ==
    /\ InLoop /\ BothKnown /\ Cur.b \notin OSIds \cup AppIds
    /\ Cur.a \notin OSIds \cup AppIds
    /\ i' = i + 1
    /\ UNCHANGED <<doc, pc, osPkgs, apps, orphans, todo, fbOsPkgs, fbApps,
                   sbomOS, outPackages, outApps>>

\* unmarshal.go:145-156: fill s.Packages and s.SBOM.Applications (in map
\* order), then call parsePackages on the orphans.
FillFromRelationships ==
    /\ pc = "rels" /\ i > Len(Relationships)
    /\ outPackages' = IF osPkgs # <<>> THEN osPkgs ELSE outPackages
    /\ \E order \in SetToSeqs(DOMAIN apps) :
         outApps' = outApps \o
             [k \in DOMAIN order |-> [src  |-> order[k],
                                      type |-> AppPkgType(order[k]),
                                      libs |-> apps[order[k]]]]
    /\ todo' = orphans
    /\ pc' = "orphans"
    /\ UNCHANGED <<doc, i, osPkgs, apps, orphans, fbOsPkgs, fbApps, sbomOS>>

\* parsePackages, one orphan per step (unmarshal.go:173-193); the orphans
\* are parsed with a nil file-path map.
ParseOrphan ==
    /\ pc = "orphans"
    /\ \E e \in todo :
         /\ todo' = todo \ {e}
         /\ LET err == ParseErr(e)
                p   == parsePkg(e, NoFilePaths)
            IN
              \/ /\ Skipped(err)
                 /\ UNCHANGED <<pc, fbOsPkgs, fbApps>>
              \/ /\ Fatal(err)
                 /\ pc' = "failed"
                 /\ UNCHANGED <<fbOsPkgs, fbApps>>
              \/ /\ err = "ok" /\ OSPkg(p.type)
                 /\ fbOsPkgs' = Append(fbOsPkgs, p)
                 /\ UNCHANGED <<pc, fbApps>>
              \/ /\ err = "ok" /\ ~OSPkg(p.type)
                 /\ fbApps' = StoreFallback(fbApps, p)
                 /\ UNCHANGED <<pc, fbOsPkgs>>
    /\ UNCHANGED <<doc, i, osPkgs, apps, orphans, sbomOS, outPackages, outApps>>

\* mutant: sort.Sort(app.Libraries) dropped
FinishOrphansUnsorted ==
    /\ pc = "orphans" /\ todo = {}
    /\ outPackages' = IF fbOsPkgs # <<>> THEN fbOsPkgs ELSE outPackages
    /\ \E order \in SetToSeqs(DOMAIN fbApps) :
         outApps' = outApps \o
             [k \in DOMAIN order |-> [src  |-> "sbom",
                                      type |-> order[k],
                                      libs |-> fbApps[order[k]]]]
    /\ pc' = "done"
    /\ UNCHANGED <<doc, i, osPkgs, apps, orphans, todo, fbOsPkgs, fbApps, sbomOS>>
\* unmarshal.go:194-201: s.Packages is assigned (not appended to), each
\* fallback application is sorted and appended in map order.
FinishOrphans ==
    /\ pc = "orphans" /\ todo = {}
    /\ outPackages' = IF fbOsPkgs # <<>> THEN fbOsPkgs ELSE outPackages
    /\ \E order \in SetToSeqs(DOMAIN fbApps) :
         outApps' = outApps \o
             [k \in DOMAIN order |-> [src  |-> "sbom",
                                      type |-> order[k],
                                      libs |-> SortLibs(fbApps[order[k]])]]
    /\ pc' = "done"
    /\ UNCHANGED <<doc, i, osPkgs, apps, orphans, todo, fbOsPkgs, fbApps, sbomOS>>

Next ==
    \/ RelMissing
    \/ RelToOS
    \/ RelOSToPkg
    \/ RelToApp
    \/ RelAppToPkg
    \/ RelIgnored
    \/ FillFromRelationships
    \/ ParseOrphan
    \/ FinishOrphans

Spec == Init /\ [][Next]_vars

-----------------------------------------------------------------------------
Pkg == [id : PkgIds, type : PurlChoices, path : FileIds \cup {NoPath}]
AppRec == [src : AppIds \cup {"sbom"}, type : STRING, libs : Seq(Pkg)]

TypeOK ==
    /\ doc \in Documents
    /\ pc \in {"rels", "orphans", "done", "failed"}
    /\ i \in 1..(MaxRels + 1)
    /\ osPkgs \in Seq(Pkg)
    /\ DOMAIN apps \subseteq AppIds /\ \A a \in DOMAIN apps : apps[a] \in Seq(Pkg)
    /\ orphans \subseteq PackageIds /\ todo \subseteq orphans
    /\ fbOsPkgs \in Seq(Pkg)
    /\ \A t \in DOMAIN fbApps : fbApps[t] \in Seq(Pkg)
    /\ sbomOS \in OSIds \cup {NoOS}
    /\ outPackages \in Seq(Pkg)
    /\ outApps \in Seq(AppRec)

InSeq(s, e) == \E k \in DOMAIN s : s[k].id = e
Surfaced(e) ==
    \/ InSeq(outPackages, e)
    \/ \E k \in DOMAIN outApps : InSeq(outApps[k].libs, e)
Supported(e) == PurlOf(e) \in SupportedPkgTypes

\* spec 4.2 step 3: the orphan fallback guarantees that every supported
\* package of a successfully unmarshalled document surfaces in s.Packages
\* or in an application.
NoPackageDropped ==
    pc = "done" => \A e \in PkgIds : Supported(e) => Surfaced(e)

\* The only way unmarshal loses a supported package: it was placed in the
\* OS package list by an OS => package relationship, and parsePackages
\* found an orphan OS package and assigned s.Packages over it
\* (unmarshal.go:147 and :195).  Every other package surfaces.
LossOnlyByOSOverwrite ==
    pc = "done" =>
        \A e \in PkgIds :
            Supported(e) /\ ~Surfaced(e) => InSeq(osPkgs, e) /\ fbOsPkgs # <<>>

\* A malformed purl or source info is a hard error and never a skip (spec
\* 4.2 step 4, section 7): unmarshal only succeeds when every package
\* element it parsed, through a relationship or as an orphan, was
\* well-formed.  Every package element is parsed at least once, because
\* it leaves orphanPkgs only after a successful parse.
HardErrorsAbort ==
    pc = "done" => \A e \in PkgIds : ~Fatal(ParseErr(e))

\* The file path of a package is the file of one of its CONTAINS
\* relationships to a file element, and only when it has none the first
\* attached file (spec 4.2 steps 4-5).
ContainedFiles(e) ==
    {f \in FileIds : \E k \in DOMAIN doc.rels :
                        doc.rels[k] = [a |-> e, b |-> f, kind |-> "CONTAINS"]}
PathOK(p) ==
    IF ContainedFiles(p.id) # {} THEN p.path \in ContainedFiles(p.id)
    ELSE p.path = AttachedFile(p.id)

\* every package the relationship loop builds carries its resolved path
RelationshipPathsResolved ==
    /\ \A k \in DOMAIN osPkgs : PathOK(osPkgs[k])
    /\ \A a \in DOMAIN apps : \A k \in DOMAIN apps[a] : PathOK(apps[a][k])

\* every package of the output carries its resolved path, including the
\* orphans recovered by parsePackages
OutputPathsResolved ==
    pc = "done" =>
        /\ \A k \in DOMAIN outPackages : PathOK(outPackages[k])
        /\ \A j \in DOMAIN outApps : \A k \in DOMAIN outApps[j].libs :
               PathOK(outApps[j].libs[k])

\* the relationships that place package e under an OS or an application
\* element, and how often e occurs in the output
PlacingEdges(e) ==
    SelectSeq(Relationships, LAMBDA r : r.b = e /\ r.a \in OSIds \cup AppIds)
Occurrences(e) ==
    Len(SelectSeq(outPackages, LAMBDA p : p.id = e))
    + FoldLeft(LAMBDA n, ap : n + Len(SelectSeq(ap.libs, LAMBDA p : p.id = e)),
               0, outApps)

\* A package is appended once per relationship that places it
\* (unmarshal.go:117, :137), so a document that relates it twice, or to
\* the OS and to an application, lists it twice; but a package never
\* occurs more often than that, nor twice when nothing relates it: a
\* package placed by a relationship leaves orphanPkgs (unmarshal.go:118,
\* :139-140) and parsePackages does not parse it again.
NoPackageDuplicatedBeyondEdges ==
    pc = "done" =>
        \A e \in PkgIds : Occurrences(e) <= IF Len(PlacingEdges(e)) > 1
                                            THEN Len(PlacingEdges(e)) ELSE 1

\* the application => package relationships of application element a, and
\* the packages they place, in relationship order, skipped ones left out
AppEdges(a) ==
    SelectSeq(Relationships, LAMBDA r : r.a = a /\ r.b \in PkgIds)
AppLibraries(a) ==
    LET placed == SelectSeq(AppEdges(a), LAMBDA r : ParseErr(r.b) = "ok")
    IN [k \in DOMAIN placed |-> parsePkg(placed[k].b, getPackageFilePaths)]

\* spec 4.2 step 2: an application is created for every Application
\* element that is the source of a relationship to a package, once, and
\* holds the packages of those relationships in their order.  Because
\* initApplication runs before parsePkg (unmarshal.go:127-135), an
\* application whose packages were all skipped is still emitted, with no
\* libraries; the applications themselves come out in map order.
ApplicationsFollowRelationships ==
    pc = "done" =>
        LET fromRels == SelectSeq(outApps, LAMBDA ap : ap.src \in AppIds)
        IN /\ Len(fromRels) = Cardinality({a \in AppIds : AppEdges(a) # <<>>})
           /\ \A a \in AppIds : AppEdges(a) # <<>> =>
                 \E k \in DOMAIN fromRels : /\ fromRels[k].src = a
                                           /\ fromRels[k].libs = AppLibraries(a)

-----------------------------------------------------------------------------
(* Refinement: the call is "parsing" until it returns, and its results     *)
(* are what the receiver holds once it returned without an error.          *)
Abs == INSTANCE SbomImport WITH
    status       <- IF pc \in {"rels", "orphans"} THEN "parsing" ELSE pc,
    os           <- IF pc = "done" THEN sbomOS ELSE NoOS,
    packages     <- IF pc = "done" THEN outPackages ELSE <<>>,
    applications <- IF pc = "done" THEN ToSet(outApps) ELSE {}

\* The relationship loop followed by the orphan fallback, in any map order,
\* returns what SbomImport states over the whole document: the OS of the
\* last root => OS edge, one application per application element with
\* package edges, the orphans grouped by type, and a failure exactly when
\* some package it parses is malformed (unmarshal.go:71-202).
ImplementsSbomImport == Abs!Spec
=============================================================================
