--------------------------- MODULE SpdxDocument ----------------------------
(***************************************************************************)
(* The decoded SPDX document that SPDX.unmarshal                           *)
(* (src/pkg/sbom/spdx/unmarshal.go) reads, and the functions of it the     *)
(* relationship loop and the orphan fallback call: the relationship       *)
(* filter, getPackageFilePaths, parsePkg and its error classes, and        *)
(* initApplication's package type.                                         *)
(*                                                                         *)
(* Element identifiers are model values; what the code reads from an      *)
(* identifier (the OperatingSystem / Application / File prefix) is which  *)
(* of the sets OSIds, AppIds, FileIds it belongs to.  A package's embedded *)
(* purl is abstracted to its type ("none" = no package-manager reference, *)
(* "malformed" = purl.FromString fails).                                  *)
(***************************************************************************)
EXTENDS Naturals, Sequences, FiniteSets, SequencesExt, TLC, TargetTypes

CONSTANTS
    Root,            \* the document root element (no purl)
    PkgIds,          \* ordinary package elements
    OSIds,           \* elements whose id has the OperatingSystem prefix
    AppIds,          \* elements whose id has the Application prefix
    FileIds,         \* file elements (File prefix), all declared in Files
    Dangling,        \* an id that names no element of the document
    PurlChoices,     \* possible purl of a package element
    SrcInfoChoices,  \* "absent" | "valid" | "invalid" PackageSourceInfo
    FileChoices,     \* possible first attached file (or NoPath)
    CandidateRels,   \* relationships a document may contain
    MaxRels,         \* bound on the length of the relationship list
    AppNameOf,       \* the PackageName of each application element
    NameOrder,       \* PkgIds in the order sort.Sort(Libraries) puts them
    NoPath,          \* empty FilePath
    NoOS             \* s.SBOM.OS not set

PackageIds == {Root} \cup PkgIds \cup OSIds \cup AppIds
RelKinds == {"CONTAINS", "DESCRIBES", "DEPENDS_ON"}

Documents ==
    [purl    : [PkgIds -> PurlChoices],
     srcInfo : [PkgIds -> SrcInfoChoices],
     files   : [PkgIds -> FileChoices],
     rels    : BoundedSeq(CandidateRels, MaxRels)]

VARIABLE
    doc           \* the decoded spdx.Document (read-only)

PurlOf(e) == IF e \in PkgIds THEN doc.purl[e] ELSE "none"
SrcInfoOf(e) == IF e \in PkgIds THEN doc.srcInfo[e] ELSE "absent"
AttachedFile(e) == IF e \in PkgIds THEN doc.files[e] ELSE NoPath

\* lo.Filter at unmarshal.go:80-83: every relationship but DESCRIBES
Relationships == SelectSeq(doc.rels, LAMBDA r : r.kind # "DESCRIBES")

\* getPackageFilePaths: package id -> file name of its CONTAINS-file
\* relationships; a later relationship overwrites an earlier one.
AddFilePathAnyKind(m, r) ==   \* mutant: the relationship type check dropped
    IF r.b \in FileIds THEN (r.a :> r.b) @@ m ELSE m
AddFilePath(m, r) ==
    IF r.kind = "CONTAINS" /\ r.b \in FileIds THEN (r.a :> r.b) @@ m ELSE m
getPackageFilePaths == FoldLeft(AddFilePath, <<>>, doc.rels)

NoFilePaths == <<>>

\* parsePkg, split into the error it returns and the package it builds.
\* "unknown" = errUnknownPackageFormat, "unsupported" = errUnsupportedPkgType,
\* "purl" / "srcinfo" = the hard errors of a bad purl / bad source info.
ParseErr(e) ==
    CASE PurlOf(e) = "none"                 -> "unknown"
      [] PurlOf(e) = "malformed"            -> "purl"
      [] PurlOf(e) \notin SupportedPkgTypes -> "unsupported"
      [] SrcInfoOf(e) = "invalid"           -> "srcinfo"
      [] OTHER                              -> "ok"
SkippedAnyError(err) ==   \* mutant: a bad purl treated as an unknown format
    err \in {"unknown", "unsupported", "purl"}
Skipped(err) == err \in {"unknown", "unsupported"}
Fatal(err) == err \in {"purl", "srcinfo"}

PkgFilePath(e, paths) ==
    IF e \in DOMAIN paths THEN paths[e] ELSE AttachedFile(e)
parsePkg(e, paths) == [id |-> e, type |-> PurlOf(e), path |-> PkgFilePath(e, paths)]

\* initApplication: the package type is inferred from the element's name
AppPkgType(a) == PkgType(AppNameOf[a])

Rank(e) == CHOOSE k \in DOMAIN NameOrder : NameOrder[k] = e
SortLibs(libs) == SortSeq(libs, LAMBDA x, y : Rank(x.id) < Rank(y.id))
====
