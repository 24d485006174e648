----------------------------- MODULE PurlCodec -----------------------------
(***************************************************************************)
(* Package identity codec: NewPackageURL (encode) and PackageURL.Package   *)
(* (decode) in src/pkg/purl/purl.go.                                       *)
(*                                                                         *)
(* Names and versions are sequences of tokens: the separators the code     *)
(* splits on ("/", ":", "-", "_", ".") are tokens of their own, "A" is an  *)
(* upper-case and "a" a lower-case letter, and other tokens ("v", "w",     *)
(* "r", "x86", "m", OS family words) stand for runs of characters the      *)
(* code never looks into.  The canonical text form (packageurl-go's        *)
(* String / FromString) is not modelled: decode is applied to the          *)
(* PackageURL value that encode built.                                     *)
(*                                                                         *)
(* A run encodes one package under one OS context and decodes the result, *)
(* which is what happens to a package written to an SBOM and read back.    *)
(***************************************************************************)
EXTENDS Naturals, Sequences, SequencesExt, TLC

CONSTANTS
    PkgTypes,        \* ecosystem tags of the packages
    NameChoices,     \* package names (token sequences)
    VersionChoices,  \* upstream versions
    ReleaseChoices,  \* releases (<<>> = none)
    EpochChoices,    \* epochs
    ArchChoices,     \* architectures (<<>> = none)
    ModLabelChoices, \* RPM modularity labels (<<>> = none)
    OSChoices,       \* OS contexts: [family |-> <<word>>, name |-> <<word>>] or NoOS
    NoOS,            \* metadata.OS = nil
    DigestChoices,   \* metadata.RepoDigests of an image (lists of digests)
    BadDigest,       \* a RepoDigest that name.NewDigest rejects
    Nil,             \* NewPackageURL returned (nil, nil)
    Failed           \* NewPackageURL returned an error

OSTypes == {"apk", "deb", "rpm"}

-----------------------------------------------------------------------------
(* strings.ToLower, strings.LastIndex and strings.Cut over token sequences *)
ToLower(s) == [k \in DOMAIN s |-> IF s[k] = "A" THEN "a" ELSE s[k]]
LastIndexOf(s, c) == SelectLastInSeq(s, LAMBDA x : x = c)
Before(s, k) == SubSeq(s, 1, k - 1)
After(s, k) == SubSeq(s, k + 1, Len(s))
HasPrefix(s, p) == IsPrefix(p, s)

\* utils.FormatVersion: [epoch:]version[-release]
FormatVersion(p) ==
    (IF p.epoch # 0 THEN <<ToString(p.epoch), ":">> ELSE <<>>)
    \o p.version
    \o (IF p.release # <<>> THEN <<"-">> \o p.release ELSE <<>>)

\* go-rpm-version NewVersion(s).Version() / .Release(): the epoch is what
\* precedes the first ":", the release what follows the last "-".
RpmEVR(s) ==
    LET c  == SelectInSeq(s, LAMBDA x : x = ":")
        vr == IF c = 0 THEN s ELSE After(s, c)
        d  == LastIndexOf(vr, "-")
    IN IF d = 0 THEN [version |-> vr, release |-> <<>>]
       ELSE [version |-> Before(vr, d), release |-> After(vr, d)]

\* strconv.Atoi on a qualifier value; IsInt is its err == nil
IsInt(s) == \E n \in 0..9 : s = <<ToString(n)>>
Atoi(s) == CHOOSE n \in 0..9 : s = <<ToString(n)>>

-----------------------------------------------------------------------------
(* The per-ecosystem rules of NewPackageURL                                *)

Q(k, v) == [key |-> k, value |-> v]

parsePkgName(name) ==
    LET k == LastIndexOf(name, "/")
    IN IF k = 0 THEN [ns |-> <<>>, name |-> name]
       ELSE [ns |-> Before(name, k), name |-> After(name, k)]

parseQualifier(p) ==
    (IF p.arch # <<>> THEN <<Q("arch", p.arch)>> ELSE <<>>)
    \o (IF p.epoch # 0 THEN <<Q("epoch", <<ToString(p.epoch)>>)>> ELSE <<>>)

parseApk(name, os) ==
    IF os = NoOS THEN [ns |-> <<>>, name |-> ToLower(name), qs |-> <<>>]
    ELSE [ns |-> ToLower(os.family), name |-> ToLower(name),
          qs |-> <<Q("distro", os.name)>>]

parseDeb(os) ==
    IF os = NoOS THEN <<>> ELSE <<Q("distro", os.family \o <<"-">> \o os.name)>>

RpmFamily(os) == IF os.family = <<"suse linux enterprise server">>
                 THEN <<"sles">> ELSE os.family
parseRPM(os, modLabel) ==
    IF os = NoOS THEN [ns |-> <<>>, qs |-> <<>>]
    ELSE [ns |-> RpmFamily(os),
          qs |-> <<Q("distro", RpmFamily(os) \o <<"-">> \o os.name)>>
                 \o (IF modLabel # <<>> THEN <<Q("modularitylabel", modLabel)>>
                     ELSE <<>>)]

parseMaven(name) == parsePkgName(ReplaceAll(name, ":", "/"))

LocalPath(name) == HasPrefix(name, <<".", "/">>) \/ HasPrefix(name, <<".", ".", "/">>)
parseGolang(name) ==
    IF LocalPath(name) THEN [ns |-> <<>>, name |-> <<>>]
    ELSE parsePkgName(ToLower(name))

parsePyPI(name) == ToLower(ReplaceAll(name, "_", "-"))

parseCocoapods(name) ==
    LET k == SelectInSeq(name, LAMBDA x : x = "/")
    IN IF k = 0 THEN [name |-> name, subpath |-> <<>>]
       ELSE [name |-> Before(name, k), subpath |-> After(name, k)]

parseNpm(name) == parsePkgName(ToLower(name))

\* name.NewDigest (go-containerregistry), modelled from its documented
\* behaviour: a digest written [registry/]repository@id; the registry
\* defaults to index.docker.io, where a one-segment repository is
\* qualified with "library/".  Repositories are lower case (NewDigest
\* rejects any other); d.repo lists the path segments as written.
DockerHub == {"", "docker.io", "index.docker.io"}
RepoSegments(d) ==
    IF d.reg \in DockerHub /\ Len(d.repo) = 1 THEN <<"library">> \o d.repo
    ELSE d.repo
JoinPath(segs) == Tail(FoldLeft(LAMBDA acc, seg : acc \o <<"/", seg>>, <<>>, segs))
RepositoryStr(d) == JoinPath(RepoSegments(d))
RegistryStr(d) == IF d.reg \in DockerHub THEN "index.docker.io" ELSE d.reg
RepositoryName(d) == <<RegistryStr(d), "/">> \o RepositoryStr(d)

LastSegmentFirstCut(name) ==   \* mutant: strings.Index instead of LastIndex
    LET k == SelectInSeq(name, LAMBDA x : x = "/")
    IN IF k = 0 THEN name ELSE After(name, k)
\* the part of the repository after its last "/"
LastSegment(name) ==
    LET k == LastIndexOf(name, "/")
    IN IF k = 0 THEN name ELSE After(name, k)

\* parseOCI and the OCI case of NewPackageURL: no RepoDigests give a PURL
\* with an empty type, which NewPackageURL turns into (nil, nil); a
\* malformed first digest is an error; the repository URL (never empty)
\* and the image architecture become qualifiers.
parseOCI(img) ==
    IF img.digests = <<>> THEN Nil
    ELSE LET d == img.digests[1]
         IN IF d = BadDigest THEN Failed
            ELSE [type       |-> "oci",
                  namespace  |-> <<>>,
                  name       |-> LastSegment(ToLower(RepositoryStr(d))),
                  version    |-> <<d.id>>,
                  qualifiers |-> <<Q("repository_url", RepositoryName(d))>>
                                 \o (IF img.arch # <<>> THEN <<Q("arch", img.arch)>>
                                     ELSE <<>>),
                  subpath    |-> <<>>]

\* mutant: the epoch is left in the version as well as in the qualifier
StripEpochKept(os, pkg) == pkg
\* with an OS context the epoch moves from the version into a qualifier
StripEpoch(os, pkg) == IF os # NoOS THEN [pkg EXCEPT !.epoch = 0] ELSE pkg

\* mutant: the empty-name check for Go modules is dropped
GoNameEmptyUnchecked(r) == FALSE
\* a local Go path, or a module path ending in "/", has no name
GoNameEmpty(r) == r.name = <<>>

\* NewPackageURL(metadata, pkg): Nil, Failed, or the PackageURL it returns
NewPackageURL(os, img, pkg) ==
    LET quals == IF os # NoOS THEN parseQualifier(pkg) ELSE <<>>
        ver   == FormatVersion(StripEpoch(os, pkg))
        Mk(ns, n, qs, sub) == [type |-> pkg.type, namespace |-> ns, name |-> n,
                               version |-> ver, qualifiers |-> qs, subpath |-> sub]
        Split(r) == Mk(r.ns, r.name, quals, <<>>)
    IN CASE pkg.type = "rpm" ->
              LET r == parseRPM(os, pkg.modularitylabel)
              IN Mk(r.ns, pkg.name, quals \o r.qs, <<>>)
         [] pkg.type = "deb" ->
              Mk(IF os # NoOS THEN os.family ELSE <<>>, pkg.name,
                 quals \o parseDeb(os), <<>>)
         [] pkg.type = "apk" ->
              LET r == parseApk(pkg.name, os)
              IN Mk(r.ns, r.name, quals \o r.qs, <<>>)
         [] pkg.type = "maven"    -> Split(parseMaven(pkg.name))
         [] pkg.type = "pypi"     -> Mk(<<>>, parsePyPI(pkg.name), quals, <<>>)
         [] pkg.type = "composer" -> Split(parsePkgName(pkg.name))
         [] pkg.type = "golang" ->
              LET r == parseGolang(pkg.name)
              IN IF GoNameEmpty(r) THEN Nil ELSE Split(r)
         [] pkg.type = "npm"      -> Split(parseNpm(pkg.name))
         [] pkg.type = "swift"    -> Split(parsePkgName(pkg.name))
         [] pkg.type = "cocoapods" ->
              LET r == parseCocoapods(pkg.name)
              IN Mk(<<>>, r.name, quals, r.subpath)
         [] pkg.type = "oci"      -> parseOCI(img)
         [] OTHER -> Mk(<<>>, pkg.name, quals, <<>>)

\* the value of the last qualifier with key k, or d
QualOr(qs, k, d) ==
    LET j == SelectLastInSeq(qs, LAMBDA q : q.key = k)
    IN IF j = 0 THEN d ELSE qs[j].value

\* mutant: a maven namespace is joined with "/" like every other one
PackageNameMavenSlash(u) ==
    LET name0 == IF u.type = "cocoapods" /\ u.subpath # <<>>
                 THEN u.name \o <<"/">> \o u.subpath ELSE u.name
    IN IF u.namespace = <<>> \/ u.type \in OSTypes THEN name0
       ELSE u.namespace \o <<"/">> \o name0
\* the package name decode rebuilds from namespace, name and subpath
PackageName(u) ==
    LET name0 == IF u.type = "cocoapods" /\ u.subpath # <<>>
                 THEN u.name \o <<"/">> \o u.subpath ELSE u.name
    IN IF u.namespace = <<>> \/ u.type \in OSTypes THEN name0
       ELSE IF u.type = "maven" THEN u.namespace \o <<":">> \o name0
       ELSE u.namespace \o <<"/">> \o name0

\* PackageURL.Package(): decode
Package(u) ==
    LET ev    == QualOr(u.qualifiers, "epoch", <<>>)
        evr   == RpmEVR(u.version)
    IN [type            |-> u.type,
        name            |-> PackageName(u),
        version         |-> IF u.type = "rpm" THEN evr.version ELSE u.version,
        release         |-> IF u.type = "rpm" THEN evr.release ELSE <<>>,
        epoch           |-> IF IsInt(ev) THEN Atoi(ev) ELSE 0,
        arch            |-> QualOr(u.qualifiers, "arch", <<>>),
        modularitylabel |-> QualOr(u.qualifiers, "modularitylabel", <<>>)]

-----------------------------------------------------------------------------
\* what the analyzers produce: only deb and rpm packages carry an epoch
\* and a release, only rpm packages a modularity label
Packages ==
    {p \in [type : PkgTypes, name : NameChoices, version : VersionChoices,
            release : ReleaseChoices, epoch : EpochChoices, arch : ArchChoices,
            modularitylabel : ModLabelChoices] :
        /\ p.type \notin {"deb", "rpm"} => p.epoch = 0 /\ p.release = <<>>
        /\ p.type # "rpm" => p.modularitylabel = <<>>}

\* the image metadata: RepoDigests and ImageConfig.Architecture; only an
\* OCI package reads it
NoImage == [digests |-> <<>>, arch |-> <<>>]
Images == [digests : DigestChoices, arch : ArchChoices]

VARIABLES
    os,        \* metadata.OS of the scan
    image,     \* metadata.RepoDigests and the image architecture
    pkg,       \* the package an analyzer produced
    purl,      \* NewPackageURL(os, pkg)
    decoded,   \* purl.Package()
    phase      \* "encode" | "decode" | "done"

vars == <<os, image, pkg, purl, decoded, phase>>

Init ==
    /\ os \in OSChoices
    /\ pkg \in Packages
    /\ image \in IF pkg.type = "oci" THEN Images ELSE {NoImage}
    /\ purl = Nil /\ decoded = Nil
    /\ phase = "encode"

\* purl.go:211-305; a Nil result or an error ends the run (callers skip
\* the package or return the error)
Encode ==
    /\ phase = "encode"
    /\ purl' = NewPackageURL(os, image, pkg)
    /\ phase' = IF purl' \in {Nil, Failed} THEN "done" ELSE "decode"
    /\ UNCHANGED <<os, image, pkg, decoded>>

\* purl.go:70-123
Decode ==
    /\ phase = "decode"
    /\ decoded' = Package(purl)
    /\ phase' = "done"
    /\ UNCHANGED <<os, image, pkg, purl>>

Next == Encode \/ Decode

Spec == Init /\ [][Next]_vars

-----------------------------------------------------------------------------
Qualifier == [key : {"arch", "epoch", "distro", "modularitylabel", "repository_url"},
              value : Seq(STRING)]
PURL == [type : PkgTypes, namespace : Seq(STRING), name : Seq(STRING) \ {<<>>},
         version : Seq(STRING), qualifiers : Seq(Qualifier),
         subpath : Seq(STRING)]

\* encode yields Nil or a well-formed PackageURL: a PURL always has a name
TypeOK ==
    /\ os \in OSChoices
    /\ pkg \in Packages
    /\ image \in Images \cup {NoImage}
    /\ purl \in PURL \cup {Nil, Failed}
    /\ phase \in {"encode", "decode", "done"}

\* a package encoded from its own fields (an OCI package's identity is the
\* image's) and decoded again
Decoded == phase = "done" /\ purl \notin {Nil, Failed} /\ pkg.type # "oci"

\* The full [epoch:]version[-release], the architecture and the modularity
\* label of a package survive encoding and decoding: the epoch moved into
\* a qualifier (purl.go:215) is restored from it (purl.go:86-90), an RPM
\* version-release is split again (purl.go:102-106).
EVRRoundTrip ==
    Decoded =>
        /\ FormatVersion(decoded) = FormatVersion(pkg)
        /\ decoded.epoch = pkg.epoch
        /\ decoded.arch = pkg.arch
        /\ decoded.modularitylabel = pkg.modularitylabel

\* spec section 8, round trip: decode(encode(p)) = p on version, release,
\* epoch, arch and modularity label
RoundTrip ==
    Decoded =>
        /\ decoded.version = pkg.version
        /\ decoded.release = pkg.release
        /\ decoded.epoch = pkg.epoch
        /\ decoded.arch = pkg.arch
        /\ decoded.modularitylabel = pkg.modularitylabel

\* a name already in the normal form of its ecosystem (purl-spec: lower
\* case for apk, npm, golang and pypi, "-" not "_" for pypi, one
\* group:artifact separator for maven, no local Go path)
NameIsNormal(t, n) ==
    /\ t \in {"apk", "npm", "golang", "pypi"} => ToLower(n) = n
    /\ t = "pypi" => ~Contains(n, "_")
    /\ t = "maven" => ~Contains(n, "/") /\ Len(SelectSeq(n, LAMBDA x : x = ":")) <= 1
    /\ t = "golang" => ~LocalPath(n)

\* Decoding gives back the name of a package whose name is in normal form:
\* the namespace split of encode (maven ":", golang/npm/composer/swift
\* rightmost "/", cocoapods subpath) is undone by decode (purl.go:94-120).
NameRoundTrip ==
    Decoded /\ NameIsNormal(pkg.type, pkg.name) => decoded.name = pkg.name

\* spec 4.1: an OCI package is identified by the image's first RepoDigest:
\* its name is the last path segment of the digest's repository, its
\* version the digest, its architecture the image's, and the full
\* repository name is kept as repository_url; an image without
\* RepoDigests has no PURL and a malformed first digest is an error
\* (purl.go:255-262, 274-305).
OCIFromFirstDigest ==
    phase = "done" /\ pkg.type = "oci" =>
        CASE image.digests = <<>>        -> purl = Nil
          [] image.digests[1] = BadDigest -> purl = Failed
          [] OTHER ->
               LET d == image.digests[1]
               IN /\ decoded.name = <<Last(RepoSegments(d))>>
                  /\ decoded.version = <<d.id>>
                  /\ decoded.arch = image.arch
                  /\ QualOr(purl.qualifiers, "repository_url", <<>>) = RepositoryName(d)
=============================================================================
