--------------------------- MODULE ImageReference ---------------------------
(***************************************************************************)
(* Choosing the reference of a scanned image from its RepoTags and         *)
(* RepoDigests: DetermineReference (src/pkg/fanal/image/reference.go) and   *)
(* SetImageReference (src/pkg/fanal/artifact/image_reference.go), which    *)
(* both document the same three cases.                                     *)
(*                                                                         *)
(* A reference string is a spelling of one repository: a registry as      *)
(* written ("" for none), whether "library/" is written, and the tag or    *)
(* digest ("" for none, which means the tag "latest").  Two strings are    *)
(* equal when their spellings are.  Bad is a string name.ParseReference    *)
(* rejects.  name.ParseReference (go-containerregistry) is modelled by     *)
(* what its results show in reference_test.go: Docker Hub names are        *)
(* qualified with "index.docker.io" and "library/".                         *)
(***************************************************************************)
EXTENDS Naturals, Sequences, SequencesExt

CONSTANTS
    Registries,    \* registries as written: "" (none), "docker.io", ...
    Tags,          \* tag identifiers
    Digests,       \* digest identifiers
    MaxTags,       \* bound on the length of RepoTags
    Bad,           \* a string that does not parse
    NoName,        \* the empty image name of an archive
    Nil            \* no reference

Hub == {"", "docker.io", "index.docker.io"}
\* the words of a context that contain "." or ":" (registry host names)
HostWords == {"index.docker.io", "docker.io"} \cup (Registries \ {""})

Spellings == [reg : Registries, lib : BOOLEAN, id : {""} \cup Tags \cup Digests]
TagSpellings == {s \in Spellings : s.id \notin Digests}
DigestSpellings == {s \in Spellings : s.id \in Digests}

\* name.ParseReference(s): Context().Name() as path segments, the kind of
\* reference and Identifier()
ParseReference(s) ==
    [ctx  |-> IF s.reg \in Hub THEN <<"index.docker.io", "library", "alpine">>
              ELSE <<s.reg>> \o (IF s.lib THEN <<"library">> ELSE <<>>) \o <<"alpine">>,
     kind |-> IF s.id \in Digests THEN "digest" ELSE "tag",
     id   |-> IF s.id = "" THEN "latest" ELSE s.id]

\* normalizeContext over the segments of a context name
normalizeContext(c) ==
    CASE Len(c) = 1 -> <<"index.docker.io", "library">> \o c
      [] c[1] = "library" -> <<"index.docker.io">> \o c
      [] ~\E k \in DOMAIN c : c[k] \in HostWords -> <<"index.docker.io">> \o c
      [] OTHER -> c

\* a function's result: a reference (the string it was made from), or an error
Ref(s) == [ref |-> s, err |-> FALSE]
NoRef == [ref |-> Nil, err |-> FALSE]
Err == [ref |-> Nil, err |-> TRUE]

\* mutant: the parse error of NewReference is not checked
NewReferenceUnchecked(s) == Ref(s)
\* NewReference / NewImageReference on a non-empty string
NewReference(s) == IF s = Bad THEN Err ELSE Ref(s)

\* mutant: the identifier is not compared, any tag of the repository matches
SameTagAnyIdentifier(s, target) ==
    /\ s # Bad
    /\ ParseReference(s).kind = ParseReference(target).kind
    /\ normalizeContext(ParseReference(s).ctx)
           = normalizeContext(ParseReference(target).ctx)
\* a RepoTag or RepoDigest that parses, is of the target's kind, and has
\* the target's normalized context and identifier
SameReference(s, target) ==
    /\ s # Bad
    /\ ParseReference(s).kind = ParseReference(target).kind
    /\ normalizeContext(ParseReference(s).ctx)
           = normalizeContext(ParseReference(target).ctx)
    /\ ParseReference(s).id = ParseReference(target).id

\* SelectReferenceByTag / SelectReferenceByDigest: the first match, or nil
SelectReference(refs, target) ==
    LET j == SelectInSeq(refs, LAMBDA s : SameReference(s, target))
    IN IF j = 0 THEN NoRef ELSE Ref(refs[j])

DetermineReference(repoTags, repoDigests, imageName) ==
    CASE imageName = NoName ->
            IF repoTags # <<>> THEN NewReference(repoTags[1]) ELSE NoRef
      [] imageName = Bad -> Err
      [] ParseReference(imageName).kind = "tag" -> SelectReference(repoTags, imageName)
      [] OTHER -> SelectReference(repoDigests, imageName)

\* SetImageReference: a parse error of the first RepoTag is swallowed, and
\* a RepoTag or RepoDigest matches only when it is the image name verbatim
SetImageReference(repoTags, repoDigests, imageName) ==
    LET Verbatim(refs) ==
            LET j == SelectInSeq(refs, LAMBDA s : s = imageName)
            IN IF j = 0 THEN NoRef ELSE NewReference(refs[j])
    IN CASE imageName = NoName ->
               IF repoTags # <<>> /\ repoTags[1] # Bad THEN Ref(repoTags[1]) ELSE NoRef
         [] imageName = Bad -> Err
         [] ParseReference(imageName).kind = "tag" -> Verbatim(repoTags)
         [] OTHER -> Verbatim(repoDigests)

-----------------------------------------------------------------------------
VARIABLES
    repoTags,     \* ImageMetadata.RepoTags
    repoDigests,  \* ImageMetadata.RepoDigests
    imageName,    \* the name the user gave, NoName for an archive
    determined,   \* DetermineReference's result, or Nil before the call
    set           \* the Reference SetImageReference stored, or Nil before

vars == <<repoTags, repoDigests, imageName, determined, set>>

Init ==
    /\ repoTags \in BoundedSeq(TagSpellings \cup {Bad}, MaxTags)
    /\ repoDigests \in BoundedSeq(DigestSpellings \cup {Bad}, 1)
    /\ imageName \in {NoName} \cup Spellings \cup {Bad}
    /\ determined = Nil
    /\ set = Nil

Determine ==
    /\ determined = Nil
    /\ determined' = DetermineReference(repoTags, repoDigests, imageName)
    /\ UNCHANGED <<repoTags, repoDigests, imageName, set>>

SetReference ==
    /\ set = Nil
    /\ set' = SetImageReference(repoTags, repoDigests, imageName)
    /\ UNCHANGED <<repoTags, repoDigests, imageName, determined>>

Next == Determine \/ SetReference

Spec == Init /\ [][Next]_vars

-----------------------------------------------------------------------------
Result == [ref : Spellings \cup {Nil}, err : BOOLEAN]

TypeOK ==
    /\ repoTags \in Seq(TagSpellings \cup {Bad})
    /\ repoDigests \in Seq(DigestSpellings \cup {Bad})
    /\ imageName \in {NoName} \cup Spellings \cup {Bad}
    /\ determined \in Result \cup {Nil}
    /\ set \in Result \cup {Nil}

\* the image name names the same image as s (Docker Hub defaults applied)
Names(s, n) ==
    /\ s # Bad
    /\ ParseReference(s).ctx = ParseReference(n).ctx
    /\ ParseReference(s).kind = ParseReference(n).kind
    /\ ParseReference(s).id = ParseReference(n).id

\* DetermineReference picks, for an image name with a tag (a digest), the
\* first RepoTag (RepoDigest) that names the same image and nil when none
\* does, however registry and "library/" are written (reference.go:106-114,
\* 120-170).
DeterminesFirstSameImage ==
    determined # Nil /\ imageName \notin {NoName, Bad} =>
        LET refs == IF ParseReference(imageName).kind = "tag"
                    THEN repoTags ELSE repoDigests
            j == SelectInSeq(refs, LAMBDA s : Names(s, imageName))
        IN determined = IF j = 0 THEN NoRef ELSE Ref(refs[j])

\* The two functions that document the same three cases choose the same
\* reference for the same image metadata and image name.
SameChoiceAsDetermine ==
    determined # Nil /\ set # Nil => set.ref = determined.ref
====
