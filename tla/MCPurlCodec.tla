---------------------------- MODULE MCPurlCodec ----------------------------
(***************************************************************************)
(* Model-checking instances of PurlCodec.  The name run enumerates every   *)
(* name of up to four tokens that an analyzer can produce (non-empty, no   *)
(* separator at either end, no two adjacent separators) under every        *)
(* ecosystem; the version run enumerates epochs, releases, arches and       *)
(* modularity labels under every OS context.                               *)
(***************************************************************************)
EXTENDS PurlCodec

Seps == {"/", ":"}
Tokens == {"a", "A", "_", ".", "/", ":"}
ValidName(n) ==
    /\ n # <<>>
    /\ n[1] \notin Seps /\ n[Len(n)] \notin Seps
    /\ \A k \in 1..(Len(n) - 1) : ~(n[k] \in Seps /\ n[k + 1] \in Seps)

MCPkgTypes == {"apk", "deb", "rpm", "maven", "pypi", "composer", "golang",
               "npm", "swift", "cocoapods", "cargo", "oci"}
MCOwnFieldTypes == MCPkgTypes \ {"oci"}
MCNameChoices == {n \in BoundedSeq(Tokens, 4) : ValidName(n)}
MCOneName == {<<"a">>}
MCOneVersion == {<<"v">>}
MCVersionChoices == {<<"v">>, <<"v", "-", "w">>}
MCNoRelease == {<<>>}
MCReleaseChoices == {<<>>, <<"r">>}
MCArchChoices == {<<>>, <<"x86">>}
MCModLabelChoices == {<<>>, <<"m">>}
MCOSRedHat == {[family |-> <<"redhat">>, name |-> <<"8">>]}
MCOSChoices ==
    {[family |-> <<"redhat">>, name |-> <<"8">>],
     [family |-> <<"suse linux enterprise server">>, name |-> <<"15">>],
     [family |-> <<"debian">>, name |-> <<"12">>],
     [family |-> <<"alpine">>, name |-> <<"3">>]}
MCNoOSChoices == {NoOS}

\* an image on Docker Hub written without registry, one three segments
\* deep on another registry, and a malformed digest; none, one or two
\* RepoDigests
D1 == [reg |-> "", repo |-> <<"alpine">>, id |-> "d1"]
D2 == [reg |-> "ghcr.io", repo |-> <<"org", "team", "app">>, id |-> "d2"]
MCDigestChoices ==
    {<<>>, <<D1>>, <<D2>>, <<BadDigest>>, <<D2, D1>>, <<D1, BadDigest>>,
     <<BadDigest, D1>>}
=============================================================================
