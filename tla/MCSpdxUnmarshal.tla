-------------------------- MODULE MCSpdxUnmarshal --------------------------
(***************************************************************************)
(* Model-checking instance of SpdxUnmarshal: a root, two package elements, *)
(* one OS element, one application element and one file element.  The     *)
(* candidate relationships cover every case of the relationship switch    *)
(* (a package => package edge is its default), a dangling endpoint, a     *)
(* DESCRIBES edge and CONTAINS / DEPENDS_ON edges to a file.               *)
(***************************************************************************)
EXTENDS SpdxUnmarshal

CONSTANTS r, p1, p2, os1, app1, app2, f1

MCPkgIds == {p1, p2}
MCOSIds == {os1}
MCAppIds == {app1}
\* the failure run adds a second application element, so that two
\* applications from relationships come out in either map order
MCTwoAppIds == {app1, app2}
MCFileIds == {f1}

MCCandidateRels ==
    {[a |-> r,    b |-> os1,      kind |-> "CONTAINS"],
     [a |-> os1,  b |-> p1,       kind |-> "CONTAINS"],
     [a |-> os1,  b |-> p2,       kind |-> "CONTAINS"],
     [a |-> r,    b |-> app1,     kind |-> "CONTAINS"],
     [a |-> app1, b |-> p1,       kind |-> "CONTAINS"],
     [a |-> app1, b |-> p2,       kind |-> "DEPENDS_ON"],
     [a |-> r,    b |-> p1,       kind |-> "DESCRIBES"],
     [a |-> p1,   b |-> f1,       kind |-> "CONTAINS"],
     [a |-> p2,   b |-> f1,       kind |-> "DEPENDS_ON"],
     [a |-> p1,   b |-> p2,       kind |-> "DEPENDS_ON"],
     [a |-> p1,   b |-> Dangling, kind |-> "CONTAINS"]}

\* the structural run: supported OS and language purls, an unsupported
\* type and a package without purl
MCPurlChoices == {"rpm", "npm", "generic", "none"}
\* the failure run adds the purls and source infos that abort unmarshal
MCPurlChoicesFail == {"rpm", "npm", "malformed"}
MCSrcInfoOK == {"absent"}
MCSrcInfoFail == {"valid", "invalid"}

MCCandidateRelsTwoApps ==
    MCCandidateRels \cup {[a |-> app2, b |-> p2, kind |-> "CONTAINS"]}

MCFileChoices == {NoPath, f1}
MCAppNameOf == (app1 :> "node-pkg") @@ (app2 :> "python-pkg")
MCNameOrder == <<p1, p2>>
=============================================================================
