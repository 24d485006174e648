----------------------------- MODULE SbomImport -----------------------------
(***************************************************************************)
(* What one SPDX.unmarshal call computes, stated over the whole document   *)
(* rather than as a loop: a single Import step from "parsing" to "done" or *)
(* "failed".                                                               *)
(*                                                                         *)
(* Each relationship between two known elements plays one role, decided   *)
(* by the first case of the switch in unmarshal.go:105-142 that matches.   *)
(* The import fails when any package it parses has a malformed purl or     *)
(* source info.  Otherwise:                                                *)
(*   - the OS is the target of the last root => OS relationship;          *)
(*   - each application element that is the source of a package           *)
(*     relationship yields one application, holding the packages it       *)
(*     places, in relationship order;                                      *)
(*   - every element no relationship adopted is an orphan.  The orphans   *)
(*     that parse form one application per package type (sorted), and    *)
(*     their OS packages, in any order, replace the OS packages the       *)
(*     relationships placed.  That replacement is the orphan OS-package   *)
(*     overwrite reported in the findings.                                 *)
(* Applications are a set: the code emits them in Go map order.           *)
(***************************************************************************)
EXTENDS SpdxDocument

VARIABLES
    status,        \* "parsing" | "done" | "failed"
    os,            \* s.SBOM.OS
    packages,      \* s.Packages
    applications   \* s.SBOM.Applications, as a set

absvars == <<doc, status, os, packages, applications>>

\* a relationship whose two ends are package elements of the document, and
\* the case of the relationship switch it falls into
Known(r) == r.a \in PackageIds /\ r.b \in PackageIds
Role(r) ==
    CASE r.b \in OSIds  -> "os"
      [] r.a \in OSIds  -> "ospkg"
      [] r.b \in AppIds -> "app"
      [] r.a \in AppIds -> "apppkg"
      [] OTHER          -> "none"

Edges(role) == SelectSeq(Relationships, LAMBDA r : Known(r) /\ Role(r) = role)
OkEdges(role) == SelectSeq(Edges(role), LAMBDA r : ParseErr(r.b) = "ok")
Parsed(rels) == [k \in DOMAIN rels |-> parsePkg(rels[k].b, getPackageFilePaths)]

\* the elements that leave orphanPkgs, and the ones that stay
AdoptedIds ==
    {r.b : r \in ToSet(Edges("os")) \cup ToSet(OkEdges("ospkg"))}
    \cup UNION {{r.a, r.b} : r \in ToSet(OkEdges("apppkg"))}
Orphans == PackageIds \ AdoptedIds

Fails ==
    \E e \in {r.b : r \in ToSet(Edges("ospkg")) \cup ToSet(Edges("apppkg"))}
             \cup Orphans :
        Fatal(ParseErr(e))

LastOS == IF Edges("os") = <<>> THEN NoOS ELSE Last(Edges("os")).b

AppsFromRelationships ==
    {[src  |-> a,
      type |-> AppPkgType(a),
      libs |-> Parsed(SelectSeq(OkEdges("apppkg"), LAMBDA r : r.a = a))] :
        a \in {r.a : r \in ToSet(Edges("apppkg"))}}

Fallback == {parsePkg(e, NoFilePaths) : e \in {o \in Orphans : ParseErr(o) = "ok"}}
FallbackOS == {p \in Fallback : OSPkg(p.type)}
FallbackApps ==
    {[src  |-> "sbom",
      type |-> t,
      libs |-> SortLibs(SetToSeq({p \in Fallback : p.type = t}))] :
        t \in {p.type : p \in Fallback \ FallbackOS}}

Init ==
    /\ doc \in Documents
    /\ status = "parsing"
    /\ os = NoOS
    /\ packages = <<>>
    /\ applications = {}

Import ==
    /\ status = "parsing"
    /\ \/ /\ status' = "failed"
          /\ Fails
          /\ UNCHANGED <<os, packages, applications>>
       \/ /\ status' = "done"
          /\ ~Fails
          /\ os' = LastOS
          /\ packages' \in IF FallbackOS # {} THEN SetToSeqs(FallbackOS)
                           ELSE {Parsed(OkEdges("ospkg"))}
          /\ applications' = AppsFromRelationships \cup FallbackApps
    /\ UNCHANGED doc

Spec == Init /\ [][Import]_absvars
=============================================================================
