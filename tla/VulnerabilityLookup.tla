------------------------ MODULE VulnerabilityLookup ------------------------
(***************************************************************************)
(* What a language-package vulnerability lookup promises, in one step:     *)
(* a package type without a driver is not scanned; otherwise the advisory  *)
(* source either fails or answers, and the answer's affected advisories    *)
(* are reported in the source's order, none dropped and none merged, each  *)
(* with its fixed versions.  The fixed versions are the advisory's patched *)
(* versions or, when it has none, the version of every strict upper bound  *)
(* "<v" of its vulnerable ranges, read off the range terms themselves.     *)
(*                                                                         *)
(* LibraryDriver, which builds a driver, queries the source and walks the  *)
(* answer one advisory per step, parsing the rendered range text, is       *)
(* shown to implement this specification.                                  *)
(***************************************************************************)
EXTENDS Naturals, Sequences, SequencesExt

CONSTANTS
    PkgTypes,       \* package types a caller may ask about
    DriverTypes,    \* the package types that have a driver
    Advisories,     \* advisory records the source can return
    MaxAdvisories   \* bound on the length of one answer

VARIABLES
    pkgType,  \* the package type asked about
    outcome,  \* "pending", "unavailable", "failed" or "done"
    answer,   \* the advisories the source answered with, once "done"
    vulns     \* the reported vulnerabilities, once "done"

vars == <<pkgType, outcome, answer, vulns>>

\* versions joined by ", "
RECURSIVE Listed(_)
Listed(vs) ==
    CASE vs = <<>>    -> <<>>
      [] Len(vs) = 1  -> Head(vs)
      [] OTHER        -> Head(vs) \o <<",", " ">> \o Listed(Tail(vs))

\* the version of every "<" term of a list of ranges, in order
RECURSIVE UpperOfTerms(_)
UpperOfTerms(ts) ==
    IF ts = <<>> THEN <<>>
    ELSE (IF Head(ts).op = "<" THEN <<Head(ts).v>> ELSE <<>>) \o UpperOfTerms(Tail(ts))
RECURSIVE StrictUpperBounds(_)
StrictUpperBounds(rs) ==
    IF rs = <<>> THEN <<>> ELSE UpperOfTerms(Head(rs)) \o StrictUpperBounds(Tail(rs))

FixedOf(adv) ==
    IF adv.patched # <<>> THEN Listed(adv.patched)
    ELSE Listed(StrictUpperBounds(adv.ranges))

\* one report per affected advisory of the answer, in the answer's order
RECURSIVE Detections(_)
Detections(advs) ==
    IF advs = <<>> THEN <<>>
    ELSE (IF Head(advs).affected
          THEN <<[adv |-> Head(advs), fixed |-> FixedOf(Head(advs))]>>
          ELSE <<>>)
         \o Detections(Tail(advs))

Init ==
    /\ pkgType \in PkgTypes
    /\ outcome = "pending"
    /\ answer = <<>>
    /\ vulns = <<>>

NoDriver ==
    /\ outcome = "pending" /\ pkgType \notin DriverTypes
    /\ outcome' = "unavailable"
    /\ UNCHANGED <<pkgType, answer, vulns>>

SourceFails ==
    /\ outcome = "pending" /\ pkgType \in DriverTypes
    /\ outcome' = "failed"
    /\ UNCHANGED <<pkgType, answer, vulns>>

Detect ==
    /\ outcome = "pending" /\ pkgType \in DriverTypes
    /\ answer' \in BoundedSeq(Advisories, MaxAdvisories)
    /\ vulns' = Detections(answer')
    /\ outcome' = "done"
    /\ UNCHANGED pkgType

Next == NoDriver \/ SourceFails \/ Detect

Spec == Init /\ [][Next]_vars
====
