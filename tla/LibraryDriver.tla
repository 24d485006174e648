--------------------------- MODULE LibraryDriver ---------------------------
(***************************************************************************)
(* Language-package vulnerability driver: NewDriver, DetectVulnerabilities *)
(* and createFixedVersions in src/pkg/detector/library/driver.go.          *)
(*                                                                         *)
(* One behaviour looks up the advisories of one package: the driver is     *)
(* chosen for the package type, the advisory source is queried under the   *)
(* ecosystem prefix (it may fail), and the advisories are walked one per   *)
(* step, keeping those the comparer reports vulnerable.  The comparer      *)
(* itself (semver, PEP 440, Maven, RubyGems orderings) is abstracted to    *)
(* the boolean it returns, carried by each advisory as "affected".         *)
(*                                                                         *)
(* Version strings are token sequences: "1", "2" stand for version         *)
(* numbers, and "<", "=", ">", " ", "," are the characters                 *)
(* createFixedVersions splits, trims and tests for.                        *)
(***************************************************************************)
EXTENDS Naturals, Sequences, SequencesExt

CONSTANTS
    PkgTypes,       \* package types a caller may pass to NewDriver
    Advisories,     \* advisory records the source can return
    MaxAdvisories,  \* bound on the length of one GetAdvisories answer
    Nil             \* NewDriver returned (Driver{}, false)

-----------------------------------------------------------------------------
(* NewDriver: the ecosystem (advisory bucket prefix) and comparer of each  *)
(* package type; conda and every other type have no driver.                *)
EcosystemOf ==
    [gem |-> "rubygems", cargo |-> "cargo", composer |-> "composer",
     golang |-> "go", maven |-> "maven", npm |-> "npm", nuget |-> "nuget",
     pypi |-> "pip", pub |-> "pub", hex |-> "erlang", conan |-> "conan",
     swift |-> "swift", cocoapods |-> "cocoapods", bitnami |-> "bitnami",
     k8s |-> "k8s"]

ComparerOf(t) ==
    CASE t \in {"gem", "cocoapods"} -> "rubygems"
      [] t = "maven"                -> "maven"
      [] t = "npm"                  -> "npm"
      [] t = "pypi"                 -> "pep440"
      [] OTHER                      -> "generic"

NewDriver(t) ==
    IF t \in DOMAIN EcosystemOf
    THEN [ecosystem |-> EcosystemOf[t], comparer |-> ComparerOf(t)]
    ELSE Nil

-----------------------------------------------------------------------------
(* strings.Split, strings.TrimSpace, strings.TrimPrefix, strings.Join      *)
RECURSIVE SplitOn(_, _)
SplitOn(s, c) ==
    LET k == SelectInSeq(s, LAMBDA x : x = c)
    IN IF k = 0 THEN <<s>>
       ELSE <<SubSeq(s, 1, k - 1)>> \o SplitOn(SubSeq(s, k + 1, Len(s)), c)

RECURSIVE TrimSpace(_)
TrimSpace(s) ==
    CASE s = <<>>           -> s
      [] Head(s) = " "      -> TrimSpace(Tail(s))
      [] s[Len(s)] = " "    -> TrimSpace(SubSeq(s, 1, Len(s) - 1))
      [] OTHER              -> s

TrimPrefix(s, p) == IF IsPrefix(p, s) THEN SubSeq(s, Len(p) + 1, Len(s)) ELSE s

RECURSIVE JoinWith(_, _)
JoinWith(list, sep) ==
    CASE list = <<>>    -> <<>>
      [] Len(list) = 1  -> Head(list)
      [] OTHER          -> Head(list) \o sep \o JoinWith(Tail(list), sep)

Comma == <<",", " ">>

-----------------------------------------------------------------------------
(* Advisory ranges.  A well-formed range term is an operator and a version *)
(* with optional blanks around them; a range expression joins terms with   *)
(* ",".  An advisory's VulnerableVersions is the rendered text of its      *)
(* ranges.                                                                 *)
Blank == {<<>>, <<" ">>}
Ops == {"<", "<=", ">", ">=", "="}
OpText(op) == CASE op = "<"  -> <<"<">>
                [] op = "<=" -> <<"<", "=">>
                [] op = ">"  -> <<">">>
                [] op = ">=" -> <<">", "=">>
                [] op = "="  -> <<"=">>
RangeTerms == [lead : Blank, op : Ops, sp : Blank, v : {<<"1">>, <<"2">>},
               trail : Blank]
Render(t) == t.lead \o OpText(t.op) \o t.sp \o t.v \o t.trail
RECURSIVE RenderRange(_)
RenderRange(ts) ==
    IF Len(ts) = 1 THEN Render(Head(ts))
    ELSE Render(Head(ts)) \o <<",">> \o RenderRange(Tail(ts))
RECURSIVE RenderRanges(_)
RenderRanges(rs) ==
    IF rs = <<>> THEN <<>> ELSE <<RenderRange(Head(rs))>> \o RenderRanges(Tail(rs))
VulnerableVersions(adv) == RenderRanges(adv.ranges)

UpperBound(s) == ~IsPrefix(<<"<", "=">>, s) /\ IsPrefix(<<"<">>, s)

\* mutant: the term is not trimmed before its prefix is tested
TermFixedVersionUntrimmed(t) ==
    IF UpperBound(t) THEN <<TrimSpace(TrimPrefix(t, <<"<">>))>> ELSE <<>>
\* the fixed version one comma-separated term contributes
TermFixedVersion(t) ==
    LET s == TrimSpace(t)
    IN IF UpperBound(s) THEN <<TrimSpace(TrimPrefix(s, <<"<">>))>> ELSE <<>>

\* the inner loop over the terms of one range expression
RECURSIVE TermsFixedVersions(_)
TermsFixedVersions(ts) ==
    IF ts = <<>> THEN <<>>
    ELSE TermFixedVersion(Head(ts)) \o TermsFixedVersions(Tail(ts))
\* the outer loop over VulnerableVersions
RECURSIVE RangesFixedVersions(_)
RangesFixedVersions(vv) ==
    IF vv = <<>> THEN <<>>
    ELSE TermsFixedVersions(SplitOn(Head(vv), ",")) \o RangesFixedVersions(Tail(vv))

createFixedVersions(adv) ==
    IF adv.patched # <<>> THEN JoinWith(adv.patched, Comma)
    ELSE JoinWith(RangesFixedVersions(VulnerableVersions(adv)), Comma)

-----------------------------------------------------------------------------
VARIABLES
    pkgType,   \* the type the driver is built for
    driver,    \* NewDriver's result
    phase,     \* "new", "query", "loop", "done", "unavailable", "failed"
    advs,      \* the advisories GetAdvisories returned
    k,         \* index of the next advisory of the loop
    vulns      \* the DetectedVulnerability values appended so far

vars == <<pkgType, driver, phase, advs, k, vulns>>

\* comparer.IsVulnerable(pkgVer, adv)
IsVulnerable(d, adv) == adv.affected

Detected(adv) == [adv |-> adv, fixed |-> createFixedVersions(adv)]

Init ==
    /\ pkgType \in PkgTypes
    /\ driver = Nil
    /\ phase = "new"
    /\ advs = <<>>
    /\ k = 1
    /\ vulns = <<>>

\* mutant: the ok result of NewDriver is ignored
ConstructUnchecked ==
    /\ phase = "new"
    /\ driver' = NewDriver(pkgType)
    /\ phase' = "query"
    /\ UNCHANGED <<pkgType, advs, k, vulns>>
\* NewDriver(pkgType): a driver, or no scanning for this type
Construct ==
    /\ phase = "new"
    /\ driver' = NewDriver(pkgType)
    /\ phase' = IF driver' = Nil THEN "unavailable" ELSE "query"
    /\ UNCHANGED <<pkgType, advs, k, vulns>>

\* dbc.GetAdvisories(prefix, name) answers
GetAdvisories ==
    /\ phase = "query"
    /\ \E s \in BoundedSeq(Advisories, MaxAdvisories) : advs' = s
    /\ phase' = "loop"
    /\ UNCHANGED <<pkgType, driver, k, vulns>>

\* dbc.GetAdvisories fails: the error is returned with no vulnerabilities
GetAdvisoriesFail ==
    /\ phase = "query"
    /\ phase' = "failed"
    /\ UNCHANGED <<pkgType, driver, advs, k, vulns>>

\* the comparer says the installed version is not affected: continue
SkipAdvisory ==
    /\ phase = "loop" /\ k <= Len(advs)
    /\ ~IsVulnerable(driver, advs[k])
    /\ k' = k + 1
    /\ UNCHANGED <<pkgType, driver, phase, advs, vulns>>

\* mutant: the detected vulnerability is put in front of the earlier ones
KeepAdvisoryPrepend ==
    /\ phase = "loop" /\ k <= Len(advs)
    /\ IsVulnerable(driver, advs[k])
    /\ vulns' = <<Detected(advs[k])>> \o vulns
    /\ k' = k + 1
    /\ UNCHANGED <<pkgType, driver, phase, advs>>
\* an affected advisory becomes a DetectedVulnerability with its fixed versions
KeepAdvisory ==
    /\ phase = "loop" /\ k <= Len(advs)
    /\ IsVulnerable(driver, advs[k])
    /\ vulns' = Append(vulns, Detected(advs[k]))
    /\ k' = k + 1
    /\ UNCHANGED <<pkgType, driver, phase, advs>>

\* the range loop is over: the vulnerabilities are returned
Finish ==
    /\ phase = "loop" /\ k > Len(advs)
    /\ phase' = "done"
    /\ UNCHANGED <<pkgType, driver, advs, k, vulns>>

Next ==
    \/ Construct
    \/ GetAdvisories
    \/ GetAdvisoriesFail
    \/ SkipAdvisory
    \/ KeepAdvisory
    \/ Finish

Spec == Init /\ [][Next]_vars

-----------------------------------------------------------------------------
Detection == [adv : Advisories, fixed : Seq(STRING)]

TypeOK ==
    /\ pkgType \in PkgTypes
    /\ driver \in [ecosystem : STRING, comparer : STRING] \cup {Nil}
    /\ phase \in {"query", "loop", "done"} => driver # Nil
    /\ phase \in {"new", "query", "loop", "done", "unavailable", "failed"}
    /\ advs \in BoundedSeq(Advisories, MaxAdvisories)
    /\ k \in 1..(MaxAdvisories + 1)
    /\ vulns \in Seq(Detection) /\ Len(vulns) <= MaxAdvisories

\* The refinement mapping: the call is pending until it returns, and the
\* source's answer and the vulnerabilities are visible once it has returned.
Outcome == IF phase \in {"new", "query", "loop"} THEN "pending" ELSE phase

Lookup == INSTANCE VulnerabilityLookup
              WITH outcome <- Outcome,
                   answer <- IF phase = "done" THEN advs ELSE <<>>,
                   vulns <- IF phase = "done" THEN vulns ELSE <<>>,
                   DriverTypes <- DOMAIN EcosystemOf

\* DetectVulnerabilities implements the one-step lookup: a type has a driver
\* exactly when NewDriver gives one, and the vulnerabilities returned are
\* one per affected advisory, in the order the source returned them, each
\* with the fixed versions read off its ranges (driver.go:23-91, 109-153;
\* spec 4.3 steps 5-6: advisory order preserved, no deduplication).
Refinement == Lookup!Spec

\* Without patched versions, every detected vulnerability's fixed-version
\* string lists the version of every strict upper bound of the advisory's
\* vulnerable ranges, in order, and nothing else, whatever blanks surround
\* operators and versions (driver.go:142-152; spec 4.3 step 5).
FixedVersionsFromUpperBounds ==
    \A j \in DOMAIN vulns :
        vulns[j].adv.patched = <<>> =>
            vulns[j].fixed = Lookup!Listed(Lookup!StrictUpperBounds(vulns[j].adv.ranges))
====
