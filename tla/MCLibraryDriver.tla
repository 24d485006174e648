-------------------------- MODULE MCLibraryDriver --------------------------
(***************************************************************************)
(* Model-checking instances of LibraryDriver.  The order run uses every    *)
(* package type of const.go plus an unknown one and four hand-written      *)
(* advisories (patched versions, a two-term range, an inclusive bound and  *)
(* a blank-padded strict bound, an unaffected one) in answers of up to     *)
(* three.  The ranges run answers with one advisory whose ranges are any   *)
(* one or two terms, as one expression or as two.                          *)
(***************************************************************************)
EXTENDS LibraryDriver, TargetTypes

CONSTANTS a1, a2, a3, a4

MCPkgTypes == PkgTypeConsts \cup {"unknown"}
MCOnePkgType == {"npm"}

T(op, v) == [lead |-> <<>>, op |-> op, sp |-> <<>>, v |-> <<v>>, trail |-> <<>>]
MCAdvisories ==
    {[id |-> a1, patched |-> <<<<"1">>, <<"2">>>>, ranges |-> <<<<T("<", "1")>>>>,
      affected |-> TRUE],
     [id |-> a2, patched |-> <<>>, ranges |-> <<<<T(">=", "1"), T("<", "2")>>>>,
      affected |-> TRUE],
     [id |-> a3, patched |-> <<>>,
      ranges |-> <<<<T("<=", "1")>>,
                   <<[lead |-> <<" ">>, op |-> "<", sp |-> <<" ">>, v |-> <<"2">>,
                      trail |-> <<>>]>>>>,
      affected |-> TRUE],
     [id |-> a4, patched |-> <<>>, ranges |-> <<<<T("<", "2")>>>>,
      affected |-> FALSE]}

\* VulnerableVersions lists: one range of one or two terms, or two ranges
RangeLists ==
    {<<<<t>>>> : t \in RangeTerms}
    \cup {<<<<t, u>>>> : t, u \in RangeTerms}
    \cup {<<<<t>>, <<u>>>> : t, u \in RangeTerms}
MCRangeAdvisories ==
    {[id |-> a1, patched |-> <<>>, ranges |-> rs, affected |-> TRUE] : rs \in RangeLists}
=============================================================================
