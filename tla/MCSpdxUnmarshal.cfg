CONSTANTS
    r = r
    p1 = p1
    p2 = p2
    os1 = os1
    app1 = app1
    app2 = app2
    f1 = f1
    Dangling = Dangling
    NoPath = NoPath
    NoOS = NoOS
    Root <- r
    PkgIds <- MCPkgIds
    OSIds <- MCOSIds
    AppIds <- MCAppIds
    FileIds <- MCFileIds
    PurlChoices <- MCPurlChoices
    SrcInfoChoices <- MCSrcInfoOK
    FileChoices <- MCFileChoices
    CandidateRels <- MCCandidateRels
    MaxRels = 3
    AppNameOf <- MCAppNameOf
    NameOrder <- MCNameOrder

SPECIFICATION Spec
INVARIANT TypeOK
INVARIANT LossOnlyByOSOverwrite
INVARIANT RelationshipPathsResolved
INVARIANT NoPackageDuplicatedBeyondEdges
INVARIANT ApplicationsFollowRelationships
PROPERTY ImplementsSbomImport
CHECK_DEADLOCK FALSE
