CONSTANTS
    NoOS = NoOS
    Nil = Nil
    Failed = Failed
    BadDigest = BadDigest
    DigestChoices <- MCDigestChoices
    PkgTypes <- MCPkgTypes
    NameChoices <- MCNameChoices
    VersionChoices <- MCVersionChoices
    ReleaseChoices <- MCReleaseChoices
    EpochChoices = {0, 1}
    ArchChoices <- MCArchChoices
    ModLabelChoices <- MCModLabelChoices
    OSChoices <- MCOSChoices

SPECIFICATION Spec
INVARIANT TypeOK
INVARIANT EVRRoundTrip
INVARIANT NameRoundTrip
INVARIANT OCIFromFirstDigest
CHECK_DEADLOCK FALSE
