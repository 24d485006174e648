CONSTANTS
    NoOS = NoOS
    Nil = Nil
    Failed = Failed
    BadDigest = BadDigest
    DigestChoices <- MCDigestChoices
    PkgTypes <- MCOwnFieldTypes
    NameChoices <- MCOneName
    VersionChoices <- MCVersionChoices
    ReleaseChoices <- MCReleaseChoices
    EpochChoices = {0, 1}
    ArchChoices <- MCArchChoices
    ModLabelChoices <- MCModLabelChoices
    OSChoices <- MCOSChoices

SPECIFICATION Spec



CHECK_DEADLOCK FALSE
INVARIANT RoundTrip
