CONSTANTS
    Nil = Nil
    Kinds <- MCKinds

SPECIFICATION FairSpec
INVARIANT TypeOK
INVARIANT ReleasedOnlyOnce
INVARIANT ReleasedInReverseOrder
PROPERTY AcquiredEventuallyReleased
CHECK_DEADLOCK FALSE
