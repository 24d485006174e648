CONSTANTS
    a1 = a1
    a2 = a2
    a3 = a3
    a4 = a4
    Nil = Nil
    PkgTypes <- MCOnePkgType
    Advisories <- MCRangeAdvisories
    MaxAdvisories = 1

SPECIFICATION Spec
INVARIANT FixedVersionsFromUpperBounds
CHECK_DEADLOCK FALSE
