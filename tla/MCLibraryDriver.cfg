CONSTANTS
    a1 = a1
    a2 = a2
    a3 = a3
    a4 = a4
    Nil = Nil
    PkgTypes <- MCPkgTypes
    Advisories <- MCAdvisories
    MaxAdvisories = 3

SPECIFICATION Spec
INVARIANT TypeOK
PROPERTY Refinement
 
CHECK_DEADLOCK FALSE
