SPECIFICATION Spec
CONSTANTS
    n1 = n1  x = x
    Names = {n1}
    Symbols = {x}
    Uninitialised <- LeftOver
    MaxDepth = 2
    MaxNested = 2
    MaxCalls = 13
CHECK_DEADLOCK FALSE
INVARIANTS
    TypeOK
    WalkKeepsItsPlace
