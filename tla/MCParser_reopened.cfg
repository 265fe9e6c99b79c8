SPECIFICATION Spec
CONSTANTS
    None = None
    MaxDepth = 99
    MaxCalls = 999
    Names <- Identifiers
    Headers <- Reopened
CHECK_DEADLOCK FALSE
INVARIANTS
    AssertionsHold
