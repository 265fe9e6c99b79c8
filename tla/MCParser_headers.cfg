SPECIFICATION FairSpec
CONSTANTS
    None = None
    MaxDepth = 99
    MaxCalls = 999
    Names <- Identifiers
    Headers <- MCHeaders
CHECK_DEADLOCK FALSE
INVARIANTS
    TypeOK
    CursorFollowsBlocks
    KnownHeaderIsUnderstood
PROPERTIES
    ParsingEnds
    ModesChangeBetweenTokens
