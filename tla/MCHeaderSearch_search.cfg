SPECIFICATION Spec
CONSTANTS
    Arguments <- MCArguments
    CommandLines <- MCCommandLines
    Disks <- MCDisks
    Root = "root"
    HeaderNames <- MCHeaderNames
    PartOf <- MCPartOf
    Dotted <- MCDotted
    NoSource = NoSource
CHECK_DEADLOCK FALSE
INVARIANTS
    EachHeaderOnce
    ListIsComplete
    PoolHasThreads
