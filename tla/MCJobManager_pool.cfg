SPECIFICATION FairSpec
CONSTANTS
    Workers = {w1, w2, w3, w4}
    NumJobs = 5
    NoThread = NoThread
INVARIANTS
    TypeOK
    NoPopOfEmptyQueue
    EachJobInOnePlace
    ScopeEndMeansAllDone
    NoSleepOverWork
PROPERTIES
    LeavesForGood
    ImplementsBatch
    EveryJobIsExecuted
    ReturnsWhenNobodySleeps
