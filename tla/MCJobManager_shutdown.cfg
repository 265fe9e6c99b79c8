SPECIFICATION FairSpec
CONSTANTS
    Workers = {w1, w2}
    NumJobs = 1
    NoThread = NoThread
PROPERTIES
    ScopeEnds
