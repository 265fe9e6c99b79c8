SPECIFICATION Spec
CONSTANTS
    h1 = h1  h2 = h2
    all = all  one = one
    hashA = hashA  hashB = hashB
    NoHash = NoHash  NoInput = NoInput
    Headers = {h1, h2}
    Inputs = {all}
    HeadersOf <- MCAllHeaders
    InputHash <- MCInputHash
    Workers = {w1, w2}
    MaxTime = 2
    MaxRuns = 2
    MaxFaults = 1
SYMMETRY AllSymmetry
CHECK_DEADLOCK FALSE
INVARIANTS
    TypeOK
    CacheFileIsNotStale
    OutputIsFresh
    SavedIndexIsUsable
    WarmRunParsesNothing
