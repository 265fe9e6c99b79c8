SPECIFICATION FairSpec
CONSTANTS
    h1 = h1  h2 = h2
    all = all  one = one
    hashA = hashA  hashB = hashB
    NoHash = NoHash  NoInput = NoInput
    Headers = {h1, h2}
    Inputs = {all, one}
    HeadersOf <- MCHeadersOf
    InputHash <- MCInputHash
    Workers = {w1}
    MaxTime = 1
    MaxRuns = 3
    MaxFaults = 1
CHECK_DEADLOCK FALSE
INVARIANTS
    OnlyDeathsSpoilCache
    IndexIsOfItsInput
    WarmRunParsesNothing
PROPERTIES
    RunsEndOrStop
