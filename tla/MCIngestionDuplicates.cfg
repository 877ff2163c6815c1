SPECIFICATION Spec
CONSTANTS
    p1 = p1
    p2 = p2
    s1 = s1
    s2 = s2
    k1 = k1
    k2 = k2
    Procs <- MCProcs
    Sources <- MCSharedSources
    SourceOf <- MCSharedSource
    Keys <- MCOneKey
    Size <- MCSmallSize
    MaxVersion = 2
    BatchSize <- MCBatch
    MaxRuns = 2
    EditWhileRunning = FALSE
INVARIANT
    NoDuplicates
CHECK_DEADLOCK FALSE
