SPECIFICATION Spec
CONSTANTS
    p1 = p1
    p2 = p2
    s1 = s1
    s2 = s2
    k1 = k1
    k2 = k2
    Procs <- MCProcs
    Sources <- MCSources
    SourceOf <- MCOwnSource
    Keys <- MCKeys
    Size <- MCOwnSize
    MaxVersion = 3
    BatchSize = 1
    MaxRuns = 3
    EditWhileRunning = FALSE
PROPERTIES
    SuccessMeansCurrent
    ImplementsStore
CHECK_DEADLOCK FALSE
