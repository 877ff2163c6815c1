SPECIFICATION FairSpec
CONSTANTS
    p1 = p1
    p2 = p2
    s1 = s1
    s2 = s2
    k1 = k1
    k2 = k2
    Procs <- MCProcs
    Sources <- MCSharedSources
    SourceOf <- MCSharedSource
    Keys <- MCOneKey
    Size <- MCTwoSizes
    MaxVersion = 2
    BatchSize <- MCBatch
    MaxRuns = 3
    EditWhileRunning = TRUE
INVARIANTS
    TypeOK
    WholeDocuments
PROPERTY
    InvocationsEnd
CHECK_DEADLOCK FALSE
