SPECIFICATION PoolFairSpec
CONSTANTS
    N <- MCChunks
    EmbedWorkers <- MCWorkers
    EmbedRetries <- MCRetries
INVARIANTS
    PoolTypeOK
    WorkerBound
    ErrorIsRootCause
PROPERTIES
    ImplementsContract
    Termination
    ErrorStopsPool
