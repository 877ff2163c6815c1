SPECIFICATION ChunkingSpec
CONSTANTS
    WordCounts <- MCWordCounts
    MaxParts <- MCMaxParts
    SizeSettings <- MCSizeSettings
    OverlapSettings <- MCOverlapSettings
    Unset = Unset
    NotANumber = NotANumber
    DefaultChunkSize <- MCDefaultSize
    DefaultChunkOverlap <- MCDefaultOverlap
INVARIANTS
    NothingLost
    WindowsOverlap
    ReadsInOrder
