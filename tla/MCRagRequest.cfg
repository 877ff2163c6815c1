SPECIFICATION FairSpec
CONSTANTS
    a = a
    x = x
    y = y
    Sources <- MCSources
    Sections <- MCSections
    Layouts <- MCLayouts
    Separated <- MCSeparated
    MaxIngests = 2
    QueryCounts <- MCCounts
    CandidateK = 2
    FinalK = 1
    ExpandLimit = 2
INVARIANTS
    TypeOK
    AnsweredFromOneVersion
    AnsweredFromJudged
    CitedFromContext
    DraftNeverLost
    FallbackHonest
PROPERTY
    RequestEnds
