SPECIFICATION FairSpec
CONSTANTS
    a = a
    b = b
    x = x
    y = y
    Sources <- MCSources
    Sections <- MCSections
    Layouts <- MCLayouts
    Separated <- MCSeparated
    Labels <- MCLabels
    Requests <- MCRequests
    Allowed <- MCAllowed
    MaxIngests = 2
    QueryCounts <- MCOne
    CandidateK = 2
    FinalK = 2
    ExpandLimit = 0
INVARIANTS
    ServiceTypeOK
    EvidenceInScope
    FusionRespectsConsensus
PROPERTIES
    ExpansionCoversScope
    RequestAnswered
