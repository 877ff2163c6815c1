SPECIFICATION Spec
CONSTANTS
    a = a
    x = x
    y = y
    Rows <- MCRows
    Separated <- MCSeparated
    Datasets <- MCDatasets
    Configurations <- MCConfigurations
    Answers <- MCAnswers
    Scores <- MCScores
    CandidateK = 2
    FinalK = 1
    Unit = 2
INVARIANTS
    RatesWithinOne
    EveryCaseMeasured
    RecallsAgree
