SPECIFICATION BilingualSpec
CONSTANTS
    a = a
    s1 = s1
    s2 = s2
    s3 = s3
    s4 = s4
    s5 = s5
    m = m
    n = n
    id = id
    other = other
    p = p
    q = q
    NoModel = NoModel
    Separated <- MCSeparated
    Configurations <- MCConfigurations
    Hits <- MCHits
    Takes <- MCTakes
    Legacy <- MCLegacy
    MaxRuns = 2
INVARIANTS
    QueriesMatch
    ArmsShareQueries
    BaselineKept
CHECK_DEADLOCK FALSE
