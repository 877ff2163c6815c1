SPECIFICATION Spec
CONSTANTS
    s1 = s1
    s2 = s2
    s3 = s3
    Sections <- MCSections
    Sizes <- MCSizes
    MaxDocuments = 4
    Budgets <- MCBudgets
INVARIANTS
    TypeOK
    WithinBudget
    Maximal
    NoEnvy
