SPECIFICATION Spec
CONSTANTS
    Answers <- MCAnswers
    Contexts <- MCContexts
    Words <- MCWords
    Canon <- MCCanon
    PageNumber <- MCPageNumber
INVARIANTS
    TypeOK
    CitationsFound
    OnlyInvalidRemoved
    ResultCitationsValid
