CONSTANTS
    Accounts <- MCAccounts
    Declarations <- MCDeclarations
    MaxRuns = 6
SPECIFICATION Spec
INVARIANTS
    TypeOK
    NothingLost
    PairingSurvives
    NothingLeftBehind
CHECK_DEADLOCK FALSE
