CONSTANTS
    asker = asker
    stranger = stranger
    nobody = nobody
    Callers <- MCCallers
    Nobody = nobody
    Asker = asker
    Cap = 1
    RecursionLimit = 6
    HasWall = TRUE
    MaxCalls = 4
    MaxParallel = 2
    MaxPauses = 2
SPECIFICATION FairSpec
INVARIANTS
    StatementBudget
    LedgerAccountsForTheEngine
    TableHasItsStatement
    OneQuestionOutstanding
    HomeworkFollowsTheQuestion
PROPERTIES
    KeepsThePromise
    TurnReturns
