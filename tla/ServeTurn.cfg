CONSTANTS
    MaxTurnsRetained = 2
    MaxTurns = 3
    MaxCuts = 1
SPECIFICATION FairSpec
INVARIANTS
    NothingCostlyAfterTheEnd
    OutcomeTellsWhatHappened
    HistoryAccountsForEveryTurn
    MinedOnceButForCuts
PROPERTIES
    EveryMessageIsAnswered
