SPECIFICATION Spec
CONSTANTS
    Tables <- MCTables
    TableOf <- MCTableOf
    ById <- MCById
    Alike <- MCAlike
    SiblingsOf <- MCSiblingsOf
    AlikeAcross <- MCAlikeAcross
    Named <- MCNamed
    Categorical <- MCCategorical
    StatusNamed <- MCStatusNamed
    DateLike = {"placed"}
    Numeric = {"price2"}
    BMaxDistinct = 4
    SampleMax = 6
    MaxPairComparisons = 4
    MaxKeyProbes = 1
    HardBlockSuspect = TRUE
    Worlds <- MCWorlds
    MaxScans = 2
    MaxAnswers = 2
    MaxChanges = 2
INVARIANTS
    EveryQuestionCanBeReached
    ReportAccountsForTheScan
    NothingIsAskedTwice
PROPERTY ContestedColumnsWait
CHECK_DEADLOCK FALSE
