CONSTANTS
    Callers = {"c1", "c2"}
    Scenes <- MCScenes
    Live <- MCLive
    Ranking <- MCRanking
    Scanned <- MCScanned
    Explained <- MCExplained
    TurnOf <- MCTurnOf
    Blockers <- MCBlockers
    EngOf <- MCEngOf
    JoinOf <- MCJoinOf
    TextOf <- MCTextOf
    Requoted <- MCRequoted
    Reports <- MCReports
    QuestionOf <- MCQuestionOf
    ReportedTurn <- MCReportedTurn
    Conversations = {t1, t2}
    MaxTurnsRetained = 2
    MaxThreads = 2
SPECIFICATION Spec
SYMMETRY Symmetry
INVARIANTS
    NothingRaisedIsLost
    ProposedHasItsWarrant
    ConvertedWasFolded
    FunnelIsWhatItSays
PROPERTIES
    ActsAsOneQueue
