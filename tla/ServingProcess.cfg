SPECIFICATION Spec
CONSTANTS
    Threads = {t1, t2}
    Facts = {f1, f2}
    Answers = {v1, v2}
    Seeded = {f1}
    None = None
    NoSession = NoSession
    TOGGLEABLE = {k1, k2}
    NoCache = NoCache
    MaxJobs = 3
    MaxCrashes = 1
INVARIANTS
    OnlyPendingIsCertified
    SwitchesAreInForce
    ApprovalReachesTheNextTurn
SYMMETRY MCSymmetry
CHECK_DEADLOCK FALSE
