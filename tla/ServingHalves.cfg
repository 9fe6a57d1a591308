SPECIFICATION Spec
CONSTANTS
    Threads = {t1, t2}
    Facts = {f1, f2}
    Answers = {v1}
    Seeded = {}
    None = None
    NoSession = NoSession
    TOGGLEABLE = {}
    NoCache = NoCache
    MaxJobs = 4
    MaxCrashes = 0
INVARIANT AnswersOverTheCorpusItRecords
CHECK_DEADLOCK FALSE
