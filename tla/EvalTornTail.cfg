SPECIFICATION TornSpec
CONSTANTS
    NQuestions = 2
    Corpora = {"c1", "c2"}
    TopNs = {3, 8}
    MaxWorkers = 2
    Limits = {1, 2}
    MaxLaunches = 3
    MaxCrashes = 1
INVARIANT ReportCoversTheArm
CHECK_DEADLOCK FALSE
