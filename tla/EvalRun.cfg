SPECIFICATION FairSpec
CONSTANTS
    NQuestions = 3
    Corpora = {"c1", "c2"}
    TopNs = {3, 8}
    MaxWorkers = 2
    Limits = {2, 3}
    MaxLaunches = 3
    MaxCrashes = 1
INVARIANTS
    OneTreatmentPerArtifact
    ReportCoversTheArm
PROPERTIES
    MeasuredRowsSurvive
    ArmEnds
CHECK_DEADLOCK FALSE
