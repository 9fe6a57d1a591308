SPECIFICATION Spec
CONSTANTS
  MaxTurns = 3
  Retained = 2
  MaxPauses = 1
  MaxCuts = 1
  MaxReloads = 1
CHECK_DEADLOCK FALSE
INVARIANTS
  TimelineFollowsTheTurn
  FinishedAnswersStay
