SPECIFICATION FairSpec
CONSTANTS
  Missions <- MCMissions
  Limit = 3
  Interval = 2
  Parallel = 1
  None = None
CHECK_DEADLOCK FALSE
INVARIANTS RequestsAnswered RequestsReachHyper FeedbackAnswered
PROPERTIES NothingOverdue RunEnds
