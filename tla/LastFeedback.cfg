SPECIFICATION Spec
CONSTANTS
  Missions <- MCMissions
  Limit = 3
  Interval = 2
  Parallel = 1
  None = None
CHECK_DEADLOCK FALSE
INVARIANT LastFeedbackIngested
