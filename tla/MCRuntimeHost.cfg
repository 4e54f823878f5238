CONSTANTS
  r1 = r1  r2 = r2
  None = None
  Runs = {r1, r2}
  MaxHostCrashes = 1
  WorkerMayDie = TRUE
  GroupMayBeReused = TRUE
SPECIFICATION FairSpec
INVARIANTS  WorkIsRegistered AcceptedCancelStands
PROPERTIES  CancelEndsRun
CHECK_DEADLOCK FALSE
