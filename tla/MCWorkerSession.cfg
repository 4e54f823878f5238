SPECIFICATION FairSession
CONSTANTS
  N = 3
  Required = {1, 2}
  Completes = {2}
  MaxDeaths = 2
  MaxFaults = 1
CHECK_DEADLOCK FALSE
INVARIANTS  NoSilentLoss
PROPERTIES  FailureEndsRun
