CONSTANTS
  p = p  q = q
  None = None
  Publishers = {p, q}
  Messages = {1, 2, 3, 4, 5}
  Kind <- MCKind
  Author <- MCAuthor
  CommandOf <- MCCommandOf
  Workloads <- MCWorkloads
  Limit = 2
  MaxCrashes = 2
SPECIFICATION FairSpec
CHECK_DEADLOCK FALSE
INVARIANTS ReturnedIsFindable AtLeastOnceOfOneSource
PROPERTIES ImplementsQueue 
