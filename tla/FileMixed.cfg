CONSTANTS
  p = p  q = q
  None = None
  Publishers = {p, q}
  Messages = {1, 2, 3, 4, 5}
  Kind <- MCKind
  Author <- MCAuthor
  CommandOf <- MCCommandOf
  Workloads <- MCMixedOnly
  Limit = 2
  MaxCrashes = 0
SPECIFICATION Spec
CHECK_DEADLOCK FALSE
INVARIANTS AtLeastOnce
