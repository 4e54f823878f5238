SPECIFICATION FairSpec
CONSTANTS
  Inputs = {1, 2, 3}
  Kind <- MCKind
  HistoryLimit = 2
  MaxRetries = 2
  MaxFaults = 2
  MaxOthers = 1
  None = None
CHECK_DEADLOCK FALSE
INVARIANTS PointerComplete AppliedOnce ReaderOutlived
PROPERTIES  EventuallyAnnounced
