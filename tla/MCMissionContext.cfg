CONSTANTS
  None = None
  MaxLive = 2
  MaxBeats = 2
  MaxReplans = 1
  MaxObserved = 2
SPECIFICATION Spec
INVARIANTS SnapshotsCoherent InvocationIsCurrent ReplanOnItsView
