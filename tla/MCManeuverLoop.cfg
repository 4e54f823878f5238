CONSTANTS
  a = a  b = b  done = done
  served = served  again = again  stay = stay  ended = ended
  None = None
  States = {a, b, done}
  Events = {served, again, stay, ended}
  Charts <- MCCharts
  Maneuvers = {m, n}
  MaxHeartbeats = 2
  MaxTools = 4
SPECIFICATION Spec
INVARIANTS FeedbackOfThisPlan IdleHasIntent OneMovePerHeartbeat IntentUsedOnce CommandIdentitiesUnique
PROPERTIES ImplementsAuthority
CHECK_DEADLOCK FALSE
