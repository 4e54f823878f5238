SPECIFICATION Spec
CONSTANTS
  Shapes = {"generic", "mission1", "mission4", "joint34"}
  Contents = {a, b}
  a = a
  b = b
  Prepared = a
  Events = 2
  MaxPlanner = 2
  MaxStatechart = 2
  MaxCalls = 1
  MaxEmpty = 1
  MaxWorkflows = 2
  None = None
CHECK_DEADLOCK FALSE
INVARIANTS PlanOfVerifiedFiles ReadyBinds CanAlwaysFinish
