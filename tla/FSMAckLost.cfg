CONSTANTS
  a = a  b = b  c = c
  go = go  back = back  end = end
  None = None
  States = {a, b, c}
  Events = {go, back, end}
  Charts <- MCCharts
  Decisions <- MCDecisions
  MaxEntry = 5
  MaxRaises = 1
SPECIFICATION Spec
CHECK_DEADLOCK FALSE
INVARIANTS AckedIsDurable
