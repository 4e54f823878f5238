CONSTANTS
  a = a  b = b  c = c
  go = go  back = back  end = end
  None = None
  States = {a, b, c}
  Events = {go, back, end}
  Charts <- MCCharts
  Decisions <- MCDecisions
  MaxEntry = 5
  MaxRaises = 2
SPECIFICATION Spec
INVARIANTS EntryIdentifiesState DecisionAppliedOnce AckedSurvivesCrash
PROPERTIES DiskNeverRegresses ImplementsDurable
CHECK_DEADLOCK FALSE
