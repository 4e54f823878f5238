---------------------------- MODULE MCFSMRunner ----------------------------
(* Three charts over three states: revision 1 has a cycle, revision 2 comes *)
(* in two versions with different content, so an activation can conflict.   *)
EXTENDS FSMRunner

CONSTANTS a, b, c, go, back, end

Edge(e, s, t) == [event |-> e, source |-> s, target |-> t, feedback |-> FALSE]

MCCharts == {
  [revision |-> 1, entry |-> a, terminals |-> {c},
   transitions |-> {Edge(go, a, b), Edge(back, b, a), Edge(end, b, c)}],
  [revision |-> 2, entry |-> b, terminals |-> {c},
   transitions |-> {Edge(go, b, a), Edge(end, a, c)}],
  [revision |-> 2, entry |-> a, terminals |-> {c},
   transitions |-> {Edge(end, a, c)}]}

MCDecisions ==
  [id: {1, 2}, event: {go, back}, plan: {1}] \cup [id: {1}, event: {go}, plan: {2}]
============================================================================
