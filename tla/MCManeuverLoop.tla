--------------------------- MODULE MCManeuverLoop ---------------------------
(* Revision 1: two states served by a maneuver each, one after the other,   *)
(* and an edge back, so that a state is entered again.  Revision 2 uses the *)
(* same names with other edges: two that follow one another with no         *)
(* feedback asked for, and one from a state to itself (the validation of a  *)
(* Statechart allows it), which enters the same state anew.                 *)
EXTENDS ManeuverLoop

CONSTANTS a, b, done, served, again, stay, ended

Edge(e, s, t, f) == [event |-> e, source |-> s, target |-> t, feedback |-> f]

MCCharts == {
  [revision |-> 1, entry |-> a, terminals |-> {done},
   transitions |-> {Edge(served, a, b, TRUE), Edge(again, b, a, FALSE), Edge(ended, b, done, TRUE)}],
  [revision |-> 2, entry |-> b, terminals |-> {done},
   transitions |-> {Edge(again, b, a, FALSE), Edge(served, a, b, FALSE),
                    Edge(stay, b, b, FALSE), Edge(ended, a, done, TRUE)}]}
============================================================================
