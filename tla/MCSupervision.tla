--------------------------- MODULE MCSupervision ---------------------------
(* Three ticks, a period of two.  Missions that ask for nothing see new    *)
(* evidence, feedback, deadlines and entries; the others ask, and see      *)
(* replans and gates.                                                      *)
EXTENDS Supervision, TLC

Quiet == [evidence |-> 1, feedback |-> 2, requests |-> 0, plans |-> 2, entries |-> 2, gates |-> 1,
          deadlines |-> {2, Never}]
Asking == [evidence |-> 0, feedback |-> 0, requests |-> 2, plans |-> 2, entries |-> 1, gates |-> 1,
           deadlines |-> {Never}]
Profiles == [ownership : {"environment_driven", "coordinator_driven"}, specialized : BOOLEAN]

MCMissions == {p @@ load : p \in Profiles, load \in {Quiet, Asking}}
=============================================================================
