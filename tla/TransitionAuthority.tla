------------------------ MODULE TransitionAuthority ------------------------
(***************************************************************************)
(* What the closed loop promises about FSM transitions, without journal,   *)
(* heartbeats or tools (ADR 0011): the FSM leaves a state entry only along *)
(* an edge somebody holds authority for; authority names one edge out of   *)
(* the current state entry, is used up by the transition it authorizes,    *)
(* and never outlives a transition or a replan.                            *)
(***************************************************************************)
EXTENDS Naturals

CONSTANTS Charts, None

VARIABLES
  chart,      \* the active Statechart
  state,      \* the active state
  entry,      \* number of the current state entry
  authority   \* the edge somebody may take next, or None

avars == <<chart, state, entry, authority>>

AInit ==
  /\ chart \in Charts
  /\ state = chart.entry
  /\ entry = 1
  /\ authority = None

(* Select or replace the edge to be assessed.                              *)
Grant ==
  /\ authority' \in {t \in chart.transitions : t.source = state}
  /\ UNCHANGED <<chart, state, entry>>

(* Use the authority: the only way to another state of the same plan.      *)
Advance ==
  /\ authority # None
  /\ state' = authority.target
  /\ entry' = entry + 1
  /\ authority' = None
  /\ UNCHANGED chart

(* A newer plan revision starts over at its own entry state.               *)
Supersede ==
  /\ chart' \in Charts
  /\ chart'.revision > chart.revision
  /\ state' = chart'.entry
  /\ entry' = entry + 1
  /\ authority' = None

ANext == Grant \/ Advance \/ Supersede

ASpec == AInit /\ [][ANext]_avars
============================================================================
