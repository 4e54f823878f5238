---------------------------- MODULE Statecharts ----------------------------
(***************************************************************************)
(* The vocabulary the FSM Runner and the Maneuver loop share: accepted     *)
(* Statecharts, the FSM Execution Record, and the pure functions           *)
(* application/fsm.py computes on them.  A chart is a record; the          *)
(* declarative condition of a transition is abstracted to the one flag the *)
(* code branches on and the model tells apart: whether the readiness of    *)
(* the transition asks for terminal maneuver feedback.                     *)
(***************************************************************************)
EXTENDS Naturals, FiniteSets

CONSTANTS
  States,      \* FSM state names
  Events,      \* transition event names
  Charts,      \* the Statecharts the planner may ever accept
  None         \* "no value" (Python None)

Transition == [event: Events, source: States, target: States, feedback: BOOLEAN]

Statechart ==
  [revision: Nat \ {0}, entry: States,
   transitions: SUBSET Transition, terminals: SUBSET States]

(* What Statechart.__post_init__ validates and the modules rely on: events *)
(* are globally unique and no two edges join the same pair of states, so   *)
(* a target state names at most one transition out of a state.             *)
ASSUME ChartsAssumption ==
  /\ Charts \subseteq Statechart
  /\ None \notin Charts
  /\ None \notin States \cup Transition
  /\ \A c \in Charts : \A t, u \in c.transitions :
       (t.event = u.event \/ (t.source = u.source /\ t.target = u.target)) => t = u

(* FSMStatus.transition_candidates: the edges out of the active state.     *)
Candidates(chart, state) == {t \in chart.transitions : t.source = state}

(* FSMExecutionRecord.  `entry` is record_revision, which FSMStatus shows  *)
(* as state_entry_revision; `applied` is applied_event_identities.         *)
ExecutionRecord(Ids) ==
  [plan: Nat \ {0}, state: States, entry: Nat \ {0}, applied: SUBSET Ids]

ActivatedAtZero(chart, record) ==   \* mutant: the revision counts from zero
  [plan |-> chart.revision, state |-> chart.entry,
   entry |-> IF record = None THEN 0 ELSE record.entry + 1, applied |-> {}]

ActivatedAfresh(chart, record) ==   \* mutant: every activation starts at one
  [plan |-> chart.revision, state |-> chart.entry, entry |-> 1, applied |-> {}]

(* The record FSMRunner.handle builds for a newly activated chart.         *)
Activated(chart, record) ==
  [plan |-> chart.revision, state |-> chart.entry,
   entry |-> IF record = None THEN 1 ELSE record.entry + 1, applied |-> {}]

(* The record FSMRunner.apply builds for an authorized transition.         *)
Applied(record, t, id) ==
  [plan |-> record.plan, state |-> t.target, entry |-> record.entry + 1,
   applied |-> record.applied \cup {id}]

AuthorizesReplay(record, t, event, plan, id) ==   \* mutant: no replay test
  event = t.event /\ plan = record.plan

(* FSMRunner._decision_authorizes together with the replay test of apply:  *)
(* `event`, `plan` and `id` are those of the Maneuver Decision.            *)
Authorizes(record, t, event, plan, id) ==
  /\ event = t.event
  /\ plan = record.plan
  /\ id \notin record.applied
============================================================================
