---------------------------- MODULE ManeuverLoop ----------------------------
(***************************************************************************)
(* The closed loop of one mission around the FSM: Context Coordination     *)
(* starts Maneuver heartbeats and activates replacement plans              *)
(* (application/context_coordination.py), the tools of a heartbeat select  *)
(* Transition Intents, use them, and queue physical maneuvers              *)
(* (agents/maneuver_tools.py, application/maneuver_control.py) over the    *)
(* Transition Intent journal (application/transition_intents.py) and the   *)
(* FSM Runner (application/fsm.py), while the environment carries out the  *)
(* queued maneuvers in its own thread.                                     *)
(*                                                                         *)
(* The tools of a heartbeat run under one lock (heartbeat_tool_lock), so a *)
(* tool call is one action; the model calls them in any order, any number  *)
(* of times, with any arguments.  The environment moves between any two of *)
(* them.  A heartbeat sees the maneuver lifecycle as it was when its       *)
(* invocation was built.  The time, report and mission-4 gates of a        *)
(* transition are data of the invocation: a call may be rejected by them   *)
(* at any point (RejectedTool), and succeeds otherwise.                    *)
(***************************************************************************)
EXTENDS Statecharts, Sequences

CONSTANTS
  Maneuvers,        \* (maneuver_id, action) pairs the agent may ask for
  MaxHeartbeats,    \* bound on heartbeats
  MaxTools          \* bound on recorded tool calls of one heartbeat

VARIABLES
  phase,      \* "loop", "heartbeat", "review" after it, "reconcile" after a replan, "stopped"
  chart,      \* the active Statechart, of FSM Runner and coordinator alike
  fsm,        \* the FSM Execution Record
  intent,     \* the latest entry of the intent journal, or None
  published,  \* number of journal entries, the next event sequence
  beats,      \* number of heartbeats started; identifies the current one
  hb,         \* invocation and execution record of the current heartbeat, or None
  commands,   \* the durable Maneuver Command queue of the environment
  env,        \* the environment: commands consumed, latest maneuver and its lifecycle
  moves       \* history: every transition applied, with what authorized it

vars == <<phase, chart, fsm, intent, published, beats, hb, commands, env, moves>>
journal == <<intent, published>>

Terminal == {"completed", "failed", "cancelled"}

EdgeOf == UNION {c.transitions : c \in Charts}
DecisionIds == Nat \X Nat
Intent ==
  [id: Nat \ {0}, plan: Nat \ {0}, entry: Nat \ {0}, edge: EdgeOf,
   status: {"selected", "consumed", "invalidated"}]
Life == {"none", "active"} \cup Terminal
Heartbeat ==
  [plan: Nat \ {0}, entry: Nat \ {0}, evidence: [command: Nat, life: Life],
   initial: Nat, chosen: SUBSET Nat, moved: BOOLEAN, tools: Nat,
   queued: SUBSET Maneuvers, raised: BOOLEAN, reconciles: BOOLEAN]
CommandType ==
  [id: DecisionIds, plan: Nat \ {0}, entry: Nat \ {0}, maneuver: Maneuvers]
MoveType ==
  [intent: Nat \ {0}, edge: EdgeOf, entry: Nat \ {0}, plan: Nat \ {0}, beat: Nat,
   assessed: Nat \ {0}, evidence: Nat, afterRaise: BOOLEAN]

(* None is none of the records a variable holds.                           *)
ASSUME LoopAssumption ==
  /\ MaxHeartbeats \in Nat
  /\ MaxTools \in Nat
  /\ None \notin ExecutionRecord(DecisionIds) \cup Intent \cup Heartbeat
----------------------------------------------------------------------------
(* The Transition Intent journal.  Only its latest entry is ever read.     *)

MatchesIgnoringEntry(i, c, r) ==   \* mutant: the state entry is not compared
  i.plan = r.plan /\ i.edge \in Candidates(c, r.state)

(* TransitionIntentJournal._matches_status: plan and state entry are the   *)
(* live ones and the selected edge is still the exact candidate.           *)
Matches(i, c, r) ==
  /\ i.plan = r.plan
  /\ i.entry = r.entry
  /\ i.edge \in Candidates(c, r.state)

Selected(i) == i # None /\ i.status = "selected"

(* TransitionIntentJournal.current: the intent that counts now, if any.    *)
Valid(i, c, r) == Selected(i) /\ Matches(i, c, r)
Current == IF Valid(intent, chart, fsm) THEN intent ELSE None

(* current(invalidate_stale=True): a selected entry that no longer matches *)
(* is invalidated by a new journal entry; anything else is left alone.     *)
Stale == Selected(intent) /\ ~Matches(intent, chart, fsm)
DropStale ==
  IF Stale
  THEN /\ intent' = [intent EXCEPT !.status = "invalidated"]
       /\ published' = published + 1
  ELSE UNCHANGED journal

(* select, after stale entries were dropped: the intent for edge t, with   *)
(* the identity taken from the journal's next sequence number.             *)
NewIntent(t, n) ==
  [id |-> n, plan |-> fsm.plan, entry |-> fsm.entry, edge |-> t, status |-> "selected"]
----------------------------------------------------------------------------
Init ==
  /\ phase = "loop"
  /\ chart \in {c \in Charts : c.revision = 1}
  /\ fsm = Activated(chart, None)
  /\ intent = None /\ published = 0
  /\ beats = 0 /\ hb = None
  /\ commands = <<>>
  /\ env = [consumed |-> 0, latest |-> 0, life |-> "none"]
  /\ moves = <<>>

RawLife == [command |-> env.latest, life |-> env.life]   \* mutant: not blanked

(* _environment_for_maneuver: the lifecycle the invocation shows, blanked  *)
(* when it is over and belongs to another plan revision.                   *)
VisibleLife ==
  IF /\ env.latest # 0
     /\ env.life \in Terminal => commands[env.latest].plan = fsm.plan
  THEN [command |-> env.latest, life |-> env.life]
  ELSE [command |-> 0, life |-> "none"]

(* _run_maneuver_heartbeat up to the provider call: the invocation is      *)
(* built from the published status and the current intent, and carries the *)
(* evidence every tool of this heartbeat judges by.                        *)
StartHeartbeat ==
  /\ phase \in {"loop", "reconcile"}
  /\ beats < MaxHeartbeats
  /\ phase' = "heartbeat"
  /\ beats' = beats + 1
  /\ DropStale
  /\ hb' = [plan |-> chart.revision, entry |-> fsm.entry, evidence |-> VisibleLife,
            initial |-> IF Current = None THEN 0 ELSE Current.id,
            chosen |-> {}, moved |-> FALSE, tools |-> 0, queued |-> {},
            raised |-> FALSE, reconciles |-> phase = "reconcile"]
  /\ UNCHANGED <<chart, fsm, commands, env, moves>>

(* One more entry in the execution record, successful or not.              *)
InTool == phase = "heartbeat" /\ hb.tools < MaxTools
Unrecorded(h) == h   \* mutant: the record does not grow
Recorded(h) == [h EXCEPT !.tools = @ + 1]

(* set_transition_target(t): an exact candidate is selected, or retained   *)
(* when it is the current selection already.                               *)
SetTransitionTarget(t) ==
  /\ InTool
  /\ fsm.plan = hb.plan
  /\ t \in Candidates(chart, fsm.state)
  /\ LET n == published + (IF Stale THEN 1 ELSE 0)
     IN  IF Current # None /\ Current.edge = t
         THEN /\ UNCHANGED journal
              /\ hb' = [Recorded(hb) EXCEPT !.chosen = @ \cup {Current.id}]
         ELSE /\ intent' = NewIntent(t, n + 1)
              /\ published' = n + 1
              /\ hb' = [Recorded(hb) EXCEPT !.chosen = @ \cup {n + 1}]
  /\ UNCHANGED <<phase, chart, fsm, beats, commands, env, moves>>

(* The readiness gate that needs terminal maneuver feedback.               *)
FeedbackReady(t) == t.feedback => hb.evidence.life \in Terminal

MayTransitionAgain(t) ==   \* mutant: a second transition is not refused
  /\ fsm.plan = hb.plan
  /\ t \in Candidates(chart, fsm.state)
  /\ Current # None /\ Current.edge = t
  /\ IF hb.initial # 0 THEN Current.id = hb.initial ELSE Current.id \in hb.chosen
  /\ FeedbackReady(t)

(* The tests _transition_fsm makes before it asks the FSM Runner.          *)
MayTransition(t) ==
  /\ ~hb.moved
  /\ fsm.plan = hb.plan
  /\ t \in Candidates(chart, fsm.state)
  /\ Current # None /\ Current.edge = t
  /\ IF hb.initial # 0 THEN Current.id = hb.initial ELSE Current.id \in hb.chosen
  /\ FeedbackReady(t)

DecisionId == <<beats, hb.tools + 1>>

Move(t) ==
  [intent |-> intent.id, edge |-> t, entry |-> fsm.entry, plan |-> fsm.plan,
   beat |-> beats, assessed |-> hb.entry, evidence |-> hb.evidence.command,
   afterRaise |-> hb.raised]

(* transition_fsm succeeding: the FSM Runner applies the edge, then the    *)
(* intent is consumed.                                                     *)
TransitionFSM(t) ==
  /\ InTool
  /\ MayTransition(t)
  /\ Authorizes(fsm, t, t.event, hb.plan, DecisionId)
  /\ fsm' = Applied(fsm, t, DecisionId)
  /\ intent' = [intent EXCEPT !.status = "consumed"]
  /\ published' = published + 1
  /\ hb' = [Recorded(hb) EXCEPT !.moved = TRUE]
  /\ moves' = Append(moves, Move(t))
  /\ UNCHANGED <<phase, chart, beats, commands, env>>

(* transition_fsm raising after the FSM Runner saved the transition, in    *)
(* its status publication or in the journal: the FSM has moved, the intent *)
(* is still "selected", nothing is recorded.  The heartbeat will fail, but *)
(* tool calls of the same model turn were submitted with it and still run. *)
TransitionRaises(t) ==
  /\ InTool
  /\ MayTransition(t)
  /\ Authorizes(fsm, t, t.event, hb.plan, DecisionId)
  /\ fsm' = Applied(fsm, t, DecisionId)
  /\ hb' = [hb EXCEPT !.raised = TRUE]
  /\ moves' = Append(moves, Move(t))
  /\ UNCHANGED <<phase, chart, journal, beats, commands, env>>

(* A tool call the code answers with "rejected": a gate, a target that is  *)
(* no candidate, a second transition.  At most a stale intent is dropped.   *)
RejectedTool ==
  /\ InTool
  /\ DropStale \/ UNCHANGED journal
  /\ hb' = Recorded(hb)
  /\ UNCHANGED <<phase, chart, fsm, beats, commands, env, moves>>

(* A physical maneuver (_physical_once, dispatch_physical): where the      *)
(* state has candidates a valid intent is required; the same maneuver      *)
(* asked for twice in a heartbeat is answered by the first command.        *)
Physical(m) ==
  /\ InTool
  /\ fsm.plan = hb.plan
  /\ Candidates(chart, fsm.state) # {} => Current # None
  /\ hb' = [Recorded(hb) EXCEPT !.queued = @ \cup {m}]
  /\ IF m \in hb.queued THEN UNCHANGED commands
     ELSE commands' = Append(commands,
            [id |-> <<beats, hb.tools + 1>>, plan |-> hb.plan, entry |-> fsm.entry, maneuver |-> m])
  /\ UNCHANGED <<phase, chart, fsm, journal, beats, env, moves>>

(* The end of a turn of the run loop: a terminal state ends the mission,   *)
(* and so does the simulation time limit, at a time the model leaves open. *)
AfterTurn == {"stopped"} \cup {p \in {"loop"} : fsm.state \notin chart.terminals}

LeaveAnyhow == TRUE   \* mutant: no test at the end of the heartbeat

(* _require_final_transition_intent: a state with candidates is left with  *)
(* a valid intent.                                                         *)
FinalIntent == Candidates(chart, fsm.state) # {} => Current # None

(* The provider returns, and DeepAgentsHeartbeatProvider.heartbeat insists *)
(* on a final Transition Intent.                                           *)
EndHeartbeat ==
  /\ phase = "heartbeat" /\ ~hb.raised
  /\ FinalIntent
  /\ DropStale
  /\ hb' = None
  /\ phase' \in IF hb.reconciles THEN AfterTurn ELSE {"review"}
  /\ UNCHANGED <<chart, fsm, beats, commands, env, moves>>

(* No replan this time round.                                              *)
Review ==
  /\ phase = "review"
  /\ phase' \in AfterTurn
  /\ UNCHANGED <<chart, fsm, journal, beats, hb, commands, env, moves>>

(* A heartbeat fails (provider, tool or ordering error) and the exception  *)
(* ends ContextCoordination.run.                                           *)
HeartbeatFails ==
  /\ phase = "heartbeat"
  /\ phase' = "stopped"
  /\ hb' = None
  /\ UNCHANGED <<chart, fsm, journal, beats, commands, env, moves>>

(* Hyper decided to replan and the workflow accepted revision + 1: the     *)
(* chart is activated, the selected intent is invalidated, and a           *)
(* reconciliation heartbeat follows.  The gates run after the heartbeat of  *)
(* a turn, or without one; the first turn always has one.                  *)
Replan(c) ==
  /\ phase \in {"loop", "review"} /\ beats > 0
  /\ c.revision = chart.revision + 1
  /\ chart' = c
  /\ fsm' = Activated(c, fsm)
  /\ IF Selected(intent)
     THEN /\ intent' = [intent EXCEPT !.status = "invalidated"]
          /\ published' = published + 1
     ELSE UNCHANGED journal
  /\ phase' = "reconcile"
  /\ UNCHANGED <<beats, hb, commands, env, moves>>
----------------------------------------------------------------------------
(* The environment consumes the next command: it becomes the current       *)
(* maneuver and overrides the one under way.                               *)
Consume ==
  /\ env.consumed < Len(commands)
  /\ env' = [consumed |-> env.consumed + 1, latest |-> env.consumed + 1, life |-> "active"]
  /\ UNCHANGED <<phase, chart, fsm, journal, beats, hb, commands, moves>>

(* The current maneuver comes to its end.                                  *)
Finish ==
  /\ env.life = "active"
  /\ \E l \in {"completed", "failed"} : env' = [env EXCEPT !.life = l]
  /\ UNCHANGED <<phase, chart, fsm, journal, beats, hb, commands, moves>>

Tool ==
  \/ \E t \in chart.transitions :
       SetTransitionTarget(t) \/ TransitionFSM(t) \/ TransitionRaises(t)
  \/ RejectedTool
  \/ \E m \in Maneuvers : Physical(m)

Next ==
  \/ StartHeartbeat \/ Tool \/ EndHeartbeat \/ HeartbeatFails \/ Review
  \/ \E c \in Charts : Replan(c)
  \/ Consume \/ Finish

Spec == Init /\ [][Next]_vars
----------------------------------------------------------------------------
(* Every variable has its type.                                            *)
TypeOK ==
  /\ phase \in {"loop", "heartbeat", "review", "reconcile", "stopped"}
  /\ chart \in Charts
  /\ fsm \in ExecutionRecord(DecisionIds)
  /\ intent \in Intent \cup {None}
  /\ published \in Nat /\ beats \in Nat
  /\ hb \in Heartbeat \cup {None}
  /\ phase = "heartbeat" <=> hb # None
  /\ commands \in Seq(CommandType)
  /\ env \in [consumed: Nat, latest: Nat, life: Life]
  /\ env.consumed <= Len(commands) /\ env.latest <= env.consumed
  /\ moves \in Seq(MoveType)

(* A transition is judged on evidence captured while the FSM was in the    *)
(* very state entry it leaves, never on evidence of an earlier one         *)
(* (ADR 0012), unless a tool of the heartbeat had raised before.           *)
EvidenceOfThisEntry ==
  \A i \in DOMAIN moves : ~moves[i].afterRaise => moves[i].assessed = moves[i].entry

(* A heartbeat applies at most one transition (ADR 0012), unless a tool of *)
(* it had raised before: then calls of the same turn still run.            *)
OneMovePerHeartbeat ==
  \A i, j \in DOMAIN moves :
    i < j /\ ~moves[j].afterRaise => moves[i].beat # moves[j].beat

(* A Transition Intent authorizes one transition at most, also when it was *)
(* never marked consumed because the journal write after the transition    *)
(* failed, and also across replans that reuse state names.                 *)
IntentUsedOnce ==
  \A i, j \in DOMAIN moves : moves[i].intent = moves[j].intent => i = j

(* A transition that waits for terminal maneuver feedback is never let     *)
(* through by the feedback of a maneuver commanded under another plan      *)
(* revision, whenever that maneuver ends.                                  *)
FeedbackOfThisPlan ==
  \A i \in DOMAIN moves :
    moves[i].edge.feedback =>
      moves[i].evidence # 0 /\ commands[moves[i].evidence].plan = moves[i].plan

(* Between heartbeats the FSM always has its next target selected: the     *)
(* wake-ups of the run loop are computed from that intent.                 *)
IdleHasIntent ==
  phase \in {"loop", "review"} /\ beats > 0 /\ Candidates(chart, fsm.state) # {}
    => Current # None

(* Two queued commands never share an identity (the transport would refuse *)
(* the second, or take it for the first).                                  *)
CommandIdentitiesUnique ==
  \A i, j \in DOMAIN commands : commands[i].id = commands[j].id => i = j

(* The loop implements the abstract authority over transitions.            *)
Authority == INSTANCE TransitionAuthority WITH
  state <- fsm.state, entry <- fsm.entry,
  authority <- IF Current = None THEN None ELSE Current.edge
ImplementsAuthority == Authority!ASpec
============================================================================
