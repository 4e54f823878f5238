--------------------------- MODULE MissionContext ---------------------------
(***************************************************************************)
(* Context Coordination's serialized loop (context_coordination.py) and    *)
(* the fake environment it shares with a producer thread: the source facts *)
(* both publish on one transport topic, and the Mission Snapshots composed *)
(* from them.  A fact is [source, n]: n is the revision it states, and the *)
(* n of an environment fact is also the index of its environment event.    *)
(*                                                                         *)
(* A publisher draws the topic's next sequence and publishes with it in a  *)
(* second step; a publication in between makes the draw stale and the      *)
(* transport refuses it ("event sequence conflicts").  The environment     *)
(* holds its own lock from its event to its fact, and retries once.  The   *)
(* agents' calls leave only their effects: a command sent, the FSM moved.  *)
(***************************************************************************)
EXTENDS Naturals, Sequences

CONSTANTS
  MaxLive,      \* bound on live environment events (commands applied and ticks)
  MaxBeats,     \* bound on Maneuver heartbeats
  MaxReplans,   \* bound on replans
  MaxObserved,  \* bound on event observations not yet ingested
  None

Sources == {"plan", "env", "fsm", "active", "belief"}
Kinds == {"planning", "live"}

(* Who holds the environment's lock, whether its sequence is still the     *)
(* next one; and what the coordinator has drawn a sequence for.            *)
Holder == [by: {"apply", "tick", "view"}, fresh: BOOLEAN, retried: BOOLEAN]
Drawn == [source: Sources \ {"env"}, n: Nat, fresh: BOOLEAN]

ASSUME ContextAssumption ==
  /\ {MaxLive, MaxBeats, MaxReplans, MaxObserved} \subseteq Nat
  /\ None \notin Holder \cup Drawn

VARIABLES
  mode,        \* [producer, joint34, believes]: how the mission was composed
  todo,        \* the steps left to the coordinator; empty once run has returned
  events,      \* the environment events: the kind of view each holds
  latest,      \* index of latest_environment_event
  hasManeuver, \* has_current_maneuver
  commands,    \* Maneuver commands not yet consumed by the environment
  lock,        \* None or the publication that holds the environment's lock
  running,     \* the producer thread is running
  failed,      \* the producer thread has failed
  observed,    \* event observations: queued by ticks, and pending for Maneuver
  queue,       \* context facts not yet received by the coordinator
  draft,       \* None or the fact the coordinator has drawn a sequence for
  facts,       \* self._facts: the revision known of each source, 0 for none
  snapshot,    \* self._last_snapshot: the revision it holds of each source
  authority,   \* [plan, fsm, belief]: the revision each owner has published last
  evidence,    \* latest when the coordinator last looked at it
  view,        \* the event of the last planning_view
  beats        \* Maneuver heartbeats so far

vars == <<mode, todo, events, latest, hasManeuver, commands, lock, running, failed, observed,
          queue, draft, facts, snapshot, authority, evidence, view, beats>>
world == <<events, latest, hasManeuver, commands, lock, running, failed, observed>>
context == <<facts, snapshot>>
ledger == <<mode, authority, evidence, view, beats>>

----------------------------------------------------------------------------
(* The coordinator's program, as the steps of its phases.                  *)

RuntimeFacts == <<"fsm", "look", "active">>   \* _publish_runtime_source_facts
UpdatesDrained == <<"ingest", "drain">>   \* _drain_environment_updates

HeartbeatOnOldStatus ==   \* mutant: the status published before the invocation is not stated
  <<"status", "look", "active", "drain", "invoke", "clock", "status">> \o RuntimeFacts \o UpdatesDrained
     \o RuntimeFacts \o <<"drain">>

Heartbeat ==   \* _run_maneuver_heartbeat
  <<"status">> \o RuntimeFacts \o <<"drain", "invoke", "clock", "status">> \o RuntimeFacts
     \o UpdatesDrained \o RuntimeFacts \o <<"drain">>

ReplanningUndrained ==   \* mutant: the planning view is not drained into the snapshot
  <<"view">> \o RuntimeFacts \o <<"replan", "clock">> \o UpdatesDrained

Replanning ==
  <<"view">> \o RuntimeFacts \o <<"drain", "replan", "clock">> \o UpdatesDrained

Adoption == <<"plan", "drain", "activate">> \o Heartbeat

Gate == <<"clock">> \o (IF mode.joint34 THEN <<>> ELSE <<"view">>) \o <<"assess">>

Init ==
  /\ mode \in [producer: BOOLEAN, joint34: BOOLEAN, believes: BOOLEAN]
  /\ todo = <<"plan">> \o RuntimeFacts \o <<"drain", "top">>
  /\ events = <<"planning">> /\ latest = 1 /\ hasManeuver = FALSE /\ commands = 0
  /\ lock = None /\ running = FALSE /\ failed = FALSE
  /\ observed = [queued |-> 0, pending |-> 0]
  /\ queue = <<>> /\ draft = None
  /\ facts = [s \in Sources |-> IF s = "env" THEN 1 ELSE 0] /\ snapshot = facts
  /\ authority = [plan |-> 1, fsm |-> 1, belief |-> 0]
  /\ evidence = 0 /\ view = 0 /\ beats = 0

At(step) == todo # <<>> /\ Head(todo) = step
Done == todo' = Tail(todo)

----------------------------------------------------------------------------
(* The environment.  Every publication of it runs under its lock, which    *)
(* each of its properties (current_time, has_current_maneuver,             *)
(* latest_environment_event) takes too.                                    *)

Begin(by, kind) ==
  /\ lock = None
  /\ events' = Append(events, kind)
  /\ lock' = [by |-> by, fresh |-> TRUE, retried |-> FALSE]

Producing == IF mode.producer THEN running /\ todo # <<>> ELSE At("advance")

LiveRoom == Len(SelectSeq(events, LAMBDA k : k = "live")) < MaxLive

(* consume_commands applies a command: apply_command.                      *)
Apply ==
  /\ Producing /\ commands > 0 /\ LiveRoom
  /\ Begin("apply", "live")
  /\ commands' = commands - 1 /\ hasManeuver' = TRUE
  /\ UNCHANGED <<todo, latest, running, failed, observed, queue, draft, context, ledger>>

(* tick, once no command was left to consume; one may have arrived since.  *)
(* What it senses is queued for drain_updates.                             *)
Tick ==
  /\ Producing /\ LiveRoom /\ (mode.producer \/ commands = 0)
  /\ Begin("tick", "live")
  /\ \E n \in (IF mode.believes THEN 0..(MaxObserved - observed.queued - observed.pending) ELSE {0}) :
       observed' = [observed EXCEPT !.queued = @ + n]
  /\ UNCHANGED <<todo, latest, hasManeuver, commands, running, failed, queue, draft, context,
                 ledger>>

EnvFactAhead == [source |-> "env", n |-> Len(events) + 1]   \* mutant: the next revision
EnvFact == [source |-> "env", n |-> Len(events)]

(* The second half of _publish_environment_data: the fact, or the refusal  *)
(* of a stale sequence, answered by one retry.                             *)
Publish ==
  /\ lock # None /\ lock.fresh
  /\ queue' = Append(queue, EnvFact)
  /\ draft' = IF draft = None THEN None ELSE [draft EXCEPT !.fresh = FALSE]
  /\ latest' = Len(events) /\ lock' = None
  /\ view' = IF lock.by = "view" THEN Len(events) ELSE view
  /\ todo' = CASE lock.by = "view" -> Tail(todo)
               [] lock.by = "tick" /\ ~mode.producer -> <<"top">>
               [] OTHER -> todo
  /\ UNCHANGED <<events, hasManeuver, commands, running, failed, observed, context, mode,
                 authority, evidence, beats>>

Retry ==
  /\ lock # None /\ ~lock.fresh /\ ~lock.retried
  /\ lock' = [lock EXCEPT !.fresh = TRUE, !.retried = TRUE]
  /\ UNCHANGED <<todo, events, latest, hasManeuver, commands, running, failed, observed, queue,
                 draft, context, ledger>>

ProducerFails ==
  /\ lock # None /\ ~lock.fresh /\ lock.retried
  /\ lock' = None /\ failed' = TRUE /\ running' = FALSE
  /\ UNCHANGED <<todo, events, latest, hasManeuver, commands, observed, queue, draft, context,
                 ledger>>

(* planning_view.  Nothing is published when the last view was the same.   *)
PlanningView ==
  /\ At("view") /\ lock = None
  /\ IF events[Len(events)] = "planning"
     THEN latest' = Len(events) /\ view' = Len(events) /\ Done /\ UNCHANGED <<events, lock>>
     ELSE Begin("view", "planning") /\ UNCHANGED <<latest, view, todo>>
  /\ UNCHANGED <<hasManeuver, commands, running, failed, observed, queue, draft, context, mode,
                 authority, evidence, beats>>

----------------------------------------------------------------------------
(* The coordinator's publications: the draw, then the publication.  It     *)
(* states an active maneuver only once the environment has one.            *)

NextRevision(source) ==
  CASE source = "plan" -> facts.plan + 1
    [] source = "fsm" -> authority.fsm
    [] source = "active" -> evidence
    [] source = "belief" -> authority.belief + 1

Draw(source) ==
  /\ At(source) /\ draft = None
  /\ source = "active" => lock = None /\ hasManeuver
  /\ draft' = [source |-> source, n |-> NextRevision(source), fresh |-> TRUE]
  /\ UNCHANGED <<todo, world, queue, context, ledger>>

NothingActive ==
  /\ At("active") /\ lock = None /\ draft = None /\ ~hasManeuver /\ Done
  /\ UNCHANGED <<world, queue, draft, context, ledger>>

Look ==   \* latest_environment_event
  /\ At("look") /\ lock = None /\ Done
  /\ evidence' = latest
  /\ UNCHANGED <<world, queue, draft, context, mode, authority, view, beats>>

State ==
  /\ draft # None /\ draft.fresh
  /\ queue' = Append(queue, [source |-> draft.source, n |-> draft.n])
  /\ authority' = IF draft.source = "belief" THEN [authority EXCEPT !.belief = draft.n]
                  ELSE authority
  /\ draft' = None /\ Done
  /\ lock' = IF lock = None THEN None ELSE [lock EXCEPT !.fresh = FALSE]
  /\ UNCHANGED <<events, latest, hasManeuver, commands, running, failed, observed, context, mode,
                 evidence, view, beats>>

(* On a stale sequence the belief service draws again, as often as needed; *)
(* the coordinator's own publication raises, and the mission ends.         *)
Redraw ==
  /\ draft # None /\ ~draft.fresh /\ draft.source = "belief"
  /\ draft' = [draft EXCEPT !.fresh = TRUE]
  /\ UNCHANGED <<todo, world, queue, context, ledger>>

MissionFails ==
  /\ draft # None /\ ~draft.fresh /\ draft.source # "belief"
  /\ draft' = None /\ todo' = <<>>
  /\ UNCHANGED <<world, queue, context, ledger>>

----------------------------------------------------------------------------
(* drain_to_latest: every pending fact is handled; one that is news makes  *)
(* a new Mission Snapshot.                                                 *)

ComposedAsStated(known) == known   \* mutant: the active maneuver is the fact stated last

Composed(known) ==
  IF hasManeuver THEN [known EXCEPT !.active = known.env] ELSE known

HandleUnlocked(fact) ==   \* mutant: has_current_maneuver does not take the environment's lock
  IF fact.n <= facts[fact.source] THEN UNCHANGED context
  ELSE /\ facts' = [facts EXCEPT ![fact.source] = fact.n]
       /\ snapshot' = Composed(facts')

Handle(fact) ==
  IF fact.n <= facts[fact.source] THEN UNCHANGED context
  ELSE /\ lock = None
       /\ facts' = [facts EXCEPT ![fact.source] = fact.n]
       /\ snapshot' = Composed(facts')

Receive ==
  /\ At("drain") /\ queue # <<>>
  /\ Handle(Head(queue)) /\ queue' = Tail(queue)
  /\ UNCHANGED <<todo, world, draft, ledger>>

Drained ==
  /\ At("drain") /\ queue = <<>> /\ Done
  /\ UNCHANGED <<world, queue, draft, context, ledger>>

(* drain_updates hands the observations of the queued ticks to Maneuver.   *)
Ingest ==
  /\ At("ingest") /\ Done
  /\ observed' = [queued |-> 0, pending |-> observed.pending + observed.queued]
  /\ UNCHANGED <<events, latest, hasManeuver, commands, lock, running, failed, queue, draft,
                 context, ledger>>

----------------------------------------------------------------------------
(* The loop.                                                               *)

Top ==
  /\ At("top")
  /\ todo' = IF failed THEN <<>> ELSE UpdatesDrained \o <<"clock", "wake">>
  /\ UNCHANGED <<world, queue, draft, context, ledger>>

(* Reading current_time waits for the environment's lock.                  *)
Clock ==
  /\ At("clock") /\ lock = None /\ Done
  /\ UNCHANGED <<world, queue, draft, context, ledger>>

(* Triggers may be pending; the first pass always has the periodic one.    *)
Wake ==
  /\ At("wake")
  /\ \/ beats < MaxBeats /\ todo' = Heartbeat \o Gate
     \/ beats > 0 /\ todo' = Gate
  /\ UNCHANGED <<world, queue, draft, context, ledger>>

(* Every read of the FSM's status publishes it anew.                       *)
PublishStatus ==
  /\ At("status") /\ Done
  /\ authority' = [authority EXCEPT !.fsm = @ + 1]
  /\ UNCHANGED <<world, queue, draft, context, mode, evidence, view, beats>>

(* The invocation, and what the agent does with its tools: it may send a   *)
(* command, move the FSM, and ingest the pending observations, each of     *)
(* which publishes a belief.  The first one starts the producer.           *)
Invoke ==
  /\ At("invoke")
  /\ beats' = beats + 1
  /\ commands' \in {commands, commands + 1}
  /\ running' = (mode.producer /\ ~failed)
  /\ \E moved \in {0, 1} : authority' = [authority EXCEPT !.fsm = @ + moved]
  /\ \E n \in {0, observed.pending} :
       /\ todo' = [i \in 1..n |-> "belief"] \o Tail(todo)
       /\ observed' = [observed EXCEPT !.pending = @ - n]
  /\ UNCHANGED <<events, latest, hasManeuver, lock, failed, queue, draft, context, mode,
                 evidence, view>>

(* The gates, and Hyper when one of them or a request asks for it.         *)
Assess ==
  /\ At("assess")
  /\ todo' \in {<<"advance">>, <<"hyper", "clock">> \o UpdatesDrained \o <<"decide">>}
  /\ UNCHANGED <<world, queue, draft, context, ledger>>

Decide ==
  /\ At("decide")
  /\ \/ todo' = <<"advance">>
     \/ authority.plan <= MaxReplans /\ todo' = Replanning \o <<"adopt">>
  /\ UNCHANGED <<world, queue, draft, context, ledger>>

(* The workflow may return no replacement.                                 *)
Adopt ==
  /\ At("adopt")
  /\ \/ todo' = <<"advance">>
     \/ beats < MaxBeats /\ todo' = Adoption \o <<"advance">>
  /\ UNCHANGED <<world, queue, draft, context, ledger>>

Think ==   \* a Hyper heartbeat or the replan workflow
  /\ (At("hyper") \/ At("replan")) /\ Done
  /\ UNCHANGED <<world, queue, draft, context, ledger>>

Activate ==
  /\ At("activate") /\ Done
  /\ authority' = [authority EXCEPT !.plan = @ + 1, !.fsm = @ + 1]
  /\ UNCHANGED <<world, queue, draft, context, mode, evidence, view, beats>>

(* The end of a pass: the mission has ended, or another pass follows, of   *)
(* the time limit's last triggers or once the producer has an update.  A   *)
(* coordinator that owns time ticks instead (Tick).                        *)
Advance ==
  /\ At("advance") /\ lock = None
  /\ todo' \in {<<>>, <<"top">>}
  /\ UNCHANGED <<world, queue, draft, context, ledger>>

Terminated == todo = <<>> /\ lock = None /\ UNCHANGED vars

Next ==
  \/ Apply \/ Tick \/ Publish \/ Retry \/ ProducerFails \/ PlanningView
  \/ (\E source \in Sources : Draw(source)) \/ Look \/ NothingActive \/ State \/ Redraw \/ MissionFails
  \/ Receive \/ Drained \/ Ingest \/ Top \/ Clock \/ Wake \/ PublishStatus \/ Invoke
  \/ Assess \/ Decide \/ Adopt \/ Think \/ Activate \/ Advance \/ Terminated

Spec == Init /\ [][Next]_vars

----------------------------------------------------------------------------
Steps == {"plan", "fsm", "look", "active", "belief", "drain", "ingest", "status", "invoke", "clock",
          "view", "replan", "activate", "assess", "hyper", "decide", "adopt", "advance", "top",
          "wake"}

(* Every variable has its type, and no fact or snapshot names an           *)
(* environment event that was not published.                               *)
TypeOK ==
  /\ mode \in [producer: BOOLEAN, joint34: BOOLEAN, believes: BOOLEAN]
  /\ todo \in Seq(Steps) /\ events \in Seq(Kinds)
  /\ {latest, evidence, view} \subseteq 0..Len(events)
  /\ {hasManeuver, running, failed} \subseteq BOOLEAN
  /\ {commands, beats} \subseteq Nat /\ observed \in [queued: Nat, pending: Nat]
  /\ lock \in Holder \cup {None} /\ draft \in Drawn \cup {None}
  /\ queue \in Seq([source: Sources, n: Nat])
  /\ facts \in [Sources -> Nat] /\ snapshot \in [Sources -> Nat]
  /\ {facts.env, facts.active, snapshot.env} \subseteq 0..Len(events)
  /\ authority \in [plan: Nat, fsm: Nat, belief: Nat]

(* "Mission Snapshot environment and active maneuver are incoherent":      *)
(* _resolve_environment raises on a snapshot whose active maneuver is of   *)
(* another environment event than its environment, so no composed snapshot *)
(* may be one, however the two publishers' facts interleave.               *)
SnapshotsCoherent == snapshot.active # 0 => snapshot.active = snapshot.env

(* Fresh authority: Maneuver is invoked with a snapshot of the active plan *)
(* revision, the last published FSM status and the last published belief,  *)
(* and with no older an environment than the coordinator last looked at.   *)
InvocationIsCurrent ==
  At("invoke") =>
    /\ snapshot.plan = authority.plan /\ snapshot.fsm = authority.fsm
    /\ snapshot.belief = authority.belief /\ snapshot.env >= evidence

(* When the coordinator owns time, a replan works on a snapshot of exactly *)
(* the planning view it is handed (tests/test_closed_loop_runtime.py).     *)
ReplanOnItsView == At("replan") /\ ~mode.producer => snapshot.env = view

(* The environment's single retry is enough unless a belief service        *)
(* publishes several beliefs in a row: between any two facts of its own,   *)
(* the coordinator waits for the environment's lock at least once.         *)
OneRetryIsEnough == failed => mode.believes

(* "Every ManeuverInvocation receives the latest live environment"         *)
(* (docs/design/mission1-environment-intake.md): violated, a planning view *)
(* is published as the environment and stays it until the next live event. *)
ManeuverSeesLiveView == At("invoke") => events[snapshot.env] = "live"
=============================================================================
