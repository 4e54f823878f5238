----------------------------- MODULE Supervision -----------------------------
(***************************************************************************)
(* What wakes the agents of one mission, and what becomes of what they ask *)
(* for: the loop of ContextCoordination.run with its triggers, its         *)
(* wake-ups (application/maneuver_wakeups.py) and its simulation limit,    *)
(* the communicate tool of Maneuver Control over the communication port    *)
(* (application/communication.py), and the Hyper supervisor                *)
(* (application/hyper_supervisor.py).                                      *)
(*                                                                         *)
(* The environment advances in its own thread, or in the loop, according   *)
(* to the ownership of the Environment Profile.  Evidence is counted: it   *)
(* changes when a report check, a sighting or a position fix appears.  A   *)
(* selection is the plan, state entry and Transition Intent Maneuver       *)
(* Control works under, with the deadline it declares.  Why a gate or a    *)
(* period asks Hyper, and what the agents decide, is a choice.             *)
(***************************************************************************)
EXTENDS Integers, FiniteSets, FiniteSetsExt, Sequences

CONSTANTS
  Missions,      \* what a run may be: [ownership, specialized, deadlines, evidence, feedback,
                 \* requests, plans, entries, gates]: the deadlines a selection may
                 \* declare (past Limit: none), and bounds on what may happen
  Limit,         \* simulation_limit_seconds, in ticks
  Interval,      \* maneuver_heartbeat_seconds, in ticks
  Parallel,      \* communicate calls in one message of the model
  None

Bounds == {"evidence", "feedback", "requests", "plans", "entries", "gates"}
ASSUME MissionsAssumption ==
  /\ \A m \in Missions : /\ m.ownership \in {"environment_driven", "coordinator_driven"}
                         /\ m.specialized \in BOOLEAN
                         /\ \A b \in Bounds : m[b] \in Nat
                         /\ m.deadlines \subseteq Nat
  /\ Limit \in Nat /\ Interval \in Nat \ {0} /\ Parallel \in Nat

VARIABLES
  mode,          \* of Missions: ownership, specialized_replan_mode, and the bounds
  time,          \* current_time
  evidence,      \* what the environment shows, counted
  feedbacks,     \* terminal maneuver feedbacks so far
  producer,      \* "idle", "running", "ticked" (a tick not queued yet), "stopped"
  unqueued,      \* the feedback of that tick, or 0
  updates,       \* ticks queued and not drained: the feedback of each, or 0
  snapshot,      \* the evidence in the coordinator's snapshot
  stage,         \* where ContextCoordination.run stands
  triggers,      \* _pending_maneuver_triggers
  served,        \* feedbacks that were triggers of a heartbeat
  assessed,      \* [time, evidence] of the last heartbeat's invocation
  lastPeriodic,  \* last_maneuver_periodic
  deadline,      \* of the current selection, or Never
  wake,          \* ManeuverWakeups: [fresh, fired, signal]; fresh: another selection
  limitAssessed, \* simulation_limit_assessed
  plan, entry, terminal,
  calls,         \* communicate calls under way, by slot
  recorded,      \* entries of the execution records
  told,          \* [id, required] whose call returned: the agent takes them as delivered
  answered,      \* message identities with an outcome
  pending,       \* the Hyper supervisor's _pending
  received,      \* every request it ever queued; their identities are its _seen
  decision,      \* decided and not published yet, or None
  decisions,     \* published, those that answer requests
  gates          \* gate and period triggers of Hyper so far

world == <<time, evidence, feedbacks, producer, unqueued>>
waking == <<lastPeriodic, deadline, wake>>
asking == <<calls, recorded, told, answered, pending, received>>
revision == <<plan, entry, terminal>>
deciding == <<decision, decisions>>
vars == <<mode, world, updates, snapshot, stage, triggers, served, assessed, waking,
          limitAssessed, revision, asking, deciding, gates>>

Slots == 1..Parallel
Never == Limit + 1
Over == {"terminal", "limit", "failed"}
Feedback(f) == <<"environment", f>>
NoCall == [step |-> "none", id |-> <<"none", 0, 0>>, required |-> FALSE]

Init ==
  /\ mode \in Missions
  /\ time = 0 /\ evidence = 0 /\ feedbacks = 0 /\ producer = "idle" /\ unqueued = 0
  /\ updates = <<>> /\ snapshot = 0
  /\ stage = "top" /\ triggers = {} /\ served = {}
  /\ assessed = [time |-> -Interval, evidence |-> 0]
  /\ lastPeriodic = -Interval
  /\ deadline = Never /\ wake = [fresh |-> TRUE, fired |-> FALSE, signal |-> 0]
  /\ limitAssessed = FALSE
  /\ plan = 1 /\ entry = 1 /\ terminal = FALSE
  /\ calls = [s \in Slots |-> NoCall] /\ recorded = 0 /\ told = {} /\ answered = {}
  /\ pending = {} /\ received = {}
  /\ decision = None /\ decisions = <<>> /\ gates = 0

----------------------------------------------------------------------------
(* The environment.                                                        *)

(* A tick advances the clock and publishes the environment under one lock; *)
(* it may show new evidence, and it may end the maneuver under way.        *)
Ticked ==
  /\ time' = time + 1
  /\ evidence' \in {e \in {evidence, evidence + 1} : e <= mode.evidence}
  /\ feedbacks' \in {f \in {feedbacks, feedbacks + 1} : f <= mode.feedback}
FeedbackOfTick == IF feedbacks' > feedbacks THEN feedbacks' ELSE 0

Tick ==
  /\ mode.ownership = "environment_driven" /\ producer = "running"
  /\ Ticked
  /\ producer' = "ticked" /\ unqueued' = FeedbackOfTick
  /\ UNCHANGED <<mode, updates, snapshot, stage, triggers, served, assessed, waking,
                 limitAssessed, revision, asking, deciding, gates>>

(* The result is queued after that lock is released; the thread ends at    *)
(* the limit.                                                              *)
Enqueue ==
  /\ producer = "ticked"
  /\ updates' = Append(updates, unqueued) /\ unqueued' = 0
  /\ producer' = IF time >= Limit THEN "stopped" ELSE "running"
  /\ UNCHANGED <<mode, time, evidence, feedbacks, snapshot, stage, triggers, served, assessed,
                 waking, limitAssessed, revision, asking, deciding, gates>>

----------------------------------------------------------------------------
(* Triggers and wake-ups.                                                  *)

(* _drain_environment_updates: the queued ticks, then the context topic.   *)
(* Feedback of the active maneuver and superseded feedback wake nobody;    *)
(* they are not counted.                                                   *)
Reported == {Feedback(f) : f \in {updates[i] : i \in DOMAIN updates} \ {0}}
Drained ==
  /\ snapshot' = evidence /\ updates' = <<>>
  /\ triggers' = triggers \cup Reported

AnchoredAtCompletion(beat) == time   \* mutant: the period counts from the end of the heartbeat

(* The period counts from the evidence the last heartbeat was given.       *)
Anchored(beat) == beat.time

(* _next_periodic: the last boundary that has passed since.                *)
Boundary == lastPeriodic + ((time - lastPeriodic) \div Interval) * Interval
PeriodicDue == Boundary > lastPeriodic

(* ManeuverWakeups.due: another selection forgets what had fired and what  *)
(* was seen; a deadline fires once, a change when there was a value before.*)
DeadlineDue == deadline <= time /\ (wake.fresh \/ ~wake.fired)
Changed == ~wake.fresh /\ wake.signal # snapshot
Woken ==
  wake' = [fresh |-> FALSE, fired |-> DeadlineDue \/ (wake.fired /\ ~wake.fresh),
           signal |-> snapshot]

When(condition, trigger) == IF condition THEN {trigger} ELSE {}
Due == triggers \cup When(DeadlineDue, <<"deadline", 0>>) \cup When(Changed, <<"evidence", 0>>)
         \cup When(PeriodicDue, <<"periodic", 0>>)

(* _run_maneuver_heartbeat up to the provider: the status is published,    *)
(* the context drained, and the invocation built from it.                  *)
Invoked(called, then) ==
  /\ snapshot' = evidence
  /\ assessed' = [time |-> time, evidence |-> evidence]
  /\ served' = served \cup {f \in 1..mode.feedback : Feedback(f) \in called}
  /\ triggers' = {}
  /\ stage' = then

----------------------------------------------------------------------------
(* The loop.                                                               *)

Drain ==
  /\ stage = "top"
  /\ Drained
  /\ stage' = "assess"
  /\ UNCHANGED <<mode, world, served, assessed, waking, limitAssessed, revision, asking, deciding, gates>>

(* With triggers, a heartbeat; the first one starts the environment.       *)
Assess ==
  /\ stage = "assess"
  /\ Woken
  /\ IF Due = {}
     THEN /\ stage' = "gate"
          /\ UNCHANGED <<producer, snapshot, assessed, served, triggers>>
     ELSE /\ Invoked(Due, "heartbeat")
          /\ producer' = IF producer = "idle" /\ mode.ownership = "environment_driven"
                         THEN "running" ELSE producer
  /\ UNCHANGED <<mode, time, evidence, feedbacks, unqueued, updates, lastPeriodic, deadline,
                 limitAssessed, revision, asking, deciding, gates>>

----------------------------------------------------------------------------
(* What Maneuver Control does in a heartbeat.                              *)

Acting == stage \in {"heartbeat", "reconciling"}

(* set_transition_target: another intent, with its own deadline.           *)
Reselect(d) ==
  /\ Acting
  /\ deadline' = d /\ wake' = [wake EXCEPT !.fresh = TRUE]
  /\ UNCHANGED <<mode, world, updates, snapshot, stage, triggers, served, assessed, lastPeriodic,
                 limitAssessed, revision, asking, deciding, gates>>

(* transition_fsm: another state entry, perhaps of a terminal state.       *)
Move(d, ends) ==
  /\ Acting /\ entry < mode.entries /\ ~terminal
  /\ entry' = entry + 1 /\ terminal' = ends
  /\ deadline' = d /\ wake' = [wake EXCEPT !.fresh = TRUE]
  /\ UNCHANGED <<mode, world, updates, snapshot, stage, triggers, served, assessed, lastPeriodic,
                 limitAssessed, plan, asking, deciding, gates>>

IdentityOfEntry(policy) == <<"message", plan, entry>>   \* mutant: no sequence number

(* communicate: an evaluation is identified by the state entry, any other  *)
(* message by the length of the execution record, read without the lock    *)
(* the other tools hold.                                                   *)
Identity(policy) ==
  IF policy = "once_per_state_entry" THEN <<"evaluation", plan, entry>>
  ELSE <<"message", recorded + 1, 0>>

(* TransportCommunicationPort.request: an outcome on file answers the      *)
(* message, and so does a call under way with the same identity; else the  *)
(* message is held for its handler.                                        *)
Underway == {s \in Slots : calls[s].step # "none"}
InFlight(id) == \E s \in Slots : calls[s].step = "held" /\ calls[s].id = id

Communicate(s, policy, required) ==
  /\ Acting /\ calls[s].step = "none"
  /\ recorded + Cardinality(Underway) < mode.requests
  /\ LET id == Identity(policy)
     IN calls' = [calls EXCEPT ![s] =
          [step |-> IF id \in answered \/ InFlight(id) THEN "returned" ELSE "held",
           id |-> id, required |-> required]]
  /\ UNCHANGED <<mode, world, updates, snapshot, stage, triggers, served, assessed, waking,
                 limitAssessed, revision, recorded, told, answered, pending, received, deciding, gates>>

(* With the identity's lock: the outcome is looked up again, the handler   *)
(* queues the request unless it knows its identity, the outcome is filed.  *)
Seen == {r.id : r \in received}
Handle(s) ==
  /\ calls[s].step = "held"
  /\ LET new == When(calls[s].id \notin answered \cup Seen,
                     [id |-> calls[s].id, required |-> calls[s].required])
     IN pending' = pending \cup new /\ received' = received \cup new
  /\ answered' = answered \cup {calls[s].id}
  /\ calls' = [calls EXCEPT ![s].step = "returned"]
  /\ UNCHANGED <<mode, world, updates, snapshot, stage, triggers, served, assessed, waking,
                 limitAssessed, revision, recorded, told, deciding, gates>>

Return(s) ==
  /\ calls[s].step = "returned"
  /\ told' = told \cup {[id |-> calls[s].id, required |-> calls[s].required]}
  /\ recorded' = recorded + 1
  /\ calls' = [calls EXCEPT ![s] = NoCall]
  /\ UNCHANGED <<mode, world, updates, snapshot, stage, triggers, served, assessed, waking,
                 limitAssessed, revision, answered, pending, received, deciding, gates>>

EndAndClear ==   \* mutant: the triggers are cleared when the heartbeat is over
  /\ Acting /\ Underway = {}
  /\ snapshot' = evidence /\ updates' = <<>> /\ triggers' = {}
  /\ lastPeriodic' = Anchored(assessed)
  /\ stage' = IF stage = "heartbeat" THEN "gate" ELSE "tail"
  /\ UNCHANGED <<mode, world, served, assessed, deadline, wake, limitAssessed, revision, asking,
                 deciding, gates>>

EndHeartbeat ==
  /\ Acting /\ Underway = {}
  /\ Drained
  /\ lastPeriodic' = Anchored(assessed)
  /\ stage' = IF stage = "heartbeat" THEN "gate" ELSE "tail"
  /\ UNCHANGED <<mode, world, served, assessed, deadline, wake, limitAssessed, revision, asking,
                 deciding, gates>>

(* A tool, the provider or a publication raises, and run ends with it.     *)
Fail ==
  /\ stage \in {"heartbeat", "reconciling", "publishing"}
  /\ stage' = "failed"
  /\ UNCHANGED <<mode, world, updates, snapshot, triggers, served, assessed, waking,
                 limitAssessed, revision, asking, deciding, gates>>

----------------------------------------------------------------------------
(* Hyper.                                                                  *)

(* Gates and the Hyper period ask for a decision, and so do requests; the  *)
(* gates of Missions 3 and 4 wake Maneuver Control as well.                *)
Gate(gate) ==
  /\ stage = "gate"
  /\ gate # "none" => gates < mode.gates
  /\ gate = "both" => mode.specialized
  /\ gates' = IF gate = "none" THEN gates ELSE gates + 1
  /\ triggers' = triggers \cup When(gate = "both", <<"gate", gates'>>)
  /\ stage' = IF gate # "none" \/ pending # {} THEN "deciding" ELSE "tail"
  /\ UNCHANGED <<mode, world, updates, snapshot, served, assessed, waking, limitAssessed,
                 revision, asking, deciding>>

RequiredByAll == pending # {} /\ \A r \in pending : r.required   \* mutant: one advisory request weakens the others

(* _coalesce: one request that needs a reachable plan makes the coalesced  *)
(* one need it.                                                            *)
Required == \E r \in pending : r.required

(* HyperSupervisor.heartbeat holds the mission's lock throughout; requests *)
(* leave the queue before the decision is published.                       *)
Decide(replan) ==
  /\ stage = "deciding"
  /\ Required => replan
  /\ decision' = [plan |-> plan, requests |-> {r.id : r \in pending}, replan |-> replan]
  /\ pending' = {}
  /\ stage' = "publishing"
  /\ UNCHANGED <<mode, world, updates, snapshot, triggers, served, assessed, waking, limitAssessed,
                 revision, calls, recorded, told, answered, received, decisions, gates>>

PublishDecision ==
  /\ stage = "publishing"
  /\ decisions' = IF decision.requests = {} THEN decisions ELSE Append(decisions, decision)
  /\ decision' = None
  /\ Drained
  /\ stage' = IF decision.replan THEN "replanning" ELSE "tail"
  /\ UNCHANGED <<mode, world, served, assessed, waking, limitAssessed, revision, asking, gates>>

(* The replan workflow is refused; the plan stays.                         *)
KeepPlan ==
  /\ stage = "replanning"
  /\ Drained
  /\ stage' = "tail"
  /\ UNCHANGED <<mode, world, served, assessed, waking, limitAssessed, revision, asking, deciding, gates>>

(* A new revision is adopted and reconciled in a heartbeat of its own,     *)
(* which takes the pending triggers along.                                 *)
Adopt(d) ==
  /\ stage = "replanning" /\ plan < mode.plans
  /\ plan' = plan + 1 /\ entry' = 1 /\ terminal' = FALSE
  /\ deadline' = d /\ wake' = [wake EXCEPT !.fresh = TRUE]
  /\ updates' = <<>>
  /\ Invoked(triggers \cup Reported, "reconciling")
  /\ UNCHANGED <<mode, world, lastPeriodic, limitAssessed, asking, deciding, gates>>

----------------------------------------------------------------------------
(* The end of a turn.                                                      *)

EndInTerminal ==
  /\ stage = "tail" /\ terminal
  /\ stage' = "terminal"
  /\ UNCHANGED <<mode, world, updates, snapshot, triggers, served, assessed, waking, limitAssessed,
                 revision, asking, deciding, gates>>

(* Before the limit: the environment's own thread goes on, and waiting for *)
(* its next update may time out; or the loop advances the environment.     *)
Wait ==
  /\ stage = "tail" /\ ~terminal /\ time < Limit
  /\ stage' = "top"
  /\ IF mode.ownership = "environment_driven"
     THEN UNCHANGED <<time, evidence, feedbacks, updates>>
     ELSE Ticked /\ updates' = Append(updates, FeedbackOfTick)
  /\ UNCHANGED <<mode, producer, unqueued, snapshot, triggers, served, assessed, waking,
                 limitAssessed, revision, asking, deciding, gates>>

AtLimit == stage = "tail" /\ ~terminal /\ time >= Limit

AssessAtLimitAgain ==   \* mutant: simulation_limit_assessed is never set
  /\ AtLimit /\ mode.specialized /\ ~limitAssessed
  /\ triggers' = triggers \cup {<<"limit", 0>>}
  /\ stage' = "top"
  /\ UNCHANGED <<mode, world, updates, snapshot, served, assessed, waking, limitAssessed, revision,
                 asking, deciding, gates>>

(* At the limit a specialized mission is assessed once more.               *)
AssessAtLimit ==
  /\ AtLimit /\ mode.specialized /\ ~limitAssessed
  /\ triggers' = triggers \cup {<<"limit", 0>>}
  /\ limitAssessed' = TRUE
  /\ stage' = "top"
  /\ UNCHANGED <<mode, world, updates, snapshot, served, assessed, waking, revision, asking, deciding, gates>>

(* Otherwise only triggers that are pending, or a period that is due, keep *)
(* the loop going.                                                         *)
Stop ==
  /\ AtLimit /\ (mode.specialized => limitAssessed)
  /\ triggers' = triggers \cup When(PeriodicDue, <<"periodic", 0>>)
  /\ lastPeriodic' = IF PeriodicDue THEN Boundary ELSE lastPeriodic
  /\ stage' = IF triggers' # {} THEN "top" ELSE "limit"
  /\ UNCHANGED <<mode, world, updates, snapshot, served, assessed, deadline, wake, limitAssessed,
                 revision, asking, deciding, gates>>

----------------------------------------------------------------------------
Producing == Tick \/ Enqueue
Calling == \E s \in Slots : Handle(s) \/ Return(s)
Choosing ==
  \/ \E d \in mode.deadlines : Reselect(d) \/ \E ends \in BOOLEAN : Move(d, ends)
  \/ \E s \in Slots, policy \in {"unrestricted", "once_per_state_entry"}, required \in BOOLEAN :
       Communicate(s, policy, required)
Looping ==
  \/ Drain \/ Assess \/ EndHeartbeat
  \/ \E gate \in {"none", "hyper", "both"} : Gate(gate)
  \/ \E replan \in BOOLEAN : Decide(replan)
  \/ PublishDecision \/ KeepPlan \/ (\E d \in mode.deadlines : Adopt(d))
  \/ EndInTerminal \/ Wait \/ AssessAtLimit \/ Stop

Next == Producing \/ Calling \/ Choosing \/ Looping \/ Fail

Spec == Init /\ [][Next]_vars

(* The producer thread runs on its cadence, a tool call comes to an end,   *)
(* an agent's turn is bounded, and the loop goes on.                       *)
FairSpec == Spec /\ WF_vars(Producing) /\ WF_vars(Calling) /\ WF_vars(Looping)
----------------------------------------------------------------------------
(* A replan request is considered exactly once: while the mission goes on  *)
(* it is pending, being published, or named by one published decision; and *)
(* a request that needs a reachable plan is never answered without a       *)
(* replan, whatever it was coalesced with.                                 *)
RequestsAnswered ==
  /\ \A r \in received :
       \/ stage = "failed"
       \/ LET named == {i \in DOMAIN decisions : r.id \in decisions[i].requests}
              open == (r \in pending) \/ (stage = "publishing" /\ r.id \in decision.requests)
          IN IF open THEN named = {} ELSE Cardinality(named) = 1
  /\ \A i \in DOMAIN decisions, r \in received :
       r.id \in decisions[i].requests /\ r.required => decisions[i].replan

(* What the agent was told is delivered was queued by Hyper as it was      *)
(* asked; only an evaluation may have been delivered earlier in the same   *)
(* state entry.                                                            *)
RequestsReachHyper == \A c \in told : c \in received \/ c.id[1] = "evaluation"

(* The loop passes by a heartbeat only when nothing is overdue: evidence   *)
(* the agent has not been shown is younger than one period, although a new *)
(* selection makes ManeuverWakeups forget what it had seen, and a deadline *)
(* that has passed had passed at the last heartbeat.                       *)
NothingOverdue ==
  [][stage = "assess" /\ stage' = "gate" =>
       /\ snapshot # assessed.evidence => time < assessed.time + Interval
       /\ deadline <= time => deadline <= assessed.time]_vars

(* Terminal feedback is not lost on its way to a heartbeat: it is queued,  *)
(* a pending trigger, or was a trigger of a heartbeat; and the loop never  *)
(* stops at the limit on pending triggers.                                 *)
FeedbackAnswered ==
  /\ \A f \in 1..feedbacks :
       \/ f \in served \/ Feedback(f) \in triggers
       \/ unqueued = f \/ \E i \in DOMAIN updates : updates[i] = f
  /\ stage = "limit" => triggers = {}

(* Every tick that bears feedback is ingested before the mission ends at   *)
(* its limit (ADR 0013).                                                   *)
LastFeedbackIngested == stage = "limit" => \A f \in 1..feedbacks : f \in served

(* The loop ends: nothing at the limit can keep it going for ever.         *)
RunEnds == <>(stage \in Over)
=============================================================================
