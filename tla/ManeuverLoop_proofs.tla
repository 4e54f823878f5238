------------------------ MODULE ManeuverLoop_proofs ------------------------
(***************************************************************************)
(* Proofs about ManeuverLoop, for every set of charts and maneuvers and    *)
(* every bound: type correctness, the safety of transitions and commands,  *)
(* and the refinement of TransitionAuthority.                              *)
(***************************************************************************)
EXTENDS ManeuverLoop, TLAPS
----------------------------------------------------------------------------
(* What the journal operations return.                                     *)
LEMMA DropStaleType ==
  ASSUME TypeOK, DropStale
  PROVE  intent' \in Intent \cup {None} /\ published' \in Nat
<1>1. intent \in Intent \cup {None} /\ published \in Nat
  BY DEF TypeOK
<1>2. CASE Stale
  <2>1. intent \in Intent
    BY <1>1, <1>2 DEF Stale, Selected
  <2> QED
    BY <1>1, <1>2, <2>1 DEF DropStale, Intent
<1>3. CASE ~Stale
  BY <1>1, <1>3 DEF DropStale, journal
<1> QED
  BY <1>2, <1>3

LEMMA CandidateType ==
  ASSUME TypeOK, NEW t \in Candidates(chart, fsm.state)
  PROVE  t \in EdgeOf /\ t \in Transition /\ t.source = fsm.state
BY ChartsAssumption DEF TypeOK, Candidates, EdgeOf, Statechart

LEMMA CurrentType ==
  ASSUME TypeOK, Current # None
  PROVE  /\ Current = intent /\ intent \in Intent /\ intent.status = "selected"
         /\ Matches(intent, chart, fsm)
BY DEF TypeOK, Current, Valid, Selected

LEMMA AppliedType ==
  ASSUME NEW r \in ExecutionRecord(DecisionIds), NEW t \in Transition,
         NEW id \in DecisionIds
  PROVE  /\ Applied(r, t, id) \in ExecutionRecord(DecisionIds)
         /\ Applied(r, t, id).entry = r.entry + 1
         /\ Applied(r, t, id).state = t.target
         /\ Applied(r, t, id).plan = r.plan
BY DEF Applied, ExecutionRecord, Transition

LEMMA ActivatedType ==
  ASSUME NEW c \in Charts, NEW r \in ExecutionRecord(DecisionIds) \cup {None}
  PROVE  /\ Activated(c, r) \in ExecutionRecord(DecisionIds)
         /\ Activated(c, r).entry = IF r = None THEN 1 ELSE r.entry + 1
         /\ Activated(c, r).state = c.entry
         /\ Activated(c, r).plan = c.revision
BY ChartsAssumption DEF Activated, ExecutionRecord, Statechart

LEMMA MoveTyped ==
  ASSUME TypeOK, phase = "heartbeat", NEW t, MayTransition(t)
  PROVE  Move(t) \in MoveType
<1>1. hb \in Heartbeat /\ beats \in Nat
  BY DEF TypeOK
<1>2. t \in EdgeOf
  BY CandidateType DEF MayTransition
<1>3. intent \in Intent
  BY CurrentType DEF MayTransition
<1>4. fsm.entry \in Nat \ {0} /\ fsm.plan \in Nat \ {0}
  BY DEF TypeOK, ExecutionRecord
<1> QED
  BY <1>1, <1>2, <1>3, <1>4 DEF Move, MoveType, Intent, Heartbeat

(* Changing one field of a heartbeat's record changes nothing else in it.  *)
LEMMA HeartbeatUpdate ==
  ASSUME NEW h \in Heartbeat
  PROVE  /\ [h EXCEPT !.tools = @ + 1] \in Heartbeat
         /\ \A n \in Nat : [h EXCEPT !.chosen = @ \cup {n}] \in Heartbeat
         /\ [h EXCEPT !.moved = TRUE] \in Heartbeat
         /\ \A m \in Maneuvers : [h EXCEPT !.queued = @ \cup {m}] \in Heartbeat
         /\ [h EXCEPT !.raised = TRUE] \in Heartbeat
<1>1. [h EXCEPT !.tools = @ + 1] \in Heartbeat
  BY DEF Heartbeat
<1>2. \A n \in Nat : [h EXCEPT !.chosen = @ \cup {n}] \in Heartbeat
  BY DEF Heartbeat
<1>3. [h EXCEPT !.moved = TRUE] \in Heartbeat
  BY DEF Heartbeat
<1>4. \A m \in Maneuvers : [h EXCEPT !.queued = @ \cup {m}] \in Heartbeat
  BY DEF Heartbeat
<1>5. [h EXCEPT !.raised = TRUE] \in Heartbeat
  BY DEF Heartbeat
<1> QED
  BY <1>1, <1>2, <1>3, <1>4, <1>5

LEMMA RecordedType ==
  ASSUME NEW h \in Heartbeat
  PROVE  /\ Recorded(h) \in Heartbeat
         /\ \A n \in Nat : [Recorded(h) EXCEPT !.chosen = @ \cup {n}] \in Heartbeat
         /\ [Recorded(h) EXCEPT !.moved = TRUE] \in Heartbeat
         /\ \A m \in Maneuvers : [Recorded(h) EXCEPT !.queued = @ \cup {m}] \in Heartbeat
<1>1. Recorded(h) \in Heartbeat
  BY HeartbeatUpdate DEF Recorded
<1> QED
  BY <1>1, HeartbeatUpdate

LEMMA NewIntentType ==
  ASSUME TypeOK, NEW t \in EdgeOf, NEW n \in Nat \ {0}
  PROVE  NewIntent(t, n) \in Intent
BY DEF TypeOK, NewIntent, Intent, ExecutionRecord
----------------------------------------------------------------------------
LEMMA TypeInit == Init => TypeOK
<1> SUFFICES ASSUME Init PROVE TypeOK
  OBVIOUS
<1>1. chart \in Charts
  BY DEF Init
<1>2. fsm \in ExecutionRecord(DecisionIds)
  BY <1>1, ActivatedType DEF Init
<1> QED
  BY <1>1, <1>2 DEF Init, TypeOK, Life

LEMMA TypeStep == TypeOK /\ [Next]_vars => TypeOK'
<1> SUFFICES ASSUME TypeOK, [Next]_vars PROVE TypeOK'
  OBVIOUS
<1> USE DEF journal
<1>0. None \notin Heartbeat /\ None \notin Intent
  BY LoopAssumption
<1>1. CASE StartHeartbeat
  <2>1. VisibleLife \in [command: Nat, life: Life]
    BY DEF VisibleLife, TypeOK, Life, Terminal
  <2>2. (IF Current = None THEN 0 ELSE Current.id) \in Nat
    BY CurrentType DEF Intent
  <2>3. chart.revision \in Nat \ {0} /\ fsm.entry \in Nat \ {0}
    BY ChartsAssumption DEF TypeOK, Statechart, ExecutionRecord
  <2>4. hb' \in Heartbeat
    BY <1>1, <2>1, <2>2, <2>3 DEF StartHeartbeat, Heartbeat
  <2>5. intent' \in Intent \cup {None} /\ published' \in Nat
    BY <1>1, DropStaleType DEF StartHeartbeat
  <2>6. hb' # None /\ phase' = "heartbeat" /\ beats' \in Nat
    <3>1. hb' # None
      BY <1>0, <2>4
    <3> QED
      BY <1>1, <3>1 DEF StartHeartbeat, TypeOK
  <2>7. UNCHANGED <<chart, fsm, commands, env, moves>>
    BY <1>1 DEF StartHeartbeat
  <2> QED
    BY <2>4, <2>5, <2>6, <2>7 DEF TypeOK
<1>2. ASSUME NEW t, SetTransitionTarget(t) PROVE TypeOK'
  <2>1. hb \in Heartbeat /\ phase = "heartbeat"
    BY <1>2 DEF SetTransitionTarget, InTool, TypeOK
  <2>2. t \in EdgeOf
    BY <1>2, CandidateType DEF SetTransitionTarget
  <2>3. published \in Nat /\ (published + (IF Stale THEN 1 ELSE 0)) \in Nat
    BY DEF TypeOK
  <2>4. Current # None => Current.id \in Nat
    BY CurrentType DEF Intent
  <2> DEFINE n == published + (IF Stale THEN 1 ELSE 0)
  <2>5. CASE Current # None /\ Current.edge = t
    <3>1. hb' = [Recorded(hb) EXCEPT !.chosen = @ \cup {Current.id}] /\ UNCHANGED journal
      BY <1>2, <2>5 DEF SetTransitionTarget
    <3>2. hb' \in Heartbeat
      BY <3>1, <2>1, <2>4, <2>5, RecordedType
    <3> QED
      BY <1>2, <2>1, <3>1, <3>2, <1>0 DEF SetTransitionTarget, TypeOK
  <2>6. CASE ~(Current # None /\ Current.edge = t)
    <3>1. /\ hb' = [Recorded(hb) EXCEPT !.chosen = @ \cup {n + 1}]
          /\ intent' = NewIntent(t, n + 1) /\ published' = n + 1
      BY <1>2, <2>6 DEF SetTransitionTarget
    <3>2. n + 1 \in Nat \ {0}
      BY <2>3
    <3>3. hb' \in Heartbeat
      BY <3>1, <3>2, <2>1, RecordedType
    <3>4. intent' \in Intent /\ published' \in Nat
      BY <3>1, <3>2, <2>2, NewIntentType
    <3> QED
      BY <1>2, <2>1, <3>3, <3>4, <1>0 DEF SetTransitionTarget, TypeOK
  <2> QED
    BY <2>5, <2>6
<1>3. ASSUME NEW t, TransitionFSM(t) PROVE TypeOK'
  <2>1. hb \in Heartbeat /\ phase = "heartbeat" /\ beats \in Nat
    BY <1>3 DEF TransitionFSM, InTool, TypeOK
  <2>2. t \in Transition /\ intent \in Intent
    BY <1>3, CandidateType, CurrentType DEF TransitionFSM, MayTransition
  <2>3. DecisionId \in DecisionIds
    BY <2>1 DEF DecisionId, DecisionIds, Heartbeat
  <2>4. fsm' \in ExecutionRecord(DecisionIds)
    BY <1>3, <2>2, <2>3, AppliedType DEF TransitionFSM, TypeOK
  <2>5. moves' \in Seq(MoveType)
    BY <1>3, <2>1, MoveTyped DEF TransitionFSM, TypeOK
  <2>6. intent' \in Intent /\ published' \in Nat
    BY <1>3, <2>2, SMTT(30) DEF TransitionFSM, TypeOK, Intent
  <2>7. hb' \in Heartbeat
    BY <1>3, <2>1, RecordedType DEF TransitionFSM
  <2> QED
    BY <1>3, <2>1, <2>4, <2>5, <2>6, <2>7, <1>0 DEF TransitionFSM, TypeOK
<1>4. ASSUME NEW t, TransitionRaises(t) PROVE TypeOK'
  <2>1. hb \in Heartbeat /\ phase = "heartbeat" /\ beats \in Nat
    BY <1>4 DEF TransitionRaises, InTool, TypeOK
  <2>2. t \in Transition
    BY <1>4, CandidateType DEF TransitionRaises, MayTransition
  <2>3. DecisionId \in DecisionIds
    BY <2>1 DEF DecisionId, DecisionIds, Heartbeat
  <2>4. fsm' \in ExecutionRecord(DecisionIds)
    BY <1>4, <2>2, <2>3, AppliedType DEF TransitionRaises, TypeOK
  <2>5. moves' \in Seq(MoveType)
    BY <1>4, <2>1, MoveTyped DEF TransitionRaises, TypeOK
  <2>6. hb' \in Heartbeat
    BY <1>4, <2>1, HeartbeatUpdate DEF TransitionRaises
  <2> QED
    BY <1>4, <2>1, <2>4, <2>5, <2>6, <1>0 DEF TransitionRaises, TypeOK
<1>5. CASE RejectedTool
  <2>1. hb \in Heartbeat /\ phase = "heartbeat"
    BY <1>5 DEF RejectedTool, InTool, TypeOK
  <2>2. hb' \in Heartbeat
    BY <1>5, <2>1, RecordedType DEF RejectedTool
  <2>3. intent' \in Intent \cup {None} /\ published' \in Nat
    BY <1>5, DropStaleType DEF RejectedTool, TypeOK
  <2> QED
    BY <1>5, <2>1, <2>2, <2>3, <1>0 DEF RejectedTool, TypeOK
<1>6. ASSUME NEW m \in Maneuvers, Physical(m) PROVE TypeOK'
  <2>1. hb \in Heartbeat /\ phase = "heartbeat" /\ beats \in Nat
    BY <1>6 DEF Physical, InTool, TypeOK
  <2>2. hb' \in Heartbeat
    BY <1>6, <2>1, RecordedType DEF Physical
  <2>3. [id |-> <<beats, hb.tools + 1>>, plan |-> hb.plan, entry |-> fsm.entry, maneuver |-> m]
          \in CommandType
    BY <2>1 DEF CommandType, DecisionIds, Heartbeat, TypeOK, ExecutionRecord
  <2>4. commands \in Seq(CommandType) /\ env \in [consumed: Nat, latest: Nat, life: Life]
    BY DEF TypeOK
  <2>5. commands' \in Seq(CommandType) /\ Len(commands') >= Len(commands)
    BY <1>6, <2>3, <2>4 DEF Physical
  <2>6. env'.consumed <= Len(commands')
    BY <1>6, <2>4, <2>5 DEF Physical, TypeOK
  <2>7. UNCHANGED <<phase, chart, fsm, journal, beats, env, moves>>
    BY <1>6 DEF Physical
  <2> QED
    BY <1>0, <2>1, <2>2, <2>5, <2>6, <2>7 DEF TypeOK
<1>7. CASE EndHeartbeat
  <2>1. intent' \in Intent \cup {None} /\ published' \in Nat
    BY <1>7, DropStaleType DEF EndHeartbeat
  <2> QED
    BY <1>7, <2>1 DEF EndHeartbeat, TypeOK, AfterTurn
<1>8. CASE Review
  BY <1>8 DEF Review, TypeOK, AfterTurn
<1>9. CASE HeartbeatFails
  BY <1>9 DEF HeartbeatFails, TypeOK
<1>10. ASSUME NEW c \in Charts, Replan(c) PROVE TypeOK'
  <2>1. fsm' \in ExecutionRecord(DecisionIds)
    BY <1>10, ActivatedType DEF Replan, TypeOK
  <2>2. intent' \in Intent \cup {None} /\ published' \in Nat
    <3>1. CASE Selected(intent)
      <4>1. intent \in Intent
        BY <3>1 DEF Selected, TypeOK
      <4>2. [intent EXCEPT !.status = "invalidated"] \in Intent
        BY <4>1 DEF Intent
      <4> QED
        BY <1>10, <3>1, <4>2, SMTT(30) DEF Replan, TypeOK
    <3>2. CASE ~Selected(intent)
      BY <1>10, <3>2 DEF Replan, TypeOK
    <3> QED
      BY <3>1, <3>2
  <2> QED
    BY <1>10, <2>1, <2>2 DEF Replan, TypeOK
<1>11. CASE Consume
  BY <1>11 DEF Consume, TypeOK, Life
<1>12. CASE Finish
  BY <1>12 DEF Finish, TypeOK, Life, Terminal
<1>13. CASE UNCHANGED vars
  BY <1>13 DEF vars, TypeOK
<1> QED
  BY <1>1, <1>2, <1>3, <1>4, <1>5, <1>6, <1>7, <1>8, <1>9, <1>10, <1>11, <1>12, <1>13
  DEF Next, Tool

(* Every variable of the loop has its type in every reachable state.       *)
THEOREM TypeCorrect == Spec => []TypeOK
<1>1. Init => TypeOK
  BY TypeInit
<1>2. TypeOK /\ [Next]_vars => TypeOK'
  BY TypeStep
<1> QED
  BY <1>1, <1>2, PTL DEF Spec

----------------------------------------------------------------------------
(* What the invariants need to be inductive.                               *)

(* Every applied transition left an earlier state entry than the current   *)
(* one, and a heartbeat that has neither moved the FSM nor seen a tool     *)
(* raise still stands in the entry it was started for.                     *)
EntryFence ==
  /\ chart.revision = fsm.plan
  /\ \A i \in DOMAIN moves : moves[i].entry < fsm.entry /\ moves[i].beat <= beats
  /\ phase = "heartbeat" /\ ~hb.moved /\ ~hb.raised =>
       /\ hb.entry = fsm.entry
       /\ \A i \in DOMAIN moves : moves[i].beat < beats

(* A journal entry keeps the state entry it was selected for, so an intent *)
(* that has moved the FSM names an entry that is over.                     *)
IntentFence ==
  /\ intent # None => intent.id <= published
  /\ \A i \in DOMAIN moves :
       /\ moves[i].intent <= published
       /\ intent # None /\ intent.id = moves[i].intent => intent.entry = moves[i].entry

(* Terminal evidence shown to a heartbeat is of a command of its plan.     *)
FeedbackFence ==
  /\ env.life # "none" => env.latest # 0
  /\ phase = "heartbeat" /\ hb.evidence.life \in Terminal =>
       /\ hb.evidence.command \in DOMAIN commands
       /\ commands[hb.evidence.command].plan = hb.plan
  /\ \A i \in DOMAIN moves : moves[i].edge.feedback => moves[i].evidence \in DOMAIN commands

(* Identities in the queue are of earlier heartbeats, or of tool calls of  *)
(* this heartbeat that its record counts already.                          *)
CommandFence ==
  \A i \in DOMAIN commands :
    /\ commands[i].id[1] <= beats
    /\ phase = "heartbeat" /\ commands[i].id[1] = beats => commands[i].id[2] <= hb.tools

----------------------------------------------------------------------------
(* The two kinds of step: those that apply a transition, and the others.   *)

LEMMA MoveStep ==
  ASSUME TypeOK, NEW t, TransitionFSM(t) \/ TransitionRaises(t)
  PROVE  /\ phase = "heartbeat" /\ phase' = "heartbeat" /\ hb \in Heartbeat
         /\ MayTransition(t) /\ Move(t) \in MoveType
         /\ moves' = Append(moves, Move(t))
         /\ fsm'.entry = fsm.entry + 1 /\ fsm'.plan = fsm.plan /\ fsm'.state = t.target
         /\ UNCHANGED <<chart, beats, commands, env>>
         /\ hb'.moved \/ hb'.raised
         /\ hb'.evidence = hb.evidence /\ hb'.plan = hb.plan
         /\ hb'.tools \in Nat /\ hb'.tools >= hb.tools
         /\ intent \in Intent
         /\ intent'.id = intent.id /\ intent'.entry = intent.entry
         /\ published' >= published /\ published' \in Nat
<1>1. phase = "heartbeat" /\ hb \in Heartbeat /\ beats \in Nat /\ MayTransition(t)
  BY DEF TransitionFSM, TransitionRaises, InTool, TypeOK
<1>2. Move(t) \in MoveType
  BY <1>1, MoveTyped
<1>3. t \in Transition /\ intent \in Intent
  BY <1>1, CandidateType, CurrentType DEF MayTransition
<1>4. DecisionId \in DecisionIds
  BY <1>1 DEF DecisionId, DecisionIds, Heartbeat
<1>5. /\ fsm'.entry = fsm.entry + 1 /\ fsm'.plan = fsm.plan /\ fsm'.state = t.target
  BY <1>3, <1>4, AppliedType DEF TransitionFSM, TransitionRaises, TypeOK
<1>6. hb.tools \in Nat
  BY <1>1 DEF Heartbeat
<1>7. CASE TransitionFSM(t)
  <2>1. hb' = [Recorded(hb) EXCEPT !.moved = TRUE]
    BY <1>7 DEF TransitionFSM
  <2>2. /\ hb'.moved = TRUE /\ hb'.evidence = hb.evidence /\ hb'.plan = hb.plan
        /\ hb'.tools = hb.tools + 1
    BY <1>1, <2>1 DEF Recorded, Heartbeat
  <2>3. intent'.id = intent.id /\ intent'.entry = intent.entry /\ published' = published + 1
    BY <1>3, <1>7 DEF TransitionFSM, Intent
  <2> QED
    BY <1>1, <1>2, <1>3, <1>5, <1>6, <1>7, <2>2, <2>3 DEF TransitionFSM, TypeOK
<1>8. CASE TransitionRaises(t)
  <2>1. hb' = [hb EXCEPT !.raised = TRUE]
    BY <1>8 DEF TransitionRaises
  <2>2. /\ hb'.raised = TRUE /\ hb'.evidence = hb.evidence /\ hb'.plan = hb.plan
        /\ hb'.tools = hb.tools
    BY <1>1, <2>1 DEF Heartbeat
  <2> QED
    BY <1>1, <1>2, <1>3, <1>5, <1>6, <1>8, <2>2 DEF TransitionRaises, TypeOK, journal
<1> QED
  BY <1>7, <1>8

(* A call that is recorded and is no transition leaves the fields the      *)
(* invariants read as they are, and counts.                                *)
LEMMA RecordedKeeps ==
  ASSUME NEW h \in Heartbeat, NEW g,
         \/ g = Recorded(h)
         \/ \E n \in Nat : g = [Recorded(h) EXCEPT !.chosen = @ \cup {n}]
         \/ \E m \in Maneuvers : g = [Recorded(h) EXCEPT !.queued = @ \cup {m}]
  PROVE  /\ g.moved = h.moved /\ g.raised = h.raised /\ g.entry = h.entry
         /\ g.evidence = h.evidence /\ g.plan = h.plan
         /\ g.tools = h.tools + 1
<1>1. CASE g = Recorded(h)
  BY <1>1 DEF Recorded, Heartbeat
<1>2. ASSUME NEW n \in Nat, g = [Recorded(h) EXCEPT !.chosen = @ \cup {n}]
      PROVE  /\ g.moved = h.moved /\ g.raised = h.raised /\ g.entry = h.entry
             /\ g.evidence = h.evidence /\ g.plan = h.plan /\ g.tools = h.tools + 1
  BY <1>2 DEF Recorded, Heartbeat
<1>3. ASSUME NEW m \in Maneuvers, g = [Recorded(h) EXCEPT !.queued = @ \cup {m}]
      PROVE  /\ g.moved = h.moved /\ g.raised = h.raised /\ g.entry = h.entry
             /\ g.evidence = h.evidence /\ g.plan = h.plan /\ g.tools = h.tools + 1
  BY <1>3 DEF Recorded, Heartbeat
<1> QED
  BY <1>1, <1>2, <1>3

(* The heartbeat under way and what a call of it other than a transition   *)
(* leaves alone.                                                           *)
HeartbeatKept ==
  /\ phase = "heartbeat" /\ UNCHANGED <<chart, fsm, beats>>
  /\ hb'.moved = hb.moved /\ hb'.raised = hb.raised /\ hb'.entry = hb.entry
  /\ hb'.evidence = hb.evidence /\ hb'.plan = hb.plan
  /\ hb'.tools \in Nat /\ hb'.tools >= hb.tools

LEMMA OtherStep ==
  ASSUME TypeOK, [Next]_vars, ~\E t : TransitionFSM(t) \/ TransitionRaises(t)
  PROVE  /\ moves' = moves
         /\ \/ UNCHANGED <<chart, fsm>>
            \/ /\ phase' = "reconcile" /\ chart'.revision = fsm'.plan
               /\ fsm'.entry = fsm.entry + 1
         /\ StartHeartbeat \/ beats' = beats
         /\ phase' = "heartbeat" => StartHeartbeat \/ HeartbeatKept
         /\ commands' = commands \/ \E m \in Maneuvers : Physical(m)
         /\ env' = env \/ Consume \/ Finish
<1> USE DEF journal
<1>0. phase = "heartbeat" => hb \in Heartbeat /\ hb.tools \in Nat
  BY DEF TypeOK, Heartbeat
<1>1. CASE StartHeartbeat
  BY <1>1 DEF StartHeartbeat
<1>2. ASSUME NEW t, SetTransitionTarget(t)
      PROVE  HeartbeatKept /\ UNCHANGED <<phase, commands, env, moves>>
  <2>1. \/ hb' = [Recorded(hb) EXCEPT !.chosen = @ \cup {Current.id}] /\ Current # None
        \/ hb' = [Recorded(hb) EXCEPT !.chosen = @ \cup {published + (IF Stale THEN 1 ELSE 0) + 1}]
    BY <1>2 DEF SetTransitionTarget
  <2>2. /\ Current # None => Current.id \in Nat
        /\ (published + (IF Stale THEN 1 ELSE 0) + 1) \in Nat
    BY CurrentType DEF Intent, TypeOK
  <2>3. \E n \in Nat : hb' = [Recorded(hb) EXCEPT !.chosen = @ \cup {n}]
    BY <2>1, <2>2
  <2> QED
    BY <1>0, <1>2, <2>3, RecordedKeeps DEF SetTransitionTarget, InTool, HeartbeatKept
<1>3. CASE RejectedTool
  BY <1>0, <1>3, RecordedKeeps DEF RejectedTool, InTool, HeartbeatKept
<1>4. ASSUME NEW m \in Maneuvers, Physical(m)
      PROVE  HeartbeatKept /\ UNCHANGED <<phase, env, moves>>
  <2>1. \E x \in Maneuvers : hb' = [Recorded(hb) EXCEPT !.queued = @ \cup {x}]
    BY <1>4 DEF Physical
  <2> QED
    BY <1>0, <1>4, <2>1, RecordedKeeps DEF Physical, InTool, HeartbeatKept
<1>5. CASE EndHeartbeat
  BY <1>5 DEF EndHeartbeat, AfterTurn
<1>6. CASE Review
  BY <1>6 DEF Review, AfterTurn
<1>7. CASE HeartbeatFails
  BY <1>7 DEF HeartbeatFails
<1>8. ASSUME NEW c \in Charts, Replan(c)
      PROVE  /\ phase' = "reconcile" /\ chart'.revision = fsm'.plan
             /\ fsm'.entry = fsm.entry + 1 /\ UNCHANGED <<beats, commands, env, moves>>
  <2>1. fsm \in ExecutionRecord(DecisionIds) /\ fsm # None
    BY LoopAssumption DEF TypeOK
  <2> QED
    BY <1>8, <2>1, ActivatedType DEF Replan
<1>9. CASE Consume
  BY <1>0, <1>9 DEF Consume, HeartbeatKept
<1>10. CASE Finish
  BY <1>0, <1>10 DEF Finish, HeartbeatKept
<1>11. CASE UNCHANGED vars
  BY <1>0, <1>11 DEF vars, HeartbeatKept
<1> QED
  BY <1>1, <1>2, <1>3, <1>4, <1>5, <1>6, <1>7, <1>8, <1>9, <1>10, <1>11
  DEF Next, Tool, HeartbeatKept
----------------------------------------------------------------------------
(* At most one transition per heartbeat, judged on evidence of the very    *)
(* state entry it leaves.                                                  *)
OneMoveInv == EntryFence /\ EvidenceOfThisEntry /\ OneMovePerHeartbeat

LEMMA MovesTyped ==
  ASSUME TypeOK
  PROVE  \A i \in DOMAIN moves : moves[i] \in MoveType
BY DEF TypeOK

LEMMA AppendedMove ==
  ASSUME TypeOK, NEW x, moves' = Append(moves, x)
  PROVE  /\ DOMAIN moves' = DOMAIN moves \cup {Len(moves) + 1}
         /\ moves'[Len(moves) + 1] = x
         /\ \A i \in DOMAIN moves : moves'[i] = moves[i] /\ i < Len(moves) + 1
BY DEF TypeOK

LEMMA OneMoveInit == Init => OneMoveInv
<1> SUFFICES ASSUME Init PROVE OneMoveInv
  OBVIOUS
<1>1. chart.revision = fsm.plan
  BY ActivatedType DEF Init
<1> QED
  BY <1>1 DEF Init, OneMoveInv, EntryFence, EvidenceOfThisEntry, OneMovePerHeartbeat

LEMMA OneMoveStep == TypeOK /\ OneMoveInv /\ [Next]_vars => OneMoveInv'
<1> SUFFICES ASSUME TypeOK, OneMoveInv, [Next]_vars PROVE OneMoveInv'
  OBVIOUS
<1>0. /\ \A i \in DOMAIN moves : moves[i].entry \in Nat /\ moves[i].beat \in Nat
      /\ fsm.entry \in Nat /\ beats \in Nat
  BY MovesTyped DEF TypeOK, ExecutionRecord, MoveType
<1>1. ASSUME NEW t, TransitionFSM(t) \/ TransitionRaises(t)
      PROVE  OneMoveInv'
  <2> DEFINE k == Len(moves) + 1
  <2>1. /\ DOMAIN moves' = DOMAIN moves \cup {k}
        /\ moves'[k] = Move(t)
        /\ \A i \in DOMAIN moves : moves'[i] = moves[i] /\ i < k
    <3>1. moves' = Append(moves, Move(t))
      BY <1>1, MoveStep
    <3> QED
      BY <3>1, AppendedMove
  <2>2. /\ Move(t).entry = fsm.entry /\ Move(t).beat = beats
        /\ Move(t).assessed = hb.entry /\ Move(t).afterRaise = hb.raised
    BY DEF Move
  <2>3. ~hb.moved /\ phase = "heartbeat"
    BY <1>1, MoveStep DEF MayTransition
  <2>4. EntryFence'
    <3>1. /\ fsm'.entry = fsm.entry + 1 /\ fsm'.plan = fsm.plan /\ chart' = chart
          /\ beats' = beats /\ (hb'.moved \/ hb'.raised)
      BY <1>1, MoveStep
    <3>2. \A i \in DOMAIN moves' : moves'[i].entry < fsm'.entry /\ moves'[i].beat <= beats'
      BY <1>0, <2>1, <2>2, <3>1 DEF OneMoveInv, EntryFence
    <3> QED
      BY <3>1, <3>2 DEF OneMoveInv, EntryFence
  <2>5. EvidenceOfThisEntry'
    BY <2>1, <2>2, <2>3 DEF OneMoveInv, EntryFence, EvidenceOfThisEntry
  <2>6. OneMovePerHeartbeat'
    <3> SUFFICES ASSUME NEW i \in DOMAIN moves', NEW j \in DOMAIN moves',
                        i < j, ~moves'[j].afterRaise
                 PROVE  moves'[i].beat # moves'[j].beat
      BY DEF OneMovePerHeartbeat
    <3>1. i \in DOMAIN moves
      BY <2>1
    <3>2. CASE j \in DOMAIN moves
      BY <2>1, <3>1, <3>2 DEF OneMoveInv, OneMovePerHeartbeat
    <3>3. CASE j = k
      BY <1>0, <2>1, <2>2, <2>3, <3>1, <3>3 DEF OneMoveInv, EntryFence
    <3> QED
      BY <2>1, <3>2, <3>3
  <2> QED
    BY <2>4, <2>5, <2>6 DEF OneMoveInv
<1>2. CASE ~\E t : TransitionFSM(t) \/ TransitionRaises(t)
  <2>1. moves' = moves
    BY <1>2, OtherStep
  <2>2. EvidenceOfThisEntry' /\ OneMovePerHeartbeat'
    BY <2>1 DEF OneMoveInv, EvidenceOfThisEntry, OneMovePerHeartbeat
  <2>3. EntryFence'
    <3>1. CASE StartHeartbeat
      <4>1. beats' = beats + 1 /\ UNCHANGED <<chart, fsm, moves>> /\ hb'.entry = fsm.entry
        BY <3>1 DEF StartHeartbeat
      <4> QED
        BY <1>0, <4>1 DEF OneMoveInv, EntryFence
    <3>2. CASE ~StartHeartbeat
      <4>1. /\ beats' = beats
            /\ phase' = "heartbeat" => HeartbeatKept
            /\ \/ UNCHANGED <<chart, fsm>>
               \/ /\ phase' = "reconcile" /\ chart'.revision = fsm'.plan
                  /\ fsm'.entry = fsm.entry + 1
        BY <1>2, <3>2, OtherStep
      <4> QED
        BY <1>0, <2>1, <4>1 DEF OneMoveInv, EntryFence, HeartbeatKept
    <3> QED
      BY <3>1, <3>2
  <2> QED
    BY <2>2, <2>3 DEF OneMoveInv
<1> QED
  BY <1>1, <1>2

(* A heartbeat moves the FSM at most once and on evidence of the entry it  *)
(* leaves, unless a tool of it had raised before.                          *)
THEOREM OneMoveSafe == Spec => [](EvidenceOfThisEntry /\ OneMovePerHeartbeat)
<1>1. TypeOK /\ OneMoveInv /\ [Next]_vars => (TypeOK /\ OneMoveInv)'
  BY TypeStep, OneMoveStep
<1>2. Init => TypeOK /\ OneMoveInv
  BY TypeInit, OneMoveInit
<1>3. OneMoveInv => EvidenceOfThisEntry /\ OneMovePerHeartbeat
  BY DEF OneMoveInv
<1> QED
  BY <1>1, <1>2, <1>3, PTL DEF Spec
----------------------------------------------------------------------------
(* A Transition Intent moves the FSM at most once.                         *)
IntentInv == IntentFence /\ IntentUsedOnce

(* A journal write either closes the latest entry or adds a fresh one.     *)
LEMMA JournalStep ==
  ASSUME TypeOK, [Next]_vars, ~\E t : TransitionFSM(t) \/ TransitionRaises(t)
  PROVE  \/ UNCHANGED journal
         \/ /\ intent # None /\ published' = published + 1
            /\ intent'.id = intent.id /\ intent'.entry = intent.entry
         \/ /\ published' > published /\ intent'.id = published'
<1> USE DEF journal
<1>0. ASSUME Selected(intent)
      PROVE  /\ intent # None
             /\ [intent EXCEPT !.status = "invalidated"].id = intent.id
             /\ [intent EXCEPT !.status = "invalidated"].entry = intent.entry
  <2>1. intent \in Intent
    BY <1>0 DEF Selected, TypeOK
  <2> QED
    BY <1>0, <2>1 DEF Selected, Intent
<1>1. ASSUME DropStale
      PROVE  \/ UNCHANGED journal
             \/ /\ intent # None /\ published' = published + 1
                /\ intent'.id = intent.id /\ intent'.entry = intent.entry
  BY <1>0, <1>1 DEF DropStale, Stale
<1>2. CASE StartHeartbeat \/ RejectedTool \/ EndHeartbeat
  BY <1>1, <1>2 DEF StartHeartbeat, RejectedTool, EndHeartbeat
<1>3. ASSUME NEW t, SetTransitionTarget(t)
      PROVE  UNCHANGED journal \/ (published' > published /\ intent'.id = published')
  <2>1. published \in Nat
    BY DEF TypeOK
  <2> QED
    BY <1>3, <2>1 DEF SetTransitionTarget, NewIntent
<1>4. ASSUME NEW c \in Charts, Replan(c)
      PROVE  \/ UNCHANGED journal
             \/ /\ intent # None /\ published' = published + 1
                /\ intent'.id = intent.id /\ intent'.entry = intent.entry
  BY <1>0, <1>4 DEF Replan
<1>5. \A m \in Maneuvers : Physical(m) => UNCHANGED journal
  BY DEF Physical
<1>6. Review \/ HeartbeatFails \/ Consume \/ Finish \/ UNCHANGED vars => UNCHANGED journal
  BY DEF Review, HeartbeatFails, Consume, Finish, vars
<1> QED
  BY <1>2, <1>3, <1>4, <1>5, <1>6 DEF Next, Tool

LEMMA IntentInit == Init => IntentInv
BY DEF Init, IntentInv, IntentFence, IntentUsedOnce

LEMMA IntentStep == TypeOK /\ EntryFence /\ IntentInv /\ [Next]_vars => IntentInv'
<1> SUFFICES ASSUME TypeOK, EntryFence, IntentInv, [Next]_vars PROVE IntentInv'
  OBVIOUS
<1>0. /\ \A i \in DOMAIN moves : moves[i].entry \in Nat /\ moves[i].intent \in Nat
      /\ fsm.entry \in Nat /\ published \in Nat
      /\ intent # None => intent \in Intent /\ intent.id \in Nat
  BY MovesTyped DEF TypeOK, ExecutionRecord, MoveType, Intent
<1>1. ASSUME NEW t, TransitionFSM(t) \/ TransitionRaises(t)
      PROVE  IntentInv'
  <2> DEFINE k == Len(moves) + 1
  <2>1. /\ DOMAIN moves' = DOMAIN moves \cup {k}
        /\ moves'[k] = Move(t)
        /\ \A i \in DOMAIN moves : moves'[i] = moves[i] /\ i < k
    <3>1. moves' = Append(moves, Move(t))
      BY <1>1, MoveStep
    <3> QED
      BY <3>1, AppendedMove
  <2>2. Move(t).intent = intent.id /\ Move(t).entry = fsm.entry
    BY DEF Move
  <2>3. /\ intent \in Intent /\ intent # None
        /\ intent'.id = intent.id /\ intent'.entry = intent.entry
        /\ published' >= published /\ published' \in Nat
    BY <1>1, MoveStep, LoopAssumption
  <2>4. intent.entry = fsm.entry
    BY <1>1, MoveStep, CurrentType DEF MayTransition, Matches
  <2>5. \A i \in DOMAIN moves : moves[i].intent # intent.id
    BY <1>0, <2>3, <2>4 DEF IntentInv, IntentFence, EntryFence
  <2>6. IntentFence'
    <3>1. intent'.id <= published'
      BY <1>0, <2>3 DEF IntentInv, IntentFence
    <3>2. \A i \in DOMAIN moves' : moves'[i].intent <= published'
      BY <1>0, <2>1, <2>2, <2>3, <3>1 DEF IntentInv, IntentFence
    <3>3. \A i \in DOMAIN moves' : intent'.id = moves'[i].intent => intent'.entry = moves'[i].entry
      BY <2>1, <2>2, <2>3, <2>4, <2>5
    <3> QED
      BY <3>1, <3>2, <3>3 DEF IntentFence
  <2>7. IntentUsedOnce'
    BY <2>1, <2>2, <2>5 DEF IntentInv, IntentUsedOnce
  <2> QED
    BY <2>6, <2>7 DEF IntentInv
<1>2. CASE ~\E t : TransitionFSM(t) \/ TransitionRaises(t)
  <2>1. moves' = moves
    BY <1>2, OtherStep
  <2>2. IntentUsedOnce'
    BY <2>1 DEF IntentInv, IntentUsedOnce
  <2>3. CASE UNCHANGED journal
    BY <2>1, <2>2, <2>3 DEF IntentInv, IntentFence, journal
  <2>4. CASE /\ intent # None /\ published' = published + 1
             /\ intent'.id = intent.id /\ intent'.entry = intent.entry
    BY <1>0, <2>1, <2>2, <2>4 DEF IntentInv, IntentFence
  <2>5. CASE published' > published /\ intent'.id = published'
    <3>1. published' \in Nat
      BY TypeStep DEF TypeOK
    <3> QED
      BY <1>0, <2>1, <2>2, <2>5, <3>1 DEF IntentInv, IntentFence
  <2> QED
    BY <1>2, <2>3, <2>4, <2>5, JournalStep
<1> QED
  BY <1>1, <1>2

(* No Transition Intent moves the FSM twice, not even one that a failed    *)
(* journal write left "selected".                                          *)
THEOREM IntentSafe == Spec => []IntentUsedOnce
<1>1. Init => TypeOK /\ OneMoveInv /\ IntentInv
  BY TypeInit, OneMoveInit, IntentInit
<1>2. TypeOK /\ OneMoveInv /\ IntentInv /\ [Next]_vars => (TypeOK /\ OneMoveInv /\ IntentInv)'
  BY TypeStep, OneMoveStep, IntentStep DEF OneMoveInv
<1>3. IntentInv => IntentUsedOnce
  BY DEF IntentInv
<1> QED
  BY <1>1, <1>2, <1>3, PTL DEF Spec
----------------------------------------------------------------------------
(* Terminal feedback is of a command of the plan revision it lets end.     *)
FeedbackInv == FeedbackFence /\ FeedbackOfThisPlan

LEMMA AppendedCommand ==
  ASSUME TypeOK, NEW m \in Maneuvers, Physical(m)
  PROVE  /\ DOMAIN commands \subseteq DOMAIN commands'
         /\ \A i \in DOMAIN commands : commands'[i] = commands[i]
         /\ \A i \in DOMAIN commands' \ DOMAIN commands :
              commands'[i].id = <<beats, hb.tools + 1>>
         /\ \A i, j \in DOMAIN commands' \ DOMAIN commands : i = j
<1>1. CASE m \in hb.queued
  BY <1>1 DEF Physical
<1>2. CASE m \notin hb.queued
  <2> DEFINE x == [id |-> <<beats, hb.tools + 1>>, plan |-> hb.plan,
                   entry |-> fsm.entry, maneuver |-> m]
  <2>1. commands' = Append(commands, x) /\ commands \in Seq(CommandType)
    BY <1>2 DEF Physical, TypeOK
  <2>2. x.id = <<beats, hb.tools + 1>>
    OBVIOUS
  <2> HIDE DEF x
  <2> QED
    BY <2>1, <2>2
<1> QED
  BY <1>1, <1>2

LEMMA FeedbackInit == Init => FeedbackInv
BY DEF Init, FeedbackInv, FeedbackFence, FeedbackOfThisPlan, Terminal

LEMMA FeedbackStep == TypeOK /\ EntryFence /\ FeedbackInv /\ [Next]_vars => FeedbackInv'
<1> SUFFICES ASSUME TypeOK, EntryFence, FeedbackInv, [Next]_vars PROVE FeedbackInv'
  OBVIOUS
<1> USE DEF FeedbackInv
<1>1. ASSUME NEW t, TransitionFSM(t) \/ TransitionRaises(t)
      PROVE  FeedbackInv'
  <2> DEFINE k == Len(moves) + 1
  <2>1. /\ DOMAIN moves' = DOMAIN moves \cup {k}
        /\ moves'[k] = Move(t)
        /\ \A i \in DOMAIN moves : moves'[i] = moves[i] /\ i < k
    <3>1. moves' = Append(moves, Move(t))
      BY <1>1, MoveStep
    <3> QED
      BY <3>1, AppendedMove
  <2>2. /\ Move(t).edge = t /\ Move(t).evidence = hb.evidence.command
        /\ Move(t).plan = fsm.plan
    BY DEF Move
  <2>3. /\ phase = "heartbeat" /\ fsm.plan = hb.plan
        /\ t.feedback => hb.evidence.life \in Terminal
    BY <1>1, MoveStep DEF MayTransition, FeedbackReady
  <2>4. UNCHANGED <<commands, env>> /\ hb'.evidence = hb.evidence /\ hb'.plan = hb.plan
    BY <1>1, MoveStep
  <2>5. t.feedback => /\ hb.evidence.command \in DOMAIN commands
                      /\ commands[hb.evidence.command].plan = fsm.plan
    BY <2>3 DEF FeedbackFence
  <2>6. DOMAIN commands \subseteq Nat \ {0}
    BY DEF TypeOK
  <2>7. FeedbackFence'
    BY <2>1, <2>2, <2>3, <2>4, <2>5 DEF FeedbackFence
  <2>8. FeedbackOfThisPlan'
    BY <2>1, <2>2, <2>4, <2>5, <2>6 DEF FeedbackOfThisPlan
  <2> QED
    BY <2>7, <2>8
<1>2. CASE ~\E t : TransitionFSM(t) \/ TransitionRaises(t)
  <2>1. moves' = moves
    BY <1>2, OtherStep
  <2>2. /\ DOMAIN commands \subseteq DOMAIN commands'
        /\ \A i \in DOMAIN commands : commands'[i] = commands[i]
    BY <1>2, OtherStep, AppendedCommand
  <2>3. FeedbackOfThisPlan'
    BY <2>1, <2>2 DEF FeedbackOfThisPlan, FeedbackFence
  <2>4. env'.life # "none" => env'.latest # 0
    <3>1. env \in [consumed: Nat, latest: Nat, life: Life]
      BY DEF TypeOK
    <3>2. CASE Consume
      BY <3>1, <3>2 DEF Consume
    <3>3. CASE Finish
      BY <3>1, <3>3 DEF Finish, FeedbackFence
    <3> QED
      BY <1>2, <3>2, <3>3, OtherStep DEF FeedbackFence
  <2>5. CASE StartHeartbeat
    <3>1. /\ hb'.evidence = VisibleLife /\ hb'.plan = fsm.plan /\ commands' = commands
      BY <2>5 DEF StartHeartbeat, EntryFence
    <3>2. VisibleLife.life \in Terminal =>
            /\ VisibleLife.command = env.latest /\ env.latest # 0
            /\ commands[env.latest].plan = fsm.plan
      BY DEF VisibleLife, Terminal
    <3>3. env.latest # 0 => env.latest \in DOMAIN commands
      BY DEF TypeOK
    <3> QED
      BY <2>1, <2>2, <2>3, <2>4, <3>1, <3>2, <3>3 DEF FeedbackFence
  <2>6. CASE ~StartHeartbeat
    <3>1. phase' = "heartbeat" =>
            phase = "heartbeat" /\ hb'.evidence = hb.evidence /\ hb'.plan = hb.plan
      BY <1>2, <2>6, OtherStep DEF HeartbeatKept
    <3> QED
      BY <2>1, <2>2, <2>3, <2>4, <3>1 DEF FeedbackFence
  <2> QED
    BY <2>5, <2>6
<1> QED
  BY <1>1, <1>2

(* The feedback of a maneuver commanded under another plan revision never  *)
(* lets a transition through.                                              *)
THEOREM FeedbackSafe == Spec => []FeedbackOfThisPlan
<1>1. Init => TypeOK /\ OneMoveInv /\ FeedbackInv
  BY TypeInit, OneMoveInit, FeedbackInit
<1>2. TypeOK /\ OneMoveInv /\ FeedbackInv /\ [Next]_vars => (TypeOK /\ OneMoveInv /\ FeedbackInv)'
  BY TypeStep, OneMoveStep, FeedbackStep DEF OneMoveInv
<1>3. FeedbackInv => FeedbackOfThisPlan
  BY DEF FeedbackInv
<1> QED
  BY <1>1, <1>2, <1>3, PTL DEF Spec
----------------------------------------------------------------------------
(* No two queued commands share an identity.                               *)
CommandInv == CommandFence /\ CommandIdentitiesUnique

LEMMA CommandStep == TypeOK /\ CommandInv /\ [Next]_vars => CommandInv'
<1> SUFFICES ASSUME TypeOK, CommandInv, [Next]_vars PROVE CommandInv'
  OBVIOUS
<1> USE DEF CommandInv
<1>0. /\ \A i \in DOMAIN commands : commands[i].id[1] \in Nat /\ commands[i].id[2] \in Nat
      /\ beats \in Nat /\ (phase = "heartbeat" => hb.tools \in Nat)
  <2>1. \A i \in DOMAIN commands : commands[i] \in CommandType
    BY DEF TypeOK
  <2>2. \A c \in CommandType : c.id \in Nat \X Nat
    BY DEF CommandType, DecisionIds
  <2>3. \A x \in Nat \X Nat : x[1] \in Nat /\ x[2] \in Nat
    OBVIOUS
  <2>4. beats \in Nat /\ (phase = "heartbeat" => hb \in Heartbeat)
    BY DEF TypeOK
  <2> QED
    BY <2>1, <2>2, <2>3, <2>4 DEF Heartbeat
<1>1. ASSUME NEW m \in Maneuvers, Physical(m)
      PROVE  CommandInv'
  <2>1. /\ phase = "heartbeat" /\ beats' = beats
    BY <1>1 DEF Physical, InTool
  <2>2. hb'.tools = hb.tools + 1
    <3>1. hb \in Heartbeat
      BY <1>1 DEF Physical, InTool, TypeOK
    <3>2. \E x \in Maneuvers : hb' = [Recorded(hb) EXCEPT !.queued = @ \cup {x}]
      BY <1>1 DEF Physical
    <3> QED
      BY <3>1, <3>2, RecordedKeeps
  <2>3. CommandFence'
    BY <1>0, <1>1, <2>1, <2>2, AppendedCommand DEF CommandFence
  <2>4. \A i \in DOMAIN commands : commands[i].id # <<beats, hb.tools + 1>>
    BY <1>0, <2>1 DEF CommandFence
  <2>5. CommandIdentitiesUnique'
    BY <1>1, <2>4, AppendedCommand DEF CommandIdentitiesUnique
  <2> QED
    BY <2>3, <2>5
<1>2. ASSUME NEW t, TransitionFSM(t) \/ TransitionRaises(t)
      PROVE  CommandInv'
  <2>1. /\ phase = "heartbeat" /\ UNCHANGED <<commands, beats>>
        /\ hb'.tools \in Nat /\ hb'.tools >= hb.tools
    BY <1>2, MoveStep
  <2> QED
    BY <1>0, <2>1 DEF CommandFence, CommandIdentitiesUnique
<1>3. CASE /\ ~\E m \in Maneuvers : Physical(m)
           /\ ~\E t : TransitionFSM(t) \/ TransitionRaises(t)
  <2>1. commands' = commands
    BY <1>3, OtherStep
  <2>2. CASE StartHeartbeat
    <3>1. beats' = beats + 1
      BY <2>2 DEF StartHeartbeat
    <3> QED
      BY <1>0, <2>1, <3>1 DEF CommandFence, CommandIdentitiesUnique
  <2>3. CASE ~StartHeartbeat
    <3>1. /\ beats' = beats
          /\ phase' = "heartbeat" =>
               phase = "heartbeat" /\ hb'.tools \in Nat /\ hb'.tools >= hb.tools
      BY <1>3, <2>3, OtherStep DEF HeartbeatKept
    <3> QED
      BY <1>0, <2>1, <3>1 DEF CommandFence, CommandIdentitiesUnique
  <2> QED
    BY <2>2, <2>3
<1> QED
  BY <1>1, <1>2, <1>3

(* Every queued Maneuver Command has an identity of its own.               *)
THEOREM CommandsSafe == Spec => []CommandIdentitiesUnique
<1>0. Init => CommandInv
  BY DEF Init, CommandInv, CommandFence, CommandIdentitiesUnique
<1>1. Init => TypeOK /\ CommandInv
  BY <1>0, TypeInit
<1>2. TypeOK /\ CommandInv /\ [Next]_vars => (TypeOK /\ CommandInv)'
  BY TypeStep, CommandStep
<1>3. CommandInv => CommandIdentitiesUnique
  BY DEF CommandInv
<1> QED
  BY <1>1, <1>2, <1>3, PTL DEF Spec
----------------------------------------------------------------------------
(* How a step changes the intent that counts.                              *)
LEMMA CurrentDropStale ==
  ASSUME TypeOK, DropStale, UNCHANGED <<chart, fsm>>
  PROVE  Current' = Current
<1>1. CASE Stale
  <2>1. intent \in Intent
    BY <1>1 DEF Stale, Selected, TypeOK
  <2>2. intent'.status = "invalidated"
    BY <1>1, <2>1 DEF DropStale, Intent
  <2> QED
    BY <1>1, <2>2 DEF Stale, Current, Valid, Selected
<1>2. CASE ~Stale
  BY <1>2 DEF DropStale, journal, Current, Valid, Selected, Matches
<1> QED
  BY <1>1, <1>2

LEMMA CurrentSame ==
  ASSUME UNCHANGED <<chart, fsm, intent>>
  PROVE  Current' = Current
BY DEF Current, Valid, Selected, Matches

LEMMA IdleStep == TypeOK /\ IdleHasIntent /\ [Next]_vars => IdleHasIntent'
<1> SUFFICES ASSUME TypeOK, IdleHasIntent, [Next]_vars, phase' \in {"loop", "review"}
             PROVE  IdleHasIntent'
  BY DEF IdleHasIntent
<1>1. CASE EndHeartbeat
  <2>1. FinalIntent /\ DropStale /\ UNCHANGED <<chart, fsm>>
    BY <1>1 DEF EndHeartbeat
  <2>2. Current' = Current
    BY <2>1, CurrentDropStale
  <2> QED
    BY <2>1, <2>2 DEF FinalIntent, IdleHasIntent, Candidates
<1>2. CASE Review \/ Consume \/ Finish \/ UNCHANGED vars
  <2>1. UNCHANGED <<chart, fsm, intent, beats>> /\ phase \in {"loop", "review"}
    BY <1>2 DEF Review, Consume, Finish, vars, journal
  <2>2. Current' = Current
    BY <2>1, CurrentSame
  <2> QED
    BY <2>1, <2>2 DEF IdleHasIntent, Candidates
<1>3. ~Tool /\ ~StartHeartbeat /\ ~HeartbeatFails /\ ~\E c \in Charts : Replan(c)
  BY DEF Tool, InTool, SetTransitionTarget, TransitionFSM, TransitionRaises, RejectedTool,
         Physical, StartHeartbeat, HeartbeatFails, Replan
<1> QED
  BY <1>1, <1>2, <1>3 DEF Next

(* Between heartbeats a state with candidates has a valid next target.     *)
THEOREM IdleSafe == Spec => []IdleHasIntent
<1>1. Init => IdleHasIntent
  BY DEF Init, IdleHasIntent
<1>2. TypeOK /\ IdleHasIntent /\ [Next]_vars => (TypeOK /\ IdleHasIntent)'
  BY TypeStep, IdleStep
<1> QED
  BY <1>1, <1>2, TypeInit, PTL DEF Spec
----------------------------------------------------------------------------
(* Refinement of the abstract authority.                                   *)
LEMMA AuthorityStep == TypeOK /\ [Next]_vars => [Authority!ANext]_(Authority!avars)
<1> SUFFICES ASSUME TypeOK, [Next]_vars
             PROVE  Authority!ANext \/ UNCHANGED Authority!avars
  OBVIOUS
<1>0. None \notin Transition /\ None \notin Intent
  BY ChartsAssumption, LoopAssumption
<1>1. ASSUME Current' = Current, UNCHANGED <<chart, fsm>>
      PROVE  UNCHANGED Authority!avars
  BY <1>1 DEF Authority!avars
<1>2. CASE StartHeartbeat \/ EndHeartbeat
  <2>1. DropStale /\ UNCHANGED <<chart, fsm>>
    BY <1>2 DEF StartHeartbeat, EndHeartbeat
  <2> QED
    BY <1>1, <2>1, CurrentDropStale
<1>3. CASE RejectedTool
  <2>1. (DropStale \/ UNCHANGED intent) /\ UNCHANGED <<chart, fsm>>
    BY <1>3 DEF RejectedTool, journal
  <2> QED
    BY <1>1, <2>1, CurrentDropStale, CurrentSame
<1>4. CASE Review \/ HeartbeatFails \/ Consume \/ Finish \/ UNCHANGED vars
           \/ \E m \in Maneuvers : Physical(m)
  <2>1. UNCHANGED <<chart, fsm, intent>>
    BY <1>4 DEF Review, HeartbeatFails, Consume, Finish, vars, Physical, journal
  <2> QED
    BY <1>1, <2>1, CurrentSame
<1>5. ASSUME NEW t, SetTransitionTarget(t)
      PROVE  Authority!ANext \/ UNCHANGED Authority!avars
  <2>1. UNCHANGED <<chart, fsm>> /\ t \in Candidates(chart, fsm.state)
    BY <1>5 DEF SetTransitionTarget
  <2>2. CASE Current # None /\ Current.edge = t
    <3>1. UNCHANGED intent
      BY <1>5, <2>2 DEF SetTransitionTarget, journal
    <3> QED
      BY <1>1, <2>1, <3>1, CurrentSame
  <2>3. CASE ~(Current # None /\ Current.edge = t)
    <3> DEFINE n == published + (IF Stale THEN 1 ELSE 0)
    <3>1. intent' = NewIntent(t, n + 1) /\ n + 1 \in Nat \ {0}
      BY <1>5, <2>3 DEF SetTransitionTarget, TypeOK
    <3>2. intent' # None
      BY <1>0, <2>1, <3>1, CandidateType, NewIntentType
    <3>3. /\ intent'.plan = fsm.plan /\ intent'.entry = fsm.entry
          /\ intent'.edge = t /\ intent'.status = "selected"
      BY <3>1 DEF NewIntent
    <3>4. Current' = intent'
      BY <2>1, <3>2, <3>3 DEF Current, Valid, Selected, Matches, Candidates
    <3>5. Authority!Grant
      BY <2>1, <3>2, <3>3, <3>4 DEF Authority!Grant, Candidates
    <3> QED
      BY <3>5 DEF Authority!ANext
  <2> QED
    BY <2>2, <2>3
<1>6. ASSUME NEW t, TransitionFSM(t) \/ TransitionRaises(t)
      PROVE  Authority!ANext
  <2>1. /\ MayTransition(t) /\ UNCHANGED chart
        /\ fsm'.entry = fsm.entry + 1 /\ fsm'.state = t.target
    BY <1>6, MoveStep
  <2>2. Current # None /\ Current.edge = t /\ t # None
    BY <1>0, <2>1, CandidateType DEF MayTransition
  <2>3. intent \in Intent /\ intent.entry = fsm.entry /\ fsm.entry \in Nat
    BY <2>2, CurrentType DEF Matches, TypeOK, ExecutionRecord
  <2>4. intent'.entry = intent.entry
    BY <1>6, MoveStep
  <2>5. Current' = None
    BY <2>1, <2>3, <2>4 DEF Current, Valid, Matches
  <2>6. Authority!Advance
    BY <2>1, <2>2, <2>5 DEF Authority!Advance
  <2> QED
    BY <2>6 DEF Authority!ANext
<1>7. ASSUME NEW c \in Charts, Replan(c)
      PROVE  Authority!ANext
  <2>1. fsm \in ExecutionRecord(DecisionIds) /\ fsm # None
    BY LoopAssumption DEF TypeOK
  <2>2. /\ chart' = c /\ fsm'.state = c.entry /\ fsm'.entry = fsm.entry + 1
        /\ c.revision = chart.revision + 1 /\ chart.revision \in Nat
    BY <1>7, <2>1, ActivatedType, ChartsAssumption DEF Replan, TypeOK, Statechart
  <2>3. ~Selected(intent)'
    <3>1. CASE Selected(intent)
      <4>1. intent \in Intent
        BY <3>1 DEF Selected, TypeOK
      <4>2. intent'.status = "invalidated"
        BY <1>7, <3>1, <4>1 DEF Replan, Intent
      <4> QED
        BY <4>2 DEF Selected
    <3>2. CASE ~Selected(intent)
      BY <1>7, <3>2 DEF Replan, journal, Selected
    <3> QED
      BY <3>1, <3>2
  <2>4. Current' = None
    BY <2>3 DEF Current, Valid
  <2>5. Authority!Supersede
    BY <2>2, <2>4 DEF Authority!Supersede
  <2> QED
    BY <2>5 DEF Authority!ANext
<1> QED
  BY <1>2, <1>3, <1>4, <1>5, <1>6, <1>7 DEF Next, Tool

(* The loop implements the abstract transition authority: the FSM moves    *)
(* only along an edge somebody holds authority for, and authority never    *)
(* outlives a transition or a replan.                                      *)
THEOREM LoopImplementsAuthority == Spec => ImplementsAuthority
<1>1. Init => Authority!AInit
  <2> SUFFICES ASSUME Init PROVE Authority!AInit
    OBVIOUS
  <2>1. chart \in Charts /\ fsm.state = chart.entry /\ fsm.entry = 1
    BY ActivatedType DEF Init
  <2>2. Current = None
    BY DEF Init, Current, Valid, Selected
  <2> QED
    BY <2>1, <2>2 DEF Authority!AInit
<1> QED
  BY <1>1, AuthorityStep, TypeInit, TypeStep, PTL DEF Spec, ImplementsAuthority, Authority!ASpec
============================================================================
