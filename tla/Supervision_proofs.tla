------------------------- MODULE Supervision_proofs -------------------------
(***************************************************************************)
(* Theorems about the way of terminal feedback and of replan requests, and *)
(* about what may pass by without a heartbeat, for every kind of mission,  *)
(* every limit and every period.                                           *)
(***************************************************************************)
EXTENDS Supervision, FiniteSetTheorems, TLAPS

(* Where a feedback can be on its way to a heartbeat.                      *)
Queued(f) == \E i \in DOMAIN updates : updates[i] = f
Carried(f) == f \in served \/ Feedback(f) \in triggers \/ unqueued = f \/ Queued(f)

FeedbackInv ==
  /\ mode \in Missions
  /\ feedbacks \in Nat /\ feedbacks <= mode.feedback /\ unqueued \in Nat
  /\ updates \in Seq(Nat)
  /\ producer # "ticked" => unqueued = 0
  /\ \A f \in 1..feedbacks : Carried(f)
  /\ stage = "limit" => triggers = {}

LEMMA FeedbackInvInit == Init => FeedbackInv
BY MissionsAssumption DEF Init, Bounds, FeedbackInv

(* A drain makes triggers of all that is queued.                           *)
LEMMA DrainedCarries ==
  ASSUME FeedbackInv, updates' = <<>>, Reported \subseteq triggers', triggers \subseteq triggers',
         UNCHANGED <<mode, feedbacks, unqueued, producer, served>>, stage' # "limit"
  PROVE  FeedbackInv'
<1>1. ASSUME NEW f \in 1..feedbacks, Queued(f) PROVE Feedback(f) \in triggers'
  BY <1>1 DEF Queued, Reported, FeedbackInv
<1> QED
  BY <1>1 DEF FeedbackInv, Carried

(* A heartbeat serves the feedbacks it is called with.                     *)
LEMMA InvokedServes ==
  ASSUME FeedbackInv, NEW called, NEW then, Invoked(called, then), triggers \subseteq called,
         UNCHANGED <<mode, feedbacks, unqueued>>, producer' = producer \/ producer' # "ticked",
         updates' = updates \/ (updates' = <<>> /\ Reported \subseteq called),
         producer = "ticked" => producer' = "ticked"
  PROVE  FeedbackInv'
<1>1. ASSUME NEW f \in 1..feedbacks, Feedback(f) \in called PROVE f \in served'
  BY <1>1, MissionsAssumption DEF Invoked, FeedbackInv, Bounds
<1>2. ASSUME NEW f \in 1..feedbacks PROVE Carried(f)'
  <2>1. CASE f \in served \/ unqueued = f
    BY <2>1 DEF Invoked, Carried
  <2>2. CASE Feedback(f) \in triggers
    BY <1>1, <2>2 DEF Carried
  <2>3. CASE Queued(f)
    <3>1. updates' = <<>> => Feedback(f) \in called \/ updates' = updates
      BY <2>3, <1>2 DEF Queued, Reported, FeedbackInv
    <3> QED
      BY <1>1, <2>3, <3>1 DEF Carried, Queued
  <2> QED
    BY <2>1, <2>2, <2>3 DEF FeedbackInv, Carried
<1>3. updates' \in Seq(Nat)
  <2>1. <<>> \in Seq(Nat) /\ updates \in Seq(Nat)
    BY DEF FeedbackInv
  <2> QED
    BY <2>1
<1>4. producer' # "ticked" => unqueued' = 0
  BY DEF FeedbackInv
<1>5. triggers' = {}
  BY DEF Invoked
<1>6. /\ mode' \in Missions /\ feedbacks' \in Nat /\ feedbacks' <= mode'.feedback
      /\ unqueued' \in Nat /\ 1..feedbacks' = 1..feedbacks
  BY DEF FeedbackInv
<1> QED
  BY <1>2, <1>3, <1>4, <1>5, <1>6 DEF FeedbackInv

(* A tick makes at most one feedback, which is put in the queue with it.   *)
LEMMA TickedCarries ==
  ASSUME FeedbackInv, Ticked, UNCHANGED <<mode, served, triggers>>,
         producer' # "ticked" => unqueued' = 0, stage' = "limit" => triggers = {},
         \/ unqueued = 0 /\ unqueued' = FeedbackOfTick /\ updates' = updates
         \/ unqueued' = unqueued /\ updates' = Append(updates, FeedbackOfTick)
  PROVE  FeedbackInv'
<1>0. PICK t : t = FeedbackOfTick
  OBVIOUS
<1>1. /\ feedbacks' \in Nat /\ feedbacks' <= mode.feedback /\ t \in Nat
      /\ \A f \in 1..feedbacks' : f \in 1..feedbacks \/ f = t
  BY <1>0 DEF Ticked, FeedbackOfTick, FeedbackInv
<1>2. updates' \in Seq(Nat) /\ unqueued' \in Nat
  <2>1. updates \in Seq(Nat) /\ Append(updates, t) \in Seq(Nat)
    BY <1>1 DEF FeedbackInv
  <2> QED
    BY <1>0, <1>1, <2>1 DEF FeedbackInv
<1>3. ASSUME NEW f, Queued(f) PROVE Queued(f)'
  <2>1. PICK i \in 1..Len(updates) : updates[i] = f
    BY <1>3 DEF Queued, FeedbackInv
  <2>2. CASE updates' = Append(updates, t)
    <3>1. updates \in Seq(Nat) /\ Len(updates) \in Nat
      BY DEF FeedbackInv
    <3>2. i \in 1..Len(updates') /\ updates'[i] = f /\ DOMAIN updates' = 1..Len(updates')
      BY <1>1, <2>1, <2>2, <3>1
    <3> QED
      BY <3>2 DEF Queued
  <2> QED
    BY <1>0, <1>3, <2>2 DEF Queued
<1>4. unqueued' = t \/ Queued(t)'
  <2>1. CASE updates' = Append(updates, t)
    <3>1. Len(updates) + 1 \in DOMAIN updates' /\ updates'[Len(updates) + 1] = t
      BY <1>1, <2>1 DEF FeedbackInv
    <3> QED
      BY <3>1 DEF Queued
  <2> QED
    BY <1>0, <2>1
<1>5. ASSUME NEW f \in 1..feedbacks' PROVE Carried(f)'
  <2>1. CASE f = t
    BY <1>4, <2>1 DEF Carried
  <2>2. CASE f \in 1..feedbacks
    <3>1. unqueued = f => unqueued' = f
      BY <2>2
    <3> QED
      BY <1>3, <2>2, <3>1 DEF FeedbackInv, Carried
  <2> QED
    BY <1>1, <2>1, <2>2
<1> QED
  BY <1>1, <1>2, <1>5 DEF FeedbackInv

LEMMA FeedbackInvStep == FeedbackInv /\ [Next]_vars => FeedbackInv'
<1> SUFFICES ASSUME FeedbackInv, [Next]_vars PROVE FeedbackInv'
  OBVIOUS
<1>1. ASSUME UNCHANGED <<mode, feedbacks, unqueued, producer, updates, served>>,
             triggers \subseteq triggers',
             stage' = "limit" => triggers' = {}
      PROVE  FeedbackInv'
  BY <1>1 DEF FeedbackInv, Carried, Queued
<1>2. CASE Tick
  BY <1>2, TickedCarries DEF Tick, FeedbackInv
<1>3. CASE Enqueue
  <2>1. ASSUME NEW f, Queued(f) \/ f = unqueued PROVE Queued(f)'
    <3>1. /\ DOMAIN updates' = 1 .. (Len(updates) + 1) /\ updates'[Len(updates) + 1] = unqueued
          /\ DOMAIN updates = 1 .. Len(updates) /\ Len(updates) \in Nat
          /\ \A i \in DOMAIN updates : i \in DOMAIN updates' /\ updates'[i] = updates[i]
      BY <1>3 DEF Enqueue, FeedbackInv
    <3>2. CASE Queued(f)
      BY <3>1, <3>2 DEF Queued
    <3>3. CASE f = unqueued
      BY <3>1, <3>3 DEF Queued
    <3> QED
      BY <2>1, <3>2, <3>3
  <2>2. updates' \in Seq(Nat)
    BY <1>3 DEF Enqueue, FeedbackInv
  <2> QED
    BY <1>3, <2>1, <2>2 DEF Enqueue, FeedbackInv, Carried
<1>4. CASE Drain \/ EndHeartbeat \/ PublishDecision \/ KeepPlan
  BY <1>4, DrainedCarries DEF Drain, EndHeartbeat, PublishDecision, KeepPlan, Drained, world
<1>5. CASE Assess
  <2>1. CASE Due = {}
    <3>1. UNCHANGED <<mode, feedbacks, unqueued, producer, updates, served, triggers>> /\ stage' = "gate"
      BY <1>5, <2>1 DEF Assess
    <3> QED
      BY <1>1, <3>1
  <2>2. CASE Due # {}
    BY <1>5, <2>2, InvokedServes DEF Assess, Due
  <2> QED
    BY <2>1, <2>2
<1>6. ASSUME NEW d \in mode.deadlines, Adopt(d) PROVE FeedbackInv'
  BY <1>6, InvokedServes DEF Adopt, world
<1>7. CASE Wait
  <2>1. CASE mode.ownership = "environment_driven"
    BY <1>1, <1>7, <2>1 DEF Wait
  <2>2. CASE mode.ownership # "environment_driven"
    BY <1>7, <2>2, TickedCarries DEF Wait, FeedbackInv
  <2> QED
    BY <2>1, <2>2
<1>8. CASE AssessAtLimit \/ Stop \/ EndInTerminal \/ \E gate \in {"none", "hyper", "both"} : Gate(gate)
  BY <1>1, <1>8 DEF AssessAtLimit, Stop, EndInTerminal, Gate, AtLimit, world
<1>9. CASE Fail \/ Calling \/ Choosing \/ \E replan \in BOOLEAN : Decide(replan)
  <2>1. UNCHANGED <<mode, feedbacks, unqueued, producer, updates, served, triggers>>
    BY <1>9 DEF Fail, Calling, Handle, Return, Choosing, Reselect, Move, Communicate, Decide, world
  <2>2. stage' = stage \/ stage' \in {"failed", "publishing"}
    BY <1>9 DEF Fail, Calling, Handle, Return, Choosing, Reselect, Move, Communicate, Decide
  <2> QED
    BY <1>1, <2>1, <2>2 DEF FeedbackInv
<1>10. CASE UNCHANGED vars
  BY <1>1, <1>10 DEF vars, world, FeedbackInv
<1> QED
  BY <1>2, <1>3, <1>4, <1>5, <1>6, <1>7, <1>8, <1>9, <1>10 DEF Next, Producing, Looping

(* Terminal feedback is never lost on its way to a heartbeat, and the loop *)
(* does not stop at the limit on pending triggers: for every limit and     *)
(* period, both ownerships, and any number of ticks, replans and gates.    *)
THEOREM FeedbackReaches == Spec => []FeedbackAnswered
<1>1. Init => FeedbackInv
  BY FeedbackInvInit
<1>2. FeedbackInv /\ [Next]_vars => FeedbackInv'
  BY FeedbackInvStep
<1>3. FeedbackInv => FeedbackAnswered
  BY DEF FeedbackInv, Carried, Queued, FeedbackAnswered
<1> QED
  BY <1>1, <1>2, <1>3, PTL DEF Spec
----------------------------------------------------------------------------
(* Where a request can be, and that it is in one place only.               *)
Deciding(r) == stage = "publishing" /\ r.id \in decision.requests
NamedBy(r) == {i \in DOMAIN decisions : r.id \in decisions[i].requests}

RequestInv ==
  /\ \A r, q \in received : r.id = q.id => r = q
  /\ pending \subseteq received
  /\ \E S : decisions \in Seq(S)
  /\ \A i \in DOMAIN decisions : decisions[i].requests \subseteq Seen
  /\ stage = "publishing" => decision.requests \subseteq Seen
  /\ \A r \in received :
       /\ stage = "failed" \/ r \in pending \/ Deciding(r) \/ NamedBy(r) # {}
       /\ \A i, j \in NamedBy(r) : i = j
       /\ NamedBy(r) # {} => r \notin pending /\ ~Deciding(r)
       /\ Deciding(r) => r \notin pending
       /\ Deciding(r) /\ r.required => decision.replan
       /\ \A i \in NamedBy(r) : r.required => decisions[i].replan

LEMMA RequestInvInit == Init => RequestInv
BY DEF Init, RequestInv, Deciding, NamedBy, Seen

LEMMA RequestKept ==
  ASSUME RequestInv, UNCHANGED <<pending, received, deciding>>,
         stage' = "failed" \/ (stage # "failed" /\ (stage' = "publishing" <=> stage = "publishing"))
  PROVE  RequestInv'
BY DEF RequestInv, Deciding, NamedBy, Seen, deciding

LEMMA RequestInvStep == RequestInv /\ [Next]_vars => RequestInv'
<1> SUFFICES ASSUME RequestInv, [Next]_vars PROVE RequestInv'
  OBVIOUS
<1>1. ASSUME NEW s \in Slots, Handle(s) PROVE RequestInv'
  <2> DEFINE r == [id |-> calls[s].id, required |-> calls[s].required]
  <2>1. CASE UNCHANGED <<pending, received>>
    BY <1>1, <2>1, RequestKept DEF Handle, deciding
  <2>2. CASE r.id \notin Seen /\ pending' = pending \cup {r} /\ received' = received \cup {r}
    <3>1. UNCHANGED <<stage, decision, decisions>>
      BY <1>1 DEF Handle, deciding
    <3> HIDE DEF r
    <3>2. NamedBy(r) = {} /\ ~Deciding(r)
      BY <2>2 DEF RequestInv, NamedBy, Deciding
    <3> QED
      BY <2>2, <3>1, <3>2 DEF RequestInv, NamedBy, Deciding, Seen
  <2> QED
    BY <1>1, <2>1, <2>2 DEF Handle, When
<1>2. ASSUME NEW replan \in BOOLEAN, Decide(replan) PROVE RequestInv'
  <2>1. /\ stage = "deciding" /\ stage' = "publishing" /\ pending' = {} /\ UNCHANGED <<received, decisions>>
        /\ decision'.requests = {r.id : r \in pending} /\ decision'.replan = replan
        /\ (\E r \in pending : r.required) => replan
    BY <1>2 DEF Decide, Required
  <2>2. ASSUME NEW r \in received PROVE Deciding(r)' <=> r \in pending
    BY <2>1 DEF RequestInv, Deciding
  <2>3. ASSUME NEW r PROVE NamedBy(r)' = NamedBy(r)
    BY <2>1 DEF NamedBy
  <2> QED
    BY <2>1, <2>2, <2>3 DEF RequestInv, Seen, Deciding
<1>3. CASE PublishDecision
  <2>1. /\ stage = "publishing" /\ stage' \in {"replanning", "tail"} /\ UNCHANGED <<pending, received>>
        /\ decisions' = IF decision.requests = {} THEN decisions ELSE Append(decisions, decision)
    BY <1>3 DEF PublishDecision, asking
  <2>2. CASE decision.requests = {}
    BY <2>1, <2>2 DEF RequestInv, NamedBy, Deciding, Seen
  <2>3. CASE decision.requests # {}
    <3>1. PICK S : decisions \in Seq(S)
      BY DEF RequestInv
    <3>2. decisions' = Append(decisions, decision)
      BY <2>1, <2>3
    <3>3. decisions \in Seq(S \cup {decision}) /\ decisions' \in Seq(S \cup {decision})
      <4>1. decisions \in Seq(S \cup {decision})
        BY <3>1
      <4> QED
        BY <3>2, <4>1
    <3>4. /\ DOMAIN decisions = 1..Len(decisions) /\ Len(decisions) \in Nat
          /\ DOMAIN decisions' = 1..(Len(decisions) + 1)
          /\ decisions'[Len(decisions) + 1] = decision
          /\ \A i \in DOMAIN decisions : decisions'[i] = decisions[i]
      BY <3>1, <3>2, <3>3
    <3>5. ASSUME NEW r \in received
          PROVE  NamedBy(r)' = IF Deciding(r) THEN {Len(decisions) + 1} ELSE NamedBy(r)
      <4>1. Deciding(r) <=> r.id \in decision.requests
        BY <2>1 DEF Deciding
      <4>2. Deciding(r) => NamedBy(r) = {}
        BY DEF RequestInv
      <4> QED
        BY <3>4, <4>1, <4>2 DEF NamedBy
    <3>6. \A r : ~Deciding(r)'
      BY <2>1 DEF Deciding
    <3>7. \A i \in DOMAIN decisions' : decisions'[i].requests \subseteq Seen'
      BY <2>1, <3>4 DEF RequestInv, Seen
    <3>8. ASSUME NEW r \in received
          PROVE  /\ stage' = "failed" \/ r \in pending' \/ Deciding(r)' \/ NamedBy(r)' # {}
                 /\ \A i, j \in NamedBy(r)' : i = j
                 /\ NamedBy(r)' # {} => r \notin pending' /\ ~Deciding(r)'
                 /\ \A i \in NamedBy(r)' : r.required => decisions'[i].replan
      <4>1. CASE Deciding(r)
        BY <2>1, <3>4, <3>5, <3>6, <4>1 DEF RequestInv
      <4>2. CASE ~Deciding(r)
        <5>1. NamedBy(r)' = NamedBy(r) /\ NamedBy(r) \subseteq DOMAIN decisions
          BY <3>5, <4>2 DEF NamedBy
        <5> QED
          BY <2>1, <3>4, <3>6, <4>2, <5>1 DEF RequestInv
      <4> QED
        BY <4>1, <4>2
    <3> QED
      BY <2>1, <3>3, <3>6, <3>7, <3>8 DEF RequestInv
  <2> QED
    BY <2>2, <2>3
<1>4. ASSUME UNCHANGED <<pending, received, deciding>>,
             stage' = "failed" \/ (stage # "failed" /\ stage # "publishing" /\ stage' # "publishing")
      PROVE  RequestInv'
  BY <1>4, RequestKept
<1>5. ASSUME UNCHANGED <<stage, pending, received, deciding>> PROVE RequestInv'
  BY <1>5 DEF RequestInv, Deciding, NamedBy, Seen, deciding
<1>6. CASE Drain \/ Assess \/ EndHeartbeat \/ (\E gate \in {"none", "hyper", "both"} : Gate(gate))
  BY <1>4, <1>6 DEF Drain, Assess, Invoked, EndHeartbeat, Acting, Gate, asking
<1>7. CASE KeepPlan \/ (\E d \in mode.deadlines : Adopt(d)) \/ EndInTerminal \/ Wait
  BY <1>4, <1>7 DEF KeepPlan, Adopt, Invoked, EndInTerminal, Wait, asking
<1>8. CASE AssessAtLimit \/ Stop
  BY <1>4, <1>8 DEF AssessAtLimit, Stop, AtLimit, asking
<1>9. CASE Fail
  BY <1>4, <1>9 DEF Fail, asking
<1>10. CASE Producing \/ Choosing \/ UNCHANGED vars \/ (\E s \in Slots : Return(s))
  BY <1>5, <1>10 DEF Producing, Tick, Enqueue, Choosing, Reselect, Move, Communicate, Return, vars, asking
<1> QED
  BY <1>1, <1>2, <1>3, <1>6, <1>7, <1>8, <1>9, <1>10 DEF Next, Calling, Looping

(* Every replan request an agent made is considered exactly once, and a    *)
(* request that needs a reachable plan is never answered without a replan, *)
(* for any number of requests, of communicate calls in one message, and of *)
(* decisions.                                                              *)
THEOREM RequestsConsideredOnce == Spec => []RequestsAnswered
<1>1. Init => RequestInv
  BY RequestInvInit
<1>2. RequestInv /\ [Next]_vars => RequestInv'
  BY RequestInvStep
<1>3. RequestInv => RequestsAnswered
  <2> SUFFICES ASSUME RequestInv PROVE RequestsAnswered
    OBVIOUS
  <2>1. ASSUME NEW r \in received, stage # "failed"
        PROVE  IF r \in pending \/ Deciding(r) THEN NamedBy(r) = {} ELSE Cardinality(NamedBy(r)) = 1
    <3>1. CASE r \in pending \/ Deciding(r)
      BY <3>1 DEF RequestInv
    <3>2. CASE ~(r \in pending \/ Deciding(r))
      <4>1. NamedBy(r) # {} /\ \A i, j \in NamedBy(r) : i = j
        BY <2>1, <3>2 DEF RequestInv
      <4>2. PICK i : i \in NamedBy(r)
        BY <4>1
      <4>3. NamedBy(r) = {i}
        BY <4>1, <4>2
      <4> QED
        BY <3>2, <4>3, FS_Singleton
    <3> QED
      BY <3>1, <3>2
  <2>2. ASSUME NEW i \in DOMAIN decisions, NEW r \in received, r.id \in decisions[i].requests, r.required
        PROVE  decisions[i].replan
    BY <2>2 DEF RequestInv, NamedBy
  <2> QED
    BY <2>1, <2>2 DEF RequestsAnswered, NamedBy, Deciding
<1> QED
  BY <1>1, <1>2, <1>3, PTL DEF Spec
----------------------------------------------------------------------------
(* What the clocks of the loop owe to the last heartbeat: the period and a *)
(* fired deadline are anchored at its evidence, except that a boundary     *)
(* taken at the limit leaves a trigger behind.                             *)
ClockInv ==
  /\ mode \in Missions
  /\ time \in Nat /\ deadline \in Nat /\ lastPeriodic \in Int /\ assessed.time \in Int
  /\ lastPeriodic <= time /\ assessed.time <= time
  /\ lastPeriodic > assessed.time => triggers # {}
  /\ wake.fired /\ ~wake.fresh => deadline <= assessed.time

(* The last boundary that has passed is not past the clock, and the next   *)
(* one is.                                                                 *)
LEMMA BoundaryAround ==
  ASSUME NEW t \in Int, NEW l \in Int, l <= t
  PROVE  LET b == l + ((t - l) \div Interval) * Interval
         IN b \in Int /\ b <= t /\ t < b + Interval /\ (t >= l + Interval => b > l)
<1> DEFINE q == (t - l) \div Interval
<1>1. Interval \in Nat /\ Interval > 0 /\ t - l \in Nat
  BY MissionsAssumption
<1>2. q \in Int /\ q * Interval <= t - l /\ t - l < (q + 1) * Interval
  BY <1>1
<1>3. (q + 1) * Interval = q * Interval + Interval /\ q * Interval \in Int
  BY <1>1, <1>2
<1>4. q >= 0
  BY <1>1
<1>5. t >= l + Interval => q * Interval > 0
  BY <1>1, <1>2, <1>3
<1> QED
  BY <1>1, <1>2, <1>3, <1>5

LEMMA ClockInvInit == Init => ClockInv
BY MissionsAssumption DEF Init, ClockInv, Never

LEMMA ClockInvStep == ClockInv /\ [Next]_vars => ClockInv'
<1> SUFFICES ASSUME ClockInv, [Next]_vars PROVE ClockInv'
  OBVIOUS
<1>1. mode.deadlines \subseteq Nat
  BY MissionsAssumption DEF ClockInv
(* Steps that leave the clocks of the loop alone.                          *)
<1>2. ASSUME UNCHANGED <<mode, lastPeriodic, assessed, deadline, wake>>,
             time' = time \/ time' = time + 1, triggers \subseteq triggers'
      PROVE  ClockInv'
  BY <1>2 DEF ClockInv
(* A heartbeat is given the evidence of now.                               *)
<1>3. ASSUME NEW called, NEW then, Invoked(called, then), UNCHANGED <<mode, time, lastPeriodic>>,
             deadline' \in Nat, wake'.fired /\ ~wake'.fresh => deadline' <= time
      PROVE  ClockInv'
  BY <1>3 DEF ClockInv, Invoked
<1>4. CASE Tick \/ Wait
  BY <1>2, <1>4 DEF Tick, Wait, Ticked, waking
<1>5. CASE Enqueue \/ Calling \/ Fail \/ EndInTerminal \/ AssessAtLimit \/ UNCHANGED vars
  BY <1>2, <1>5 DEF Enqueue, Calling, Handle, Return, Fail, EndInTerminal, AssessAtLimit, vars,
                    world, waking
<1>6. CASE Drain \/ PublishDecision \/ KeepPlan
  BY <1>2, <1>6 DEF Drain, PublishDecision, KeepPlan, Drained, world, waking
<1>7. CASE (\E gate \in {"none", "hyper", "both"} : Gate(gate)) \/ (\E replan \in BOOLEAN : Decide(replan))
  BY <1>2, <1>7 DEF Gate, Decide, world, waking
<1>8. CASE Assess
  <2>1. /\ UNCHANGED <<mode, time, lastPeriodic, deadline>>
        /\ ~wake'.fresh /\ wake'.fired = (DeadlineDue \/ (wake.fired /\ ~wake.fresh))
    BY <1>8 DEF Assess, Woken
  <2>2. CASE Due = {}
    <3>1. UNCHANGED <<assessed, triggers>> /\ ~DeadlineDue
      BY <1>8, <2>2 DEF Assess, Due, When
    <3> QED
      BY <2>1, <3>1 DEF ClockInv
  <2>3. CASE Due # {}
    <3>1. DeadlineDue => deadline <= time
      BY DEF DeadlineDue
    <3>2. wake.fired /\ ~wake.fresh => deadline <= time
      BY DEF ClockInv
    <3> QED
      BY <1>3, <1>8, <2>1, <2>3, <3>1, <3>2 DEF Assess, ClockInv
  <2> QED
    BY <2>2, <2>3
(* Another selection is fresh.                                             *)
<1>9. CASE Choosing
  <2>1. ASSUME NEW d \in mode.deadlines, deadline' = d, wake' = [wake EXCEPT !.fresh = TRUE],
               UNCHANGED <<mode, time, lastPeriodic, assessed, triggers>>
        PROVE  ClockInv'
    BY <1>1, <2>1 DEF ClockInv
  <2>2. ASSUME NEW d \in mode.deadlines, Reselect(d) \/ \E ends \in BOOLEAN : Move(d, ends)
        PROVE  ClockInv'
    BY <2>1, <2>2 DEF Reselect, Move, world
  <2>3. ASSUME NEW s \in Slots, NEW policy, NEW required, Communicate(s, policy, required)
        PROVE  ClockInv'
    BY <1>2, <2>3 DEF Communicate, world, waking
  <2> QED
    BY <1>9, <2>2, <2>3 DEF Choosing
<1>10. ASSUME NEW d \in mode.deadlines, Adopt(d) PROVE ClockInv'
  <2>1. UNCHANGED <<mode, time, lastPeriodic>> /\ deadline' \in Nat
    BY <1>1, <1>10 DEF Adopt, world
  <2>2. wake'.fired /\ ~wake'.fresh => deadline' <= time
    BY <1>10 DEF Adopt
  <2> QED
    BY <1>3, <1>10, <2>1, <2>2 DEF Adopt
<1>11. CASE EndHeartbeat
  BY <1>11 DEF EndHeartbeat, Drained, Anchored, ClockInv, world
<1>12. CASE Stop
  <2>1. UNCHANGED <<mode, time, assessed, deadline, wake>>
    BY <1>12 DEF Stop, world
  <2>2. CASE PeriodicDue
    <3>1. Boundary \in Int /\ Boundary <= time
      BY BoundaryAround DEF Boundary, ClockInv
    <3>2. lastPeriodic' = Boundary /\ triggers' # {}
      BY <1>12, <2>2 DEF Stop, When
    <3> QED
      BY <2>1, <3>1, <3>2 DEF ClockInv
  <2>3. CASE ~PeriodicDue
    BY <1>2, <1>12, <2>1, <2>3 DEF Stop
  <2> QED
    BY <2>2, <2>3
<1> QED
  BY <1>4, <1>5, <1>6, <1>7, <1>8, <1>9, <1>10, <1>11, <1>12 DEF Next, Producing, Looping

(* The loop passes by a heartbeat only when nothing is overdue, however    *)
(* often the agents change their selection, for every limit, period and    *)
(* set of deadlines.                                                       *)
THEOREM OverdueIsAssessed == Spec => NothingOverdue
<1> DEFINE Kept == stage = "assess" /\ stage' = "gate" =>
             /\ snapshot # assessed.evidence => time < assessed.time + Interval
             /\ deadline <= time => deadline <= assessed.time
<1>1. Init => ClockInv
  BY ClockInvInit
<1>2. ClockInv /\ [Next]_vars => ClockInv'
  BY ClockInvStep
<1>3. ClockInv /\ [Next]_vars => [Kept]_vars
  <2> SUFFICES ASSUME ClockInv, Next, stage = "assess", stage' = "gate"
               PROVE  /\ time < assessed.time + Interval
                      /\ deadline <= time => deadline <= assessed.time
    BY DEF vars
  <2>1. Assess
    <3>1. ~Producing /\ ~Choosing
      BY DEF Producing, Tick, Enqueue, Choosing, Reselect, Move, Communicate
    <3>2. ~Calling /\ ~Fail
      BY DEF Calling, Handle, Return, Fail
    <3>3. ~Drain /\ ~EndHeartbeat /\ ~(\E gate \in {"none", "hyper", "both"} : Gate(gate))
      BY DEF Drain, EndHeartbeat, Acting, Gate
    <3>4. ~(\E replan \in BOOLEAN : Decide(replan)) /\ ~PublishDecision /\ ~KeepPlan
      BY DEF Decide, PublishDecision, KeepPlan
    <3>5. ~(\E d \in mode.deadlines : Adopt(d)) /\ ~EndInTerminal /\ ~Wait /\ ~AssessAtLimit /\ ~Stop
      BY DEF Adopt, EndInTerminal, Wait, AssessAtLimit, AtLimit, Stop
    <3> QED
      BY <3>1, <3>2, <3>3, <3>4, <3>5 DEF Next, Looping
  <2>2. triggers = {} /\ ~DeadlineDue /\ ~PeriodicDue
    BY <2>1 DEF Assess, Invoked, Due, When
  <2>3. time < lastPeriodic + Interval
    <3>1. /\ time \in Int /\ lastPeriodic \in Int /\ lastPeriodic <= time
          /\ Interval \in Int /\ ~(Boundary > lastPeriodic)
      BY <2>2, MissionsAssumption DEF ClockInv, PeriodicDue
    <3>2. time >= lastPeriodic + Interval => Boundary > lastPeriodic
      BY <3>1, BoundaryAround DEF Boundary
    <3> QED
      BY <3>1, <3>2
  <2>4. Interval \in Nat
    BY MissionsAssumption
  <2> QED
    BY <2>2, <2>3, <2>4 DEF ClockInv, DeadlineDue
<1> QED
  BY <1>1, <1>2, <1>3, PTL DEF Spec, NothingOverdue
----------------------------------------------------------------------------
(* With one communicate call at a time, a message that is no evaluation    *)
(* carries the number of the entry its call will record, so that no other  *)
(* message had it.                                                         *)
Evaluation(id) == id[1] = "evaluation"
Numbered(n) == <<"message", n, 0>>
Settled(id) ==
  \/ \E n \in 1..recorded : id = Numbered(n)
  \/ \E s \in Slots : calls[s].step = "returned" /\ calls[s].id = id
Filed(call) == [id |-> call.id, required |-> call.required] \in received

CallInv ==
  /\ recorded \in Nat
  /\ DOMAIN calls = Slots
  /\ \A s \in Slots :
       /\ calls[s] = [step |-> calls[s].step, id |-> calls[s].id, required |-> calls[s].required]
       /\ calls[s].step \in {"none", "held", "returned"}
       /\ calls[s].step # "none" => Evaluation(calls[s].id) \/ calls[s].id = Numbered(recorded + 1)
       /\ calls[s].step = "returned" => Evaluation(calls[s].id) \/ Filed(calls[s])
  /\ \A id \in answered \cup Seen : Evaluation(id) \/ Settled(id)
  /\ RequestsReachHyper

LEMMA CallInvInit == Init => CallInv
BY DEF Init, CallInv, Seen, NoCall, RequestsReachHyper

(* A number identifies the message, and the next one is not settled unless *)
(* its call has returned.                                                  *)
LEMMA NextNumberIsFree ==
  ASSUME CallInv, Parallel <= 1, NEW s \in Slots, calls[s].step # "returned",
         NEW id, id = Numbered(recorded + 1)
  PROVE  id \notin answered \cup Seen
<1>1. \A t \in Slots : t = s
  BY MissionsAssumption DEF Slots
<1>2. ASSUME NEW n \in 1..recorded PROVE id # Numbered(n)
  BY DEF Numbered, CallInv
<1>3. ~Evaluation(id) /\ ~Settled(id)
  BY <1>1, <1>2 DEF Evaluation, Numbered, Settled
<1> QED
  BY <1>3 DEF CallInv

LEMMA CallInvStep == ASSUME Parallel <= 1 PROVE CallInv /\ [Next]_vars => CallInv'
<1> SUFFICES ASSUME CallInv, [Next]_vars PROVE CallInv'
  OBVIOUS
<1>0. \A s, t \in Slots : t = s
  BY MissionsAssumption DEF Slots
<1>1. ASSUME NEW s \in Slots, NEW policy, NEW required, Communicate(s, policy, required)
      PROVE  CallInv'
  <2>1. PICK id : id = Identity(policy)
    OBVIOUS
  <2>2. PICK step : step = IF id \in answered \/ InFlight(id) THEN "returned" ELSE "held"
    OBVIOUS
  <2>3. /\ calls[s].step = "none"
        /\ calls' = [calls EXCEPT ![s] = [step |-> step, id |-> id, required |-> required]]
        /\ UNCHANGED <<recorded, told, answered, received>>
    BY <1>1, <2>1, <2>2 DEF Communicate
  <2>4. Evaluation(id) \/ id = Numbered(recorded + 1)
    BY <2>1 DEF Identity, Evaluation, Numbered
  <2>5. id = Numbered(recorded + 1) => step = "held"
    <3>1. ~InFlight(id)
      BY <1>0, <2>3 DEF InFlight
    <3> QED
      BY <2>2, <2>3, <3>1, NextNumberIsFree
  <2>6. DOMAIN calls' = Slots
    BY <2>3 DEF CallInv
  <2>7. \A t \in Slots : calls'[t] = [step |-> step, id |-> id, required |-> required]
    BY <1>0, <2>3 DEF CallInv
  <2>8. step \in {"held", "returned"}
    BY <2>2
  <2>9. ASSUME NEW i \in answered \cup Seen PROVE (Evaluation(i) \/ Settled(i))'
    <3>1. Evaluation(i) \/ \E n \in 1..recorded : i = Numbered(n)
      BY <1>0, <2>3 DEF CallInv, Settled
    <3> QED
      BY <2>3, <3>1 DEF Settled, Evaluation, Numbered
  <2>10. recorded' \in Nat /\ recorded' = recorded /\ RequestsReachHyper' /\ (answered \cup Seen)' = answered \cup Seen
    BY <2>3 DEF CallInv, RequestsReachHyper, Seen
  <2> QED
    BY <2>4, <2>5, <2>6, <2>7, <2>8, <2>9, <2>10 DEF CallInv, Evaluation, Numbered
<1>2. ASSUME NEW s \in Slots, Handle(s) PROVE CallInv'
  <2>1. PICK c : c = calls[s]
    OBVIOUS
  <2>2. PICK r : r = [id |-> c.id, required |-> c.required]
    OBVIOUS
  <2>3. /\ c.step = "held" /\ UNCHANGED <<recorded, told>>
        /\ received' = received \cup When(c.id \notin answered \cup Seen, r)
        /\ answered' = answered \cup {c.id}
        /\ calls' = [calls EXCEPT ![s].step = "returned"]
    BY <1>2, <2>1, <2>2 DEF Handle
  <2>4. c = [step |-> c.step, id |-> c.id, required |-> c.required]
    BY <2>1 DEF CallInv
  <2>5. /\ DOMAIN calls' = Slots
        /\ \A t \in Slots : calls'[t] = [step |-> "returned", id |-> c.id, required |-> c.required]
    BY <1>0, <2>1, <2>3, <2>4 DEF CallInv
  <2>6. Evaluation(c.id) \/ c.id = Numbered(recorded + 1)
    BY <2>1, <2>3 DEF CallInv
  <2>7. Evaluation(c.id) \/ r \in received'
    <3>1. c.id = Numbered(recorded + 1) => c.id \notin answered \cup Seen
      BY <2>1, <2>3, NextNumberIsFree
    <3> QED
      BY <2>3, <2>6, <3>1 DEF When
  <2>8. received \subseteq received' /\ received' \subseteq received \cup {r}
    BY <2>3 DEF When
  <2>9. (answered \cup Seen)' \subseteq (answered \cup Seen) \cup {c.id}
    BY <2>2, <2>3, <2>8 DEF Seen
  <2>10. ASSUME NEW i \in (answered \cup Seen)' PROVE (Evaluation(i) \/ Settled(i))'
    <3>1. Evaluation(i) \/ i = c.id \/ \E n \in 1..recorded : i = Numbered(n)
      BY <1>0, <2>1, <2>3, <2>9 DEF CallInv, Settled
    <3> QED
      BY <2>3, <2>5, <3>1 DEF Settled, Evaluation, Numbered
  <2>11. RequestsReachHyper'
    BY <2>3, <2>8 DEF CallInv, RequestsReachHyper
  <2>12. recorded' \in Nat /\ recorded' = recorded
    BY <2>3 DEF CallInv
  <2> QED
    BY <2>2, <2>5, <2>6, <2>7, <2>10, <2>11, <2>12 DEF CallInv, Evaluation, Numbered, Filed
<1>3. ASSUME NEW s \in Slots, Return(s) PROVE CallInv'
  <2>1. PICK c : c = calls[s]
    OBVIOUS
  <2>2. PICK r : r = [id |-> c.id, required |-> c.required]
    OBVIOUS
  <2>3. /\ c.step = "returned" /\ UNCHANGED <<answered, received>>
        /\ told' = told \cup {r} /\ recorded' = recorded + 1
        /\ calls' = [calls EXCEPT ![s] = NoCall]
    BY <1>3, <2>1, <2>2 DEF Return
  <2>4. Evaluation(c.id) \/ (c.id = Numbered(recorded + 1) /\ r \in received)
    BY <2>1, <2>2, <2>3 DEF CallInv, Filed
  <2>5. RequestsReachHyper'
    BY <2>2, <2>3, <2>4 DEF CallInv, RequestsReachHyper, Evaluation
  <2>6. recorded' \in Nat /\ recorded + 1 \in 1..recorded' /\ 1..recorded \subseteq 1..recorded'
    BY <2>3 DEF CallInv
  <2>7. ASSUME NEW i \in (answered \cup Seen)' PROVE (Evaluation(i) \/ Settled(i))'
    <3>1. Evaluation(i) \/ i = c.id \/ \E n \in 1..recorded : i = Numbered(n)
      BY <1>0, <2>1, <2>3 DEF CallInv, Settled, Seen
    <3>2. Evaluation(i) \/ \E n \in 1..recorded' : i = Numbered(n)
      BY <2>4, <2>6, <3>1
    <3> QED
      BY <3>2 DEF Settled, Evaluation, Numbered
  <2>8. DOMAIN calls' = Slots /\ \A t \in Slots : calls'[t] = NoCall
    BY <1>0, <2>3 DEF CallInv
  <2> QED
    BY <2>5, <2>6, <2>7, <2>8 DEF CallInv, NoCall
<1>4. ASSUME UNCHANGED <<calls, recorded, told, answered, received>> PROVE CallInv'
  BY <1>4 DEF CallInv, RequestsReachHyper, Seen, Settled, Filed
<1>5. CASE Producing \/ Fail \/ UNCHANGED vars \/ (\E d \in mode.deadlines : Reselect(d) \/ \E ends \in BOOLEAN : Move(d, ends))
  BY <1>4, <1>5 DEF Producing, Tick, Enqueue, Fail, Reselect, Move, vars, asking
<1>6. CASE Looping
  <2>1. CASE Drain \/ Assess \/ EndHeartbeat \/ (\E gate \in {"none", "hyper", "both"} : Gate(gate))
    BY <1>4, <2>1 DEF Drain, Assess, EndHeartbeat, Gate, asking
  <2>2. CASE (\E replan \in BOOLEAN : Decide(replan)) \/ PublishDecision \/ KeepPlan
    BY <1>4, <2>2 DEF Decide, PublishDecision, KeepPlan, asking
  <2>3. CASE (\E d \in mode.deadlines : Adopt(d)) \/ EndInTerminal \/ Wait \/ AssessAtLimit \/ Stop
    BY <1>4, <2>3 DEF Adopt, EndInTerminal, Wait, AssessAtLimit, Stop, asking
  <2> QED
    BY <1>6, <2>1, <2>2, <2>3 DEF Looping
<1> QED
  BY <1>1, <1>2, <1>3, <1>5, <1>6 DEF Next, Calling, Choosing

(* As long as an agent makes one communicate call at a time, whatever it   *)
(* was told is delivered was queued by Hyper as it was asked, an           *)
(* evaluation of the same state entry excepted: for any number of calls,   *)
(* state entries, replans and heartbeats.  With two calls in one message   *)
(* it does not hold: CommParallel.cfg shows the exception.                 *)
THEOREM OneCallReachesHyper == ASSUME Parallel <= 1 PROVE Spec => []RequestsReachHyper
<1>1. Init => CallInv
  BY CallInvInit
<1>2. CallInv /\ [Next]_vars => CallInv'
  BY CallInvStep
<1>3. CallInv => RequestsReachHyper
  BY DEF CallInv
<1> QED
  BY <1>1, <1>2, <1>3, PTL DEF Spec
=============================================================================
