------------------------ MODULE MissionContext_proofs ------------------------
(***************************************************************************)
(* Theorems about Context Coordination and the environment it shares with  *)
(* the producer, for any number of live events, heartbeats, replans and    *)
(* observations.                                                           *)
(***************************************************************************)
EXTENDS MissionContext, SequenceTheorems, TLAPS

(* k steps before the i-th of a program there is this step.                *)
Before(t, i, k, step) == i > k => t[i - k] = step

(* The lead of an invocation or a replan: the facts are stated and drained.*)
Led(t, i) ==
  /\ Before(t, i, 1, "drain") /\ Before(t, i, 2, "active")
  /\ Before(t, i, 3, "look") /\ Before(t, i, 4, "fsm")
  /\ Before(t, i, 5, IF t[i] = "invoke" THEN "status" ELSE "view")

(* A plan is stated first of all, and drained before it is activated; what *)
(* the coordinator states it drains before it does anything else.          *)
Planned(t, i) ==
  /\ t[i] = "plan" => i = 1
  /\ t[i] = "activate" => i <= 3 /\ Before(t, i, 1, "drain") /\ Before(t, i, 2, "plan")

Stating == {"fsm", "look", "active", "ingest"}

Drains(t, i) == t[i] \in Stating \cup {"plan"} => i < Len(t) /\ t[i + 1] \in Stating \cup {"drain"}

(* What holds of every step of a program.                                  *)
Programmed(t) ==
  \A i \in DOMAIN t : (t[i] \in {"invoke", "replan"} => Led(t, i)) /\ Planned(t, i) /\ Drains(t, i)

(* A fact is known to the coordinator or on its way.                       *)
Stated(source, n) ==
  facts[source] = n \/ \E i \in DOMAIN queue : queue[i] = [source |-> source, n |-> n]

Queued(source) == \E i \in DOMAIN queue : queue[i].source = source

(* What has been drawn for the step in hand.                               *)
Drafting ==
  draft # None =>
    /\ At(draft.source)
    /\ draft.source = "plan" => draft.n = facts.plan + 1
    /\ draft.source = "fsm" => draft.n = authority.fsm
    /\ draft.source = "belief" => draft.n = authority.belief + 1
    /\ draft.source = "active" => hasManeuver /\ draft.n <= Len(events)

(* Who holds the environment's lock, and what was published under it.      *)
Locking ==
  /\ latest <= Len(events)
  /\ lock = None /\ events[Len(events)] = "planning" => latest = Len(events)
  /\ lock # None =>
       /\ lock.by = "view" <=> events[Len(events)] = "planning"
       /\ lock.by = "view" => lock.fresh /\ At("view")
       /\ lock.by # "view" /\ ~mode.producer => At("advance")

(* No fact is ahead of its owner, and the last of each is stated.          *)
Known ==
  /\ \A s \in Sources \ {"active"} : snapshot[s] = facts[s]
  /\ facts.env <= latest /\ facts.fsm <= authority.fsm /\ facts.belief <= authority.belief
  /\ facts.active <= Len(events)
  /\ \A i \in DOMAIN queue :
       /\ queue[i].source = "env" => queue[i].n <= latest
       /\ queue[i].source = "fsm" => queue[i].n <= authority.fsm
       /\ queue[i].source = "belief" => queue[i].n <= authority.belief
       /\ queue[i].source = "active" => queue[i].n <= Len(events)
  /\ Stated("env", latest) /\ Stated("belief", authority.belief)
  /\ evidence <= latest

(* No maneuver is active before the environment has one.                   *)
Active ==
  ~hasManeuver => facts.active = 0 /\ snapshot.active = 0 /\ ~Queued("active")

(* The revision of the plan: stated, then drained, then activated.         *)
PlanDue == At("plan") \/ Queued("plan")
ActivationDue == \E i \in DOMAIN todo : todo[i] = "activate"
Step(due) == IF due THEN 1 ELSE 0

Plans ==
  todo # <<>> =>
    /\ facts.plan + Step(PlanDue) = authority.plan + Step(ActivationDue)
    /\ \A i \in DOMAIN queue : queue[i].source = "plan" => queue[i].n = facts.plan + 1
    /\ \A i, j \in DOMAIN queue : queue[i].source = "plan" /\ queue[j].source = "plan" => i = j
    /\ Queued("plan") => Head(todo) \in Stating \cup {"drain"}

(* An invocation whose lead is behind it.                                  *)
Informed ==
  /\ \A i \in DOMAIN todo : todo[i] = "invoke" /\ i <= 4 => Stated("fsm", authority.fsm)
  /\ At("invoke") => facts.env >= evidence /\ \A i \in DOMAIN queue : queue[i].source = "env"

(* The view of a replan in a mission where the coordinator owns time.      *)
Viewing ==
  ~mode.producer =>
    /\ \A i \in DOMAIN todo : todo[i] = "replan" /\ i <= 5 => view = latest
    /\ At("replan") => queue = <<>>

ContextInv ==
  TypeOK /\ Programmed(todo) /\ Drafting /\ Locking /\ Known /\ Active /\ SnapshotsCoherent
         /\ Plans /\ Informed /\ Viewing

(***************************************************************************)
(* The programs of the phases.                                             *)
(***************************************************************************)

(* A program that begins a phase: its invocations and replans have their   *)
(* whole lead before them.                                                 *)
Whole(t) == \A i \in DOMAIN t : t[i] \in {"invoke", "replan"} => i >= 6

(* A program without a plan to adopt.                                      *)
Plain(t) == \A i \in DOMAIN t : t[i] \notin {"plan", "activate"}

LEMMA HeartbeatSteps ==
  Heartbeat = <<"status", "fsm", "look", "active", "drain", "invoke", "clock", "status", "fsm", "look", "active",
                "ingest", "drain", "fsm", "look", "active", "drain">>
<1>1. /\ Len(Heartbeat) = 17 /\ Heartbeat \in Seq(Steps)
      /\ Heartbeat[1] = "status" /\ Heartbeat[2] = "fsm" /\ Heartbeat[3] = "look" /\ Heartbeat[4] = "active"
      /\ Heartbeat[5] = "drain" /\ Heartbeat[6] = "invoke" /\ Heartbeat[7] = "clock" /\ Heartbeat[8] = "status"
      /\ Heartbeat[9] = "fsm" /\ Heartbeat[10] = "look" /\ Heartbeat[11] = "active" /\ Heartbeat[12] = "ingest"
      /\ Heartbeat[13] = "drain" /\ Heartbeat[14] = "fsm" /\ Heartbeat[15] = "look" /\ Heartbeat[16] = "active"
      /\ Heartbeat[17] = "drain"
  BY DEF Heartbeat, RuntimeFacts, UpdatesDrained, Steps
<1>2. PICK t : t = <<"status", "fsm", "look", "active", "drain", "invoke", "clock", "status", "fsm", "look", "active",
                     "ingest", "drain", "fsm", "look", "active", "drain">>
  OBVIOUS
<1>3. t \in Seq(Steps) /\ Len(t) = 17 /\ \A i \in 1 .. 17 : Heartbeat[i] = t[i]
  BY <1>1, <1>2 DEF Steps
<1> QED
  BY <1>1, <1>2, <1>3, SeqEqual

LEMMA ReplanningSteps ==
  Replanning = <<"view", "fsm", "look", "active", "drain", "replan", "clock", "ingest", "drain">>
<1>1. /\ Len(Replanning) = 9 /\ Replanning \in Seq(Steps)
      /\ Replanning[1] = "view" /\ Replanning[2] = "fsm" /\ Replanning[3] = "look" /\ Replanning[4] = "active"
      /\ Replanning[5] = "drain" /\ Replanning[6] = "replan" /\ Replanning[7] = "clock"
      /\ Replanning[8] = "ingest" /\ Replanning[9] = "drain"
  BY DEF Replanning, RuntimeFacts, UpdatesDrained, Steps
<1>2. PICK t : t = <<"view", "fsm", "look", "active", "drain", "replan", "clock", "ingest", "drain">>
  OBVIOUS
<1>3. t \in Seq(Steps) /\ Len(t) = 9 /\ \A i \in 1 .. 9 : Replanning[i] = t[i]
  BY <1>1, <1>2 DEF Steps
<1> QED
  BY <1>1, <1>2, <1>3, SeqEqual

LEMMA GateSteps ==
  /\ Gate \in Seq(Steps) /\ Len(Gate) \in 2 .. 3
  /\ \A i \in DOMAIN Gate : Gate[i] \in {"clock", "view", "assess"}
<1>1. CASE mode.joint34
  <2>1. Gate = <<"clock">> \o <<>> \o <<"assess">>
    BY <1>1 DEF Gate
  <2>2. Len(Gate) = 2 /\ Gate[1] = "clock" /\ Gate[2] = "assess" /\ Gate \in Seq(Steps)
    BY <2>1 DEF Steps
  <2> QED
    BY <2>2
<1>2. CASE ~mode.joint34
  <2>1. Gate = <<"clock">> \o <<"view">> \o <<"assess">>
    BY <1>2 DEF Gate
  <2>2. Len(Gate) = 3 /\ Gate[1] = "clock" /\ Gate[2] = "view" /\ Gate[3] = "assess" /\ Gate \in Seq(Steps)
    BY <2>1 DEF Steps
  <2> QED
    BY <2>2
<1> QED
  BY <1>1, <1>2

LEMMA Phases ==
  /\ Heartbeat \in Seq(Steps) /\ Programmed(Heartbeat) /\ Whole(Heartbeat) /\ Plain(Heartbeat)
  /\ Replanning \in Seq(Steps) /\ Programmed(Replanning) /\ Whole(Replanning) /\ Plain(Replanning)
  /\ Gate \in Seq(Steps) /\ Programmed(Gate) /\ Whole(Gate) /\ Plain(Gate)
<1>1. Heartbeat \in Seq(Steps) /\ Programmed(Heartbeat) /\ Whole(Heartbeat) /\ Plain(Heartbeat)
  <2>1. PICK t : t = Heartbeat
    OBVIOUS
  <2>2. t = <<"status", "fsm", "look", "active", "drain", "invoke", "clock", "status", "fsm", "look", "active",
              "ingest", "drain", "fsm", "look", "active", "drain">>
    BY <2>1, HeartbeatSteps
  <2>3. t \in Seq(Steps) /\ Whole(t) /\ Plain(t)
    BY <2>2 DEF Whole, Plain, Steps
  <2>4. ASSUME NEW i \in DOMAIN t
        PROVE  (t[i] \in {"invoke", "replan"} => Led(t, i)) /\ Planned(t, i) /\ Drains(t, i)
    BY <2>2 DEF Led, Before, Planned, Drains, Stating
  <2> QED
    BY <2>1, <2>3, <2>4 DEF Programmed
<1>2. Replanning \in Seq(Steps) /\ Programmed(Replanning) /\ Whole(Replanning) /\ Plain(Replanning)
  <2>1. PICK t : t = Replanning
    OBVIOUS
  <2>2. t = <<"view", "fsm", "look", "active", "drain", "replan", "clock", "ingest", "drain">>
    BY <2>1, ReplanningSteps
  <2>3. t \in Seq(Steps) /\ Whole(t) /\ Plain(t)
    BY <2>2 DEF Whole, Plain, Steps
  <2>4. ASSUME NEW i \in DOMAIN t
        PROVE  (t[i] \in {"invoke", "replan"} => Led(t, i)) /\ Planned(t, i) /\ Drains(t, i)
    BY <2>2 DEF Led, Before, Planned, Drains, Stating
  <2> QED
    BY <2>1, <2>3, <2>4 DEF Programmed
<1>3. Gate \in Seq(Steps) /\ Programmed(Gate) /\ Whole(Gate) /\ Plain(Gate)
  BY GateSteps DEF Programmed, Planned, Drains, Stating, Whole, Plain
<1> QED
  BY <1>1, <1>2, <1>3

(* One program after another.                                              *)
LEMMA Joined ==
  ASSUME NEW s \in Seq(Steps), NEW t \in Seq(Steps), Programmed(s), Programmed(t), Whole(t), Plain(t)
  PROVE  /\ s \o t \in Seq(Steps) /\ Programmed(s \o t)
         /\ Whole(s) => Whole(s \o t)
         /\ Plain(s) => Plain(s \o t)
<1>1. PICK u : u = s \o t
  OBVIOUS
<1>2. /\ u \in Seq(Steps) /\ Len(u) = Len(s) + Len(t) /\ DOMAIN u = 1 .. (Len(s) + Len(t))
      /\ \A i \in 1 .. Len(s) : u[i] = s[i]
      /\ \A i \in 1 .. Len(t) : u[i + Len(s)] = t[i]
      /\ DOMAIN s = 1 .. Len(s) /\ DOMAIN t = 1 .. Len(t) /\ Len(s) \in Nat /\ Len(t) \in Nat
  BY <1>1
<1>3. ASSUME NEW i \in 1 .. Len(s)
      PROVE  (u[i] \in {"invoke", "replan"} => Led(u, i)) /\ Planned(u, i) /\ Drains(u, i)
  <2>1. (s[i] \in {"invoke", "replan"} => Led(s, i)) /\ Planned(s, i) /\ Drains(s, i)
    BY <1>2 DEF Programmed
  <2>2. \A k \in 1 .. 5 : \A step : Before(s, i, k, step) => Before(u, i, k, step)
    BY <1>2 DEF Before
  <2>3. u[i] = s[i] /\ (i < Len(s) => u[i + 1] = s[i + 1])
    BY <1>2
  <2> QED
    BY <1>2, <2>1, <2>2, <2>3 DEF Led, Planned, Drains
<1>4. ASSUME NEW j \in 1 .. Len(t)
      PROVE  /\ u[j + Len(s)] \in {"invoke", "replan"} => Led(u, j + Len(s))
             /\ Planned(u, j + Len(s)) /\ Drains(u, j + Len(s))
  <2>1. (t[j] \in {"invoke", "replan"} => Led(t, j) /\ j >= 6) /\ Drains(t, j) /\ t[j] \notin {"plan", "activate"}
    BY <1>2 DEF Programmed, Whole, Plain
  <2>2. j >= 6 => \A k \in 1 .. 5 : \A step : Before(t, j, k, step) => Before(u, j + Len(s), k, step)
    <3>1. ASSUME j >= 6, NEW k \in 1 .. 5, NEW step, Before(t, j, k, step) PROVE Before(u, j + Len(s), k, step)
      <4>1. Len(s) \in Nat /\ Len(t) \in Nat
        BY <1>2
      <4>2. j - k \in 1 .. Len(t) /\ (j + Len(s)) - k = (j - k) + Len(s)
        BY <3>1, <4>1
      <4>3. j > k /\ t[j - k] = step
        BY <3>1 DEF Before
      <4>4. u[(j - k) + Len(s)] = t[j - k]
        BY <1>2, <4>2
      <4> QED
        BY <4>2, <4>3, <4>4 DEF Before
    <3> QED
      BY <3>1
  <2>3. u[j + Len(s)] = t[j] /\ (j < Len(t) => u[(j + Len(s)) + 1] = t[j + 1])
    <3>1. (j + Len(s)) + 1 = (j + 1) + Len(s)
      BY <1>2
    <3> QED
      BY <1>2, <3>1
  <2>4. j < Len(t) => j + Len(s) < Len(u)
    BY <1>2
  <2> QED
    BY <2>1, <2>2, <2>3, <2>4 DEF Led, Planned, Drains, Stating
<1>5. \A i \in DOMAIN u : i \in 1 .. Len(s) \/ \E j \in 1 .. Len(t) : i = j + Len(s)
  <2>1. ASSUME NEW i \in DOMAIN u, i > Len(s) PROVE i - Len(s) \in 1 .. Len(t) /\ i = (i - Len(s)) + Len(s)
    BY <1>2, <2>1
  <2> QED
    BY <1>2, <2>1
<1>6. Programmed(u)
  BY <1>3, <1>4, <1>5 DEF Programmed
<1>7. ASSUME Whole(s), NEW i \in DOMAIN u, u[i] \in {"invoke", "replan"} PROVE i >= 6
  <2>1. CASE i \in 1 .. Len(s)
    BY <1>2, <1>7, <2>1 DEF Whole
  <2>2. ASSUME NEW j \in 1 .. Len(t), i = j + Len(s) PROVE i >= 6
    <3>1. t[j] \in {"invoke", "replan"} /\ j \in DOMAIN t
      BY <1>2, <1>7, <2>2
    <3>2. j >= 6
      BY <3>1 DEF Whole
    <3> QED
      BY <1>2, <2>2, <3>2
  <2> QED
    BY <1>5, <2>1, <2>2
<1>8. Plain(s) => Plain(u)
  BY <1>2, <1>5 DEF Plain
<1> QED
  BY <1>1, <1>2, <1>6, <1>7, <1>8 DEF Whole

(* What the steps that choose put on the coordinator's list.               *)
LEMMA Short ==
  /\ <<>> \in Seq(Steps) /\ Programmed(<<>>) /\ Whole(<<>>) /\ Plain(<<>>)
  /\ <<"top">> \in Seq(Steps) /\ Programmed(<<"top">>) /\ Whole(<<"top">>) /\ Plain(<<"top">>)
  /\ <<"advance">> \in Seq(Steps) /\ Programmed(<<"advance">>) /\ Whole(<<"advance">>) /\ Plain(<<"advance">>)
  /\ <<"adopt">> \in Seq(Steps) /\ Programmed(<<"adopt">>) /\ Whole(<<"adopt">>) /\ Plain(<<"adopt">>)
BY DEF Programmed, Planned, Drains, Stating, Whole, Plain, Steps

LEMMA Chosen ==
  ASSUME NEW t,
         \/ t \in {<<>>, <<"top">>, <<"advance">>, Gate, UpdatesDrained \o <<"clock", "wake">>,
                   <<"hyper", "clock">> \o UpdatesDrained \o <<"decide">>}
         \/ t \in {Heartbeat \o Gate, Replanning \o <<"adopt">>}
  PROVE  t \in Seq(Steps) /\ Programmed(t) /\ Whole(t) /\ Plain(t)
<1>1. CASE t = UpdatesDrained \o <<"clock", "wake">>
  <2>1. /\ t \in Seq(Steps) /\ Len(t) = 4 /\ t[1] = "ingest" /\ t[2] = "drain" /\ t[3] = "clock" /\ t[4] = "wake"
    BY <1>1 DEF UpdatesDrained, Steps
  <2> QED
    BY <2>1 DEF Programmed, Planned, Drains, Stating, Whole, Plain
<1>2. CASE t = <<"hyper", "clock">> \o UpdatesDrained \o <<"decide">>
  <2>1. /\ t \in Seq(Steps) /\ Len(t) = 5 /\ t[1] = "hyper" /\ t[2] = "clock" /\ t[3] = "ingest" /\ t[4] = "drain"
        /\ t[5] = "decide"
    BY <1>2 DEF UpdatesDrained, Steps
  <2> QED
    BY <2>1 DEF Programmed, Planned, Drains, Stating, Whole, Plain
<1>3. CASE t \in {Heartbeat \o Gate, Replanning \o <<"adopt">>}
  BY <1>3, Phases, Short, Joined
<1> QED
  BY <1>1, <1>2, <1>3, Phases, Short

LEMMA AdoptionProgram ==
  ASSUME NEW t, t = Adoption \o <<"advance">>
  PROVE  /\ t \in Seq(Steps) /\ Programmed(t) /\ Whole(t) /\ Len(t) > 3
         /\ t[1] = "plan" /\ t[3] = "activate"
<1>1. PICK s : s = <<"plan", "drain", "activate">>
  OBVIOUS
<1>2. s \in Seq(Steps) /\ Programmed(s) /\ Whole(s)
  <2>1. s \in Seq(Steps) /\ Whole(s)
    BY <1>1 DEF Whole, Steps
  <2>2. ASSUME NEW i \in DOMAIN s
        PROVE  (s[i] \in {"invoke", "replan"} => Led(s, i)) /\ Planned(s, i) /\ Drains(s, i)
    BY <1>1 DEF Before, Planned, Drains, Stating
  <2> QED
    BY <2>1, <2>2 DEF Programmed
<1>3. Adoption = s \o Heartbeat
  BY <1>1 DEF Adoption
<1>4. Adoption \in Seq(Steps) /\ Programmed(Adoption) /\ Whole(Adoption)
  BY <1>2, <1>3, Phases, Joined
<1>5. t \in Seq(Steps) /\ Programmed(t) /\ Whole(t)
  BY <1>4, Short, Joined
<1>6. Len(t) > 3 /\ t[1] = "plan" /\ t[3] = "activate"
  <2>1. /\ Len(s) = 3 /\ s[1] = "plan" /\ s[3] = "activate" /\ Heartbeat \in Seq(Steps) /\ s \in Seq(Steps)
        /\ <<"advance">> \in Seq(Steps) /\ Len(<<"advance">>) = 1
    BY <1>1, <1>2, Phases, Short
  <2>2. Len(Adoption) >= 3 /\ Adoption[1] = "plan" /\ Adoption[3] = "activate"
    <3>1. PICK h : h = Heartbeat
      OBVIOUS
    <3>2. PICK a : a = s \o h
      OBVIOUS
    <3>3. h \in Seq(Steps) /\ s \in Seq(Steps)
      BY <2>1, <3>1
    <3>4. Len(a) = Len(s) + Len(h) /\ Len(h) \in Nat /\ \A i \in 1 .. Len(s) : a[i] = s[i]
      BY <3>2, <3>3
    <3>5. Len(a) >= 3 /\ a[1] = "plan" /\ a[3] = "activate"
      BY <2>1, <3>4
    <3> QED
      BY <1>3, <3>1, <3>2, <3>5
  <2> QED
    BY <1>4, <2>1, <2>2
<1> QED
  BY <1>5, <1>6

LEMMA FirstProgram ==
  ASSUME NEW t, t = <<"plan">> \o RuntimeFacts \o <<"drain", "top">>
  PROVE  t \in Seq(Steps) /\ Programmed(t) /\ Whole(t) /\ Len(t) = 6 /\ t[1] = "plan"
         /\ \A i \in DOMAIN t : t[i] # "activate"
<1>1. /\ t \in Seq(Steps) /\ Len(t) = 6 /\ t[1] = "plan" /\ t[2] = "fsm" /\ t[3] = "look" /\ t[4] = "active"
      /\ t[5] = "drain" /\ t[6] = "top"
  BY DEF RuntimeFacts, Steps
<1>2. ASSUME NEW i \in DOMAIN t PROVE t[i] \notin {"invoke", "replan", "activate"} /\ Planned(t, i) /\ Drains(t, i)
  <2>1. i \in 1 .. 6
    BY <1>1
  <2>2. t[i] \notin {"invoke", "replan", "activate"} /\ (t[i] = "plan" => i = 1)
    BY <1>1, <2>1
  <2>3. Drains(t, i)
    BY <1>1, <2>1 DEF Drains, Stating
  <2> QED
    BY <2>2, <2>3 DEF Planned
<1> QED
  BY <1>1, <1>2 DEF Programmed, Whole

(* The rest of a program, behind the beliefs that an invocation asks for.  *)
LEMMA Resumed ==
  ASSUME NEW t \in Seq(Steps), t # <<>>, Programmed(t)
  PROVE  /\ Tail(t) \in Seq(Steps) /\ Programmed(Tail(t))
         /\ \A n \in Nat : Head(t) = "invoke" =>
              /\ [i \in 1 .. n |-> "belief"] \o Tail(t) \in Seq(Steps)
              /\ Programmed([i \in 1 .. n |-> "belief"] \o Tail(t))
              /\ Whole([i \in 1 .. n |-> "belief"] \o Tail(t))
              /\ Plain([i \in 1 .. n |-> "belief"] \o Tail(t))
<1>1. PICK u : u = Tail(t)
  OBVIOUS
<1>2. /\ u \in Seq(Steps) /\ Len(u) = Len(t) - 1 /\ Len(u) \in Nat /\ DOMAIN u = 1 .. Len(u)
      /\ DOMAIN t = 1 .. Len(t)
      /\ \A i \in 1 .. Len(u) : u[i] = t[i + 1] /\ i + 1 \in DOMAIN t
  BY <1>1
<1>3. ASSUME NEW i \in DOMAIN u
      PROVE  (u[i] \in {"invoke", "replan"} => Led(u, i)) /\ Planned(u, i) /\ Drains(u, i)
  <2>1. /\ t[i + 1] \in {"invoke", "replan"} => Led(t, i + 1)
        /\ Planned(t, i + 1) /\ Drains(t, i + 1) /\ u[i] = t[i + 1]
    BY <1>2, <1>3 DEF Programmed
  <2>2. ASSUME NEW k \in 1 .. 5, NEW step, Before(t, i + 1, k, step) PROVE Before(u, i, k, step)
    <3>1. i > k => (i + 1) - k = (i - k) + 1 /\ i - k \in 1 .. Len(u) /\ i + 1 > k
      BY <1>2, <1>3
    <3> QED
      BY <1>2, <2>2, <3>1 DEF Before
  <2>3. Planned(u, i)
    <3>1. t[i + 1] # "plan"
      BY <1>2, <1>3, <2>1 DEF Planned
    <3> QED
      BY <1>2, <1>3, <2>1, <2>2, <3>1 DEF Planned
  <2>4. Drains(u, i)
    BY <1>2, <1>3, <2>1 DEF Drains
  <2> QED
    BY <2>1, <2>2, <2>3, <2>4 DEF Led
<1>4. Programmed(u)
  BY <1>3 DEF Programmed
<1>5. ASSUME Head(t) = "invoke" PROVE Whole(u) /\ Plain(u)
  <2>0. t[1] = "invoke"
    BY <1>5
  <2>1. ASSUME NEW i \in 1 .. Len(u) PROVE /\ u[i] \in {"invoke", "replan"} => i >= 6
                                           /\ u[i] \notin {"plan", "activate"}
    <3>1. u[i] = t[i + 1] /\ i + 1 \in DOMAIN t
      BY <1>2
    <3>2. CASE u[i] \in {"invoke", "replan"}
      <4>1. Led(t, i + 1)
        BY <3>1, <3>2 DEF Programmed
      <4>2. \A k \in 1 .. 5 : (i + 1) - k = 1 => t[(i + 1) - k] = "invoke"
        BY <2>0
      <4>3. i \notin 1 .. 5
        BY <4>1, <4>2 DEF Led, Before
      <4> QED
        BY <3>2, <4>3
    <3>3. CASE u[i] \in {"plan", "activate"}
      <4>1. Planned(t, i + 1)
        BY <3>1 DEF Programmed
      <4> QED
        BY <2>0, <3>1, <3>3, <4>1 DEF Planned, Before
    <3> QED
      BY <3>2, <3>3
  <2> QED
    BY <1>2, <2>1 DEF Whole, Plain
<1>6. ASSUME NEW n \in Nat, Head(t) = "invoke", NEW b, b = [i \in 1 .. n |-> "belief"]
      PROVE  b \o u \in Seq(Steps) /\ Programmed(b \o u) /\ Whole(b \o u) /\ Plain(b \o u)
  <2>1. b \in Seq(Steps) /\ \A i \in DOMAIN b : b[i] = "belief"
    BY <1>6 DEF Steps
  <2>2. Programmed(b) /\ Whole(b) /\ Plain(b)
    BY <2>1 DEF Programmed, Planned, Drains, Stating, Whole, Plain
  <2> QED
    BY <1>2, <1>4, <1>5, <1>6, <2>1, <2>2, Joined
<1> QED
  BY <1>1, <1>2, <1>4, <1>6

(***************************************************************************)
(* What the steps change.                                                  *)
(***************************************************************************)

(* Steps of the environment that publish nothing.                          *)
Sensing == Apply \/ Tick \/ Retry \/ ProducerFails \/ (PlanningView /\ events[Len(events)] # "planning")

ViewUnchanged == PlanningView /\ events[Len(events)] = "planning"

(* Steps of the coordinator that only choose what comes next.              *)
Steering ==
  \/ Drained \/ Clock \/ Think \/ Ingest \/ Top \/ Wake \/ Assess \/ Decide \/ Adopt \/ Advance
  \/ Look \/ NothingActive

Drawing == (\E source \in Sources : Draw(source)) \/ Redraw

LEMMA StepKinds ==
  Next => \/ Sensing \/ ViewUnchanged \/ Publish \/ Steering \/ Drawing \/ State \/ MissionFails
          \/ Receive \/ PublishStatus \/ Invoke \/ Activate \/ UNCHANGED vars
BY DEF Next, Sensing, ViewUnchanged, Steering, Drawing, Terminated

LEMMA SensingEffect ==
  ASSUME Sensing
  PROVE  /\ UNCHANGED <<todo, latest, queue, draft, facts, snapshot, mode, authority, evidence, view>>
         /\ hasManeuver => hasManeuver'
BY DEF Sensing, Apply, Tick, Retry, ProducerFails, PlanningView, Begin, context, ledger

LEMMA SteeringEffect ==
  ASSUME TypeOK, Drafting, Steering
  PROVE  /\ UNCHANGED <<events, latest, hasManeuver, commands, lock, running, failed>>
         /\ UNCHANGED <<queue, facts, snapshot, mode, authority, view, beats>>
         /\ draft = None /\ draft' = None
         /\ todo # <<>> /\ Head(todo) \notin {"plan", "fsm", "belief", "invoke", "activate"}
<1>1. /\ UNCHANGED <<events, latest, hasManeuver, commands, lock, running, failed>>
      /\ UNCHANGED <<queue, draft, facts, snapshot, mode, authority, view, beats>>
  BY DEF Steering, Drained, Clock, Think, Ingest, Top, Wake, Assess, Decide, Adopt, Advance, Look, NothingActive,
         world, context, ledger
<1>2. /\ todo # <<>> /\ Head(todo) \notin {"plan", "fsm", "belief", "invoke", "activate"}
      /\ Head(todo) = "active" => draft = None
  BY DEF Steering, Drained, Clock, Think, Ingest, Top, Wake, Assess, Decide, Adopt, Advance, Look, NothingActive, At
<1>3. draft = None
  BY <1>2 DEF TypeOK, Drafting, Drawn, Sources, At
<1> QED
  BY <1>1, <1>2, <1>3

LEMMA DrawingEffect ==
  Drawing => UNCHANGED <<todo, events, latest, hasManeuver, commands, lock, running, failed, observed, queue,
                         facts, snapshot, mode, authority, evidence, view, beats>>
BY DEF Drawing, Draw, Redraw, world, context, ledger

LEMMA StateEffect ==
  ASSUME TypeOK, Drafting, State
  PROVE  /\ draft \in Drawn /\ draft' = None
         /\ todo # <<>> /\ Head(todo) = draft.source /\ todo' = Tail(todo)
         /\ queue' = Append(queue, [source |-> draft.source, n |-> draft.n])
         /\ authority'.plan = authority.plan /\ authority'.fsm = authority.fsm
         /\ authority'.belief = IF draft.source = "belief" THEN draft.n ELSE authority.belief
         /\ authority' \in [plan: Nat, fsm: Nat, belief: Nat]
         /\ UNCHANGED <<events, latest, hasManeuver, commands, running, failed, observed, facts, snapshot, mode,
                        evidence, view, beats>>
<1>1. draft \in Drawn /\ todo # <<>> /\ Head(todo) = draft.source
  BY DEF State, Drafting, At, TypeOK
<1>2. /\ draft' = None /\ todo' = Tail(todo)
      /\ queue' = Append(queue, [source |-> draft.source, n |-> draft.n])
      /\ authority' = IF draft.source = "belief" THEN [authority EXCEPT !.belief = draft.n] ELSE authority
      /\ UNCHANGED <<events, latest, hasManeuver, commands, running, failed, observed, facts, snapshot, mode,
                     evidence, view, beats>>
  BY DEF State, Done, context
<1> QED
  BY <1>1, <1>2 DEF TypeOK, Drawn

(* A fact is handled: of its source, the highest revision is kept.         *)
LEMMA ReceiveEffect ==
  ASSUME TypeOK, Known, Receive
  PROVE  /\ UNCHANGED <<todo, events, latest, hasManeuver, commands, lock, running, failed, observed>>
         /\ UNCHANGED <<draft, mode, authority, evidence, view, beats>>
         /\ At("drain") /\ queue # <<>> /\ queue' = Tail(queue)
         /\ Head(queue) \in [source: Sources, n: Nat]
         /\ facts' \in [Sources -> Nat] /\ snapshot' \in [Sources -> Nat]
         /\ \A s \in Sources : s # Head(queue).source => facts'[s] = facts[s]
         /\ \/ facts'[Head(queue).source] = Head(queue).n /\ Head(queue).n > facts[Head(queue).source]
            \/ facts'[Head(queue).source] = facts[Head(queue).source] /\ Head(queue).n <= facts[Head(queue).source]
         /\ \A s \in Sources \ {"active"} : snapshot'[s] = facts'[s]
         /\ \/ snapshot' = snapshot
            \/ snapshot'.active = IF hasManeuver THEN facts'.env ELSE facts'.active
<1>1. /\ UNCHANGED <<todo, events, latest, hasManeuver, commands, lock, running, failed, observed>>
      /\ UNCHANGED <<draft, mode, authority, evidence, view, beats>>
      /\ At("drain") /\ queue # <<>> /\ queue' = Tail(queue)
  BY DEF Receive, world, ledger
<1>2. PICK f : f = Head(queue)
  OBVIOUS
<1>3. f \in [source: Sources, n: Nat] /\ f.source \in Sources /\ f.n \in Nat
  <2>1. queue \in Seq([source: Sources, n: Nat])
    BY DEF TypeOK
  <2>2. f \in [source: Sources, n: Nat]
    BY <1>1, <1>2, <2>1, HeadTailProperties
  <2> QED
    BY <2>2
<1>4. /\ facts \in [Sources -> Nat] /\ snapshot \in [Sources -> Nat]
      /\ \A s \in Sources \ {"active"} : snapshot[s] = facts[s]
  BY DEF TypeOK, Known
<1>5. Handle(f)
  BY <1>2 DEF Receive
<1>6. CASE f.n <= facts[f.source]
  <2>1. facts' = facts /\ snapshot' = snapshot
    BY <1>5, <1>6 DEF Handle, context
  <2> QED
    BY <1>1, <1>2, <1>3, <1>4, <1>6, <2>1
<1>7. CASE ~(f.n <= facts[f.source])
  <2>1. facts' = [facts EXCEPT ![f.source] = f.n] /\ snapshot' = Composed(facts')
    BY <1>5, <1>7 DEF Handle
  <2>2. facts' \in [Sources -> Nat] /\ facts'[f.source] = f.n /\ \A s \in Sources \ {f.source} : facts'[s] = facts[s]
    BY <1>3, <1>4, <2>1
  <2>3. snapshot' = IF hasManeuver THEN [facts' EXCEPT !.active = facts'.env] ELSE facts'
    BY <1>1, <2>1 DEF Composed
  <2>4. /\ snapshot' \in [Sources -> Nat] /\ \A s \in Sources \ {"active"} : snapshot'[s] = facts'[s]
        /\ snapshot'.active = IF hasManeuver THEN facts'.env ELSE facts'.active
    BY <2>2, <2>3 DEF Sources
  <2>5. f.n > facts[f.source]
    BY <1>3, <1>4, <1>7
  <2> QED
    BY <1>1, <1>2, <1>3, <2>2, <2>4, <2>5
<1> QED
  BY <1>6, <1>7

LEMMA PublishEffect ==
  ASSUME TypeOK, Locking, Publish
  PROVE  /\ lock \in Holder /\ lock' = None
         /\ queue' = Append(queue, [source |-> "env", n |-> Len(events)])
         /\ latest' = Len(events) /\ view' \in {view, Len(events)}
         /\ lock.by = "view" => At("view") /\ todo' = Tail(todo) /\ view' = Len(events)
         /\ lock.by # "view" => /\ todo' = todo \/ todo' = <<"top">>
                                /\ view' = view /\ (~mode.producer => At("advance"))
                                /\ mode.producer => todo' = todo
         /\ draft = None => draft' = None
         /\ draft # None => draft' = [draft EXCEPT !.fresh = FALSE]
         /\ UNCHANGED <<events, hasManeuver, commands, running, failed, observed, facts, snapshot, mode,
                        authority, evidence, beats>>
<1>1. lock \in Holder /\ lock # None
  BY DEF Publish, TypeOK
<1>2. /\ lock.by = "view" => todo' = Tail(todo)
      /\ lock.by = "tick" /\ ~mode.producer => todo' = <<"top">>
      /\ lock.by # "view" /\ ~(lock.by = "tick" /\ ~mode.producer) => todo' = todo
  BY DEF Publish
<1>3. /\ lock' = None
      /\ queue' = Append(queue, [source |-> "env", n |-> Len(events)])
      /\ latest' = Len(events) /\ view' = IF lock.by = "view" THEN Len(events) ELSE view
      /\ draft' = IF draft = None THEN None ELSE [draft EXCEPT !.fresh = FALSE]
      /\ UNCHANGED <<events, hasManeuver, commands, running, failed, observed, facts, snapshot, mode,
                     authority, evidence, beats>>
  BY DEF Publish, EnvFact, context
<1> QED
  BY <1>1, <1>2, <1>3 DEF Locking

(* A longer queue; a shorter queue.                                        *)
LEMMA Appended ==
  ASSUME TypeOK, NEW f \in [source: Sources, n: Nat], queue' = Append(queue, f)
  PROVE  /\ queue' \in Seq([source: Sources, n: Nat])
         /\ \A i \in DOMAIN queue' : queue'[i] = f \/ (i \in DOMAIN queue /\ queue'[i] = queue[i])
         /\ \A i \in DOMAIN queue : i \in DOMAIN queue' /\ queue'[i] = queue[i]
         /\ Len(queue) + 1 \in DOMAIN queue' /\ queue'[Len(queue) + 1] = f
         /\ \A i \in DOMAIN queue' : queue'[i] = f /\ i \notin DOMAIN queue => i = Len(queue) + 1
<1>1. queue \in Seq([source: Sources, n: Nat])
  BY DEF TypeOK
<1> QED
  BY <1>1

LEMMA Shortened ==
  ASSUME TypeOK, queue # <<>>, queue' = Tail(queue)
  PROVE  /\ queue' \in Seq([source: Sources, n: Nat])
         /\ \A i \in DOMAIN queue' : i + 1 \in DOMAIN queue /\ queue'[i] = queue[i + 1] /\ i + 1 # 1
         /\ \A i \in DOMAIN queue : queue[i] = Head(queue) \/ (i - 1 \in DOMAIN queue' /\ queue'[i - 1] = queue[i])
         /\ 1 \in DOMAIN queue /\ queue[1] = Head(queue)
<1>1. queue \in Seq([source: Sources, n: Nat])
  BY DEF TypeOK
<1>2. /\ queue' \in Seq([source: Sources, n: Nat]) /\ Len(queue') = Len(queue) - 1 /\ Len(queue) \in Nat
      /\ DOMAIN queue = 1 .. Len(queue) /\ DOMAIN queue' = 1 .. Len(queue') /\ Len(queue) > 0
      /\ \A i \in 1 .. Len(queue') : queue'[i] = queue[i + 1]
      /\ queue[1] = Head(queue)
  BY <1>1
<1> QED
  BY <1>2

(***************************************************************************)
(* The list of steps.                                                      *)
(***************************************************************************)

LEMMA TailFacts ==
  ASSUME TypeOK, todo # <<>>
  PROVE  /\ Tail(todo) \in Seq(Steps) /\ DOMAIN Tail(todo) = 1 .. (Len(todo) - 1) /\ Len(todo) \in Nat
         /\ \A i \in DOMAIN Tail(todo) : i + 1 \in DOMAIN todo /\ Tail(todo)[i] = todo[i + 1]
         /\ \A i \in DOMAIN todo : i = 1 \/ (i - 1 \in DOMAIN Tail(todo) /\ Tail(todo)[i - 1] = todo[i])
         /\ Tail(todo) # <<>> => Head(Tail(todo)) = todo[2] /\ 2 \in DOMAIN todo
         /\ 1 \in DOMAIN todo /\ todo[1] = Head(todo)
<1>1. todo \in Seq(Steps)
  BY DEF TypeOK
<1>2. PICK u : u = Tail(todo)
  OBVIOUS
<1>3. /\ u \in Seq(Steps) /\ Len(u) = Len(todo) - 1 /\ Len(todo) \in Nat /\ DOMAIN u = 1 .. Len(u)
      /\ DOMAIN todo = 1 .. Len(todo) /\ Len(todo) > 0
      /\ \A i \in 1 .. Len(u) : u[i] = todo[i + 1]
      /\ u # <<>> => Head(u) = u[1] /\ Len(u) > 0
      /\ todo[1] = Head(todo)
  BY <1>1, <1>2
<1> QED
  BY <1>2, <1>3

(* A step keeps the list, takes its head off, or begins a phase.           *)
LEMMA ListMoves ==
  ASSUME TypeOK, Programmed(todo), Drafting, Locking, [Next]_vars
  PROVE  /\ todo' \in Seq(Steps) /\ Programmed(todo')
         /\ \/ todo' = todo
            \/ todo # <<>> /\ todo' = Tail(todo)
            \/ Whole(todo') /\ (Plain(todo') \/ (At("adopt") /\ Adopt /\ todo' = Adoption \o <<"advance">>))
<1>0. todo \in Seq(Steps)
  BY DEF TypeOK
<1>1. CASE todo' = todo
  BY <1>0, <1>1
<1>2. CASE todo # <<>> /\ todo' = Tail(todo)
  BY <1>0, <1>2, Resumed
<1>3. CASE \/ todo' \in {<<>>, <<"top">>, <<"advance">>, Gate, UpdatesDrained \o <<"clock", "wake">>,
                        <<"hyper", "clock">> \o UpdatesDrained \o <<"decide">>}
           \/ todo' \in {Heartbeat \o Gate, Replanning \o <<"adopt">>}
  <2>1. PICK t : t = todo'
    OBVIOUS
  <2> QED
    BY <1>3, <2>1, Chosen
<1>4. CASE Adopt
  <2>1. CASE todo' = <<"advance">>
    BY <1>3, <2>1
  <2>2. CASE todo' = Adoption \o <<"advance">>
    BY <1>4, <2>2, AdoptionProgram DEF Adopt
  <2> QED
    BY <1>4, <2>1, <2>2 DEF Adopt
<1>5. CASE Invoke
  <2>1. PICK n \in {0, observed.pending} : todo' = [i \in 1 .. n |-> "belief"] \o Tail(todo)
    BY <1>5 DEF Invoke
  <2>2. observed.pending \in Nat
    BY DEF TypeOK
  <2>3. todo # <<>> /\ Head(todo) = "invoke"
    BY <1>5 DEF Invoke, At
  <2> QED
    BY <1>0, <2>1, <2>2, <2>3, Resumed
<1>6. CASE Publish
  <2>1. lock.by = "view" => todo # <<>> /\ todo' = Tail(todo)
    BY <1>6, PublishEffect DEF At
  <2>2. lock.by # "view" => todo' \in {todo, <<"top">>}
    BY <1>6, PublishEffect
  <2> QED
    BY <1>1, <1>2, <1>3, <2>1, <2>2
<1>7. CASE Sensing \/ Drawing \/ Receive \/ UNCHANGED vars
  <2>1. todo' = todo
    BY <1>7, SensingEffect, DrawingEffect DEF Receive, vars
  <2> QED
    BY <1>1, <2>1
<1>8. CASE ViewUnchanged \/ State \/ PublishStatus \/ Activate
  <2>1. CASE State
    BY <1>2, <2>1, StateEffect
  <2>2. CASE ViewUnchanged \/ PublishStatus \/ Activate
    BY <1>2, <2>2 DEF ViewUnchanged, PlanningView, PublishStatus, Activate, At, Done
  <2> QED
    BY <1>8, <2>1, <2>2
<1>9. CASE MissionFails
  BY <1>3, <1>9 DEF MissionFails
<1>10. CASE Drained \/ Clock \/ Think \/ Ingest \/ Look \/ NothingActive
  <2>1. todo # <<>> /\ todo' = Tail(todo)
    BY <1>10 DEF Drained, Clock, Think, Ingest, Look, NothingActive, At, Done
  <2> QED
    BY <1>2, <2>1
<1>11. CASE Top \/ Wake \/ Assess \/ Decide \/ Advance
  <2>1. \/ todo' \in {<<>>, <<"top">>, <<"advance">>, Gate, UpdatesDrained \o <<"clock", "wake">>,
                      <<"hyper", "clock">> \o UpdatesDrained \o <<"decide">>}
        \/ todo' \in {Heartbeat \o Gate, Replanning \o <<"adopt">>}
    BY <1>11 DEF Top, Wake, Assess, Decide, Advance
  <2> QED
    BY <1>3, <2>1
<1> QED
  BY <1>4, <1>5, <1>6, <1>7, <1>8, <1>9, <1>10, <1>11, StepKinds DEF Steering

(***************************************************************************)
(* The types.                                                              *)
(***************************************************************************)

LEMMA LogGrows ==
  ASSUME TypeOK, NEW by \in {"apply", "tick", "view"}, NEW kind \in Kinds, Begin(by, kind)
  PROVE  /\ events' \in Seq(Kinds) /\ Len(events') = Len(events) + 1 /\ Len(events) \in Nat
         /\ events'[Len(events')] = kind
         /\ lock' \in Holder /\ lock'.by = by /\ lock'.fresh = TRUE
<1>1. events \in Seq(Kinds)
  BY DEF TypeOK
<1>2. events' = Append(events, kind) /\ lock' = [by |-> by, fresh |-> TRUE, retried |-> FALSE]
  BY DEF Begin
<1>3. lock' \in Holder /\ lock'.by = by /\ lock'.fresh = TRUE
  BY <1>2 DEF Holder
<1> QED
  BY <1>1, <1>2, <1>3

(* What a step of the environment leaves.                                  *)
LEMMA SensingTypes ==
  ASSUME TypeOK, Sensing
  PROVE  /\ events' \in Seq(Kinds) /\ Len(events) <= Len(events') /\ Len(events) \in Nat /\ Len(events') \in Nat
         /\ hasManeuver' \in BOOLEAN /\ running' \in BOOLEAN /\ failed' \in BOOLEAN
         /\ commands' \in Nat /\ beats' = beats /\ observed' \in [queued: Nat, pending: Nat]
         /\ lock' \in Holder \cup {None}
<1>1. /\ events \in Seq(Kinds) /\ hasManeuver \in BOOLEAN /\ running \in BOOLEAN /\ failed \in BOOLEAN
      /\ commands \in Nat /\ observed \in [queued: Nat, pending: Nat] /\ lock \in Holder \cup {None}
      /\ Len(events) \in Nat /\ beats' = beats
  BY DEF TypeOK, Sensing, Apply, Tick, Retry, ProducerFails, PlanningView, ledger
<1>2. CASE Apply
  <2>1. /\ Begin("apply", "live") /\ commands' = commands - 1 /\ commands > 0 /\ hasManeuver' = TRUE
        /\ UNCHANGED <<running, failed, observed>>
    BY <1>2 DEF Apply
  <2>2. /\ events' \in Seq(Kinds) /\ Len(events') = Len(events) + 1 /\ lock' \in Holder
    BY <2>1, LogGrows DEF Kinds
  <2>3. commands' \in Nat
    BY <1>1, <2>1
  <2> QED
    BY <1>1, <2>1, <2>2, <2>3
<1>3. CASE Tick
  <2>1. Begin("tick", "live") /\ UNCHANGED <<hasManeuver, commands, running, failed>>
    BY <1>3 DEF Tick
  <2>2. /\ events' \in Seq(Kinds) /\ Len(events') = Len(events) + 1 /\ lock' \in Holder
    BY <2>1, LogGrows DEF Kinds
  <2>3. \E n \in Nat : observed' = [observed EXCEPT !.queued = @ + n]
    <3>1. \A n \in 0 .. (MaxObserved - observed.queued - observed.pending) : n \in Nat
      OBVIOUS
    <3> QED
      BY <1>3, <3>1 DEF Tick
  <2>4. observed' \in [queued: Nat, pending: Nat]
    BY <1>1, <2>3
  <2> QED
    BY <1>1, <2>1, <2>2, <2>4
<1>4. CASE Retry
  <2>1. lock' \in Holder
    <3>1. lock \in Holder
      BY <1>1, <1>4 DEF Retry
    <3> QED
      BY <1>4, <3>1 DEF Retry, Holder
  <2> QED
    BY <1>1, <1>4, <2>1 DEF Retry
<1>5. CASE ProducerFails
  <2>1. /\ lock' = None /\ failed' = TRUE /\ running' = FALSE
        /\ UNCHANGED <<events, hasManeuver, commands, observed>>
    BY <1>5 DEF ProducerFails
  <2>2. running' \in BOOLEAN /\ failed' \in BOOLEAN
    BY <2>1
  <2> QED
    BY <1>1, <2>1, <2>2
<1>6. CASE PlanningView /\ events[Len(events)] # "planning"
  <2>1. Begin("view", "planning") /\ UNCHANGED <<hasManeuver, commands, running, failed, observed>>
    BY <1>6 DEF PlanningView
  <2>2. /\ events' \in Seq(Kinds) /\ Len(events') = Len(events) + 1 /\ lock' \in Holder
    BY <2>1, LogGrows DEF Kinds
  <2> QED
    BY <1>1, <2>1, <2>2
<1> QED
  BY <1>2, <1>3, <1>4, <1>5, <1>6 DEF Sensing

LEMMA DrawingTypes ==
  ASSUME TypeOK, Known, Drawing
  PROVE  draft' \in Drawn
<1>1. CASE Redraw
  <2>1. draft \in Drawn
    BY <1>1 DEF Redraw, TypeOK
  <2> QED
    BY <1>1, <2>1 DEF Redraw, Drawn
<1>2. ASSUME NEW source \in Sources, Draw(source) PROVE draft' \in Drawn
  <2>1. source # "env"
    <3>1. "env" \notin Steps /\ Head(todo) \in Steps
      <4>1. todo \in Seq(Steps) /\ todo # <<>>
        BY <1>2 DEF TypeOK, Draw, At
      <4> QED
        BY <4>1, HeadTailProperties DEF Steps
    <3> QED
      BY <1>2, <3>1 DEF Draw, At
  <2>2. NextRevision(source) \in Nat
    <3>1. facts.plan \in Nat /\ authority.fsm \in Nat /\ authority.belief \in Nat /\ evidence \in Nat
      BY DEF TypeOK, Sources
    <3> QED
      BY <2>1, <3>1 DEF NextRevision, Sources
  <2> QED
    BY <1>2, <2>1, <2>2 DEF Draw, Drawn
<1> QED
  BY <1>1, <1>2 DEF Drawing

LEMMA TypesKept ==
  ASSUME TypeOK, Programmed(todo), Drafting, Locking, Known, [Next]_vars
  PROVE  TypeOK'
<1>0. /\ mode \in [producer: BOOLEAN, joint34: BOOLEAN, believes: BOOLEAN]
      /\ events \in Seq(Kinds) /\ Len(events) \in Nat
      /\ latest \in 0 .. Len(events) /\ evidence \in 0 .. Len(events) /\ view \in 0 .. Len(events)
      /\ hasManeuver \in BOOLEAN /\ running \in BOOLEAN /\ failed \in BOOLEAN
      /\ commands \in Nat /\ beats \in Nat /\ observed \in [queued: Nat, pending: Nat]
      /\ lock \in Holder \cup {None} /\ draft \in Drawn \cup {None}
      /\ queue \in Seq([source: Sources, n: Nat])
      /\ facts \in [Sources -> Nat] /\ snapshot \in [Sources -> Nat]
      /\ facts.env \in 0 .. Len(events) /\ facts.active \in 0 .. Len(events) /\ snapshot.env \in 0 .. Len(events)
      /\ authority \in [plan: Nat, fsm: Nat, belief: Nat]
  BY SMTT(30) DEF TypeOK
<1>1. todo' \in Seq(Steps)
  BY ListMoves
<1>2. CASE Sensing
  <2>1. /\ UNCHANGED <<todo, latest, queue, draft, facts, snapshot, mode, authority, evidence, view>>
    BY <1>2, SensingEffect
  <2>2. /\ latest' \in 0 .. Len(events') /\ evidence' \in 0 .. Len(events') /\ view' \in 0 .. Len(events')
        /\ facts'.env \in 0 .. Len(events') /\ facts'.active \in 0 .. Len(events')
        /\ snapshot'.env \in 0 .. Len(events')
    <3>1. \A n \in 0 .. Len(events) : n \in 0 .. Len(events')
      BY <1>2, SensingTypes
    <3> QED
      BY <1>0, <2>1, <3>1
  <2> QED
    BY <1>0, <1>1, <1>2, <2>1, <2>2, SensingTypes DEF TypeOK
<1>3. CASE ViewUnchanged
  <2>1. /\ latest' = Len(events) /\ view' = Len(events)
        /\ UNCHANGED <<events, hasManeuver, commands, lock, running, failed, observed, queue, draft, facts,
                       snapshot, mode, authority, evidence, beats>>
    BY <1>3 DEF ViewUnchanged, PlanningView, context
  <2> QED
    BY <1>0, <1>1, <2>1, SMTT(30) DEF TypeOK
<1>4. CASE Publish
  <2>1. /\ latest' = Len(events) /\ view' \in {view, Len(events)} /\ lock' = None
        /\ UNCHANGED <<events, hasManeuver, commands, running, failed, observed, facts, snapshot, mode,
                       authority, evidence, beats>>
    BY <1>4, PublishEffect
  <2>2. queue' \in Seq([source: Sources, n: Nat])
    <3>1. [source |-> "env", n |-> Len(events)] \in [source: Sources, n: Nat]
      BY <1>0 DEF Sources
    <3> QED
      BY <1>4, <3>1, PublishEffect, Appended
  <2>3. draft' \in Drawn \cup {None}
    <3>1. draft = None => draft' = None
      BY <1>4, PublishEffect
    <3>2. draft # None => draft \in Drawn /\ draft' = [draft EXCEPT !.fresh = FALSE]
      BY <1>0, <1>4, PublishEffect
    <3> QED
      BY <3>1, <3>2 DEF Drawn
  <2> QED
    BY <1>0, <1>1, <2>1, <2>2, <2>3, SMTT(30) DEF TypeOK
<1>5. CASE Steering
  <2>1. /\ UNCHANGED <<events, latest, hasManeuver, commands, lock, running, failed>>
        /\ UNCHANGED <<queue, facts, snapshot, mode, authority, view, beats>>
        /\ draft' = None
    BY <1>5, SteeringEffect
  <2>2. evidence' \in {evidence, latest} /\ observed' \in [queued: Nat, pending: Nat]
    <3>1. CASE Ingest
      <4>1. observed' = [queued |-> 0, pending |-> observed.pending + observed.queued] /\ evidence' = evidence
        BY <3>1 DEF Ingest, ledger
      <4> QED
        BY <1>0, <4>1
    <3>2. CASE ~Ingest
      <4>1. evidence' \in {evidence, latest} /\ observed' = observed
        BY <1>5, <3>2 DEF Steering, Drained, Clock, Think, Top, Wake, Assess, Decide, Adopt, Advance, Look,
             NothingActive, world, ledger
      <4> QED
        BY <1>0, <4>1
    <3> QED
      BY <3>1, <3>2
  <2> QED
    BY <1>0, <1>1, <2>1, <2>2 DEF TypeOK
<1>6. CASE Drawing
  <2>1. UNCHANGED <<todo, events, latest, hasManeuver, commands, lock, running, failed, observed, queue,
                    facts, snapshot, mode, authority, evidence, view, beats>>
    BY <1>6, DrawingEffect
  <2> QED
    BY <1>0, <1>1, <1>6, <2>1, DrawingTypes DEF TypeOK
<1>7. CASE State
  <2>1. /\ draft' = None /\ authority' \in [plan: Nat, fsm: Nat, belief: Nat]
        /\ UNCHANGED <<events, latest, hasManeuver, commands, running, failed, observed, facts, snapshot, mode,
                       evidence, view, beats>>
    BY <1>7, StateEffect
  <2>2. queue' \in Seq([source: Sources, n: Nat])
    <3>1. [source |-> draft.source, n |-> draft.n] \in [source: Sources, n: Nat]
      BY <1>7, StateEffect DEF Drawn
    <3> QED
      BY <1>7, <3>1, StateEffect, Appended
  <2>3. lock' \in Holder \cup {None}
    <3>1. lock = None => lock' = None
      BY <1>7 DEF State
    <3>2. lock # None => lock \in Holder /\ lock' = [lock EXCEPT !.fresh = FALSE]
      BY <1>0, <1>7 DEF State
    <3> QED
      BY <3>1, <3>2 DEF Holder
  <2> QED
    BY <1>0, <1>1, <2>1, <2>2, <2>3 DEF TypeOK
<1>8. CASE MissionFails
  <2>1. /\ draft' = None
        /\ UNCHANGED <<events, latest, hasManeuver, commands, lock, running, failed, observed, queue, facts,
                       snapshot, mode, authority, evidence, view, beats>>
    BY <1>8 DEF MissionFails, world, context, ledger
  <2> QED
    BY <1>0, <1>1, <2>1 DEF TypeOK
<1>9. CASE Receive
  <2>1. /\ UNCHANGED <<todo, events, latest, hasManeuver, commands, lock, running, failed, observed>>
        /\ UNCHANGED <<draft, mode, authority, evidence, view, beats>>
        /\ facts' \in [Sources -> Nat] /\ snapshot' \in [Sources -> Nat]
    BY <1>9, ReceiveEffect
  <2>2. queue' \in Seq([source: Sources, n: Nat])
    BY <1>9, ReceiveEffect, Shortened
  <2>3. /\ Head(queue).source = "env" => Head(queue).n \in 0 .. Len(events)
        /\ Head(queue).source = "active" => Head(queue).n \in 0 .. Len(events)
        /\ Head(queue).n \in Nat
    <3>1. Head(queue) \in [source: Sources, n: Nat] /\ \E i \in DOMAIN queue : queue[i] = Head(queue)
      BY <1>9, ReceiveEffect, Shortened
    <3>2. Head(queue).n \in Nat
      BY <3>1
    <3>3. \A i \in DOMAIN queue : /\ queue[i].source = "env" => queue[i].n <= latest
                                  /\ queue[i].source = "active" => queue[i].n <= Len(events)
      BY DEF Known
    <3>4. /\ Head(queue).source = "env" => Head(queue).n <= latest
          /\ Head(queue).source = "active" => Head(queue).n <= Len(events)
      BY <3>1, <3>3
    <3> QED
      BY <1>0, <3>2, <3>4
  <2>4. facts'.env \in 0 .. Len(events) /\ facts'.active \in 0 .. Len(events) /\ snapshot'.env = facts'.env
    <3>1. \A s \in {"env", "active"} : facts'[s] = facts[s] \/ (facts'[s] = Head(queue).n /\ s = Head(queue).source)
      BY <1>9, ReceiveEffect DEF Sources
    <3>2. snapshot'["env"] = facts'["env"]
      BY <1>9, ReceiveEffect DEF Sources
    <3> QED
      BY <1>0, <2>3, <3>1, <3>2
  <2> QED
    BY <1>0, <1>1, <2>1, <2>2, <2>4 DEF TypeOK
<1>10. CASE PublishStatus \/ Activate
  <2>1. /\ UNCHANGED <<events, latest, hasManeuver, commands, lock, running, failed, observed, queue, draft, facts,
                       snapshot, mode, evidence, view, beats>>
        /\ \/ authority' = [authority EXCEPT !.fsm = @ + 1]
           \/ authority' = [authority EXCEPT !.plan = @ + 1, !.fsm = @ + 1]
    BY <1>10 DEF PublishStatus, Activate, world, context
  <2>2. authority' \in [plan: Nat, fsm: Nat, belief: Nat]
    <3>1. authority.fsm + 1 \in Nat /\ authority.plan + 1 \in Nat
      BY <1>0, SMTT(30)
    <3> QED
      BY <1>0, <2>1, <3>1
  <2> QED
    BY <1>0, <1>1, <2>1, <2>2 DEF TypeOK
<1>11. CASE Invoke
  <2>1. /\ UNCHANGED <<events, latest, hasManeuver, lock, failed, queue, draft, facts, snapshot, mode, evidence, view>>
        /\ beats' = beats + 1 /\ commands' \in {commands, commands + 1}
    BY <1>11 DEF Invoke, context
  <2>2. running' \in BOOLEAN
    BY <1>11 DEF Invoke
  <2>3. authority' \in [plan: Nat, fsm: Nat, belief: Nat]
    <3>1. PICK moved \in {0, 1} : authority' = [authority EXCEPT !.fsm = @ + moved]
      BY <1>11 DEF Invoke
    <3>2. authority.fsm + moved \in Nat
      BY <1>0, <3>1, SMTT(30)
    <3> QED
      BY <1>0, <3>1, <3>2
  <2>4. observed' \in [queued: Nat, pending: Nat]
    <3>1. PICK n \in {0, observed.pending} : observed' = [observed EXCEPT !.pending = @ - n]
      BY <1>11 DEF Invoke
    <3>2. observed.pending - n \in Nat
      BY <1>0, <3>1
    <3> QED
      BY <1>0, <3>1, <3>2
  <2>5. beats' \in Nat /\ commands' \in Nat
    BY <1>0, <2>1
  <2> QED
    BY <1>0, <1>1, <2>1, <2>2, <2>3, <2>4, <2>5 DEF TypeOK
<1>12. CASE UNCHANGED vars
  <2>1. /\ UNCHANGED <<mode, todo, events, latest, hasManeuver, commands, lock, running, failed, observed>>
        /\ UNCHANGED <<queue, draft, facts, snapshot, authority, evidence, view, beats>>
    BY <1>12 DEF vars
  <2> QED
    BY <1>0, <1>1, <2>1 DEF TypeOK
<1> QED
  BY <1>2, <1>3, <1>4, <1>5, <1>6, <1>7, <1>8, <1>9, <1>10, <1>11, <1>12, StepKinds

(***************************************************************************)
(* Drafting and locking.                                                   *)
(***************************************************************************)

LEMMA DraftingKept ==
  ASSUME TypeOK, Programmed(todo), Drafting, Locking, Known, [Next]_vars
  PROVE  Drafting'
<1>0. /\ Len(events) \in Nat /\ latest <= Len(events) /\ evidence <= latest
      /\ evidence \in Nat /\ latest \in Nat
  BY DEF Known, Locking, TypeOK
<1>1. CASE draft' = None
  BY <1>1 DEF Drafting
<1>2. CASE Sensing
  <2>1. UNCHANGED <<todo, draft, facts, authority>> /\ (hasManeuver => hasManeuver')
    BY <1>2, SensingEffect
  <2>2. Len(events) <= Len(events') /\ Len(events') \in Nat
    BY <1>2, SensingTypes
  <2>3. draft # None => draft.n \in Nat
    BY DEF TypeOK, Drawn
  <2>4. draft # None /\ draft.n <= Len(events) => draft.n <= Len(events')
    BY <1>0, <2>2, <2>3
  <2> QED
    BY <2>1, <2>4 DEF Drafting, At
<1>3. CASE Publish
  <2>1. CASE draft = None
    BY <1>1, <1>3, <2>1, PublishEffect
  <2>2. CASE draft # None
    <3>1. draft \in Drawn /\ draft' = [draft EXCEPT !.fresh = FALSE]
      BY <1>3, <2>2, PublishEffect DEF TypeOK
    <3>2. draft'.source = draft.source /\ draft'.n = draft.n /\ draft.source \in {"plan", "fsm", "active", "belief"}
      BY <3>1 DEF Drawn, Sources
    <3>3. At(draft.source)
      BY <2>2 DEF Drafting
    <3>4. lock.by # "view" /\ todo' = todo
      BY <1>3, <3>2, <3>3, PublishEffect DEF At, TypeOK
    <3>5. UNCHANGED <<events, hasManeuver, facts, authority>>
      BY <1>3, PublishEffect
    <3> QED
      BY <2>2, <3>2, <3>4, <3>5 DEF Drafting, At
  <2> QED
    BY <2>1, <2>2
<1>4. CASE Drawing
  <2>1. UNCHANGED <<todo, events, hasManeuver, facts, authority, evidence>>
    BY <1>4, DrawingEffect
  <2>2. CASE Redraw
    <3>1. draft \in Drawn /\ draft' = [draft EXCEPT !.fresh = TRUE]
      BY <2>2 DEF Redraw, TypeOK
    <3>2. draft'.source = draft.source /\ draft'.n = draft.n /\ draft # None
      BY <2>2, <3>1 DEF Drawn, Redraw
    <3> QED
      BY <2>1, <3>2 DEF Drafting, At
  <2>3. ASSUME NEW source \in Sources, Draw(source) PROVE Drafting'
    <3>1. /\ draft'.source = source /\ draft'.n = NextRevision(source) /\ At(source)
          /\ source = "active" => hasManeuver
      BY <2>3 DEF Draw
    <3>2. /\ NextRevision("plan") = facts.plan + 1 /\ NextRevision("fsm") = authority.fsm
          /\ NextRevision("active") = evidence /\ NextRevision("belief") = authority.belief + 1
      BY DEF NextRevision
    <3>3. evidence <= Len(events)
      BY <1>0
    <3> QED
      BY <2>1, <3>1, <3>2, <3>3 DEF Drafting, At
  <2> QED
    BY <1>4, <2>2, <2>3 DEF Drawing
<1>5. CASE Receive
  <2>1. /\ UNCHANGED <<todo, events, hasManeuver, draft, authority>> /\ At("drain")
    BY <1>5, ReceiveEffect
  <2>2. draft = None
    BY <2>1 DEF Drafting, At, TypeOK, Drawn, Sources
  <2> QED
    BY <1>1, <2>1, <2>2
<1>6. CASE ViewUnchanged \/ PublishStatus \/ Activate \/ Invoke
  <2>1. draft' = draft /\ (At("view") \/ At("status") \/ At("activate") \/ At("invoke"))
    BY <1>6 DEF ViewUnchanged, PlanningView, PublishStatus, Activate, Invoke
  <2>2. draft = None
    BY <2>1 DEF Drafting, At, TypeOK, Drawn, Sources
  <2> QED
    BY <1>1, <2>1, <2>2
<1>7. CASE UNCHANGED vars
  BY <1>7 DEF vars, Drafting, At
<1>8. CASE Steering \/ State \/ MissionFails
  <2>1. draft' = None
    BY <1>8, SteeringEffect, StateEffect DEF MissionFails
  <2> QED
    BY <1>1, <2>1
<1> QED
  BY <1>2, <1>3, <1>4, <1>5, <1>6, <1>7, <1>8, StepKinds

LEMMA LockingKept ==
  ASSUME TypeOK, Programmed(todo), Drafting, Locking, Known, [Next]_vars
  PROVE  Locking'
<1>0. Len(events) \in Nat /\ latest \in Nat /\ latest <= Len(events) /\ lock \in Holder \cup {None} /\ None \notin Holder
  BY ContextAssumption DEF Locking, TypeOK
<1>1. CASE Sensing
  <2>0. todo' = todo /\ latest' = latest /\ mode' = mode
    BY <1>1, SensingEffect
  <2>1. ASSUME NEW by \in {"apply", "tick", "view"}, NEW kind \in Kinds, Begin(by, kind),
               by = "view" <=> kind = "planning", by = "view" => At("view"), by # "view" /\ ~mode.producer => At("advance")
        PROVE  Locking'
    <3>1. /\ Len(events') = Len(events) + 1 /\ events'[Len(events')] = kind
          /\ lock' \in Holder /\ lock'.by = by /\ lock'.fresh = TRUE
      BY <2>1, LogGrows
    <3>2. latest <= Len(events') /\ lock' # None
      BY <1>0, <3>1
    <3> QED
      BY <2>0, <2>1, <3>1, <3>2 DEF Locking, At
  <2>2. CASE Apply
    BY <2>1, <2>2 DEF Apply, Producing, Kinds
  <2>3. CASE Tick
    BY <2>1, <2>3 DEF Tick, Producing, Kinds
  <2>4. CASE PlanningView /\ events[Len(events)] # "planning"
    BY <2>1, <2>4 DEF PlanningView, Kinds
  <2>5. CASE Retry
    <3>1. lock \in Holder /\ lock' = [lock EXCEPT !.fresh = TRUE, !.retried = TRUE] /\ events' = events
      BY <1>0, <2>5 DEF Retry
    <3>2. lock' \in Holder /\ lock'.by = lock.by /\ lock'.fresh = TRUE
      BY <3>1 DEF Holder
    <3>3. lock # None /\ lock' # None
      BY <1>0, <3>1, <3>2
    <3> QED
      BY <2>0, <3>1, <3>2, <3>3 DEF Locking, At
  <2>6. CASE ProducerFails
    <3>1. lock # None /\ ~lock.fresh /\ lock' = None /\ events' = events
      BY <2>6 DEF ProducerFails
    <3>2. events[Len(events)] # "planning"
      BY <3>1 DEF Locking
    <3> QED
      BY <2>0, <3>1, <3>2 DEF Locking
  <2> QED
    BY <1>1, <2>2, <2>3, <2>4, <2>5, <2>6 DEF Sensing
<1>2. CASE ViewUnchanged
  <2>1. lock = None /\ lock' = None /\ latest' = Len(events) /\ events' = events
    BY <1>2 DEF ViewUnchanged, PlanningView
  <2> QED
    BY <1>0, <2>1 DEF Locking
<1>3. CASE Publish
  <2>1. lock' = None /\ latest' = Len(events) /\ events' = events
    BY <1>3, PublishEffect
  <2> QED
    BY <1>0, <2>1 DEF Locking
<1>4. CASE State
  <2>1. /\ draft \in Drawn /\ todo # <<>> /\ Head(todo) = draft.source /\ UNCHANGED <<events, latest, mode>>
    BY <1>4, StateEffect
  <2>2. ~At("view") /\ ~At("advance")
    BY <2>1 DEF Drawn, Sources, At
  <2>3. CASE lock = None
    <3>1. lock' = None
      BY <1>4, <2>3 DEF State
    <3> QED
      BY <2>1, <2>3, <3>1 DEF Locking
  <2>4. CASE lock # None
    <3>1. lock \in Holder /\ lock' = [lock EXCEPT !.fresh = FALSE]
      BY <1>0, <1>4, <2>4 DEF State
    <3>2. lock' \in Holder /\ lock'.by = lock.by
      BY <3>1 DEF Holder
    <3>3. lock'.by # "view" /\ mode.producer
      BY <2>2, <2>4, <3>2 DEF Locking
    <3>4. events[Len(events)] # "planning"
      BY <2>4, <3>2, <3>3 DEF Locking
    <3>5. lock' # None
      BY <1>0, <3>2
    <3> QED
      BY <2>1, <3>3, <3>4, <3>5 DEF Locking
  <2> QED
    BY <2>3, <2>4
<1>5. CASE Steering \/ PublishStatus \/ Invoke \/ Activate \/ MissionFails
  <2>1. UNCHANGED <<events, latest, lock, mode>>
    BY <1>5, SteeringEffect DEF PublishStatus, Invoke, Activate, MissionFails, world, ledger
  <2>2. CASE lock = None
    BY <2>1, <2>2 DEF Locking
  <2>3. CASE lock # None
    <3>1. ~At("view")
      <4>1. CASE Steering
        <5>1. ~Clock /\ ~Look /\ ~NothingActive /\ ~Advance
          BY <2>3 DEF Clock, Look, NothingActive, Advance
        <5> QED
          BY <4>1, <5>1 DEF Steering, Drained, Think, Ingest, Top, Wake, Assess, Decide, Adopt, At
      <4>2. CASE MissionFails
        BY <4>2 DEF MissionFails, Drafting, TypeOK, Drawn, Sources, At
      <4>3. CASE PublishStatus \/ Invoke \/ Activate
        BY <4>3 DEF PublishStatus, Invoke, Activate, At
      <4> QED
        BY <1>5, <4>1, <4>2, <4>3
    <3>2. ~At("advance")
      <4>1. CASE Steering
        <5>1. ~Advance
          BY <2>3 DEF Advance
        <5> QED
          BY <4>1, <5>1 DEF Steering, Drained, Clock, Think, Ingest, Top, Wake, Assess, Decide, Adopt, Look,
             NothingActive, At
      <4>2. CASE MissionFails
        BY <4>2 DEF MissionFails, Drafting, TypeOK, Drawn, Sources, At
      <4>3. CASE PublishStatus \/ Invoke \/ Activate
        BY <4>3 DEF PublishStatus, Invoke, Activate, At
      <4> QED
        BY <1>5, <4>1, <4>2, <4>3
    <3> QED
      BY <2>1, <2>3, <3>1, <3>2 DEF Locking
  <2> QED
    BY <2>2, <2>3
<1>6. CASE Drawing \/ Receive \/ UNCHANGED vars
  <2>1. UNCHANGED <<todo, events, latest, lock, mode>>
    BY <1>6, DrawingEffect, ReceiveEffect DEF vars
  <2> QED
    BY <2>1 DEF Locking, At
<1> QED
  BY <1>1, <1>2, <1>3, <1>4, <1>5, <1>6, StepKinds

(***************************************************************************)
(* What the coordinator knows.                                             *)
(***************************************************************************)

(* The highest revision of a source is not lost.                           *)
LEMMA StatedReceive ==
  ASSUME TypeOK, Known, Receive, NEW s \in Sources, NEW n \in Nat, Stated(s, n), facts[s] <= n,
         \A i \in DOMAIN queue : queue[i].source = s => queue[i].n <= n
  PROVE  Stated(s, n)'
<1> DEFINE f == Head(queue)
<1>1. /\ f \in [source: Sources, n: Nat] /\ f.source \in Sources /\ f.n \in Nat
      /\ \E i \in DOMAIN queue : queue[i] = f
      /\ facts \in [Sources -> Nat]
  <2>1. f \in [source: Sources, n: Nat] /\ \E i \in DOMAIN queue : queue[i] = f
    BY ReceiveEffect, Shortened
  <2> HIDE DEF f
  <2> QED
    BY <2>1 DEF TypeOK
<1>2. /\ s # f.source => facts'[s] = facts[s]
      /\ \/ facts'[f.source] = f.n /\ f.n > facts[f.source]
         \/ facts'[f.source] = facts[f.source] /\ f.n <= facts[f.source]
  BY ReceiveEffect
<1>3. \A i \in DOMAIN queue : queue[i] = f \/ (i - 1 \in DOMAIN queue' /\ queue'[i - 1] = queue[i])
  BY ReceiveEffect, Shortened
<1> HIDE DEF f
<1>4. f.source = s => f.n <= n
  BY <1>1
<1>5. CASE facts[s] = n
  <2>1. facts'[s] = n
    <3>1. CASE s # f.source
      BY <1>2, <1>5, <3>1
    <3>2. CASE s = f.source
      BY <1>1, <1>2, <1>4, <1>5, <3>2
    <3> QED
      BY <3>1, <3>2
  <2> QED
    BY <2>1 DEF Stated
<1>6. CASE \E i \in DOMAIN queue : queue[i] = [source |-> s, n |-> n]
  <2>1. PICK i \in DOMAIN queue : queue[i] = [source |-> s, n |-> n]
    BY <1>6
  <2>2. CASE queue[i] = f
    <3>1. f.source = s /\ f.n = n
      BY <2>1, <2>2
    <3>2. facts'[s] = n
      BY <1>1, <1>2, <3>1
    <3> QED
      BY <3>2 DEF Stated
  <2>3. CASE i - 1 \in DOMAIN queue' /\ queue'[i - 1] = queue[i]
    BY <2>1, <2>3 DEF Stated
  <2> QED
    BY <1>3, <2>2, <2>3
<1> QED
  BY <1>5, <1>6 DEF Stated

(* No fact is ahead of its owner: the bounds move up with what is stated.  *)
Bound(source) ==
  CASE source = "env" -> latest [] source = "fsm" -> authority.fsm [] source = "belief" -> authority.belief
    [] source = "active" -> Len(events)

Owned == {"env", "fsm", "belief", "active"}

Bounded == \A s \in Owned : facts[s] <= Bound(s) /\ \A i \in DOMAIN queue : queue[i].source = s => queue[i].n <= Bound(s)

LEMMA BoundedKnown ==
  TypeOK =>
    (Known <=>
       /\ Bounded /\ Stated("env", latest) /\ Stated("belief", authority.belief) /\ evidence <= latest
       /\ \A s \in Sources \ {"active"} : snapshot[s] = facts[s])
BY DEF Known, Bounded, Bound, Owned

LEMMA BoundTypes ==
  TypeOK => \A s \in Owned : Bound(s) \in Nat /\ facts[s] \in Nat /\ s \in Sources
<1> SUFFICES ASSUME TypeOK, NEW s \in Owned PROVE Bound(s) \in Nat /\ facts[s] \in Nat /\ s \in Sources
  OBVIOUS
<1>1. latest \in Nat /\ Len(events) \in Nat /\ authority \in [plan: Nat, fsm: Nat, belief: Nat] /\ facts \in [Sources -> Nat]
  <2>1. /\ events \in Seq(Kinds) /\ latest \in 0 .. Len(events)
        /\ authority \in [plan: Nat, fsm: Nat, belief: Nat] /\ facts \in [Sources -> Nat]
    BY DEF TypeOK
  <2> QED
    BY <2>1
<1>2. s \in Sources
  BY DEF Owned, Sources
<1>3. Bound(s) \in Nat
  BY <1>1 DEF Bound, Owned
<1> QED
  BY <1>1, <1>2, <1>3

LEMMA QueueTypes ==
  TypeOK => \A i \in DOMAIN queue : queue[i] \in [source: Sources, n: Nat] /\ queue[i].source \in Sources /\ queue[i].n \in Nat
<1> SUFFICES ASSUME TypeOK, NEW i \in DOMAIN queue
             PROVE  queue[i] \in [source: Sources, n: Nat] /\ queue[i].source \in Sources /\ queue[i].n \in Nat
  OBVIOUS
<1>1. queue \in Seq([source: Sources, n: Nat]) /\ i \in 1 .. Len(queue)
  <2>1. queue \in Seq([source: Sources, n: Nat])
    BY DEF TypeOK
  <2> QED
    BY <2>1
<1>2. queue[i] \in [source: Sources, n: Nat]
  BY <1>1, ElementOfSeq
<1> QED
  BY <1>2

(* The owners move on; the facts and the queue stay.                       *)
LEMMA BoundsRise ==
  ASSUME TypeOK, TypeOK', Bounded, facts' = facts, queue' = queue, \A s \in Owned : Bound(s) <= Bound(s)'
  PROVE  Bounded'
<1>1. \A i \in DOMAIN queue : queue[i].n \in Nat
  BY QueueTypes
<1>2. \A s \in Owned : Bound(s) \in Nat /\ Bound(s)' \in Nat /\ facts[s] \in Nat
  <2>1. TypeOK' => (\A s \in Owned : Bound(s) \in Nat /\ facts[s] \in Nat /\ s \in Sources)'
    BY BoundTypes, PTL
  <2> QED
    BY <2>1, BoundTypes
<1>3. \A s \in Owned : \A n \in Nat : n <= Bound(s) => n <= Bound(s)'
  BY <1>2
<1>4. \A s \in Owned : facts[s] <= Bound(s)'
  BY <1>2, <1>3 DEF Bounded
<1>5. \A s \in Owned : \A i \in DOMAIN queue : queue[i].source = s => queue[i].n <= Bound(s)'
  BY <1>1, <1>3 DEF Bounded
<1> QED
  BY <1>4, <1>5 DEF Bounded

LEMMA BoundsAppend ==
  ASSUME TypeOK, TypeOK', Bounded, NEW f \in [source: Sources, n: Nat], facts' = facts, queue' = Append(queue, f),
         \A s \in Owned : Bound(s) <= Bound(s)', f.source \in Owned => f.n <= Bound(f.source)'
  PROVE  Bounded'
<1>1. \A i \in DOMAIN queue : queue[i].n \in Nat
  BY QueueTypes
<1>2. \A s \in Owned : Bound(s) \in Nat /\ Bound(s)' \in Nat /\ facts[s] \in Nat
  <2>1. TypeOK' => (\A s \in Owned : Bound(s) \in Nat /\ facts[s] \in Nat /\ s \in Sources)'
    BY BoundTypes, PTL
  <2> QED
    BY <2>1, BoundTypes
<1>3. \A s \in Owned : \A n \in Nat : n <= Bound(s) => n <= Bound(s)'
  BY <1>2
<1>4. \A s \in Owned : facts[s] <= Bound(s)'
  BY <1>2, <1>3 DEF Bounded
<1>5. \A i \in DOMAIN queue' : queue'[i] = f \/ (i \in DOMAIN queue /\ queue'[i] = queue[i])
  BY Appended
<1>6. ASSUME NEW s \in Owned, NEW i \in DOMAIN queue', queue'[i].source = s PROVE queue'[i].n <= Bound(s)'
  <2>1. CASE queue'[i] = f
    BY <1>6, <2>1
  <2>2. CASE i \in DOMAIN queue /\ queue'[i] = queue[i]
    BY <1>1, <1>3, <1>6, <2>2 DEF Bounded
  <2> QED
    BY <1>5, <2>1, <2>2
<1> QED
  BY <1>4, <1>6 DEF Bounded

LEMMA KnownKept ==
  ASSUME TypeOK, TypeOK', Programmed(todo), Drafting, Locking, Known, [Next]_vars
  PROVE  Known'
<1>0. /\ Len(events) \in Nat /\ latest \in Nat /\ evidence \in Nat /\ latest <= Len(events) /\ evidence <= latest
      /\ authority \in [plan: Nat, fsm: Nat, belief: Nat]
      /\ Bounded /\ Stated("env", latest) /\ Stated("belief", authority.belief)
      /\ \A s \in Sources \ {"active"} : snapshot[s] = facts[s]
  <2>1. /\ events \in Seq(Kinds) /\ latest \in 0 .. Len(events) /\ evidence \in 0 .. Len(events)
        /\ authority \in [plan: Nat, fsm: Nat, belief: Nat]
    BY DEF TypeOK
  <2>2. Len(events) \in Nat /\ latest \in Nat /\ evidence \in Nat /\ latest <= Len(events)
    BY <2>1
  <2> QED
    BY <2>1, <2>2, BoundedKnown
<1>1. ASSUME facts' = facts, queue' = queue, snapshot' = snapshot, latest' = latest,
             authority'.belief = authority.belief, authority.fsm <= authority'.fsm, Len(events) <= Len(events'),
             evidence' \in {evidence, latest}
      PROVE  Known'
  <2>1. \A s \in Owned : Bound(s) <= Bound(s)'
    BY <1>0, <1>1 DEF Bound, Owned
  <2>2. Bounded'
    BY <1>0, <1>1, <2>1, BoundsRise
  <2>3. Stated("env", latest)' /\ Stated("belief", authority.belief)'
    BY <1>0, <1>1 DEF Stated
  <2>4. evidence' <= latest' /\ \A s \in Sources \ {"active"} : snapshot'[s] = facts'[s]
    BY <1>0, <1>1
  <2> QED
    BY <2>2, <2>3, <2>4, BoundedKnown DEF Known, Bounded, Bound, Owned
<1>2. CASE Sensing
  <2>1. UNCHANGED <<latest, queue, facts, snapshot, authority, evidence>>
    BY <1>2, SensingEffect
  <2> QED
    BY <1>0, <1>1, <1>2, <2>1, SensingTypes
<1>3. CASE ViewUnchanged
  <2>1. /\ latest' = Len(events) /\ lock = None /\ events[Len(events)] = "planning"
        /\ UNCHANGED <<events, queue, facts, snapshot, authority, evidence>>
    BY <1>3 DEF ViewUnchanged, PlanningView, context
  <2>2. latest' = latest
    BY <2>1 DEF Locking
  <2> QED
    BY <1>0, <1>1, <2>1, <2>2
<1>4. CASE Steering
  <2>1. /\ UNCHANGED <<events, latest, queue, facts, snapshot, authority>>
    BY <1>4, SteeringEffect
  <2>2. evidence' \in {evidence, latest}
    BY <1>4 DEF Steering, Drained, Clock, Think, Ingest, Top, Wake, Assess, Decide, Adopt, Advance, Look,
             NothingActive, ledger
  <2> QED
    BY <1>0, <1>1, <2>1, <2>2
<1>5. CASE Drawing \/ MissionFails \/ UNCHANGED vars
  <2>1. UNCHANGED <<events, latest, queue, facts, snapshot, authority, evidence>>
    BY <1>5, DrawingEffect DEF MissionFails, world, context, ledger, vars
  <2> QED
    BY <1>0, <1>1, <2>1
<1>6. CASE PublishStatus \/ Activate \/ Invoke
  <2>1. UNCHANGED <<events, latest, queue, facts, snapshot, evidence>>
    BY <1>6 DEF PublishStatus, Activate, Invoke, world, context
  <2>2. \/ authority' = [authority EXCEPT !.fsm = @ + 1]
        \/ authority' = [authority EXCEPT !.plan = @ + 1, !.fsm = @ + 1]
        \/ authority' = [authority EXCEPT !.fsm = @ + 0]
    BY <1>6 DEF PublishStatus, Activate, Invoke
  <2>3. authority'.belief = authority.belief /\ authority'.fsm \in {authority.fsm, authority.fsm + 1}
    <3>1. /\ authority'.belief = authority.belief
          /\ authority'.fsm = authority.fsm + 1 \/ authority'.fsm = authority.fsm + 0
      BY <1>0, <2>2
    <3>2. authority.fsm + 0 = authority.fsm
      BY <1>0
    <3> QED
      BY <3>1, <3>2
  <2>4. authority.fsm <= authority'.fsm
    BY <1>0, <2>3
  <2> QED
    BY <1>0, <1>1, <2>1, <2>3, <2>4
<1>7. CASE Publish
  <2>1. /\ queue' = Append(queue, [source |-> "env", n |-> Len(events)]) /\ latest' = Len(events)
        /\ UNCHANGED <<events, facts, snapshot, authority, evidence>>
    BY <1>7, PublishEffect
  <2>2. [source |-> "env", n |-> Len(events)] \in [source: Sources, n: Nat]
    BY <1>0 DEF Sources
  <2>3. \A s \in Owned : Bound(s) <= Bound(s)'
    BY <1>0, <2>1 DEF Bound, Owned
  <2>4. Bound("env")' = Len(events)
    BY <2>1 DEF Bound
  <2>5. Bounded'
    BY <1>0, <2>1, <2>2, <2>3, <2>4, BoundsAppend
  <2>6. Stated("env", latest)'
    BY <2>1, <2>2, Appended DEF Stated
  <2>7. Stated("belief", authority.belief)'
    BY <1>0, <2>1, <2>2, Appended DEF Stated
  <2>8. evidence' <= latest' /\ \A s \in Sources \ {"active"} : snapshot'[s] = facts'[s]
    BY <1>0, <2>1
  <2> QED
    BY <2>5, <2>6, <2>7, <2>8, BoundedKnown DEF Known, Bounded, Bound, Owned
<1>8. CASE State
  <2>1. /\ draft \in Drawn /\ draft # None
        /\ queue' = Append(queue, [source |-> draft.source, n |-> draft.n])
        /\ authority'.fsm = authority.fsm
        /\ authority'.belief = IF draft.source = "belief" THEN draft.n ELSE authority.belief
        /\ UNCHANGED <<events, latest, facts, snapshot, evidence>>
    BY <1>8, StateEffect DEF State
  <2>2. [source |-> draft.source, n |-> draft.n] \in [source: Sources, n: Nat] /\ draft.n \in Nat
    BY <2>1 DEF Drawn
  <2>3. /\ draft.source = "fsm" => draft.n = authority.fsm
        /\ draft.source = "belief" => draft.n = authority.belief + 1
        /\ draft.source = "active" => draft.n <= Len(events)
        /\ draft.source # "env"
    BY <2>1 DEF Drafting, Drawn
  <2>4. authority'.belief = authority.belief + Step(draft.source = "belief")
    BY <1>0, <2>1, <2>3 DEF Step
  <2>5. \A s \in Owned : Bound(s) <= Bound(s)'
    BY <1>0, <2>1, <2>4 DEF Bound, Owned, Step
  <2>6. PICK f \in [source: Sources, n: Nat] : f = [source |-> draft.source, n |-> draft.n]
    BY <2>2
  <2>7. Bounded'
    <3>1. /\ f.source = "fsm" => f.n <= authority'.fsm
          /\ f.source = "belief" => f.n <= authority'.belief
          /\ f.source = "active" => f.n <= Len(events')
          /\ f.source # "env"
      BY <1>0, <2>1, <2>2, <2>3, <2>6
    <3>2. f.source \in Owned => f.n <= Bound(f.source)'
      BY <3>1 DEF Bound, Owned
    <3>3. queue' = Append(queue, f) /\ facts' = facts
      BY <2>1, <2>6
    <3> QED
      BY <1>0, <2>5, <3>2, <3>3, BoundsAppend
  <2>8. Stated("env", latest)'
    BY <1>0, <2>1, <2>2, Appended DEF Stated
  <2>9. Stated("belief", authority.belief)'
    <3>1. CASE draft.source = "belief"
      BY <2>1, <2>2, <3>1, Appended DEF Stated
    <3>2. CASE draft.source # "belief"
      BY <1>0, <2>1, <2>2, <3>2, Appended DEF Stated
    <3> QED
      BY <3>1, <3>2
  <2>10. evidence' <= latest' /\ \A s \in Sources \ {"active"} : snapshot'[s] = facts'[s]
    BY <1>0, <2>1
  <2> QED
    BY <2>7, <2>8, <2>9, <2>10, BoundedKnown DEF Known, Bounded, Bound, Owned
<1>9. CASE Receive
  <2>1. /\ UNCHANGED <<events, latest, authority, evidence>> /\ queue # <<>> /\ queue' = Tail(queue)
        /\ \A s \in Sources \ {"active"} : snapshot'[s] = facts'[s]
    BY <1>9, ReceiveEffect
  <2>2. /\ \A i \in DOMAIN queue' : i + 1 \in DOMAIN queue /\ queue'[i] = queue[i + 1]
        /\ 1 \in DOMAIN queue /\ queue[1] = Head(queue)
    BY <2>1, Shortened
  <2>3. \A s \in Owned : Bound(s)' = Bound(s)
    BY <2>1 DEF Bound, Owned
  <2>4. ASSUME NEW s \in Owned PROVE facts'[s] <= Bound(s)
    <3>1. facts'[s] = facts[s] \/ (s = Head(queue).source /\ facts'[s] = Head(queue).n)
      BY <1>9, ReceiveEffect DEF Owned, Sources
    <3> QED
      BY <1>0, <2>2, <3>1 DEF Bounded
  <2>5. \A s \in Owned : \A i \in DOMAIN queue' : queue'[i].source = s => queue'[i].n <= Bound(s)
    BY <1>0, <2>2 DEF Bounded
  <2>6. Bounded'
    BY <2>3, <2>4, <2>5 DEF Bounded
  <2>7. Stated("env", latest)'
    <3>1. "env" \in Sources /\ facts["env"] <= latest /\ \A i \in DOMAIN queue : queue[i].source = "env" => queue[i].n <= latest
      BY <1>0 DEF Bounded, Bound, Owned, Sources
    <3>2. \A n \in Nat : n = latest => Stated("env", n)'
      BY <1>0, <1>9, <3>1, StatedReceive
    <3> QED
      BY <1>0, <2>1, <3>2 DEF Stated
  <2>8. Stated("belief", authority.belief)'
    <3>1. /\ "belief" \in Sources /\ facts["belief"] <= authority.belief /\ authority.belief \in Nat
          /\ \A i \in DOMAIN queue : queue[i].source = "belief" => queue[i].n <= authority.belief
      BY <1>0 DEF Bounded, Bound, Owned, Sources
    <3>2. \A n \in Nat : n = authority.belief => Stated("belief", n)'
      BY <1>0, <1>9, <3>1, StatedReceive
    <3> QED
      BY <2>1, <3>1, <3>2 DEF Stated
  <2>9. evidence' <= latest'
    BY <1>0, <2>1
  <2> QED
    BY <2>1, <2>6, <2>7, <2>8, <2>9, BoundedKnown DEF Known, Bounded, Bound, Owned
<1> QED
  BY <1>2, <1>3, <1>4, <1>5, <1>6, <1>7, <1>8, <1>9, StepKinds

(***************************************************************************)
(* The active maneuver of a snapshot.                                      *)
(***************************************************************************)

LEMMA ActiveKept ==
  ASSUME TypeOK, Drafting, Locking, Known, Active, SnapshotsCoherent, [Next]_vars
  PROVE  Active' /\ SnapshotsCoherent'
<1>1. ASSUME facts' = facts, snapshot' = snapshot, queue' = queue, hasManeuver => hasManeuver'
      PROVE  Active' /\ SnapshotsCoherent'
  BY <1>1 DEF Active, SnapshotsCoherent, Queued
<1>2. CASE \/ Sensing \/ ViewUnchanged \/ Steering \/ Drawing \/ MissionFails \/ PublishStatus \/ Activate \/ Invoke
           \/ UNCHANGED vars
  <2>1. CASE Sensing
    BY <1>1, <2>1, SensingEffect
  <2>2. CASE Steering \/ Drawing
    BY <1>1, <2>2, SteeringEffect, DrawingEffect
  <2>3. CASE ViewUnchanged \/ MissionFails \/ PublishStatus \/ Activate \/ Invoke \/ UNCHANGED vars
    <3>1. facts' = facts /\ snapshot' = snapshot /\ queue' = queue /\ hasManeuver' = hasManeuver
      BY <2>3 DEF ViewUnchanged, PlanningView, MissionFails, PublishStatus, Activate, Invoke, world, context, ledger,
         vars
    <3> QED
      BY <1>1, <3>1
  <2> QED
    BY <1>2, <2>1, <2>2, <2>3
<1>3. CASE Publish
  <2>1. /\ queue' = Append(queue, [source |-> "env", n |-> Len(events)])
        /\ UNCHANGED <<events, hasManeuver, facts, snapshot>>
    BY <1>3, PublishEffect
  <2>2. PICK f : f = [source |-> "env", n |-> Len(events)]
    OBVIOUS
  <2>3. f \in [source: Sources, n: Nat] /\ f.source # "active"
    <3>1. Len(events) \in Nat
      BY DEF TypeOK
    <3> QED
      BY <2>2, <3>1 DEF Sources
  <2>4. Queued("active")' => Queued("active")
    BY <2>1, <2>2, <2>3, Appended DEF Queued
  <2> QED
    BY <2>1, <2>4 DEF Active, SnapshotsCoherent
<1>4. CASE State
  <2>1. /\ draft \in Drawn /\ draft # None
        /\ queue' = Append(queue, [source |-> draft.source, n |-> draft.n])
        /\ UNCHANGED <<hasManeuver, facts, snapshot>>
    BY <1>4, StateEffect DEF State
  <2>2. CASE hasManeuver
    BY <2>1, <2>2 DEF Active, SnapshotsCoherent
  <2>3. CASE ~hasManeuver
    <3>1. draft.source # "active"
      BY <2>1, <2>3 DEF Drafting
    <3>2. PICK f : f = [source |-> draft.source, n |-> draft.n]
      OBVIOUS
    <3>3. f \in [source: Sources, n: Nat] /\ f.source # "active"
      BY <2>1, <3>1, <3>2 DEF Drawn
    <3>4. Queued("active")' => Queued("active")
      BY <2>1, <3>2, <3>3, Appended DEF Queued
    <3> QED
      BY <2>1, <3>4 DEF Active, SnapshotsCoherent
  <2> QED
    BY <2>2, <2>3
<1>5. CASE Receive
  <2>1. /\ hasManeuver' = hasManeuver /\ queue # <<>> /\ queue' = Tail(queue)
        /\ Head(queue).source # "active" => facts'["active"] = facts["active"]
        /\ snapshot'["env"] = facts'["env"]
        /\ \/ snapshot' = snapshot
           \/ snapshot'.active = IF hasManeuver THEN facts'.env ELSE facts'.active
    BY <1>5, ReceiveEffect DEF Sources
  <2>2. /\ Queued("active")' => Queued("active")
        /\ Head(queue).source = "active" => Queued("active")
    BY <2>1, Shortened DEF Queued
  <2>3. ~hasManeuver => facts'.active = 0 /\ snapshot'.active = 0
    BY <2>1, <2>2 DEF Active
  <2>4. SnapshotsCoherent'
    BY <2>1, <2>3 DEF SnapshotsCoherent
  <2> QED
    BY <2>1, <2>2, <2>3, <2>4 DEF Active
<1> QED
  BY <1>2, <1>3, <1>4, <1>5, StepKinds

(***************************************************************************)
(* The revision of the plan.                                               *)
(***************************************************************************)

(* Away from the steps that state a plan, and from its activation, none is *)
(* under way.                                                              *)
LEMMA NothingUnderWay ==
  ASSUME TypeOK, Programmed(todo), Plans, todo # <<>>, Head(todo) \notin Stating \cup {"drain", "plan", "activate"}
  PROVE  facts.plan = authority.plan /\ ~PlanDue /\ ~ActivationDue /\ ~Queued("plan")
<1>1. ~Queued("plan") /\ ~PlanDue
  BY DEF Plans, PlanDue, At
<1>2. ASSUME NEW i \in DOMAIN todo, todo[i] = "activate" PROVE FALSE
  <2>0. i \in Nat /\ i > 0
    <3>1. todo \in Seq(Steps)
      BY DEF TypeOK
    <3> QED
      BY <1>2, <3>1
  <2>1. i <= 3 /\ Before(todo, i, 1, "drain") /\ Before(todo, i, 2, "plan") /\ i \in Nat /\ i > 0
    BY <1>2, <2>0 DEF Programmed, Planned
  <2>2. todo[1] = Head(todo)
    BY DEF TypeOK
  <2>3. i = 1 \/ (i = 2 /\ i - 1 = 1) \/ (i = 3 /\ i - 2 = 1)
    BY <2>1
  <2> QED
    BY <1>2, <2>1, <2>2, <2>3 DEF Before
<1>3. ~ActivationDue
  BY <1>2 DEF ActivationDue
<1>4. facts.plan + 0 = authority.plan + 0
  BY <1>1, <1>3 DEF Plans, Step
<1>5. facts.plan \in Nat /\ authority.plan \in Nat
  BY DEF TypeOK, Sources
<1> QED
  BY <1>1, <1>3, <1>4, <1>5

(* Taking the head off the list.                                           *)
LEMMA PlanTail ==
  ASSUME TypeOK, Programmed(todo), todo # <<>>, todo' = Tail(todo)
  PROVE  /\ ~At("plan")'
         /\ Head(todo) # "activate" => (ActivationDue' <=> ActivationDue)
         /\ Head(todo) = "activate" => ActivationDue /\ ~ActivationDue'
         /\ Head(todo) \in Stating \cup {"plan"} /\ todo' # <<>> => Head(todo') \in Stating \cup {"drain"}
<1>1. /\ \A i \in DOMAIN todo' : i + 1 \in DOMAIN todo /\ todo'[i] = todo[i + 1]
      /\ \A i \in DOMAIN todo : i = 1 \/ (i - 1 \in DOMAIN todo' /\ todo'[i - 1] = todo[i])
      /\ todo' # <<>> => Head(todo') = todo[2] /\ 2 \in DOMAIN todo
      /\ 1 \in DOMAIN todo /\ todo[1] = Head(todo) /\ DOMAIN todo' \subseteq Nat \ {0}
  BY TailFacts
<1>2. /\ \A i \in DOMAIN todo : Planned(todo, i) /\ Drains(todo, i)
  BY DEF Programmed
<1>3. ~At("plan")'
  BY <1>1, <1>2 DEF At, Planned
<1>4. Head(todo) # "activate" => (ActivationDue' <=> ActivationDue)
  <2>1. ASSUME NEW i \in DOMAIN todo', todo'[i] = "activate" PROVE ActivationDue
    BY <1>1, <2>1 DEF ActivationDue
  <2>2. ASSUME Head(todo) # "activate", NEW i \in DOMAIN todo, todo[i] = "activate" PROVE ActivationDue'
    <3>1. i # 1
      BY <1>1, <2>2
    <3> QED
      BY <1>1, <2>2, <3>1 DEF ActivationDue
  <2> QED
    BY <2>1, <2>2 DEF ActivationDue
<1>5. Head(todo) = "activate" => ActivationDue /\ ~ActivationDue'
  <2>1. ASSUME Head(todo) = "activate", NEW i \in DOMAIN todo', todo'[i] = "activate" PROVE FALSE
    <3>1. i + 1 \in DOMAIN todo /\ todo[i + 1] = "activate" /\ i \in Nat \ {0}
      BY <1>1, <2>1
    <3>2. i + 1 <= 3 /\ Before(todo, i + 1, 1, "drain") /\ Before(todo, i + 1, 2, "plan")
      BY <1>2, <3>1 DEF Planned
    <3>3. (i = 1 /\ (i + 1) - 1 = 1) \/ (i = 2 /\ (i + 1) - 2 = 1)
      BY <3>1, <3>2
    <3> QED
      BY <1>1, <2>1, <3>2, <3>3 DEF Before
  <2> QED
    BY <1>1, <2>1 DEF ActivationDue
<1>6. Head(todo) \in Stating \cup {"plan"} /\ todo' # <<>> => Head(todo') \in Stating \cup {"drain"}
  BY <1>1, <1>2 DEF Drains
<1> QED
  BY <1>3, <1>4, <1>5, <1>6

(* The plans in the queue, and the list on its way to the next one.        *)
LEMMA PlansSteady ==
  ASSUME TypeOK, Programmed(todo), Plans, facts'.plan = facts.plan, authority'.plan = authority.plan,
         \A i \in DOMAIN queue' : queue'[i].source = "plan" => i \in DOMAIN queue /\ queue'[i] = queue[i],
         \A i \in DOMAIN queue : queue[i].source = "plan" => i \in DOMAIN queue' /\ queue'[i] = queue[i],
         \/ todo' = todo
         \/ /\ todo # <<>> /\ todo' = Tail(todo) /\ Head(todo) \notin {"plan", "activate"}
            /\ Head(todo) = "drain" => ~Queued("plan")
         \/ todo # <<>> /\ Plain(todo') /\ todo' \in Seq(Steps) /\ Head(todo) \notin Stating \cup {"drain", "plan", "activate"}
  PROVE  Plans'
<1>0. SUFFICES ASSUME todo' # <<>> PROVE Plans'
  BY DEF Plans
<1>1. Queued("plan")' <=> Queued("plan")
  BY DEF Queued
<1>2. todo # <<>>
  BY <1>0
<1>3. /\ \A i \in DOMAIN queue : queue[i].source = "plan" => queue[i].n = facts.plan + 1
      /\ \A i, j \in DOMAIN queue : queue[i].source = "plan" /\ queue[j].source = "plan" => i = j
      /\ facts.plan + Step(PlanDue) = authority.plan + Step(ActivationDue)
      /\ Queued("plan") => Head(todo) \in Stating \cup {"drain"}
  BY <1>2 DEF Plans
<1>4. /\ \A i \in DOMAIN queue' : queue'[i].source = "plan" => queue'[i].n = facts'.plan + 1
      /\ \A i, j \in DOMAIN queue' : queue'[i].source = "plan" /\ queue'[j].source = "plan" => i = j
  BY <1>3
<1>5. CASE todo' = todo
  <2>1. (PlanDue' <=> PlanDue) /\ (ActivationDue' <=> ActivationDue) /\ (Queued("plan")' => Head(todo') \in Stating \cup {"drain"})
    BY <1>1, <1>3, <1>5 DEF PlanDue, ActivationDue, At
  <2> QED
    BY <1>3, <1>4, <2>1 DEF Plans, Step
<1>6. CASE /\ todo # <<>> /\ todo' = Tail(todo) /\ Head(todo) \notin {"plan", "activate"}
           /\ Head(todo) = "drain" => ~Queued("plan")
  <2>1. ~At("plan")' /\ (ActivationDue' <=> ActivationDue)
    BY <1>6, PlanTail
  <2>2. PlanDue' <=> PlanDue
    BY <1>1, <1>6, <2>1 DEF PlanDue, At
  <2>3. Queued("plan")' => Head(todo') \in Stating \cup {"drain"}
    BY <1>0, <1>1, <1>3, <1>6, PlanTail
  <2> QED
    BY <1>3, <1>4, <2>1, <2>2, <2>3 DEF Plans, Step
<1>7. CASE todo # <<>> /\ Plain(todo') /\ todo' \in Seq(Steps) /\ Head(todo) \notin Stating \cup {"drain", "plan", "activate"}
  <2>1. facts.plan = authority.plan /\ ~Queued("plan")
    BY <1>7, NothingUnderWay
  <2>2. ~ActivationDue' /\ ~At("plan")'
    BY <1>0, <1>7 DEF ActivationDue, At, Plain
  <2>3. ~PlanDue' /\ ~Queued("plan")'
    BY <1>1, <2>1, <2>2 DEF PlanDue
  <2> QED
    BY <1>4, <2>1, <2>2, <2>3 DEF Plans, Step
<1> QED
  BY <1>5, <1>6, <1>7

LEMMA PlansKept ==
  ASSUME TypeOK, TypeOK', Programmed(todo), Drafting, Locking, Known, Plans, [Next]_vars
  PROVE  Plans'
<1>1. CASE Sensing \/ Drawing \/ UNCHANGED vars
  <2>1. UNCHANGED <<todo, queue, facts, authority>>
    BY <1>1, SensingEffect, DrawingEffect DEF vars
  <2> QED
    BY <2>1, PlansSteady
<1>2. CASE ViewUnchanged \/ PublishStatus \/ Clock \/ Think \/ Ingest \/ Look \/ NothingActive \/ Drained
  <2>1. /\ queue' = queue /\ facts' = facts /\ authority'.plan = authority.plan
    <3>1. CASE PublishStatus
      <4>1. queue' = queue /\ facts' = facts /\ authority' = [authority EXCEPT !.fsm = @ + 1]
        BY <3>1 DEF PublishStatus, context
      <4> QED
        BY <4>1 DEF TypeOK
    <3>2. CASE ~PublishStatus
      BY <1>2, <3>2 DEF ViewUnchanged, PlanningView, Clock, Think, Ingest, Look, NothingActive, Drained, context, ledger
    <3> QED
      BY <3>1, <3>2
  <2>2. /\ todo # <<>> /\ todo' = Tail(todo) /\ Head(todo) \notin {"plan", "activate"}
        /\ Head(todo) = "drain" => queue = <<>>
    <3>1. CASE ViewUnchanged \/ PublishStatus
      BY <3>1 DEF ViewUnchanged, PlanningView, PublishStatus, At, Done
    <3>2. CASE Clock \/ Think \/ Ingest \/ Look \/ NothingActive \/ Drained
      BY <3>2 DEF Clock, Think, Ingest, Look, NothingActive, Drained, At, Done
    <3> QED
      BY <1>2, <3>1, <3>2
  <2>3. queue = <<>> => ~Queued("plan")
    BY DEF Queued
  <2> QED
    BY <2>1, <2>2, <2>3, PlansSteady
<1>3. CASE Top \/ Wake \/ Assess \/ Decide \/ Advance \/ Invoke \/ (Adopt /\ todo' # Adoption \o <<"advance">>)
  <2>1. queue' = queue /\ facts' = facts /\ authority'.plan = authority.plan
    <3>1. CASE Invoke
      <4>1. queue' = queue /\ facts' = facts /\ \E moved \in {0, 1} : authority' = [authority EXCEPT !.fsm = @ + moved]
        BY <3>1 DEF Invoke, context
      <4> QED
        BY <4>1 DEF TypeOK
    <3>2. CASE ~Invoke
      BY <1>3, <3>2 DEF Top, Wake, Assess, Decide, Advance, Adopt, context, ledger
    <3> QED
      BY <3>1, <3>2
  <2>2. todo # <<>> /\ Head(todo) \notin Stating \cup {"drain", "plan", "activate"}
    BY <1>3 DEF Top, Wake, Assess, Decide, Advance, Invoke, Adopt, At, Stating
  <2>3. todo' \in Seq(Steps) /\ (todo' = todo \/ todo' = Tail(todo) \/ Plain(todo'))
    <3>1. ~At("adopt") \/ todo' # Adoption \o <<"advance">>
      BY <1>3 DEF Top, Wake, Assess, Decide, Advance, Invoke, At
    <3> QED
      BY <3>1, ListMoves
  <2> QED
    BY <2>1, <2>2, <2>3, PlansSteady
<1>4. CASE Adopt /\ todo' = Adoption \o <<"advance">>
  <2>1. queue' = queue /\ facts' = facts /\ authority' = authority /\ At("adopt")
    BY <1>4 DEF Adopt, context, ledger
  <2>2. facts.plan = authority.plan /\ ~Queued("plan")
    BY <2>1, NothingUnderWay DEF At, Stating
  <2>3. todo' \in Seq(Steps) /\ Len(todo') > 3 /\ todo'[1] = "plan" /\ todo'[3] = "activate"
    <3>1. PICK t : t = todo'
      OBVIOUS
    <3> QED
      BY <1>4, <3>1, AdoptionProgram
  <2>4. todo' # <<>> /\ PlanDue' /\ ActivationDue' /\ ~Queued("plan")'
    <3>1. 3 \in DOMAIN todo' /\ todo' # <<>> /\ Head(todo') = "plan"
      BY <2>3
    <3>2. ~Queued("plan")'
      BY <2>1, <2>2 DEF Queued
    <3> QED
      BY <2>3, <3>1, <3>2 DEF PlanDue, ActivationDue, At
  <2> QED
    BY <2>1, <2>2, <2>4 DEF Plans, Step, Queued
<1>5. CASE Publish
  <2>1. /\ queue' = Append(queue, [source |-> "env", n |-> Len(events)]) /\ facts' = facts /\ authority' = authority
    BY <1>5, PublishEffect
  <2>2. PICK f : f = [source |-> "env", n |-> Len(events)]
    OBVIOUS
  <2>3. f \in [source: Sources, n: Nat] /\ f.source # "plan"
    <3>1. Len(events) \in Nat
      BY DEF TypeOK
    <3> QED
      BY <2>2, <3>1 DEF Sources
  <2>4. /\ \A i \in DOMAIN queue' : queue'[i].source = "plan" => i \in DOMAIN queue /\ queue'[i] = queue[i]
        /\ \A i \in DOMAIN queue : queue[i].source = "plan" => i \in DOMAIN queue' /\ queue'[i] = queue[i]
    BY <2>1, <2>2, <2>3, Appended
  <2>5. CASE lock.by = "view"
    <3>1. todo # <<>> /\ Head(todo) = "view" /\ todo' = Tail(todo)
      BY <1>5, <2>5, PublishEffect DEF At
    <3> QED
      BY <2>1, <2>4, <3>1, PlansSteady
  <2>6. CASE lock.by # "view" /\ todo' # todo
    <3>1. todo # <<>> /\ Head(todo) = "advance" /\ todo' = <<"top">>
      BY <1>5, <2>6, PublishEffect DEF At
    <3>2. Plain(todo') /\ todo' \in Seq(Steps)
      BY <3>1, Short
    <3> QED
      BY <2>1, <2>4, <3>1, <3>2, PlansSteady DEF Stating
  <2> QED
    BY <2>1, <2>4, <2>5, <2>6, PlansSteady
<1>6. CASE State
  <2>1. /\ draft \in Drawn /\ draft # None /\ todo # <<>> /\ Head(todo) = draft.source /\ todo' = Tail(todo)
        /\ queue' = Append(queue, [source |-> draft.source, n |-> draft.n])
        /\ facts' = facts /\ authority'.plan = authority.plan
    BY <1>6, StateEffect DEF State
  <2>2. PICK f : f = [source |-> draft.source, n |-> draft.n]
    OBVIOUS
  <2>3. f \in [source: Sources, n: Nat] /\ f.source = draft.source /\ f.n = draft.n
    BY <2>1, <2>2 DEF Drawn
  <2>4. CASE draft.source # "plan"
    <3>1. /\ \A i \in DOMAIN queue' : queue'[i].source = "plan" => i \in DOMAIN queue /\ queue'[i] = queue[i]
          /\ \A i \in DOMAIN queue : queue[i].source = "plan" => i \in DOMAIN queue' /\ queue'[i] = queue[i]
      BY <2>1, <2>2, <2>3, <2>4, Appended
    <3>2. Head(todo) \notin {"plan", "activate", "drain"}
      BY <2>1, <2>4 DEF Drawn, Sources
    <3> QED
      BY <2>1, <3>1, <3>2, PlansSteady
  <2>5. CASE draft.source = "plan"
    <3>1. f.source = "plan" /\ f.n = facts.plan + 1
      BY <2>1, <2>3, <2>5 DEF Drafting
    <3>2. ~Queued("plan") /\ At("plan") /\ PlanDue
      BY <2>1, <2>5 DEF Plans, Stating, At, PlanDue
    <3>3. \A i \in DOMAIN queue' : queue'[i].source = "plan" => queue'[i] = f /\ i = Len(queue) + 1
      BY <2>1, <2>2, <2>3, <3>2, Appended DEF Queued
    <3>4. Queued("plan")'
      BY <2>1, <2>2, <2>3, <3>1, Appended DEF Queued
    <3>5. /\ ActivationDue' <=> ActivationDue
          /\ todo' # <<>> => Head(todo') \in Stating \cup {"drain"}
      BY <2>1, <2>5, PlanTail
    <3>6. facts.plan + Step(PlanDue) = authority.plan + Step(ActivationDue)
      BY <2>1 DEF Plans
    <3>7. facts'.plan + Step(PlanDue)' = authority'.plan + Step(ActivationDue)'
      BY <2>1, <3>2, <3>4, <3>5, <3>6 DEF PlanDue, Step
    <3>8. \A i \in DOMAIN queue' : queue'[i].source = "plan" => queue'[i].n = facts'.plan + 1
      BY <2>1, <3>1, <3>3
    <3> QED
      BY <3>3, <3>5, <3>7, <3>8 DEF Plans
  <2> QED
    BY <2>4, <2>5
<1>7. CASE Receive
  <2>1. /\ todo' = todo /\ authority' = authority /\ At("drain") /\ queue # <<>> /\ queue' = Tail(queue)
        /\ Head(queue).source # "plan" => facts'["plan"] = facts["plan"]
        /\ Head(queue).source = "plan" =>
             \/ facts'["plan"] = Head(queue).n /\ Head(queue).n > facts["plan"]
             \/ facts'["plan"] = facts["plan"] /\ Head(queue).n <= facts["plan"]
    BY <1>7, ReceiveEffect DEF Sources
  <2>2. /\ \A i \in DOMAIN queue' : i + 1 \in DOMAIN queue /\ queue'[i] = queue[i + 1] /\ i + 1 # 1
        /\ \A i \in DOMAIN queue : queue[i] = Head(queue) \/ (i - 1 \in DOMAIN queue' /\ queue'[i - 1] = queue[i])
        /\ 1 \in DOMAIN queue /\ queue[1] = Head(queue)
    BY <2>1, Shortened
  <2>3. /\ \A i \in DOMAIN queue : queue[i].source = "plan" => queue[i].n = facts.plan + 1
        /\ \A i, j \in DOMAIN queue : queue[i].source = "plan" /\ queue[j].source = "plan" => i = j
        /\ facts.plan + Step(PlanDue) = authority.plan + Step(ActivationDue)
        /\ todo # <<>> /\ Head(todo) = "drain" /\ facts.plan \in Nat
    BY <2>1 DEF Plans, At, TypeOK, Sources
  <2>4. \A i, j \in DOMAIN queue' : queue'[i].source = "plan" /\ queue'[j].source = "plan" => i = j
    <3>1. \A i, j \in DOMAIN queue' : i + 1 = j + 1 => i = j
      <4>1. queue' \in Seq([source: Sources, n: Nat])
        BY DEF TypeOK
      <4> QED
        BY <4>1
    <3> QED
      BY <2>2, <2>3, <3>1
  <2>5. ActivationDue' <=> ActivationDue
    BY <2>1 DEF ActivationDue
  <2>6. CASE Head(queue).source = "plan"
    <3>1. Head(queue).n = facts.plan + 1 /\ Queued("plan") /\ PlanDue
      BY <2>2, <2>3, <2>6 DEF Queued, PlanDue
    <3>2. facts'.plan = facts.plan + 1
      BY <2>1, <2>3, <2>6, <3>1
    <3>3. ~Queued("plan")'
      BY <2>2, <2>3, <2>6 DEF Queued
    <3>4. ~PlanDue'
      BY <2>1, <2>3, <3>3 DEF PlanDue, At
    <3>5. facts'.plan + Step(PlanDue)' = authority'.plan + Step(ActivationDue)'
      <4>1. Step(PlanDue) = 1 /\ Step(PlanDue)' = 0 /\ Step(ActivationDue)' = Step(ActivationDue)
        BY <2>5, <3>1, <3>4 DEF Step
      <4> QED
        BY <2>1, <2>3, <3>2, <4>1
    <3> QED
      BY <2>1, <2>4, <3>3, <3>5 DEF Plans, Queued
  <2>7. CASE Head(queue).source # "plan"
    <3>1. Queued("plan")' <=> Queued("plan")
      BY <2>2, <2>7 DEF Queued
    <3>2. PlanDue' <=> PlanDue
      BY <2>1, <3>1 DEF PlanDue, At
    <3>3. facts'.plan + Step(PlanDue)' = authority'.plan + Step(ActivationDue)'
      BY <2>1, <2>3, <2>5, <2>7, <3>2 DEF Step
    <3>4. \A i \in DOMAIN queue' : queue'[i].source = "plan" => queue'[i].n = facts'.plan + 1
      BY <2>1, <2>2, <2>3, <2>7
    <3> QED
      BY <2>1, <2>3, <2>4, <3>3, <3>4 DEF Plans
  <2> QED
    BY <2>6, <2>7
<1>8. CASE Activate
  <2>1. /\ todo # <<>> /\ Head(todo) = "activate" /\ todo' = Tail(todo) /\ queue' = queue /\ facts' = facts
        /\ authority' = [authority EXCEPT !.plan = @ + 1, !.fsm = @ + 1]
    BY <1>8 DEF Activate, At, Done, context
  <2>2. authority.plan \in Nat /\ facts.plan \in Nat /\ authority'.plan = authority.plan + 1
    BY <2>1 DEF TypeOK, Sources
  <2>3. ~Queued("plan") /\ ~PlanDue /\ facts.plan + Step(PlanDue) = authority.plan + Step(ActivationDue)
    BY <2>1 DEF Plans, PlanDue, At, Stating
  <2>4. ~At("plan")' /\ ActivationDue /\ ~ActivationDue'
    BY <2>1, PlanTail
  <2>5. ~Queued("plan")'
    BY <2>1, <2>3 DEF Queued
  <2>6. facts'.plan + Step(PlanDue)' = authority'.plan + Step(ActivationDue)'
    <3>1. Step(PlanDue) = 0 /\ Step(ActivationDue) = 1 /\ Step(PlanDue)' = 0 /\ Step(ActivationDue)' = 0
      BY <2>3, <2>4, <2>5 DEF PlanDue, Step
    <3> QED
      BY <2>1, <2>2, <2>3, <3>1
  <2> QED
    BY <2>5, <2>6 DEF Plans, Queued
<1>9. CASE MissionFails
  BY <1>9 DEF MissionFails, Plans
<1> QED
  BY <1>1, <1>2, <1>3, <1>4, <1>5, <1>6, <1>7, <1>8, <1>9, StepKinds DEF Steering

(***************************************************************************)
(* Invocations and replans.                                                *)
(***************************************************************************)

(* The step in hand tells how near the next invocation or replan is.       *)
LEMMA Near ==
  ASSUME TypeOK, Programmed(todo), NEW i \in DOMAIN todo, todo[i] \in {"invoke", "replan"}
  PROVE  /\ i \in Nat /\ i >= 1 /\ todo # <<>> /\ (i = 1 => Head(todo) = todo[i])
         /\ i = 2 => Head(todo) = "drain"
         /\ i = 3 => Head(todo) = "active"
         /\ i = 4 => Head(todo) = "look"
         /\ i = 5 => Head(todo) = "fsm"
         /\ i = 6 => Head(todo) = IF todo[i] = "invoke" THEN "status" ELSE "view"
<1>1. todo \in Seq(Steps)
  BY DEF TypeOK
<1>2. i \in Nat /\ i >= 1 /\ todo # <<>> /\ todo[1] = Head(todo)
  BY <1>1
<1>3. Led(todo, i)
  BY DEF Programmed
<1>4. /\ i = 2 => i - 1 = 1 /\ i > 1
      /\ i = 3 => i - 2 = 1 /\ i > 2
      /\ i = 4 => i - 3 = 1 /\ i > 3
      /\ i = 5 => i - 4 = 1 /\ i > 4
      /\ i = 6 => i - 5 = 1 /\ i > 5
  BY <1>2
<1> QED
  BY <1>2, <1>3, <1>4 DEF Led, Before

LEMMA NearTail ==
  ASSUME TypeOK, Programmed(todo), todo # <<>>, todo' = Tail(todo), NEW i \in DOMAIN todo',
         todo'[i] \in {"invoke", "replan"}
  PROVE  /\ i \in Nat /\ i >= 1 /\ i + 1 \in DOMAIN todo /\ todo[i + 1] = todo'[i]
         /\ i = 1 => Head(todo) = "drain"
         /\ i = 2 => Head(todo) = "active"
         /\ i = 3 => Head(todo) = "look"
         /\ i = 4 => Head(todo) = "fsm"
         /\ i = 5 => Head(todo) = IF todo'[i] = "invoke" THEN "status" ELSE "view"
<1>1. i + 1 \in DOMAIN todo /\ todo[i + 1] = todo'[i] /\ i \in Nat /\ i >= 1
  BY TailFacts
<1>2. /\ i + 1 = 2 => Head(todo) = "drain"
      /\ i + 1 = 3 => Head(todo) = "active"
      /\ i + 1 = 4 => Head(todo) = "look"
      /\ i + 1 = 5 => Head(todo) = "fsm"
      /\ i + 1 = 6 => Head(todo) = IF todo'[i] = "invoke" THEN "status" ELSE "view"
  BY <1>1, Near
<1> QED
  BY <1>1, <1>2

Leading == {"drain", "active", "look", "fsm"}

(* Far from an invocation or a replan, nothing is claimed of one.          *)
LEMMA Far ==
  ASSUME TypeOK, TypeOK', Programmed(todo),
         \/ Whole(todo')
         \/ todo # <<>> /\ todo' = Tail(todo) /\ Head(todo) \notin Leading \cup {"view"}
         \/ todo # <<>> /\ todo' = todo /\ Head(todo) \notin Leading \cup {"view", "invoke", "replan"}
  PROVE  Informed' /\ Viewing'
<1>1. ASSUME NEW i \in DOMAIN todo', todo'[i] \in {"invoke", "replan"}
      PROVE  i \in Nat /\ i > 4 /\ (todo'[i] = "replan" => i > 5)
  <2>1. i \in Nat /\ i >= 1
    <3>1. todo' \in Seq(Steps)
      BY DEF TypeOK
    <3> QED
      BY <3>1
  <2>2. CASE Whole(todo')
    BY <1>1, <2>1, <2>2 DEF Whole
  <2>3. CASE todo # <<>> /\ todo' = Tail(todo) /\ Head(todo) \notin Leading \cup {"view"}
    <3>1. i \notin {1, 2, 3, 4} /\ (todo'[i] = "replan" => i # 5)
      BY <1>1, <2>3, NearTail DEF Leading
    <3> QED
      BY <2>1, <3>1
  <2>4. CASE todo # <<>> /\ todo' = todo /\ Head(todo) \notin Leading \cup {"view", "invoke", "replan"}
    <3>1. i \notin {1, 2, 3, 4, 5}
      BY <1>1, <2>4, Near DEF Leading
    <3> QED
      BY <2>1, <3>1
  <2> QED
    BY <2>2, <2>3, <2>4
<1>2. \A i \in DOMAIN todo' : /\ todo'[i] = "invoke" => ~(i <= 4) /\ i # 1
                              /\ todo'[i] = "replan" => ~(i <= 5) /\ i # 1
  BY <1>1
<1>3. todo' # <<>> => 1 \in DOMAIN todo' /\ todo'[1] = Head(todo')
  <2>1. todo' \in Seq(Steps)
    BY DEF TypeOK
  <2> QED
    BY <2>1
<1>4. ~At("invoke")' /\ ~At("replan")'
  BY <1>2, <1>3 DEF At
<1> QED
  BY <1>2, <1>4 DEF Informed, Viewing

(* A step of the lead: what has been stated of the FSM stays stated.       *)
LEMMA Leads ==
  ASSUME TypeOK, TypeOK', Programmed(todo), Informed, Viewing, todo # <<>>, todo' = Tail(todo),
         Head(todo) \in {"fsm", "look", "active"}, latest' = latest, view' = view, mode' = mode,
         Stated("fsm", authority.fsm) \/ Head(todo) = "fsm" => Stated("fsm", authority.fsm)'
  PROVE  Informed' /\ Viewing'
<1>1. ASSUME NEW i \in DOMAIN todo', todo'[i] \in {"invoke", "replan"}
      PROVE  /\ i # 1 /\ (i <= 4 => i + 1 <= 4 \/ Head(todo) = "fsm")
             /\ todo'[i] = "replan" /\ i <= 5 => i + 1 <= 5
             /\ i + 1 \in DOMAIN todo /\ todo[i + 1] = todo'[i]
  <2>1. /\ i \in Nat /\ i >= 1 /\ i + 1 \in DOMAIN todo /\ todo[i + 1] = todo'[i]
        /\ i # 1 /\ (i = 4 => Head(todo) = "fsm") /\ (todo'[i] = "replan" => i # 5)
    BY <1>1, NearTail
  <2> QED
    BY <2>1
<1>2. todo' # <<>> => 1 \in DOMAIN todo' /\ todo'[1] = Head(todo')
  <2>1. todo' \in Seq(Steps)
    BY DEF TypeOK
  <2> QED
    BY <2>1
<1>3. ~At("invoke")' /\ ~At("replan")'
  BY <1>1, <1>2 DEF At
<1>4. \A i \in DOMAIN todo' : todo'[i] = "invoke" /\ i <= 4 => Stated("fsm", authority.fsm)'
  BY <1>1 DEF Informed
<1>5. ~mode'.producer => \A i \in DOMAIN todo' : todo'[i] = "replan" /\ i <= 5 => view' = latest'
  BY <1>1 DEF Viewing
<1> QED
  BY <1>3, <1>4, <1>5 DEF Informed, Viewing

LEMMA LeadsKept ==
  ASSUME TypeOK, TypeOK', Programmed(todo), Drafting, Locking, Known, Informed, Viewing, [Next]_vars
  PROVE  Informed' /\ Viewing'
<1>0. /\ Len(events) \in Nat /\ authority.fsm \in Nat /\ latest \in Nat /\ evidence \in Nat
      /\ facts.fsm <= authority.fsm /\ \A i \in DOMAIN queue : queue[i].source = "fsm" => queue[i].n <= authority.fsm
  <2>1. /\ events \in Seq(Kinds) /\ authority \in [plan: Nat, fsm: Nat, belief: Nat]
        /\ latest \in 0 .. Len(events) /\ evidence \in 0 .. Len(events)
    BY DEF TypeOK
  <2>2. Len(events) \in Nat /\ authority.fsm \in Nat /\ latest \in Nat /\ evidence \in Nat
    BY <2>1
  <2> QED
    BY <2>2 DEF Known
<1>1. CASE Sensing \/ Drawing \/ UNCHANGED vars
  <2>1. UNCHANGED <<todo, latest, queue, facts, mode, authority, evidence, view>>
    BY <1>1, SensingEffect, DrawingEffect DEF vars
  <2> QED
    BY <2>1 DEF Informed, Viewing, Stated, At
<1>2. CASE Receive
  <2>1. UNCHANGED <<todo, latest, mode, authority, view>> /\ At("drain")
    BY <1>2, ReceiveEffect
  <2>2. \A n \in Nat : n = authority.fsm /\ Stated("fsm", n) => Stated("fsm", n)'
    BY <1>0, <1>2, StatedReceive DEF Sources
  <2>3. Stated("fsm", authority.fsm) => Stated("fsm", authority.fsm)'
    BY <1>0, <2>1, <2>2 DEF Stated
  <2>4. ~At("invoke")' /\ ~At("replan")'
    BY <2>1 DEF At
  <2> QED
    BY <2>1, <2>3, <2>4 DEF Informed, Viewing
<1>3. CASE Publish
  <2>1. /\ queue' = Append(queue, [source |-> "env", n |-> Len(events)]) /\ latest' = Len(events)
        /\ UNCHANGED <<facts, authority, evidence, mode>>
    BY <1>3, PublishEffect
  <2>2. PICK f : f = [source |-> "env", n |-> Len(events)]
    OBVIOUS
  <2>3. f \in [source: Sources, n: Nat] /\ f.source = "env"
    BY <1>0, <2>2 DEF Sources
  <2>4. Stated("fsm", authority.fsm) => Stated("fsm", authority.fsm)'
    BY <2>1, <2>2, <2>3, Appended DEF Stated
  <2>5. CASE lock.by = "view"
    <3>1. todo # <<>> /\ Head(todo) = "view" /\ todo' = Tail(todo) /\ view' = latest'
      BY <1>3, <2>1, <2>5, PublishEffect DEF At
    <3>2. \A i \in DOMAIN todo' : /\ todo'[i] = "invoke" => i \in Nat /\ i >= 1 /\ i \notin 1 .. 5
                                  /\ todo'[i] = "replan" => i # 1
      BY <3>1, NearTail
    <3>3. \A i \in DOMAIN todo' : (todo'[i] = "invoke" => ~(i <= 4) /\ i # 1) /\ (todo'[i] = "replan" => i # 1)
      BY <3>2
    <3>4. todo' # <<>> => 1 \in DOMAIN todo' /\ todo'[1] = Head(todo')
      <4>1. todo' \in Seq(Steps)
        BY DEF TypeOK
      <4> QED
        BY <4>1
    <3>5. ~At("invoke")' /\ ~At("replan")'
      BY <3>3, <3>4 DEF At
    <3> QED
      BY <3>1, <3>3, <3>5 DEF Informed, Viewing
  <2>6. CASE lock.by # "view" /\ mode.producer
    <3>1. todo' = todo
      BY <1>3, <2>6, PublishEffect
    <3>2. \A i \in DOMAIN queue' : queue'[i].source = "env" \/ (i \in DOMAIN queue /\ queue'[i] = queue[i])
      BY <2>1, <2>2, <2>3, Appended
    <3>3. At("invoke")' => facts'.env >= evidence' /\ \A i \in DOMAIN queue' : queue'[i].source = "env"
      BY <2>1, <3>1, <3>2 DEF Informed, At
    <3>4. \A i \in DOMAIN todo' : todo'[i] = "invoke" /\ i <= 4 => Stated("fsm", authority.fsm)'
      BY <2>4, <3>1 DEF Informed
    <3> QED
      BY <2>1, <2>6, <3>3, <3>4 DEF Informed, Viewing
  <2>7. CASE lock.by # "view" /\ ~mode.producer
    <3>1. todo # <<>> /\ Head(todo) = "advance" /\ (todo' = todo \/ todo' = <<"top">>)
      BY <1>3, <2>7, PublishEffect DEF At
    <3>2. CASE todo' = <<"top">>
      BY <3>2, Short, Far
    <3>3. CASE todo' = todo
      BY <3>1, <3>3, Far DEF Leading
    <3> QED
      BY <3>1, <3>2, <3>3
  <2> QED
    BY <2>5, <2>6, <2>7
<1>4. CASE ViewUnchanged
  <2>1. /\ todo # <<>> /\ Head(todo) = "view" /\ todo' = Tail(todo) /\ latest' = Len(events) /\ view' = Len(events)
    BY <1>4 DEF ViewUnchanged, PlanningView, At, Done
  <2>2. \A i \in DOMAIN todo' : /\ todo'[i] = "invoke" => i \in Nat /\ i >= 1 /\ i \notin 1 .. 5
                                /\ todo'[i] = "replan" => i # 1
    BY <2>1, NearTail
  <2>3. \A i \in DOMAIN todo' : (todo'[i] = "invoke" => ~(i <= 4) /\ i # 1) /\ (todo'[i] = "replan" => i # 1)
    BY <2>2
  <2>4. todo' # <<>> => 1 \in DOMAIN todo' /\ todo'[1] = Head(todo')
    <3>1. todo' \in Seq(Steps)
      BY DEF TypeOK
    <3> QED
      BY <3>1
  <2>5. ~At("invoke")' /\ ~At("replan")'
    BY <2>3, <2>4 DEF At
  <2> QED
    BY <2>1, <2>3, <2>5 DEF Informed, Viewing
<1>5. CASE State
  <2>1. /\ draft \in Drawn /\ draft # None /\ todo # <<>> /\ Head(todo) = draft.source /\ todo' = Tail(todo)
        /\ queue' = Append(queue, [source |-> draft.source, n |-> draft.n])
        /\ authority'.fsm = authority.fsm
        /\ UNCHANGED <<latest, facts, mode, view>>
    BY <1>5, StateEffect DEF State
  <2>2. CASE draft.source \in {"plan", "belief"}
    BY <2>1, <2>2, Far DEF Leading
  <2>3. CASE draft.source \in {"fsm", "active"}
    <3>1. [source |-> draft.source, n |-> draft.n] \in [source: Sources, n: Nat]
      BY <2>1 DEF Drawn
    <3>2. PICK f \in [source: Sources, n: Nat] : f = [source |-> draft.source, n |-> draft.n]
      BY <3>1
    <3>3. /\ \A i \in DOMAIN queue : i \in DOMAIN queue' /\ queue'[i] = queue[i]
          /\ Len(queue) + 1 \in DOMAIN queue' /\ queue'[Len(queue) + 1] = f
      BY <2>1, <3>2, Appended
    <3>4. draft.source = "fsm" => f = [source |-> "fsm", n |-> authority.fsm]
      BY <2>1, <3>2 DEF Drafting
    <3>5. Stated("fsm", authority.fsm) \/ Head(todo) = "fsm" => Stated("fsm", authority.fsm)'
      BY <2>1, <3>3, <3>4 DEF Stated
    <3> QED
      BY <2>1, <2>3, <3>5, Leads
  <2> QED
    BY <2>1, <2>2, <2>3 DEF Drawn, Sources
<1>6. CASE Look \/ NothingActive
  <2>1. /\ todo # <<>> /\ Head(todo) \in {"look", "active"} /\ todo' = Tail(todo)
        /\ UNCHANGED <<latest, queue, facts, mode, authority, view>>
    BY <1>6 DEF Look, NothingActive, At, Done, world, context, ledger
  <2>2. Stated("fsm", authority.fsm) => Stated("fsm", authority.fsm)'
    BY <2>1 DEF Stated
  <2> QED
    BY <2>1, <2>2, Leads
<1>7. CASE Drained
  <2>1. /\ todo # <<>> /\ Head(todo) = "drain" /\ todo' = Tail(todo) /\ queue = <<>>
        /\ UNCHANGED <<latest, queue, facts, mode, authority, evidence, view>>
    BY <1>7 DEF Drained, At, Done, world, context, ledger
  <2>2. \A i \in DOMAIN todo' : todo'[i] \in {"invoke", "replan"} =>
            i \in Nat /\ i \notin 2 .. 5 /\ i + 1 \in DOMAIN todo /\ todo[i + 1] = todo'[i]
    <3>1. ASSUME NEW i \in DOMAIN todo', todo'[i] \in {"invoke", "replan"}
          PROVE i \in Nat /\ i \notin 2 .. 5 /\ i + 1 \in DOMAIN todo /\ todo[i + 1] = todo'[i]
      BY <2>1, <3>1, NearTail
    <3> QED
      BY <3>1
  <2>3. \A i \in DOMAIN todo' : todo'[i] \in {"invoke", "replan"} =>
            /\ i + 1 \in DOMAIN todo /\ todo[i + 1] = todo'[i]
            /\ i <= 5 => i + 1 <= 4
            /\ i <= 5 => i + 1 <= 5
            /\ i <= 4 => i <= 5
    BY <2>1, <2>2, NearTail
  <2>4. facts.env = latest /\ latest >= evidence /\ \A i \in DOMAIN queue : queue[i].source = "env"
    BY <1>0, <2>1 DEF Known, Stated
  <2>5. Stated("fsm", authority.fsm) => Stated("fsm", authority.fsm)'
    BY <2>1 DEF Stated
  <2>6. \A i \in DOMAIN todo' : todo'[i] = "invoke" /\ i <= 4 => Stated("fsm", authority.fsm)'
    BY <2>3, <2>5 DEF Informed
  <2>7. ~mode'.producer => \A i \in DOMAIN todo' : todo'[i] = "replan" /\ i <= 5 => view' = latest'
    BY <2>1, <2>3 DEF Viewing
  <2> QED
    BY <2>1, <2>4, <2>6, <2>7 DEF Informed, Viewing
<1>8. CASE Think \/ PublishStatus \/ Activate \/ Clock \/ Ingest
  <2>1. todo # <<>> /\ todo' = Tail(todo) /\ Head(todo) \in {"hyper", "replan", "status", "activate", "clock", "ingest"}
    BY <1>8 DEF Think, PublishStatus, Activate, Clock, Ingest, At, Done
  <2> QED
    BY <2>1, Far DEF Leading
<1>9. CASE Top \/ Wake \/ Assess \/ Decide \/ Adopt \/ Advance
  <2>1. todo # <<>> /\ Head(todo) \in {"top", "wake", "assess", "decide", "adopt", "advance"}
    BY <1>9 DEF Top, Wake, Assess, Decide, Adopt, Advance, At
  <2>2. todo' = todo \/ todo' = Tail(todo) \/ Whole(todo')
    BY ListMoves
  <2> QED
    BY <2>1, <2>2, Far DEF Leading
<1>10. CASE Invoke
  <2>1. PICK n \in {0, observed.pending} : todo' = [i \in 1 .. n |-> "belief"] \o Tail(todo)
    BY <1>10 DEF Invoke
  <2>2. n \in Nat /\ todo # <<>> /\ Head(todo) = "invoke" /\ todo \in Seq(Steps)
    <3>1. observed \in [queued: Nat, pending: Nat] /\ todo \in Seq(Steps)
      BY DEF TypeOK
    <3>2. n \in Nat
      BY <2>1, <3>1
    <3> QED
      BY <1>10, <3>1, <3>2 DEF Invoke, At
  <2>3. Whole(todo')
    BY <2>1, <2>2, Resumed
  <2> QED
    BY <2>3, Far
<1>11. CASE MissionFails
  <2>1. todo' = <<>>
    BY <1>11 DEF MissionFails
  <2>2. Whole(todo')
    BY <2>1, Short
  <2> QED
    BY <2>2, Far
<1> QED
  BY <1>1, <1>2, <1>3, <1>4, <1>5, <1>6, <1>7, <1>8, <1>9, <1>10, <1>11, StepKinds DEF Steering

(***************************************************************************)
(* The inductive invariant, and what it gives.                             *)
(***************************************************************************)

(* The mission begins with its first plan to state, and nothing on its way.*)
LEMMA ContextInitially == Init => ContextInv
<1> SUFFICES ASSUME Init PROVE ContextInv
  OBVIOUS
<1>1. /\ mode \in [producer: BOOLEAN, joint34: BOOLEAN, believes: BOOLEAN]
      /\ events = <<"planning">> /\ latest = 1 /\ hasManeuver = FALSE /\ commands = 0
      /\ lock = None /\ running = FALSE /\ failed = FALSE
      /\ observed = [queued |-> 0, pending |-> 0]
      /\ queue = <<>> /\ draft = None
      /\ authority = [plan |-> 1, fsm |-> 1, belief |-> 0]
      /\ evidence = 0 /\ view = 0 /\ beats = 0
  BY DEF Init
<1>2. /\ facts \in [Sources -> Nat] /\ snapshot = facts /\ facts.env = 1 /\ facts.active = 0 /\ facts.plan = 0
      /\ facts.fsm = 0 /\ facts.belief = 0
  <2>1. facts = [s \in Sources |-> IF s = "env" THEN 1 ELSE 0] /\ snapshot = facts
    BY DEF Init
  <2> QED
    BY <2>1 DEF Sources
<1>3. /\ todo \in Seq(Steps) /\ Programmed(todo) /\ Whole(todo) /\ todo # <<>> /\ Head(todo) = "plan"
      /\ \A i \in DOMAIN todo : todo[i] # "activate"
  <2>1. todo = <<"plan">> \o RuntimeFacts \o <<"drain", "top">>
    BY DEF Init
  <2>2. PICK t : t = todo
    OBVIOUS
  <2>3. t \in Seq(Steps) /\ Programmed(t) /\ Whole(t) /\ Len(t) = 6 /\ t[1] = "plan" /\ \A i \in DOMAIN t : t[i] # "activate"
    BY <2>1, <2>2, FirstProgram
  <2> QED
    BY <2>2, <2>3, SMTT(30)
<1>4. events \in Seq(Kinds) /\ Len(events) = 1 /\ queue \in Seq([source: Sources, n: Nat]) /\ DOMAIN queue = {}
  BY <1>1 DEF Kinds
<1>5. TypeOK
  <2>1. /\ {latest, evidence, view} \subseteq 0 .. Len(events)
        /\ {facts.env, facts.active, snapshot.env} \subseteq 0 .. Len(events)
    BY <1>1, <1>2, <1>4
  <2>2. {hasManeuver, running, failed} \subseteq BOOLEAN /\ {commands, beats} \subseteq Nat
    <3>1. hasManeuver \in BOOLEAN /\ running \in BOOLEAN /\ failed \in BOOLEAN
      BY <1>1
    <3>2. commands \in Nat /\ beats \in Nat
      BY <1>1
    <3> QED
      BY <3>1, <3>2
  <2>3. observed \in [queued: Nat, pending: Nat] /\ authority \in [plan: Nat, fsm: Nat, belief: Nat]
    BY <1>1
  <2> QED
    BY <1>1, <1>2, <1>3, <1>4, <2>1, <2>2, <2>3 DEF TypeOK
<1>6. Drafting /\ Active /\ SnapshotsCoherent
  BY <1>1, <1>2, <1>4 DEF Drafting, Active, Queued, SnapshotsCoherent
<1>7. Locking
  BY <1>1, <1>4 DEF Locking
<1>8. Known
  BY <1>1, <1>2, <1>4 DEF Known, Stated
<1>9. Plans
  <2>1. PlanDue /\ ~ActivationDue /\ ~Queued("plan")
    BY <1>3, <1>4 DEF PlanDue, ActivationDue, Queued, At
  <2> QED
    BY <1>1, <1>2, <1>4, <2>1 DEF Plans, Step
<1>10. Informed /\ Viewing
  <2>1. \A i \in DOMAIN todo : todo[i] \in {"invoke", "replan"} => ~(i <= 4) /\ ~(i <= 5)
    BY <1>3 DEF Whole
  <2> QED
    BY <1>3, <2>1 DEF Informed, Viewing, At
<1> QED
  BY <1>3, <1>5, <1>6, <1>7, <1>8, <1>9, <1>10 DEF ContextInv

LEMMA ContextStep == ContextInv /\ [Next]_vars => ContextInv'
<1> SUFFICES ASSUME ContextInv, [Next]_vars PROVE ContextInv'
  OBVIOUS
<1>1. /\ TypeOK /\ Programmed(todo) /\ Drafting /\ Locking /\ Known /\ Active /\ SnapshotsCoherent
      /\ Plans /\ Informed /\ Viewing
  BY DEF ContextInv
<1>2. TypeOK'
  BY <1>1, TypesKept
<1>3. Programmed(todo')
  BY <1>1, ListMoves
<1>4. Drafting' /\ Locking' /\ Known'
  BY <1>1, <1>2, DraftingKept, LockingKept, KnownKept
<1>5. Active' /\ SnapshotsCoherent'
  BY <1>1, ActiveKept
<1>6. Plans' /\ Informed' /\ Viewing'
  BY <1>1, <1>2, PlansKept, LeadsKept
<1> QED
  BY <1>2, <1>3, <1>4, <1>5, <1>6 DEF ContextInv

(* The invariant of the shared topic: who holds the environment's lock and *)
(* what was published under it, what has been drawn for the step in hand,  *)
(* what is known or on its way of each source, and what the steps behind   *)
(* the coordinator have left for the ones before it.                       *)
THEOREM ContextInductive == Spec => []ContextInv
<1>1. Init => ContextInv
  BY ContextInitially
<1>2. ContextInv /\ [Next]_vars => ContextInv'
  BY ContextStep
<1> QED
  BY <1>1, <1>2, PTL DEF Spec

(* Every variable keeps its type, and neither a fact nor a snapshot names  *)
(* an environment event that has not been published.                       *)
THEOREM ContextTypes == Spec => []TypeOK
<1>1. ContextInv => TypeOK
  BY DEF ContextInv
<1> QED
  BY <1>1, ContextInductive, PTL

(* No Mission Snapshot is incoherent, in its environment and its active    *)
(* maneuver, however the publications of the producer and of the           *)
(* coordinator interleave: none states a maneuver before the environment   *)
(* has one, and from then on composition makes the two the same.           *)
THEOREM ContextSnapshotsCoherent == Spec => []SnapshotsCoherent
<1>1. ContextInv => SnapshotsCoherent
  BY DEF ContextInv
<1> QED
  BY <1>1, ContextInductive, PTL

(* Maneuver is invoked on fresh authority: the snapshot is of the active   *)
(* plan, of the FSM status and the belief published last, and of no older  *)
(* an environment than the one the coordinator last looked at.             *)
THEOREM ContextInvocationIsCurrent == Spec => []InvocationIsCurrent
<1>1. ContextInv => InvocationIsCurrent
  <2>1. SUFFICES ASSUME ContextInv, At("invoke")
                 PROVE  /\ snapshot.plan = authority.plan /\ snapshot.fsm = authority.fsm
                        /\ snapshot.belief = authority.belief /\ snapshot.env >= evidence
    BY DEF InvocationIsCurrent
  <2>2. TypeOK /\ Programmed(todo) /\ Known /\ Plans /\ Informed
    BY <2>1 DEF ContextInv
  <2>3. todo # <<>> /\ 1 \in DOMAIN todo /\ todo[1] = "invoke"
    BY <2>1, <2>2, TailFacts DEF At
  <2>4. facts.plan = authority.plan
    BY <2>1, <2>2, <2>3, NothingUnderWay DEF At, Stating
  <2>5. Stated("fsm", authority.fsm) /\ Stated("belief", authority.belief)
    BY <2>2, <2>3 DEF Informed, Known
  <2>6. facts.env >= evidence /\ \A i \in DOMAIN queue : queue[i].source = "env"
    BY <2>1, <2>2 DEF Informed
  <2>7. facts.fsm = authority.fsm /\ facts.belief = authority.belief
    BY <2>5, <2>6 DEF Stated
  <2> QED
    BY <2>2, <2>4, <2>6, <2>7 DEF Known, Sources
<1> QED
  BY <1>1, ContextInductive, PTL

(* Where the coordinator owns time, a replan works on a snapshot of the    *)
(* very planning view it is handed: the environment publishes nothing      *)
(* between the two, and the view has been drained into the snapshot.       *)
THEOREM ContextReplanOnItsView == Spec => []ReplanOnItsView
<1>1. ContextInv => ReplanOnItsView
  <2>1. SUFFICES ASSUME ContextInv, At("replan"), ~mode.producer PROVE snapshot.env = view
    BY DEF ReplanOnItsView
  <2>2. TypeOK /\ Known /\ Viewing
    BY <2>1 DEF ContextInv
  <2>3. 1 \in DOMAIN todo /\ todo[1] = "replan"
    BY <2>1, <2>2, TailFacts DEF At
  <2>4. view = latest /\ queue = <<>>
    BY <2>1, <2>2, <2>3 DEF Viewing
  <2>5. facts.env = latest
    BY <2>2, <2>4 DEF Known, Stated
  <2> QED
    BY <2>2, <2>4, <2>5 DEF Known, Sources
<1> QED
  BY <1>1, ContextInductive, PTL
=============================================================================
