-------------------------- MODULE FSMRunner_proofs --------------------------
(***************************************************************************)
(* Theorems about the FSM Runner and its two files, for every set of       *)
(* Statecharts and decisions, and any number of crashes.                   *)
(***************************************************************************)
EXTENDS FSMRunner, FiniteSetTheorems, TLAPS

(* Chart and record are set together, by whoever holds the lock, and are   *)
(* of one plan.                                                            *)
Paired ==
  /\ TypeOK
  /\ chart = None <=> record = None
  /\ pc \in Working => chart # None
  /\ chart # None => chart.revision = record.plan
  /\ delivery # None => delivery = chart
  /\ pc \in {"down", "refused"} => chart = None /\ delivery = None

(* Memory is never behind the files.                                       *)
Ahead ==
  /\ chart = None /\ pc \notin {"down", "refused"} => diskChart = None /\ diskRecord = None
  /\ chart # None /\ diskChart # None => chart.revision >= diskChart.revision
  /\ record # None /\ diskRecord # None => record.entry >= diskRecord.entry

MemoryInv == Paired /\ Ahead

LEMMA NoneApart ==
  /\ \A c \in Charts : c # None /\ c.revision \in Nat \ {0} /\ c.entry \in States
                       /\ c.transitions \subseteq Transition
  /\ Charts \subseteq Statechart
BY ChartsAssumption DEF Statechart

(* What an activation and a transition make of the record.                 *)
LEMMA ActivatedType ==
  ASSUME NEW c \in Charts, NEW r \in ExecutionRecord(Ids) \cup {None}
  PROVE  /\ Activated(c, r) \in ExecutionRecord(Ids)
         /\ Activated(c, r).plan = c.revision
         /\ Activated(c, r).applied = {}
         /\ r \in ExecutionRecord(Ids) /\ r # None => Activated(c, r).entry = r.entry + 1
BY NoneApart DEF Activated, ExecutionRecord

LEMMA AppliedType ==
  ASSUME NEW r \in ExecutionRecord(Ids), NEW t \in Transition, NEW id \in Ids
  PROVE  /\ Applied(r, t, id) \in ExecutionRecord(Ids)
         /\ Applied(r, t, id).plan = r.plan
         /\ Applied(r, t, id).applied = r.applied \cup {id}
         /\ Applied(r, t, id).entry = r.entry + 1
BY DEF Applied, ExecutionRecord, Transition

LEMMA MemoryInvInit == Init => MemoryInv
BY RunnerAssumption DEF Init, MemoryInv, Paired, Ahead, TypeOK, Working

LEMMA MemoryInvStep == MemoryInv /\ [Next]_vars => MemoryInv'
<1> SUFFICES ASSUME MemoryInv, [Next]_vars PROVE MemoryInv'
  OBVIOUS
<1> USE DEF MemoryInv, Paired, Ahead
<1>1. ASSUME NEW c \in Charts, HandleKnown(c) PROVE MemoryInv'
  BY <1>1 DEF HandleKnown, TypeOK, memory, disk
<1>2. ASSUME NEW c \in Charts, HandleNew(c) PROVE MemoryInv'
  <2>1. /\ record' \in ExecutionRecord(Ids) /\ record'.plan = c.revision
        /\ record # None => record'.entry = record.entry + 1
    BY <1>2, ActivatedType DEF HandleNew, TypeOK
  <2>2. record' # None /\ chart' # None
    BY <1>2, <2>1, RunnerAssumption, NoneApart DEF HandleNew
  <2>3. Paired'
    BY <1>2, <2>1, <2>2 DEF HandleNew, TypeOK, Working, disk
  <2>4. chart # None /\ diskChart # None => chart'.revision >= diskChart.revision
    <3> SUFFICES ASSUME chart # None, diskChart # None PROVE c.revision >= diskChart.revision
      BY <1>2 DEF HandleNew
    <3>1. c.revision > chart.revision /\ chart.revision >= diskChart.revision
      BY <1>2 DEF HandleNew, Newer
    <3>2. c.revision \in Nat /\ chart.revision \in Nat /\ diskChart.revision \in Nat
      BY NoneApart DEF TypeOK
    <3> QED
      BY <3>1, <3>2
  <2>5. record # None /\ diskRecord # None => record'.entry >= diskRecord.entry
    BY <2>1 DEF TypeOK, ExecutionRecord
  <2>6. chart = None => diskChart = None /\ diskRecord = None
    BY <1>2 DEF HandleNew
  <2> QED
    BY <1>2, <2>2, <2>3, <2>4, <2>5, <2>6 DEF HandleNew, disk
<1>3. CASE SaveChart
  <2>1. /\ pc = "saving chart" /\ pc' = "saving record" /\ diskChart' = chart
        /\ UNCHANGED <<chart, record, machine, delivery, diskRecord, acked, announced, raises>>
    BY <1>3 DEF SaveChart, memory
  <2>2. chart # None /\ chart \in Charts /\ chart.revision \in Nat
    BY <2>1, NoneApart DEF Working, TypeOK
  <2>3. TypeOK'
    BY <2>1, <2>2 DEF TypeOK, Working
  <2>4. chart'.revision >= diskChart'.revision
    <3>1. chart.revision >= chart.revision
      BY <2>2
    <3>2. chart' = chart /\ diskChart' = chart
      BY <2>1
    <3> QED
      BY <3>1, <3>2, Zenon
  <2> QED
    BY <2>1, <2>2, <2>3, <2>4
<1>4. CASE SaveRecord \/ SaveMove
  <2>1. /\ pc \in {"saving record", "saving move"} /\ pc' \in {"building", "announcing"}
        /\ diskRecord' = record
        /\ UNCHANGED <<chart, record, machine, delivery, diskChart, acked, announced, raises>>
    BY <1>4 DEF SaveRecord, SaveMove, memory
  <2>2. chart # None /\ record # None /\ record \in ExecutionRecord(Ids)
    BY <2>1 DEF Working, TypeOK
  <2>3. TypeOK'
    BY <2>1, <2>2 DEF TypeOK, Working
  <2>4. record'.entry >= diskRecord'.entry
    <3>1. record.entry >= record.entry
      BY <2>2 DEF ExecutionRecord
    <3>2. record' = record /\ diskRecord' = record
      BY <2>1
    <3> QED
      BY <3>1, <3>2, Zenon
  <2> QED
    BY <2>1, <2>2, <2>3, <2>4
<1>5. CASE BuildMachine
  <2>1. machine' \in [chart: Charts, state: States]
    BY <1>5, NoneApart DEF BuildMachine, Working, TypeOK
  <2> QED
    BY <1>5, <2>1 DEF BuildMachine, Working, TypeOK, disk
<1>6. CASE Announce \/ Status
  <2>1. record \in ExecutionRecord(Ids)
    BY <1>6 DEF Announce, Status, Working, TypeOK
  <2> QED
    BY <1>6, <2>1 DEF Announce, Status, Working, TypeOK, memory, disk
<1>7. CASE Raise
  <2>1. raises' \in 0..MaxRaises
    BY <1>7, RunnerAssumption DEF Raise, TypeOK
  <2> QED
    BY <1>7, <2>1, NoneApart DEF Raise, Working, TypeOK, memory, disk
<1>8. ASSUME NEW c \in Charts, NEW t \in c.transitions, NEW d \in Decisions, Apply(t, d)
      PROVE  MemoryInv'
  <2>1. /\ pc = "ready" /\ chart # None /\ record \in ExecutionRecord(Ids)
        /\ t \in Transition /\ d.id \in Ids
    BY <1>8, NoneApart DEF Apply, Ids, TypeOK
  <2>2. machine' \in [chart: Charts, state: States] \cup {None}
    <3>1. CASE machine = None
      BY <1>8, <3>1 DEF Apply
    <3>2. CASE machine # None
      <4>1. machine \in [chart: Charts, state: States]
        BY <3>2 DEF TypeOK
      <4>2. PICK u \in machine.chart.transitions : machine' = [machine EXCEPT !.state = u.target]
        BY <1>8, <3>2 DEF Apply, Candidates
      <4>3. u.target \in States
        BY <4>1, <4>2, NoneApart DEF Transition
      <4> QED
        BY <4>1, <4>2, <4>3
    <3> QED
      BY <3>1, <3>2
  <2>3. UNCHANGED <<chart, delivery, disk, acked, announced, raises>>
    BY <1>8 DEF Apply
  <2>4. CASE UNCHANGED <<record, pc>>
    BY <2>2, <2>3, <2>4 DEF TypeOK, disk
  <2>5. CASE record' = Applied(record, t, d.id) /\ pc' = "saving move"
    <3>1. /\ record' \in ExecutionRecord(Ids) /\ record' # None
          /\ record'.plan = record.plan /\ record'.entry = record.entry + 1
      <4>1. /\ Applied(record, t, d.id) \in ExecutionRecord(Ids)
            /\ Applied(record, t, d.id).plan = record.plan
            /\ Applied(record, t, d.id).entry = record.entry + 1
        BY <2>1, AppliedType
      <4> QED
        BY <2>5, <4>1, RunnerAssumption
    <3>2. diskRecord # None => record'.entry >= diskRecord.entry
      BY <2>1, <3>1 DEF TypeOK, ExecutionRecord
    <3> QED
      BY <2>1, <2>2, <2>3, <2>5, <3>1, <3>2 DEF TypeOK, Working, disk
  <2> QED
    BY <1>8, <2>4, <2>5 DEF Apply
<1>9. CASE Crash
  BY <1>9 DEF Crash, Working, TypeOK, disk
<1>10. CASE Restart
  <2>1. CASE Restorable
    <3>1. diskChart # None /\ diskRecord # None => machine' \in [chart: Charts, state: States]
      BY <1>10, <2>1 DEF Restart, TypeOK, ExecutionRecord
    <3>2. diskChart # None => diskChart.revision >= diskChart.revision
      BY NoneApart DEF TypeOK
    <3>3. diskRecord # None => diskRecord.entry >= diskRecord.entry
      BY DEF TypeOK, ExecutionRecord
    <3>4. /\ pc' = "ready" /\ chart' = diskChart /\ record' = diskRecord /\ chart = None
          /\ machine' = IF diskChart = None THEN None
                        ELSE [chart |-> diskChart, state |-> diskRecord.state]
          /\ UNCHANGED <<delivery, diskChart, diskRecord, acked, announced, raises>>
          /\ diskChart = None <=> diskRecord = None
          /\ diskChart # None => diskChart.revision = diskRecord.plan
      BY <1>10, <2>1 DEF Restart, Restorable, disk
    <3>5. TypeOK'
      BY <3>1, <3>4 DEF TypeOK
    <3>6. delivery = None
      BY <1>10 DEF Restart
    <3>7. Paired'
      BY <3>4, <3>5, <3>6 DEF Working
    <3>8. Ahead'
      BY <3>2, <3>3, <3>4, Zenon
    <3> QED
      BY <3>7, <3>8
  <2>2. CASE ~Restorable
    BY <1>10, <2>2 DEF Restart, Working, TypeOK, memory, disk
  <2> QED
    BY <2>1, <2>2
<1>11. CASE UNCHANGED vars
  BY <1>11 DEF vars, TypeOK, memory, disk
<1> QED
  BY <1>1, <1>2, <1>3, <1>4, <1>5, <1>6, <1>7, <1>8, <1>9, <1>10, <1>11 DEF Next

LEMMA MemoryInvHolds == Spec => []MemoryInv
BY MemoryInvInit, MemoryInvStep, PTL DEF Spec

(* Every variable of the runner keeps its type, whatever crashes and       *)
(* raises.                                                                 *)
THEOREM RunnerTypes == Spec => []TypeOK
<1>1. MemoryInv => TypeOK
  BY DEF MemoryInv, Paired
<1> QED
  BY <1>1, MemoryInvHolds, PTL

(* Neither a failed write nor a crash nor a redelivery puts an older chart *)
(* or an older record back on disk.                                        *)
THEOREM DiskMovesForward == Spec => DiskNeverRegresses
<1> DEFINE Forward == /\ diskChart # None => diskChart'.revision >= diskChart.revision
                      /\ diskRecord # None => diskRecord'.entry >= diskRecord.entry
<1>1. MemoryInv /\ [Next]_vars => [Forward]_disk
  <2> SUFFICES ASSUME MemoryInv, [Next]_vars, disk' # disk PROVE Forward
    OBVIOUS
  <2>1. SaveChart \/ SaveRecord \/ SaveMove
    BY DEF Next, HandleKnown, HandleNew, BuildMachine, Announce, Status, Raise, Apply, Crash, Restart,
           vars, disk
  <2>2. chart # None /\ record # None
    BY <2>1 DEF SaveChart, SaveRecord, SaveMove, MemoryInv, Paired, Working
  <2>3. /\ diskChart # None => diskChart.revision \in Nat /\ chart.revision >= diskChart.revision
        /\ diskRecord # None => diskRecord.entry \in Nat /\ record.entry >= diskRecord.entry
    BY <2>2, NoneApart DEF MemoryInv, Paired, Ahead, TypeOK, ExecutionRecord
  <2>4. diskChart' = diskChart \/ diskChart' = chart
    BY <2>1 DEF SaveChart, SaveRecord, SaveMove
  <2>5. diskRecord' = diskRecord \/ diskRecord' = record
    BY <2>1 DEF SaveChart, SaveRecord, SaveMove
  <2> QED
    BY <2>3, <2>4, <2>5
<1> QED
  BY <1>1, MemoryInvHolds, PTL DEF Spec, DiskNeverRegresses
----------------------------------------------------------------------------
(* As long as nothing has raised: what the files lack of the memory at     *)
(* each place the lock holder can be, and what is known of the published   *)
(* statuses.  A level is what a status owes to activations: transitions    *)
(* raise the entry and the decisions applied together.                     *)
Level(r) == r.entry - Cardinality(r.applied)

FiniteApplied ==
  /\ record # None => IsFiniteSet(record.applied)
  /\ diskRecord # None => IsFiniteSet(diskRecord.applied)
  /\ \A s \in announced : IsFiniteSet(s.applied)

Synced ==
  /\ pc \in {"ready", "building", "announcing"} => diskRecord = record
  /\ pc \in {"ready", "saving record", "building", "announcing", "saving move"} => diskChart = chart
  /\ pc \in {"saving chart", "saving record"} /\ diskRecord # None =>
       record.plan > diskRecord.plan /\ record.entry > diskRecord.entry
  /\ pc = "saving move" =>
       /\ diskRecord # None /\ record.plan = diskRecord.plan
       /\ record.entry > diskRecord.entry /\ Level(record) = Level(diskRecord)

Heard ==
  /\ \A s \in announced :
       /\ diskRecord # None /\ s.entry <= diskRecord.entry /\ s.plan <= diskRecord.plan
       /\ s.entry = diskRecord.entry => s = diskRecord
       /\ s.plan = diskRecord.plan => Level(s) = Level(diskRecord)
  /\ \A s, u \in announced : /\ s.entry = u.entry => s = u
                             /\ s.plan = u.plan => Level(s) = Level(u)

CleanInv == FiniteApplied /\ (raises = 0 => Synced /\ Heard /\ AckedIsDurable)

LEMMA CleanInvInit == Init => CleanInv
BY DEF Init, CleanInv, FiniteApplied, Synced, Heard, AckedIsDurable

(* The sets of applied decisions stay finite.                              *)
LEMMA FiniteAppliedStep == MemoryInv /\ FiniteApplied /\ [Next]_vars => FiniteApplied'
<1> SUFFICES ASSUME MemoryInv, FiniteApplied, [Next]_vars PROVE FiniteApplied'
  OBVIOUS
<1>1. ASSUME record' = record \/ record' = None \/ record' = diskRecord,
             diskRecord' = diskRecord \/ diskRecord' = record,
             announced' = announced \/ (announced' = announced \cup {record} /\ record # None)
      PROVE  FiniteApplied'
  BY <1>1 DEF FiniteApplied
<1>2. ASSUME NEW c \in Charts, HandleNew(c) PROVE FiniteApplied'
  <2>1. record'.applied = {} /\ diskRecord' = diskRecord /\ announced' = announced
    BY <1>2 DEF HandleNew, Activated, disk
  <2> QED
    BY <2>1, FS_EmptySet DEF FiniteApplied
<1>3. ASSUME NEW c \in Charts, NEW t \in c.transitions, NEW d \in Decisions, Apply(t, d)
      PROVE  FiniteApplied'
  <2>1. record # None /\ diskRecord' = diskRecord /\ announced' = announced
    BY <1>3 DEF Apply, MemoryInv, Paired, disk
  <2>2. CASE record' = Applied(record, t, d.id)
    <3>1. record'.applied = record.applied \cup {d.id}
      BY <2>2 DEF Applied
    <3> QED
      BY <2>1, <3>1, FS_AddElement DEF FiniteApplied
  <2>3. CASE record' = record
    BY <1>1, <2>1, <2>3
  <2> QED
    BY <1>3, <2>2, <2>3 DEF Apply
<1>4. CASE \E c \in Charts : HandleKnown(c)
  BY <1>1, <1>4 DEF HandleKnown, memory, disk
<1>5. CASE SaveChart \/ SaveRecord \/ BuildMachine \/ SaveMove \/ Announce \/ Status \/ Raise
  <2>1. pc = "announcing" \/ chart # None => record # None
    BY DEF MemoryInv, Paired, Working
  <2> QED
    BY <1>1, <1>5, <2>1 DEF SaveChart, SaveRecord, BuildMachine, SaveMove, Announce, Status, Raise,
                            memory, disk
<1>6. CASE Crash \/ Restart \/ UNCHANGED vars
  BY <1>1, <1>6 DEF Crash, Restart, vars, memory, disk
<1> QED
  BY <1>2, <1>3, <1>4, <1>5, <1>6 DEF Next

LEMMA Numbers ==
  ASSUME MemoryInv
  PROVE  /\ chart # None => chart.revision \in Nat
         /\ diskChart # None => diskChart.revision \in Nat
         /\ record # None => record.entry \in Nat /\ record.plan \in Nat
         /\ diskRecord # None => diskRecord.entry \in Nat /\ diskRecord.plan \in Nat
         /\ \A s \in announced : s.entry \in Nat /\ s.plan \in Nat
         /\ \A c \in acked : c.revision \in Nat
BY NoneApart DEF MemoryInv, Paired, TypeOK, ExecutionRecord

(* Saving a later record: no status had heard of its entry.                *)
LEMMA SavedLater ==
  ASSUME MemoryInv, Heard, AckedIsDurable, record # None, diskRecord' = record,
         UNCHANGED <<announced, acked, diskChart>>,
         diskChart # None,
         diskRecord # None => /\ record.entry > diskRecord.entry
                              /\ \/ record.plan > diskRecord.plan
                                 \/ record.plan = diskRecord.plan /\ Level(record) = Level(diskRecord)
  PROVE  Heard' /\ AckedIsDurable'
<1>1. ASSUME NEW s \in announced
      PROVE  /\ s.entry < record.entry /\ s.plan <= record.plan
             /\ s.plan = record.plan => Level(s) = Level(record)
  <2>1. diskRecord # None /\ s.entry <= diskRecord.entry /\ s.plan <= diskRecord.plan
    BY DEF Heard
  <2>2. s.entry < record.entry /\ s.plan <= record.plan
        /\ (s.plan = record.plan => s.plan = diskRecord.plan /\ record.plan = diskRecord.plan)
    BY <2>1, Numbers
  <2>3. s.plan = record.plan => Level(record) = Level(diskRecord)
    BY <2>1, <2>2, Numbers
  <2> QED
    BY <2>1, <2>2, <2>3 DEF Heard
<1>2. \A s \in announced : s.entry # record.entry /\ s.entry <= record.entry
  BY <1>1, Numbers
<1>3. Heard'
  BY <1>1, <1>2 DEF Heard
<1>4. ASSUME NEW c \in acked PROVE record.plan >= c.revision
  <2>1. diskRecord # None /\ diskRecord.plan >= c.revision
    BY DEF AckedIsDurable
  <2> QED
    BY <2>1, Numbers
<1> QED
  BY <1>3, <1>4 DEF AckedIsDurable

LEMMA CleanInvStep == MemoryInv /\ CleanInv /\ [Next]_vars => CleanInv'
<1> SUFFICES ASSUME MemoryInv, CleanInv, [Next]_vars, raises' = 0
             PROVE  Synced' /\ Heard' /\ AckedIsDurable'
  BY FiniteAppliedStep DEF CleanInv
<1>0. raises = 0 /\ Synced /\ Heard /\ AckedIsDurable
  <2>1. raises \in Nat
    BY RunnerAssumption DEF MemoryInv, Paired, TypeOK
  <2>2. raises' = raises \/ raises' = raises + 1
    BY DEF Next, HandleKnown, HandleNew, SaveChart, SaveRecord, BuildMachine, SaveMove, Announce,
           Status, Raise, Apply, Crash, Restart, vars
  <2>3. raises = 0
    BY <2>1, <2>2
  <2> QED
    BY <2>3 DEF CleanInv
<1> USE <1>0
<1>1. ASSUME NEW c \in Charts, HandleKnown(c) PROVE Synced' /\ Heard' /\ AckedIsDurable'
  <2>1. /\ pc = "ready" /\ chart = c /\ acked' = acked \cup {c}
        /\ UNCHANGED <<pc, chart, record, diskChart, diskRecord, announced>>
    BY <1>1 DEF HandleKnown, memory, disk
  <2>2. diskChart = c /\ diskRecord # None /\ diskRecord.plan = c.revision /\ c.revision \in Nat
    BY <2>1, NoneApart DEF MemoryInv, Paired, Synced
  <2>3. c.revision >= c.revision
    BY <2>2
  <2>4. diskChart # None /\ diskChart.revision >= c.revision /\ diskRecord.plan >= c.revision
    BY <2>1, <2>2, <2>3, NoneApart
  <2>5. AckedIsDurable'
    BY <2>1, <2>2, <2>4 DEF AckedIsDurable
  <2>6. Synced' /\ Heard'
    BY <2>1 DEF Synced, Heard, Level
  <2> QED
    BY <2>5, <2>6
<1>2. ASSUME NEW c \in Charts, HandleNew(c) PROVE Synced' /\ Heard' /\ AckedIsDurable'
  <2>1. /\ pc = "ready" /\ pc' = "saving chart" /\ record' = Activated(c, record)
        /\ UNCHANGED <<diskChart, diskRecord, announced, acked>>
    BY <1>2 DEF HandleNew, disk
  <2>2. diskRecord = record /\ (record # None => chart # None /\ record.plan = chart.revision)
    BY <2>1 DEF Synced, MemoryInv, Paired
  <2>3. record # None => record'.plan > record.plan /\ record'.entry > record.entry
    <3> SUFFICES ASSUME record # None PROVE record'.plan > record.plan /\ record'.entry > record.entry
      OBVIOUS
    <3>1. c.revision > chart.revision
      BY <1>2, <2>2 DEF HandleNew, Newer
    <3>2. record'.plan = c.revision /\ record'.entry = record.entry + 1
      BY <2>1 DEF Activated
    <3> QED
      BY <2>2, <3>1, <3>2, Numbers
  <2>4. Synced'
    BY <2>1, <2>2, <2>3 DEF Synced
  <2>5. Heard' /\ AckedIsDurable'
    BY <2>1 DEF Heard, Level, AckedIsDurable
  <2> QED
    BY <2>4, <2>5
<1>3. CASE SaveChart
  <2>1. /\ pc = "saving chart" /\ pc' = "saving record" /\ diskChart' = chart /\ chart # None
        /\ UNCHANGED <<chart, record, diskRecord, announced, acked>>
    BY <1>3 DEF SaveChart, memory, MemoryInv, Paired, Working
  <2>2. Synced' /\ Heard'
    BY <2>1 DEF Synced, Heard, Level
  <2>3. ASSUME NEW c \in acked PROVE chart.revision >= c.revision
    <3>1. diskChart # None /\ diskChart.revision >= c.revision /\ chart.revision >= diskChart.revision
      BY <2>1 DEF AckedIsDurable, MemoryInv, Ahead
    <3>2. chart.revision \in Nat /\ diskChart.revision \in Nat /\ c.revision \in Nat
      BY <2>1, <3>1, Numbers
    <3> QED
      BY <3>1, <3>2
  <2> QED
    BY <2>1, <2>2, <2>3 DEF AckedIsDurable
<1>4. CASE SaveRecord
  <2>1. /\ pc = "saving record" /\ pc' = "building" /\ diskRecord' = record
        /\ chart # None /\ record # None
        /\ UNCHANGED <<chart, record, diskChart, announced, acked>>
    BY <1>4 DEF SaveRecord, memory, MemoryInv, Paired, Working
  <2>2. Heard' /\ AckedIsDurable'
    BY <2>1, SavedLater DEF Synced
  <2>3. Synced'
    BY <2>1 DEF Synced
  <2> QED
    BY <2>2, <2>3
<1>5. CASE SaveMove
  <2>1. /\ pc = "saving move" /\ pc' = "announcing" /\ diskRecord' = record
        /\ chart # None /\ record # None
        /\ UNCHANGED <<chart, record, diskChart, announced, acked>>
    BY <1>5 DEF SaveMove, memory, MemoryInv, Paired, Working
  <2>2. Heard' /\ AckedIsDurable'
    BY <2>1, SavedLater DEF Synced
  <2>3. Synced'
    BY <2>1 DEF Synced
  <2> QED
    BY <2>2, <2>3
<1>6. CASE BuildMachine
  BY <1>6 DEF BuildMachine, disk, Synced, Heard, Level, AckedIsDurable
(* A status is published with both files saved.                            *)
<1>7. CASE Announce \/ Status
  <2>1. /\ pc \in {"ready", "announcing"} /\ pc' = "ready" /\ chart # None /\ record # None
        /\ announced' = announced \cup {record}
        /\ acked' \subseteq acked \cup {delivery}
        /\ delivery = None => acked' = acked
        /\ UNCHANGED <<chart, record, diskChart, diskRecord>>
    BY <1>7 DEF Announce, Status, memory, disk, MemoryInv, Paired, Working
  <2>2. diskChart = chart /\ diskRecord = record
    BY <2>1 DEF Synced
  <2>3. Synced'
    BY <2>1, <2>2 DEF Synced
  <2>4. record.entry <= record.entry /\ record.plan <= record.plan
    BY <2>1, Numbers
  <2>5. Heard'
    BY <2>1, <2>2, <2>4 DEF Heard, Level
  <2>6. ASSUME NEW c \in acked' PROVE diskChart.revision >= c.revision /\ diskRecord.plan >= c.revision
    <3>1. CASE c \in acked
      BY <3>1 DEF AckedIsDurable
    <3>2. CASE c \notin acked
      <4>1. c = chart /\ chart.revision = record.plan /\ chart.revision >= chart.revision
        BY <2>1, <3>2, Numbers DEF MemoryInv, Paired
      <4> QED
        BY <2>2, <4>1
    <3> QED
      BY <3>1, <3>2
  <2> QED
    BY <2>1, <2>2, <2>3, <2>5, <2>6 DEF AckedIsDurable
<1>8. CASE Raise
  BY <1>8 DEF Raise
<1>9. ASSUME NEW c \in Charts, NEW t \in c.transitions, NEW d \in Decisions, Apply(t, d)
      PROVE  Synced' /\ Heard' /\ AckedIsDurable'
  <2>1. /\ pc = "ready" /\ record # None /\ d.id \notin record.applied
        /\ UNCHANGED <<chart, diskChart, diskRecord, acked, announced>>
    BY <1>9 DEF Apply, Authorizes, disk, MemoryInv, Paired
  <2>2. Heard' /\ AckedIsDurable'
    BY <2>1 DEF Heard, Level, AckedIsDurable
  <2>3. CASE record' = Applied(record, t, d.id) /\ pc' = "saving move"
    <3>1. diskRecord = record /\ diskChart = chart
      BY <2>1 DEF Synced
    <3>2. record'.plan = record.plan /\ record'.entry = record.entry + 1
          /\ record'.applied = record.applied \cup {d.id}
      BY <2>3 DEF Applied
    <3>3. /\ Cardinality(record.applied) \in Nat
          /\ Cardinality(record'.applied) = Cardinality(record.applied) + 1
      BY <2>1, <3>2, FS_CardinalityType, FS_AddElement DEF CleanInv, FiniteApplied
    <3>4. record'.entry > record.entry /\ Level(record') = Level(record)
      BY <2>1, <3>2, <3>3, Numbers DEF Level
    <3> QED
      BY <2>1, <2>2, <2>3, <3>1, <3>2, <3>4 DEF Synced, Level
  <2>4. CASE UNCHANGED <<record, pc>>
    BY <2>1, <2>2, <2>4 DEF Synced
  <2> QED
    BY <1>9, <2>3, <2>4 DEF Apply
<1>10. CASE Crash
  BY <1>10 DEF Crash, disk, Synced, Heard, Level, AckedIsDurable
<1>11. CASE Restart
  <2>1. UNCHANGED <<diskChart, diskRecord, acked, announced>>
    BY <1>11 DEF Restart, disk
  <2>2. Synced'
    BY <1>11 DEF Restart, disk, Synced
  <2> QED
    BY <2>1, <2>2 DEF Heard, Level, AckedIsDurable
<1>12. CASE UNCHANGED vars
  BY <1>12 DEF vars, memory, disk, Synced, Heard, Level, AckedIsDurable
<1> QED
  BY <1>1, <1>2, <1>3, <1>4, <1>5, <1>6, <1>7, <1>8, <1>9, <1>10, <1>11, <1>12 DEF Next

LEMMA CleanInvHolds == Spec => []CleanInv
BY CleanInvInit, CleanInvStep, MemoryInvHolds, PTL DEF Spec

(* As long as nothing has raised, no status runs ahead of the files,       *)
(* wherever the process crashes.                                           *)
THEOREM StatusIsDurable == Spec => []AnnouncedIsDurable
<1>1. CleanInv => AnnouncedIsDurable
  BY DEF CleanInv, Heard, AnnouncedIsDurable
<1> QED
  BY <1>1, CleanInvHolds, PTL

(* As long as nothing has raised, a state-entry revision names one state   *)
(* entry for every reader of the status topic, across crashes.             *)
THEOREM EntriesIdentify == Spec => []EntryIdentifiesState
<1>1. CleanInv => EntryIdentifiesState
  BY DEF CleanInv, Heard, EntryIdentifiesState
<1> QED
  BY <1>1, CleanInvHolds, PTL

(* As long as nothing has raised, a decision moves the FSM at most once,   *)
(* crash and replay included: between two published statuses of one plan   *)
(* lie as many applied decisions as entries.                               *)
THEOREM DecisionsCountOnce == Spec => []DecisionAppliedOnce
<1>1. MemoryInv /\ CleanInv => DecisionAppliedOnce
  <2> SUFFICES ASSUME MemoryInv, CleanInv, raises = 0,
                      NEW s \in announced, NEW u \in announced, s.plan = u.plan
               PROVE  Cardinality(u.applied) - Cardinality(s.applied) = u.entry - s.entry
    BY DEF DecisionAppliedOnce
  <2>1. Level(s) = Level(u)
    BY DEF CleanInv, Heard
  <2>2. Cardinality(s.applied) \in Nat /\ Cardinality(u.applied) \in Nat
    BY FS_CardinalityType DEF CleanInv, FiniteApplied
  <2>3. s.entry \in Nat /\ u.entry \in Nat
    BY Numbers
  <2> QED
    BY <2>1, <2>2, <2>3 DEF Level
<1> QED
  BY <1>1, MemoryInvHolds, CleanInvHolds, PTL

(* As long as nothing has raised, an acknowledged Statechart is on disk,   *)
(* wherever the process crashes.                                           *)
THEOREM AckedIsOnDisk == Spec => []AckedSurvivesCrash
<1>1. CleanInv => AckedSurvivesCrash
  BY DEF CleanInv, AckedSurvivesCrash
<1> QED
  BY <1>1, CleanInvHolds, PTL
----------------------------------------------------------------------------
(* As long as nothing has raised: the record in memory is one activation   *)
(* or one authorized transition ahead of the file, or it is the file's.    *)
Lagging ==
  /\ pc \in {"saving chart", "saving record"} =>
       /\ record = Activated(chart, diskRecord)
       /\ diskRecord # None => chart.revision > diskRecord.plan
  /\ pc \in {"ready", "saving chart"} =>
       /\ diskChart = None <=> diskRecord = None
       /\ diskChart # None => diskChart.revision = diskRecord.plan
  /\ pc = "saving move" =>
       \E t \in chart.transitions, d \in Decisions :
         /\ t.source = diskRecord.state /\ Authorizes(diskRecord, t, d.event, d.plan, d.id)
         /\ record = Applied(diskRecord, t, d.id)

LEMMA NothingRaised ==
  ASSUME MemoryInv, CleanInv, [Next]_vars, raises' = 0
  PROVE  raises = 0 /\ Synced /\ AckedIsDurable
<1>1. raises \in Nat
  BY RunnerAssumption DEF MemoryInv, Paired, TypeOK
<1>2. raises' = raises \/ raises' = raises + 1
  BY DEF Next, HandleKnown, HandleNew, SaveChart, SaveRecord, BuildMachine, SaveMove, Announce,
         Status, Raise, Apply, Crash, Restart, vars
<1>3. raises = 0
  BY <1>1, <1>2
<1> QED
  BY <1>3 DEF CleanInv

CleanLagging == raises = 0 => Lagging

LEMMA LaggingStep ==
  MemoryInv /\ CleanInv /\ CleanLagging /\ [Next]_vars => CleanLagging'
<1> SUFFICES ASSUME MemoryInv, CleanInv, CleanLagging, [Next]_vars, raises' = 0 PROVE Lagging'
  BY DEF CleanLagging
<1>0. Lagging /\ Synced
  BY NothingRaised DEF CleanLagging
<1>1. ASSUME NEW c \in Charts, HandleNew(c) PROVE Lagging'
  <2>1. /\ pc = "ready" /\ pc' = "saving chart" /\ chart' = c /\ record' = Activated(c, record)
        /\ Newer(c) /\ diskRecord = record /\ diskChart = chart /\ UNCHANGED <<diskChart, diskRecord>>
    BY <1>0, <1>1 DEF HandleNew, Synced, disk
  <2>2. diskRecord # None => c.revision > diskRecord.plan
    BY <2>1 DEF Newer, MemoryInv, Paired
  <2> QED
    BY <1>0, <2>1, <2>2 DEF Lagging
<1>2. ASSUME NEW c \in Charts, NEW t \in c.transitions, NEW d \in Decisions, Apply(t, d)
      PROVE  Lagging'
  <2>1. /\ pc = "ready" /\ diskRecord = record /\ UNCHANGED <<chart, diskChart, diskRecord>>
        /\ t \in chart.transitions /\ t.source = record.state
        /\ Authorizes(record, t, d.event, d.plan, d.id)
    BY <1>0, <1>2 DEF Apply, Synced, disk, Candidates
  <2>2. CASE record' = Applied(record, t, d.id) /\ pc' = "saving move"
    BY <2>1, <2>2 DEF Lagging
  <2>3. CASE UNCHANGED <<record, pc>>
    BY <1>0, <2>1, <2>3 DEF Lagging
  <2> QED
    BY <1>2, <2>2, <2>3 DEF Apply
<1>3. CASE SaveChart
  BY <1>0, <1>3 DEF SaveChart, Lagging, memory
<1>4. CASE SaveRecord \/ BuildMachine \/ SaveMove
  BY <1>4 DEF SaveRecord, BuildMachine, SaveMove, Lagging
(* The lock is free again with both files saved, and of one plan.          *)
<1>5. CASE Announce \/ Status \/ \E c \in Charts : HandleKnown(c)
  <2>1. pc \in {"ready", "announcing"} /\ pc' = "ready" /\ UNCHANGED <<diskChart, diskRecord>>
    BY <1>5 DEF Announce, Status, HandleKnown, disk
  <2>2. diskChart = chart /\ diskRecord = record
    BY <1>0, <2>1 DEF Synced
  <2> QED
    BY <2>1, <2>2 DEF Lagging, MemoryInv, Paired
<1>6. CASE Raise
  BY <1>6, NothingRaised DEF Raise
<1>7. CASE Crash
  BY <1>7 DEF Crash, Lagging
<1>8. CASE Restart
  BY <1>8 DEF Restart, Restorable, disk, Lagging
<1>9. CASE UNCHANGED vars
  BY <1>0, <1>9 DEF vars, memory, disk, Lagging
<1> QED
  BY <1>1, <1>2, <1>3, <1>4, <1>5, <1>6, <1>7, <1>8, <1>9 DEF Next

LEMMA LaggingHolds == Spec => []CleanLagging
<1>1. Init => CleanLagging
  BY DEF Init, CleanLagging, Lagging
<1> QED
  BY <1>1, LaggingStep, MemoryInvHolds, CleanInvHolds, PTL DEF Spec

(* The Statechart of the FSM on disk, when both files are of one plan.     *)
OnFile ==
  IF diskChart # None /\ diskRecord # None /\ diskChart.revision = diskRecord.plan
  THEN diskChart ELSE None

(* The steps of the durable FSM in the terms of the files.                 *)
LEMMA DurableSteps ==
  /\ Durable!DInit <=> OnFile = None /\ diskRecord = None /\ announced = {} /\ acked = {}
  /\ UNCHANGED Durable!dvars <=> UNCHANGED <<OnFile, diskRecord, announced, acked>>
  /\ Durable!Withdraw <=> OnFile # None /\ OnFile' = None /\ UNCHANGED <<diskRecord, announced, acked>>
  /\ \A c \in Charts : Durable!Install(c) <=>
       /\ OnFile = None /\ OnFile' = c
       /\ diskRecord # None => c.revision > diskRecord.plan
       /\ diskRecord' = [plan |-> c.revision, state |-> c.entry, applied |-> {},
                         entry |-> IF diskRecord = None THEN 1 ELSE diskRecord.entry + 1]
       /\ UNCHANGED <<announced, acked>>
  /\ \A t, d : Durable!Move(t, d) <=>
       /\ OnFile # None /\ t \in OnFile.transitions /\ t.source = diskRecord.state
       /\ d.plan = OnFile.revision /\ d.event = t.event /\ d.id \notin diskRecord.applied
       /\ diskRecord' = [plan |-> diskRecord.plan, state |-> t.target,
                         applied |-> diskRecord.applied \cup {d.id}, entry |-> diskRecord.entry + 1]
       /\ UNCHANGED <<OnFile, announced, acked>>
  /\ Durable!Publish <=>
       /\ OnFile # None /\ announced' = announced \cup {diskRecord}
       /\ acked' = acked \/ acked' = acked \cup {OnFile}
       /\ UNCHANGED <<OnFile, diskRecord>>
  /\ Durable!AcknowledgeAgain <=>
       OnFile # None /\ acked' = acked \cup {OnFile} /\ UNCHANGED <<OnFile, diskRecord, announced>>
<1>1. Durable!DInit <=> OnFile = None /\ diskRecord = None /\ announced = {} /\ acked = {}
  BY DEF Durable!DInit, OnFile
<1>2. UNCHANGED Durable!dvars <=> UNCHANGED <<OnFile, diskRecord, announced, acked>>
  BY DEF Durable!dvars, OnFile
<1>3. Durable!Withdraw <=> OnFile # None /\ OnFile' = None /\ UNCHANGED <<diskRecord, announced, acked>>
  BY DEF Durable!Withdraw, OnFile
<1>4. \A c \in Charts : Durable!Install(c) <=>
        /\ OnFile = None /\ OnFile' = c
        /\ diskRecord # None => c.revision > diskRecord.plan
        /\ diskRecord' = [plan |-> c.revision, state |-> c.entry, applied |-> {},
                          entry |-> IF diskRecord = None THEN 1 ELSE diskRecord.entry + 1]
        /\ UNCHANGED <<announced, acked>>
  BY DEF Durable!Install, OnFile
<1>5. \A t, d : Durable!Move(t, d) <=>
        /\ OnFile # None /\ t \in OnFile.transitions /\ t.source = diskRecord.state
        /\ d.plan = OnFile.revision /\ d.event = t.event /\ d.id \notin diskRecord.applied
        /\ diskRecord' = [plan |-> diskRecord.plan, state |-> t.target,
                          applied |-> diskRecord.applied \cup {d.id}, entry |-> diskRecord.entry + 1]
        /\ UNCHANGED <<OnFile, announced, acked>>
  BY DEF Durable!Move, OnFile
<1>6. Durable!Publish <=>
        /\ OnFile # None /\ announced' = announced \cup {diskRecord}
        /\ acked' = acked \/ acked' = acked \cup {OnFile}
        /\ UNCHANGED <<OnFile, diskRecord>>
  BY DEF Durable!Publish, OnFile
<1>7. Durable!AcknowledgeAgain <=>
        OnFile # None /\ acked' = acked \cup {OnFile} /\ UNCHANGED <<OnFile, diskRecord, announced>>
  BY DEF Durable!AcknowledgeAgain, OnFile
<1> QED
  BY <1>1, <1>2, <1>3, <1>4, <1>5, <1>6, <1>7

FollowsDurable == [raises' = 0 => Durable!DNext]_(Durable!dvars)

LEMMA DurableStep ==
  MemoryInv /\ CleanInv /\ CleanLagging /\ [Next]_vars => FollowsDurable
<1> SUFFICES ASSUME MemoryInv, CleanInv, CleanLagging, [Next]_vars, raises' = 0 PROVE FollowsDurable
  BY DEF FollowsDurable
<1>0. Lagging /\ Synced
  BY NothingRaised DEF CleanLagging
<1>1. CASE UNCHANGED <<diskChart, diskRecord, announced, acked>>
  BY <1>1, DurableSteps DEF FollowsDurable, OnFile
(* With both files saved the FSM on disk is the one in memory.             *)
<1>2. CASE Announce \/ Status \/ \E c \in Charts : HandleKnown(c)
  <2>1. /\ pc \in {"ready", "announcing"} /\ chart # None /\ UNCHANGED <<diskChart, diskRecord>>
        /\ \/ announced' = announced \cup {record} /\ (acked' = acked \/ acked' = acked \cup {chart})
           \/ announced' = announced /\ acked' = acked \cup {chart}
    BY <1>2, NoneApart DEF Announce, Status, HandleKnown, disk, MemoryInv, Paired, Working
  <2>2. diskChart = chart /\ diskRecord = record /\ record # None /\ chart.revision = record.plan
    BY <1>0, <2>1 DEF Synced, MemoryInv, Paired
  <2>3. OnFile = chart /\ OnFile' = chart
    BY <2>1, <2>2 DEF OnFile
  <2>4. Durable!Publish \/ Durable!AcknowledgeAgain
    BY <2>1, <2>2, <2>3, DurableSteps
  <2> QED
    BY <2>4 DEF FollowsDurable, Durable!DNext
<1>3. CASE SaveChart
  <2>1. /\ pc = "saving chart" /\ diskChart' = chart /\ chart # None
        /\ UNCHANGED <<diskRecord, announced, acked>>
    BY <1>3 DEF SaveChart, MemoryInv, Paired, Working
  <2>2. diskRecord # None => chart.revision # diskRecord.plan
    <3>1. diskRecord # None => chart.revision > diskRecord.plan
      BY <1>0, <2>1 DEF Lagging
    <3>2. /\ chart # None => chart.revision \in Nat
          /\ diskRecord # None => diskRecord.plan \in Nat
      BY Numbers
    <3>3. \A m, n \in Nat : m > n => m # n
      OBVIOUS
    <3> QED
      BY <2>1, <3>1, <3>2, <3>3
  <2>3. OnFile' = None
    BY <2>1, <2>2 DEF OnFile
  <2>4. Durable!Withdraw \/ UNCHANGED Durable!dvars
    BY <2>1, <2>3, DurableSteps
  <2> QED
    BY <2>4 DEF FollowsDurable, Durable!DNext
<1>4. CASE SaveRecord
  <2>1. /\ pc = "saving record" /\ diskRecord' = record /\ chart \in Charts /\ chart # None /\ record # None
        /\ diskChart' = diskChart /\ diskChart = chart /\ UNCHANGED <<announced, acked>>
        /\ chart.revision = record.plan
    BY <1>0, <1>4 DEF SaveRecord, Synced, MemoryInv, Paired, TypeOK, Working
  <2>2. /\ record = Activated(chart, diskRecord)
        /\ diskRecord # None => chart.revision > diskRecord.plan
    BY <1>0, <2>1 DEF Lagging
  <2>3. diskRecord # None => chart.revision # diskRecord.plan
    <3>1. /\ chart # None => chart.revision \in Nat
          /\ diskRecord # None => diskRecord.plan \in Nat
      BY Numbers
    <3>2. \A m, n \in Nat : m > n => m # n
      OBVIOUS
    <3> QED
      BY <2>1, <2>2, <3>1, <3>2
  <2>4. OnFile = None /\ OnFile' = chart
    BY <2>1, <2>3 DEF OnFile
  <2>5. Durable!Install(chart)
    BY <2>1, <2>2, <2>4, DurableSteps DEF Activated
  <2> QED
    BY <2>1, <2>5 DEF FollowsDurable, Durable!DNext
<1>5. CASE SaveMove
  <2>1. /\ pc = "saving move" /\ diskRecord' = record /\ chart \in Charts /\ chart # None /\ record # None
        /\ diskChart' = diskChart /\ diskChart = chart /\ UNCHANGED <<announced, acked>>
        /\ diskRecord # None /\ record.plan = diskRecord.plan /\ chart.revision = record.plan
        /\ diskRecord \in ExecutionRecord(Ids)
    BY <1>0, <1>5 DEF SaveMove, Synced, MemoryInv, Paired, TypeOK, Working
  <2>2. PICK t \in chart.transitions, d \in Decisions :
          /\ t.source = diskRecord.state /\ Authorizes(diskRecord, t, d.event, d.plan, d.id)
          /\ record = Applied(diskRecord, t, d.id)
    BY <1>0, <2>1 DEF Lagging
  <2>3. OnFile = chart /\ OnFile' = chart
    BY <2>1 DEF OnFile
  <2>4. Durable!Move(t, d)
    <3>1. /\ d.plan = OnFile.revision /\ d.event = t.event /\ d.id \notin diskRecord.applied
          /\ OnFile # None /\ t \in OnFile.transitions /\ t.source = diskRecord.state
      BY <2>1, <2>2, <2>3 DEF Authorizes
    <3>2. diskRecord' = [plan |-> diskRecord.plan, state |-> t.target,
                         applied |-> diskRecord.applied \cup {d.id}, entry |-> diskRecord.entry + 1]
      BY <2>1, <2>2 DEF Applied
    <3>3. UNCHANGED <<OnFile, announced, acked>>
      BY <2>1, <2>3
    <3> QED
      BY <3>1, <3>2, <3>3, DurableSteps
  <2> QED
    BY <2>1, <2>2, <2>4 DEF FollowsDurable, Durable!DNext
<1>6. CASE Raise
  BY <1>6, NothingRaised DEF Raise
<1>7. CASE \/ \E c \in Charts : HandleNew(c) \/ \E t \in c.transitions, d \in Decisions : Apply(t, d)
           \/ BuildMachine \/ Crash \/ Restart \/ UNCHANGED vars
  BY <1>1, <1>7 DEF HandleNew, Apply, BuildMachine, Crash, Restart, vars, disk
<1> QED
  BY <1>2, <1>3, <1>4, <1>5, <1>6, <1>7 DEF Next

(* As long as nothing has raised, the runner and its files implement the   *)
(* durable FSM, wherever the process crashes.                              *)
THEOREM RunnerImplementsDurable == Spec => ImplementsDurable
<1>1. Init => Durable!DInit
  <2>1. Init => OnFile = None /\ diskRecord = None /\ announced = {} /\ acked = {}
    BY DEF Init, OnFile
  <2> QED
    BY <2>1, DurableSteps
<1> QED
  BY <1>1, DurableStep, MemoryInvHolds, CleanInvHolds, LaggingHolds, PTL
  DEF Spec, ImplementsDurable, FollowsDurable
=============================================================================
