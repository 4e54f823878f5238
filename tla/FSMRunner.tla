----------------------------- MODULE FSMRunner -----------------------------
(***************************************************************************)
(* The FSM Runner (application/fsm.py) over its JSON store                 *)
(* (adapters/fsm_store.py).  A Statechart delivery is handled in the       *)
(* order of the code: memory first, then the chart file, then the record   *)
(* file, then the state machine, then the published status, then the       *)
(* acknowledgement; a transition changes memory, the record file, and is   *)
(* then published.  The process may crash between any two of these steps   *)
(* and start again from the two files, and a file write or a publication   *)
(* may raise, which leaves the memory as it is and hands the delivery back.*)
(***************************************************************************)
EXTENDS Statecharts

CONSTANTS
  Decisions,     \* Maneuver Decisions: [id, event, plan]
  MaxEntry,      \* bound on the record revision
  MaxRaises      \* bound on the store writes and publications that raise

Ids == {d.id : d \in Decisions}

ASSUME RunnerAssumption ==
  /\ None \notin ExecutionRecord(Ids)
  /\ MaxEntry \in Nat
  /\ MaxRaises \in Nat

VARIABLES
  pc,          \* where the lock holder stands; "ready" when the lock is free
  chart,       \* self._chart
  record,      \* self._record
  machine,     \* self._machine: [chart, state], rebuilt only by an activation or a restart
  delivery,    \* the Statechart delivery being handled, or None
  diskChart,   \* statechart.json
  diskRecord,  \* execution-record.json
  acked,       \* Statecharts whose delivery was acknowledged
  announced,   \* statuses ever published: [plan, state, entry, applied]
  raises       \* store writes and publications that raised

vars == <<pc, chart, record, machine, delivery, diskChart, diskRecord, acked, announced, raises>>
memory == <<chart, record, machine>>
disk == <<diskChart, diskRecord>>

Working == {"saving chart", "saving record", "building", "saving move", "announcing"}

Init ==
  /\ pc = "ready"
  /\ chart = None /\ record = None /\ machine = None /\ delivery = None
  /\ diskChart = None /\ diskRecord = None
  /\ acked = {} /\ announced = {} /\ raises = 0

----------------------------------------------------------------------------
(* run_once/handle.  An older revision, or the same revision with other    *)
(* content, raises and is handed back unchanged: such a delivery is a      *)
(* stuttering step.                                                        *)

(* The active Statechart delivered again: nothing is saved or published,   *)
(* and the delivery is acknowledged.                                       *)
HandleKnown(c) ==
  /\ pc = "ready" /\ c = chart
  /\ acked' = acked \cup {c}
  /\ UNCHANGED <<pc, memory, delivery, disk, announced, raises>>

OnlyDifferent(c) == c # chart   \* mutant: regression to an older plan accepted

Newer(c) == IF chart = None THEN TRUE ELSE c.revision > chart.revision

HandleNewAckFirst(c) ==   \* mutant: acknowledged before the activation
  /\ pc = "ready" /\ Newer(c)
  /\ IF record = None THEN TRUE ELSE record.entry < MaxEntry
  /\ chart' = c
  /\ record' = Activated(c, record)
  /\ delivery' = None /\ acked' = acked \cup {c}
  /\ pc' = "saving chart"
  /\ UNCHANGED <<machine, disk, announced, raises>>

(* A newer Statechart: memory changes before either file.                  *)
HandleNew(c) ==
  /\ pc = "ready" /\ Newer(c)
  /\ IF record = None THEN TRUE ELSE record.entry < MaxEntry
  /\ chart' = c
  /\ record' = Activated(c, record)
  /\ delivery' = c
  /\ pc' = "saving chart"
  /\ UNCHANGED <<machine, disk, acked, announced, raises>>

SaveChart ==
  /\ pc = "saving chart"
  /\ diskChart' = chart
  /\ pc' = "saving record"
  /\ UNCHANGED <<memory, delivery, diskRecord, acked, announced, raises>>

SaveRecord ==
  /\ pc = "saving record"
  /\ diskRecord' = record
  /\ pc' = "building"
  /\ UNCHANGED <<memory, delivery, diskChart, acked, announced, raises>>

BuildMachine ==
  /\ pc = "building"
  /\ machine' = [chart |-> chart, state |-> chart.entry]
  /\ pc' = "announcing"
  /\ UNCHANGED <<chart, record, delivery, disk, acked, announced, raises>>

(* apply: an exact current candidate with an authorizing decision.  The    *)
(* running machine takes the event first (it refuses an event that is not  *)
(* its own, and apply raises with nothing changed); only when it lands on  *)
(* the candidate's target does the record follow.  A machine left behind   *)
(* by a failed activation may land elsewhere: apply raises then too.  When *)
(* the first activation failed there is no machine yet and the record      *)
(* moves alone.                                                            *)
Apply(t, d) ==
  /\ pc = "ready" /\ chart # None
  /\ t \in Candidates(chart, record.state)
  /\ Authorizes(record, t, d.event, d.plan, d.id)
  /\ record.entry < MaxEntry
  /\ \/ /\ machine = None
        /\ record' = Applied(record, t, d.id) /\ pc' = "saving move"
        /\ UNCHANGED machine
     \/ /\ machine # None
        /\ \E u \in Candidates(machine.chart, machine.state) :
             /\ u.event = t.event
             /\ machine' = [machine EXCEPT !.state = u.target]
             /\ IF u.target = t.target
                THEN record' = Applied(record, t, d.id) /\ pc' = "saving move"
                ELSE UNCHANGED <<record, pc>>
  /\ UNCHANGED <<chart, delivery, disk, acked, announced, raises>>

AnnounceUnsaved ==   \* mutant: the status is published without the save
  /\ pc = "saving move"
  /\ pc' = "announcing"
  /\ UNCHANGED <<memory, delivery, disk, acked, announced, raises>>

SaveMove ==
  /\ pc = "saving move"
  /\ diskRecord' = record
  /\ pc' = "announcing"
  /\ UNCHANGED <<memory, delivery, diskChart, acked, announced, raises>>

(* _publish_status at the end of handle or apply; run_once then            *)
(* acknowledges the delivery it was handling.                              *)
Announce ==
  /\ pc = "announcing"
  /\ announced' = announced \cup {record}
  /\ acked' = IF delivery = None THEN acked ELSE acked \cup {delivery}
  /\ delivery' = None
  /\ pc' = "ready"
  /\ UNCHANGED <<memory, disk, raises>>

(* status(), and apply() answering "unchanged": the status in memory is    *)
(* published, nothing else happens.                                        *)
Status ==
  /\ pc = "ready" /\ chart # None
  /\ announced' = announced \cup {record}
  /\ UNCHANGED <<pc, memory, delivery, disk, acked, raises>>

(* A write or the publication raises: the exception leaves the lock, the   *)
(* delivery is handed back (nack) and memory stays as it was changed.      *)
Raise ==
  /\ raises < MaxRaises
  /\ pc \in Working
  /\ pc' = "ready"
  /\ delivery' = None
  /\ raises' = raises + 1
  /\ UNCHANGED <<memory, disk, acked, announced>>

----------------------------------------------------------------------------
(* The process stops anywhere; only the files survive.                     *)
Crash ==
  /\ pc \notin {"down", "refused"}
  /\ pc' = "down"
  /\ chart' = None /\ record' = None /\ machine' = None /\ delivery' = None
  /\ UNCHANGED <<disk, acked, announced, raises>>

(* The tests FSMRunner.__init__ makes on what it loads.                    *)
Restorable ==
  \/ diskChart = None /\ diskRecord = None
  \/ /\ diskChart # None /\ diskRecord # None
     /\ diskChart.revision = diskRecord.plan

Restart ==
  /\ pc = "down"
  /\ IF Restorable
     THEN /\ pc' = "ready"
          /\ chart' = diskChart /\ record' = diskRecord
          /\ machine' = IF diskChart = None THEN None
                        ELSE [chart |-> diskChart, state |-> diskRecord.state]
     ELSE pc' = "refused" /\ UNCHANGED memory
  /\ UNCHANGED <<delivery, disk, acked, announced, raises>>

Next ==
  \/ \E c \in Charts : HandleKnown(c) \/ HandleNew(c)
  \/ SaveChart \/ SaveRecord \/ BuildMachine \/ SaveMove \/ Announce \/ Status \/ Raise
  \/ \E c \in Charts : \E t \in c.transitions, d \in Decisions : Apply(t, d)
  \/ Crash \/ Restart

Spec == Init /\ [][Next]_vars
----------------------------------------------------------------------------
(* Every variable has its type.                                            *)
TypeOK ==
  /\ pc \in Working \cup {"ready", "down", "refused"}
  /\ chart \in Charts \cup {None}
  /\ record \in ExecutionRecord(Ids) \cup {None}
  /\ machine \in [chart: Charts, state: States] \cup {None}
  /\ delivery \in Charts \cup {None}
  /\ diskChart \in Charts \cup {None}
  /\ diskRecord \in ExecutionRecord(Ids) \cup {None}
  /\ acked \subseteq Charts
  /\ announced \subseteq ExecutionRecord(Ids)
  /\ raises \in 0..MaxRaises

(* As long as nothing has raised, the state-entry revision identifies a    *)
(* state entry for everyone who reads the status topic, across crashes:    *)
(* two published statuses with the same revision describe the same entry   *)
(* (fsm.py:318, state_entry_revision = record_revision, on which           *)
(* Transition Intents are fenced).                                         *)
EntryIdentifiesState ==
  raises = 0 => \A s, u \in announced : s.entry = u.entry => s = u

(* As long as nothing has raised, a published status never runs ahead of   *)
(* the files: what a reader has seen survives a crash (fsm.py saves before *)
(* it publishes).                                                          *)
AnnouncedIsDurable ==
  raises = 0 => \A s \in announced : diskRecord # None /\ s.entry <= diskRecord.entry

(* As long as nothing has raised, a Maneuver Decision moves the FSM at     *)
(* most once, crash and replay included: no two published entries of which *)
(* one follows the other lie on both sides of a second application of the  *)
(* same decision.                                                          *)
DecisionAppliedOnce ==
  raises = 0 =>
    \A s, u \in announced :
      s.plan = u.plan /\ s.entry < u.entry =>
        Cardinality(u.applied) - Cardinality(s.applied) = u.entry - s.entry

(* An acknowledged Statechart delivery is never lost: run_once             *)
(* acknowledges "only after activation", so the files are at that plan     *)
(* revision or a later one.                                                *)
AckedIsDurable ==
  \A c \in acked : /\ diskChart # None /\ diskChart.revision >= c.revision
                   /\ diskRecord # None /\ diskRecord.plan >= c.revision

(* The same as long as nothing has raised: crashes alone, wherever they    *)
(* strike, lose no acknowledged delivery.                                  *)
AckedSurvivesCrash == raises = 0 => AckedIsDurable

(* The files only move forward: neither a failed write, nor a crash, nor a *)
(* redelivery puts an older chart or an older record back on disk.         *)
DiskNeverRegresses ==
  [][/\ diskChart # None => diskChart'.revision >= diskChart.revision
     /\ diskRecord # None => diskRecord'.entry >= diskRecord.entry]_disk

(* The two files can always be restored together ("FSM Statechart and      *)
(* Execution Record must be persisted together").                          *)
PersistedTogether == pc # "refused"

(* As long as nothing has raised, the runner and its files implement the   *)
(* durable FSM: wherever the process crashes, the FSM on disk moves only   *)
(* along an edge of its own Statechart that a decision not used before     *)
(* names, a Statechart takes effect once and only after older ones, and    *)
(* what is published or acknowledged is on disk by then.                   *)
Durable == INSTANCE DurableFSM WITH
  chart <- IF diskChart # None /\ diskRecord # None /\ diskChart.revision = diskRecord.plan
           THEN diskChart ELSE None,
  record <- diskRecord,
  heard <- announced

ImplementsDurable == Durable!DInit /\ [][raises' = 0 => Durable!DNext]_(Durable!dvars)
============================================================================
