---------------------------- MODULE RuntimeHost ----------------------------
(***************************************************************************)
(* The Mission Run lifecycle of the Runtime Host (runtime_host/host.py):   *)
(* the durable run records, the activating thread, the Run Worker process  *)
(* with its Environment Stack, the cancellation and the recovery of a      *)
(* restarted Host.  A record is only touched under the cross-process state *)
(* lock (_state_guard), so each such section is one step; everything       *)
(* between two sections interleaves.  A run is named by the activation     *)
(* request that created it.                                                *)
(***************************************************************************)
EXTENDS Naturals, FiniteSets

CONSTANTS
  Runs,              \* activation requests, each with the run it creates
  MaxHostCrashes,    \* bound on Host crashes
  WorkerMayDie,      \* whether a Run Worker may die on its own
  GroupMayBeReused,  \* whether another process may take a dead worker's group ID
  None

Nonterminal == {"queued", "running"}
Terminal == {"succeeded", "failed", "cancelled"}
Failures == {"stack_failed", "mission_rejected", "worker_failed"}
Classes == Failures \cup {"cancelled_by_owner", "host_interrupted", "worker_start_failed"}

(* A Mission Run Record: its status and classification, whether its        *)
(* cancellation was requested, whether the worker's identity was persisted *)
(* (worker_launch_state "group_ready").                                    *)
RunRecord ==
  [status: Nonterminal \cup Terminal, class: Classes \cup {None},
   cancelled: BOOLEAN, registered: BOOLEAN]

ASSUME HostAssumption ==
  /\ None \notin RunRecord
  /\ MaxHostCrashes \in Nat
  /\ {WorkerMayDie, GroupMayBeReused} \subseteq BOOLEAN

VARIABLES
  host,        \* "up" or "down"
  runs,        \* state.json: [Runs -> RunRecord or None]
  current,     \* current_run_id
  activator,   \* the thread inside activate, per run
  handles,     \* self._workers: runs whose worker handle the Host holds
  canceller,   \* runs whose cancel call stands between its record and its look at the worker
  reaper,      \* per run: None or [step, why], the termination of its process tree
  worker,      \* where the Run Worker process stands
  result,      \* what the worker will report
  gate,        \* runs whose start_gate is set
  services,    \* runs with live stack processes
  reused,      \* runs whose process group ID was taken by a stranger
  crashes,     \* Host crashes so far
  accepted     \* history: runs whose cancellation was accepted while nonterminal

vars == <<host, runs, current, activator, handles, canceller, reaper, worker, result, gate,
          services, reused, crashes, accepted>>
process == <<worker, result, gate, services, reused>>
threads == <<activator, handles, canceller, reaper>>

Live == {"gated", "released", "checked", "executing", "teardown", "reporting", "dying"}

Init ==
  /\ host = "up" /\ current = None /\ crashes = 0 /\ accepted = {}
  /\ runs = [r \in Runs |-> None]
  /\ activator = [r \in Runs |-> "none"] /\ handles = {} /\ canceller = {}
  /\ reaper = [r \in Runs |-> None]
  /\ worker = [r \in Runs |-> "absent"] /\ result = [r \in Runs |-> None]
  /\ gate = {} /\ services = {} /\ reused = {}

----------------------------------------------------------------------------
(* _transition.  A terminal record never changes; the worker's own verdict *)
(* on a run being cancelled is dropped until the process tree is gone; and *)
(* a cancelled run ends as cancelled, whatever the verdict.                *)

TransitionedIgnoringCancel(rec, status, class, treeExited) ==   \* mutant: the verdict stands
  IF rec.status \notin Nonterminal THEN rec
  ELSE [rec EXCEPT !.status = status, !.class = class]

TransitionedAgain(rec, status, class, treeExited) ==   \* mutant: a terminal record is overwritten
  IF status = "running" THEN [rec EXCEPT !.status = "running"]
  ELSE IF rec.cancelled /\ rec.registered /\ ~treeExited THEN rec
  ELSE IF rec.cancelled
       THEN [rec EXCEPT !.status = "cancelled", !.class = "cancelled_by_owner"]
       ELSE [rec EXCEPT !.status = status, !.class = class]

Transitioned(rec, status, class, treeExited) ==
  IF rec.status \notin Nonterminal THEN rec
  ELSE IF status = "running" THEN [rec EXCEPT !.status = "running"]
  ELSE IF rec.cancelled /\ rec.registered /\ ~treeExited THEN rec
  ELSE IF rec.cancelled
       THEN [rec EXCEPT !.status = "cancelled", !.class = "cancelled_by_owner"]
       ELSE [rec EXCEPT !.status = status, !.class = class]

Transition(r, status, class, treeExited) ==
  runs' = [runs EXCEPT ![r] = Transitioned(@, status, class, treeExited)]

Active(r) == runs[r] # None /\ runs[r].status \in Nonterminal

(* WorkerIdentity.is_owned: the leader or any process with the run's token *)
(* is alive.                                                               *)
Owned(r) == worker[r] \in Live \/ r \in services

(* The constructor reaps what it recovered before the Host serves, except  *)
(* for trees that are still dying, which a reconciler thread waits for.    *)
Serving ==
  host = "up" /\ \A r \in Runs : reaper[r] # None /\ reaper[r].why = "recover" => reaper[r].step = "killed"

----------------------------------------------------------------------------
(* activate.  A repeated request answers from its record; a request while  *)
(* another run is nonterminal is refused: both leave the state alone.      *)
Activate(r) ==
  /\ Serving /\ runs[r] = None
  /\ \A s \in Runs : s = current => ~Active(s)
  /\ runs' = [runs EXCEPT ![r] =
       [status |-> "queued", class |-> None, cancelled |-> FALSE, registered |-> FALSE]]
  /\ current' = r
  /\ activator' = [activator EXCEPT ![r] = "launching"]
  /\ UNCHANGED <<host, handles, canceller, reaper, process, crashes, accepted>>

Launch(r) ==
  /\ activator[r] = "launching"
  /\ worker' = [worker EXCEPT ![r] = "gated"]
  /\ activator' = [activator EXCEPT ![r] = "registering"]
  /\ UNCHANGED <<host, runs, current, handles, canceller, reaper, result, gate, services,
                 reused, crashes, accepted>>

LaunchFails(r) ==
  /\ activator[r] = "launching"
  /\ Transition(r, "failed", "worker_start_failed", FALSE)
  /\ activator' = [activator EXCEPT ![r] = "none"]
  /\ UNCHANGED <<host, current, handles, canceller, reaper, process, crashes, accepted>>

ReapBy(r, why) ==
  reaper' = [reaper EXCEPT ![r] = IF @ = None THEN [step |-> "begin", why |-> why] ELSE @]

RegisterBlindly(r) ==   \* mutant: a cancellation that came before the identity is overlooked
  /\ activator[r] = "registering"
  /\ runs' = [runs EXCEPT ![r].registered = TRUE]
  /\ handles' = handles \cup {r}
  /\ activator' = [activator EXCEPT ![r] = "releasing"]
  /\ UNCHANGED <<host, current, canceller, reaper, process, crashes, accepted>>

(* The identity is persisted; a cancellation that came first is acted on   *)
(* before the worker is let go.                                            *)
Register(r) ==
  /\ activator[r] = "registering"
  /\ runs' = [runs EXCEPT ![r].registered = TRUE]
  /\ handles' = handles \cup {r}
  /\ IF runs[r].cancelled
     THEN ReapBy(r, "cancel") /\ activator' = [activator EXCEPT ![r] = "reaping"]
     ELSE activator' = [activator EXCEPT ![r] = "releasing"] /\ UNCHANGED reaper
  /\ UNCHANGED <<host, current, canceller, process, crashes, accepted>>

ReleaseEarly(r) ==   \* mutant: the worker is let go before its identity is on disk
  /\ activator[r] \in {"registering", "releasing"}
  /\ worker' = [worker EXCEPT ![r] = IF @ = "gated" THEN "released" ELSE @]
  /\ activator' = [activator EXCEPT ![r] = "opening"]
  /\ UNCHANGED <<host, runs, current, handles, canceller, reaper, result, gate, services,
                 reused, crashes, accepted>>

Release(r) ==
  /\ \/ activator[r] = "releasing"
     \/ activator[r] = "reaping" /\ (IF reaper[r] = None THEN TRUE ELSE reaper[r].step = "killed")
  /\ worker' = [worker EXCEPT ![r] = IF @ = "gated" THEN "released" ELSE @]
  /\ activator' = [activator EXCEPT ![r] = "opening"]
  /\ UNCHANGED <<host, runs, current, handles, canceller, reaper, result, gate, services,
                 reused, crashes, accepted>>

OpenGate(r) ==
  /\ activator[r] = "opening"
  /\ gate' = gate \cup {r}
  /\ activator' = [activator EXCEPT ![r] = "none"]
  /\ UNCHANGED <<host, runs, current, handles, canceller, reaper, worker, result, services,
                 reused, crashes, accepted>>

----------------------------------------------------------------------------
(* The Run Worker process.                                                 *)

Exits(r) == worker' = [worker EXCEPT ![r] = "gone"]

(* Either wait of the worker gives up after five seconds.                  *)
GateTimeout(r) ==
  /\ worker[r] = "gated" \/ (worker[r] = "released" /\ r \notin gate)
  /\ Exits(r)
  /\ UNCHANGED <<host, runs, current, threads, result, gate, services, reused, crashes, accepted>>

(* _run_worker: a run that ended or is being cancelled is not started.     *)
Check(r) ==
  /\ worker[r] = "released" /\ r \in gate
  /\ IF Active(r) /\ ~runs[r].cancelled
     THEN worker' = [worker EXCEPT ![r] = "checked"]
     ELSE Exits(r)
  /\ UNCHANGED <<host, runs, current, threads, result, gate, services, reused, crashes, accepted>>

RunWorker(r) ==
  /\ worker[r] = "checked"
  /\ Transition(r, "running", None, FALSE)
  /\ worker' = [worker EXCEPT ![r] = "executing"]
  /\ services' = services \cup {r}
  /\ UNCHANGED <<host, current, threads, result, gate, reused, crashes, accepted>>

(* The mission ends, well or badly; the supervisor then stops the stack.   *)
MissionEnds(r) ==
  /\ worker[r] = "executing"
  /\ \E v \in Failures \cup {"succeeded"} : result' = [result EXCEPT ![r] = v]
  /\ worker' = [worker EXCEPT ![r] = "teardown"]
  /\ UNCHANGED <<host, runs, current, threads, gate, services, reused, crashes, accepted>>

TearDown(r) ==
  /\ worker[r] = "teardown"
  /\ services' = services \ {r}
  /\ worker' = [worker EXCEPT ![r] = IF result[r] = "cancelled" THEN "gone" ELSE "reporting"]
  /\ UNCHANGED <<host, runs, current, threads, result, gate, reused, crashes, accepted>>

Report(r) ==
  /\ worker[r] = "reporting"
  /\ IF result[r] = "succeeded" THEN Transition(r, "succeeded", None, FALSE)
     ELSE Transition(r, "failed", result[r], FALSE)
  /\ Exits(r)
  /\ UNCHANGED <<host, current, threads, result, gate, services, reused, crashes, accepted>>

(* The worker process dies without unwinding; its services live on.        *)
WorkerDies(r) ==
  /\ WorkerMayDie /\ worker[r] \in Live \ {"dying"}
  /\ Exits(r)
  /\ UNCHANGED <<host, runs, current, threads, result, gate, services, reused, crashes, accepted>>

(* The process tree is gone and a stranger gets its group ID.              *)
GroupReused(r) ==
  /\ GroupMayBeReused /\ worker[r] = "gone" /\ r \notin services
  /\ reused' = reused \cup {r}
  /\ UNCHANGED <<host, runs, current, threads, worker, result, gate, services, crashes, accepted>>

----------------------------------------------------------------------------
(* cancel: the request is recorded in one section; the worker is looked up *)
(* after it.  A repeated request looks it up again.                        *)
Cancel(r) ==
  /\ Serving /\ runs[r] # None /\ r \notin canceller
  /\ runs' = [runs EXCEPT ![r].cancelled = TRUE]
  /\ canceller' = IF Active(r) THEN canceller \cup {r} ELSE canceller
  /\ accepted' = IF Active(r) THEN accepted \cup {r} ELSE accepted
  /\ UNCHANGED <<host, current, activator, handles, reaper, process, crashes>>

(* With a handle, or a persisted identity that is still owned, the worker  *)
(* is terminated; otherwise the request rests with the record.             *)
LookUp(r) ==
  /\ r \in canceller
  /\ canceller' = canceller \ {r}
  /\ IF r \in handles \/ (runs[r].registered /\ Owned(r))
     THEN ReapBy(r, "cancel")
     ELSE UNCHANGED reaper
  /\ UNCHANGED <<host, runs, current, activator, handles, process, crashes, accepted>>

Reaping(r, step) == reaper[r] # None /\ reaper[r].step = step

(* SIGTERM to the leader: before the worker's handler is installed, and    *)
(* after it is removed, the process dies; in the mission it unwinds; in    *)
(* its teardown it ignores the signal.                                     *)
Terminate(r) ==
  /\ Reaping(r, "begin") /\ Owned(r)
  /\ reaper' = [reaper EXCEPT ![r].step = "signalled"]
  /\ worker' = [worker EXCEPT ![r] =
       CASE @ \in {"gated", "released", "checked", "reporting"} -> "gone"
         [] @ = "executing" -> "teardown"
         [] OTHER -> @]
  /\ result' = [result EXCEPT ![r] = IF worker[r] = "executing" THEN "cancelled" ELSE @]
  /\ UNCHANGED <<host, runs, current, activator, handles, canceller, gate, services, reused,
                 crashes, accepted>>

(* The tree outlived its grace: the group and the detached groups get      *)
(* SIGTERM and SIGKILL, and die at some later time.                        *)
Kill(r) ==
  /\ Reaping(r, "signalled") /\ Owned(r)
  /\ reaper' = [reaper EXCEPT ![r].step = "killed"]
  /\ worker' = [worker EXCEPT ![r] = "dying"]
  /\ UNCHANGED <<host, runs, current, activator, handles, canceller, result, gate, services,
                 reused, crashes, accepted>>

TreeExits(r) ==
  /\ worker[r] = "dying"
  /\ Exits(r) /\ services' = services \ {r}
  /\ UNCHANGED <<host, runs, current, threads, result, gate, reused, crashes, accepted>>

Reaped(r) ==
  /\ reaper' = [reaper EXCEPT ![r] = None]
  /\ handles' = handles \ {r}

ReapEarly(r) ==   \* mutant: the run is closed when the signals are sent
  /\ Reaping(r, "signalled") \/ Reaping(r, "killed")
  /\ IF reaper[r].why = "recover" THEN Transition(r, "failed", "host_interrupted", TRUE)
     ELSE Transition(r, "cancelled", "cancelled_by_owner", TRUE)
  /\ Reaped(r)
  /\ UNCHANGED <<host, current, activator, canceller, process, crashes, accepted>>

(* The tree is gone: at once, or seen by the reconciler thread.            *)
Reap(r) ==
  /\ Reaping(r, "signalled") \/ Reaping(r, "killed")
  /\ ~Owned(r) /\ r \notin reused
  /\ IF reaper[r].why = "recover" THEN Transition(r, "failed", "host_interrupted", TRUE)
     ELSE Transition(r, "cancelled", "cancelled_by_owner", TRUE)
  /\ Reaped(r)
  /\ UNCHANGED <<host, current, activator, canceller, process, crashes, accepted>>

(* _finish_unowned_cancellation: nothing of ours is alive.  An empty group *)
(* proves the exit; a stranger's group leaves an interrupted run.          *)
FinishUnowned(r) ==
  /\ \/ Reaping(r, "begin") /\ ~Owned(r)
     \/ Reaping(r, "signalled") /\ ~Owned(r) /\ r \in reused
  /\ IF r \notin reused THEN Transition(r, "cancelled", "cancelled_by_owner", TRUE)
     ELSE runs' = IF Active(r)
                  THEN [runs EXCEPT ![r].status = "failed", ![r].class = "host_interrupted"]
                  ELSE runs
  /\ Reaped(r)
  /\ UNCHANGED <<host, current, activator, canceller, process, crashes, accepted>>

----------------------------------------------------------------------------
(* The Host process dies with its threads; workers and records remain.     *)
HostCrash ==
  /\ host = "up" /\ crashes < MaxHostCrashes
  /\ host' = "down" /\ crashes' = crashes + 1
  /\ activator' = [r \in Runs |-> "none"] /\ handles' = {} /\ canceller' = {}
  /\ reaper' = [r \in Runs |-> None]
  /\ UNCHANGED <<runs, current, process, accepted>>

Recoverable(r) == Active(r) /\ runs[r].registered /\ Owned(r)

InterruptedAsStatus(r) ==   \* mutant: the classification is written as the status
  [runs[r] EXCEPT !.status = "host_interrupted"]

(* What the constructor makes of a nonterminal run it cannot reap.         *)
Interrupted(r) ==
  IF runs[r].registered /\ runs[r].cancelled /\ r \notin reused
  THEN [runs[r] EXCEPT !.status = "cancelled", !.class = "cancelled_by_owner"]
  ELSE [runs[r] EXCEPT !.status = "failed", !.class = "host_interrupted"]

RestartWithoutReaping ==   \* mutant: a restarted Host closes the runs and reaps nothing
  /\ host = "down"
  /\ host' = "up"
  /\ runs' = [r \in Runs |-> IF Active(r) THEN Interrupted(r) ELSE runs[r]]
  /\ UNCHANGED <<current, threads, process, crashes, accepted>>

HostRestart ==
  /\ host = "down"
  /\ host' = "up"
  /\ runs' = [r \in Runs |-> IF Active(r) /\ ~Recoverable(r) THEN Interrupted(r) ELSE runs[r]]
  /\ reaper' = [r \in Runs |->
       IF ~Recoverable(r) THEN None
       ELSE [step |-> "begin", why |-> IF runs[r].cancelled THEN "cancel" ELSE "recover"]]
  /\ UNCHANGED <<current, activator, handles, canceller, process, crashes, accepted>>

----------------------------------------------------------------------------
ActivatorStep(r) == Launch(r) \/ LaunchFails(r) \/ Register(r) \/ Release(r) \/ OpenGate(r)
WorkerStep(r) ==
  GateTimeout(r) \/ Check(r) \/ RunWorker(r) \/ TearDown(r) \/ Report(r) \/ TreeExits(r)
ReaperStep(r) == Terminate(r) \/ Kill(r) \/ Reap(r) \/ FinishUnowned(r)

Next ==
  \/ \E r \in Runs :
       \/ Activate(r) \/ ActivatorStep(r)
       \/ WorkerStep(r) \/ MissionEnds(r) \/ WorkerDies(r) \/ GroupReused(r)
       \/ Cancel(r) \/ LookUp(r) \/ ReaperStep(r)
  \/ HostCrash \/ HostRestart

Spec == Init /\ [][Next]_vars

(* Threads and processes that can take a step eventually do, and the       *)
(* console starts a Host that is down; a mission need not ever end, nobody *)
(* need activate or cancel anything.                                       *)
FairSpec ==
  /\ Spec
  /\ WF_vars(HostRestart)
  /\ \A r \in Runs : WF_vars(ActivatorStep(r)) /\ WF_vars(WorkerStep(r))
                     /\ WF_vars(LookUp(r)) /\ WF_vars(ReaperStep(r))
----------------------------------------------------------------------------
TypeOK ==
  /\ host \in {"up", "down"}
  /\ runs \in [Runs -> RunRecord \cup {None}]
  /\ current \in Runs \cup {None}
  /\ activator \in [Runs -> {"none", "launching", "registering", "reaping", "releasing", "opening"}]
  /\ handles \subseteq Runs /\ canceller \subseteq Runs
  /\ reaper \in [Runs -> [step: {"begin", "signalled", "killed"}, why: {"cancel", "recover"}]
                          \cup {None}]
  /\ worker \in [Runs -> Live \cup {"absent", "gone"}]
  /\ result \in [Runs -> Failures \cup {"succeeded", "cancelled", None}]
  /\ gate \subseteq Runs /\ services \subseteq Runs /\ reused \subseteq Runs
  /\ crashes \in 0..MaxHostCrashes
  /\ accepted \subseteq Runs

Ended(r) == runs[r] # None /\ runs[r].status \in Terminal

(* A worker on its mission, or a stack of services left alive.             *)
Working(r) == worker[r] \in {"checked", "executing", "teardown"} \/ r \in services

(* A run that is recorded as over has no worker at work and no stack       *)
(* process alive: not after a cancellation, not after a Host crash, not    *)
(* after a worker died and left its services behind.                       *)
EndedIsReaped == \A r \in Runs : Ended(r) => ~Working(r)

(* One Mission Run at a time has a worker or a stack at work.              *)
OneRunAtWork == Cardinality({r \in Runs : Working(r)}) <= 1

(* Nothing executes whose identity is not on disk: a restarted Host finds  *)
(* every worker and every stack there is to reap.                          *)
WorkIsRegistered == \A r \in Runs : Working(r) => runs[r].registered

(* A run ends once: neither the worker, a canceller, a reconciler nor a    *)
(* restarted Host gives it another end, and an activation never reopens    *)
(* it.                                                                     *)
EndsOnce ==
  [][\A r \in Runs : Ended(r) =>
       runs'[r].status = runs[r].status /\ runs'[r].class = runs[r].class]_vars

(* A cancellation accepted before the run ended is what the run ends with, *)
(* whatever verdict the worker reached meanwhile, provided the worker's    *)
(* identity was recorded and its group ID not taken by a stranger.         *)
AcceptedCancelStands ==
  \A r \in accepted : Ended(r) /\ runs[r].registered /\ r \notin reused =>
    runs[r].status = "cancelled"

(* "records cancelled_by_owner if the Host had accepted the cancellation": *)
(* the same without the proviso that the worker was registered.            *)
AcceptedCancelRecorded ==
  \A r \in accepted : Ended(r) => runs[r].class = "cancelled_by_owner"

(* An accepted cancellation ends the run, although its look-up of the      *)
(* worker races the registration, the release, the worker's own death and  *)
(* a Host crash.  Only a stranger that took the process group ID may keep  *)
(* it open: the reconciler waits for the group to become empty.            *)
CancelEndsRun == \A r \in Runs : r \in accepted ~> Ended(r) \/ r \in reused

(* The Host implements the abstract lifecycle: a run is accepted while no  *)
(* other is open, has work only while it is open, and ends once, with one  *)
(* status and classification, when its work is over.                       *)
Lifecycle == INSTANCE RunLifecycle WITH
  Outcomes <- Terminal \X (Classes \cup {None}),
  opened <- {r \in Runs : runs[r] # None},
  working <- {r \in Runs : Working(r)},
  ends <- {[run |-> r, outcome |-> <<runs[r].status, runs[r].class>>] : r \in {s \in Runs : Ended(s)}}

ImplementsLifecycle == Lifecycle!LSpec
============================================================================
