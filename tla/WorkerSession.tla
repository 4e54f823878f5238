--------------------------- MODULE WorkerSession ---------------------------
(***************************************************************************)
(* One Run Worker and the Environment Stack it owns: runtime_worker        *)
(* (runtime_host/host.py) with its monitor thread and its two signal       *)
(* handlers, and the StackSupervisor (runtime_host/stack/supervisor.py)    *)
(* that starts, watches and stops the services.                            *)
(*                                                                         *)
(* A handler raises in the main thread wherever that thread is, the        *)
(* teardown included; Raised says where the exception takes it.  Services  *)
(* are numbered in start order.  The mission is one step that ends or      *)
(* raises; RuntimeHost models what the Host makes of the worker's end.     *)
(***************************************************************************)
EXTENDS Naturals, FiniteSets

CONSTANTS
  N,             \* services of the plan
  Required,      \* those whose end fails the run
  Completes,     \* those whose end with status 0 does not
  MaxDeaths,     \* bound: services that end by themselves
  MaxFaults      \* bound: writes of stack-status.json that raise

Services == 1..N
ASSUME StackAssumption == /\ N \in Nat \ {0} /\ MaxDeaths \in Nat /\ MaxFaults \in Nat
                          /\ Required \subseteq Services /\ Completes \subseteq Services

VARIABLES
  pc,            \* where the main thread is
  next,          \* the service it starts or waits for
  walk, waiting, \* stop: services walked over; whether one is waited for
  proc,          \* of each service: "none", "up", "terminating", "ok", "bad"
  state,         \* what the supervisor keeps of it
  handled,       \* signals whose handler raises, of {"cancel", "stack"}
  alarm,         \* a SIGUSR1 that is not delivered yet
  cancelled,     \* the Host has sent its SIGTERM
  monitor,       \* "off", "watching", "alarmed"
  stopMonitor,   \* the event that ends it
  failures,      \* it has found one
  raised,        \* the exception under way, or "none"
  swallowed,     \* an except Exception of the mission took the monitor's
  escaped,       \* an exception left the finally clause before it had ignored the signals
  lost,          \* required services that ended before the mission did
  deaths, faults

main == <<pc, next, walk, waiting>>
processes == <<proc, state>>
signals == <<handled, alarm, cancelled>>
watch == <<monitor, stopMonitor, failures>>
history == <<swallowed, escaped, lost, deaths, faults>>
session == <<main, processes, signals, watch, raised, history>>

Starting == {"prepare", "start", "ready", "post"}
Gone == {"ok", "bad"}
Alive == {"up", "terminating"}

SessionInit ==
  /\ pc = "prepare" /\ next = 1 /\ walk = 0 /\ waiting = FALSE
  /\ proc = [s \in Services |-> "none"] /\ state = [s \in Services |-> "pending"]
  /\ handled = {"cancel", "stack"} /\ alarm = FALSE /\ cancelled = FALSE
  /\ monitor = "off" /\ stopMonitor = FALSE /\ failures = FALSE
  /\ raised = "none" /\ swallowed = FALSE /\ escaped = FALSE
  /\ lost = {} /\ deaths = 0 /\ faults = 0

----------------------------------------------------------------------------
(* Where an exception takes the main thread: start tears the stack down    *)
(* itself before it leaves; the mission's finally joins the monitor; the   *)
(* outer finally is "closing" until it ignores both signals, and whatever  *)
(* is raised inside it leaves it.                                          *)
Raised(kind) ==
  /\ raised' = kind
  /\ pc' = CASE pc \in Starting -> "undo"
             [] pc = "mission" -> "leaving"
             [] pc \in {"undo", "begin", "leaving", "poll"} -> "closing"
             [] pc \in {"closing", "joining", "stopping"} -> "left"
  /\ walk' = 0 /\ waiting' = FALSE /\ UNCHANGED next
  /\ escaped' = (escaped \/ pc = "closing")

(* SIGTERM of the Host.                                                    *)
SigTerm ==
  /\ ~cancelled /\ pc # "left" /\ cancelled' = TRUE
  /\ IF "cancel" \in handled
     THEN Raised("cancel") /\ handled' = handled \ {"cancel"}
     ELSE UNCHANGED <<main, raised, escaped, handled>>
  /\ UNCHANGED <<processes, alarm, watch, swallowed, lost, deaths, faults>>

(* SIGUSR1 of the monitor: StackFailure, which an except Exception of the  *)
(* mission may take for its own.                                           *)
DeliverAlarm(taken) ==
  /\ alarm /\ alarm' = FALSE
  /\ taken => pc = "mission"
  /\ IF "stack" \in handled /\ pc # "left" /\ ~taken
     THEN Raised("stack")
     ELSE UNCHANGED <<main, raised, escaped>>
  /\ swallowed' = (swallowed \/ taken)
  /\ UNCHANGED <<processes, handled, cancelled, watch, lost, deaths, faults>>

(* A status write raises in the main thread.                               *)
WriteFails ==
  /\ faults < MaxFaults /\ faults' = faults + 1
  /\ pc \in Starting \cup {"begin", "undo", "stopping"}
  /\ Raised("other")
  /\ UNCHANGED <<processes, signals, watch, swallowed, lost, deaths>>

(* A service ends by itself.                                               *)
ServiceDies(s, code) ==
  /\ proc[s] = "up" /\ deaths < MaxDeaths /\ deaths' = deaths + 1
  /\ proc' = [proc EXCEPT ![s] = code]
  /\ lost' = IF /\ s \in Required /\ ~(s \in Completes /\ code = "ok")
                /\ pc \in Starting \cup {"begin", "mission"}
             THEN lost \cup {s} ELSE lost
  /\ UNCHANGED <<main, state, signals, watch, raised, swallowed, escaped, faults>>

----------------------------------------------------------------------------
(* StackSupervisor.poll: services that have gone are recorded, once; a     *)
(* required one that has not completed is a failure.                       *)
Unseen == {s \in Services : proc[s] \in Gone /\ state[s] \notin {"exited", "failed", "stopping", "stopped"}}
Ending(s) == IF proc[s] = "ok" THEN "exited" ELSE "failed"
Polled == [s \in Services |-> IF s \in Unseen THEN Ending(s) ELSE state[s]]
Failing == {s \in Unseen \cap Required : ~(s \in Completes /\ proc[s] = "ok")}

(* Prep steps before the services and after the last one is ready.         *)
RunStep(ok) ==
  /\ pc \in {"prepare", "post"}
  /\ IF ok
     THEN /\ pc' = IF pc = "post" THEN "begin" ELSE "start"
          /\ UNCHANGED <<next, walk, waiting, raised, escaped>>
     ELSE Raised("stack")
  /\ UNCHANGED <<processes, signals, watch, swallowed, lost, deaths, faults>>

StartService(ok) ==
  /\ pc = "start"
  /\ IF ok
     THEN /\ proc' = [proc EXCEPT ![next] = "up"] /\ state' = [state EXCEPT ![next] = "starting"]
          /\ pc' = "ready" /\ UNCHANGED <<next, walk, waiting, raised, escaped>>
     ELSE /\ state' = [state EXCEPT ![next] = "failed"] /\ UNCHANGED proc
          /\ Raised("stack")
  /\ UNCHANGED <<signals, watch, swallowed, lost, deaths, faults>>

(* One turn of _await_ready: poll, then the probes, then the deadline.     *)
AwaitReady(ready, late) ==
  /\ pc = "ready"
  /\ IF Failing # {}
     THEN state' = Polled /\ Raised("stack")
     ELSE IF ready
     THEN /\ state' = [Polled EXCEPT ![next] = "ready"]
          /\ pc' = IF next = N THEN "post" ELSE "start"
          /\ next' = IF next = N THEN next ELSE next + 1
          /\ UNCHANGED <<walk, waiting, raised, escaped>>
     ELSE IF late
     THEN state' = [Polled EXCEPT ![next] = "failed"] /\ Raised("stack")
     ELSE state' = Polled /\ UNCHANGED <<main, raised, escaped>>
  /\ UNCHANGED <<proc, signals, watch, swallowed, lost, deaths, faults>>

(* begin_closed_loop, and the monitor's thread.                            *)
Begin ==
  /\ pc = "begin" /\ pc' = "mission" /\ monitor' = "watching"
  /\ UNCHANGED <<next, walk, waiting, processes, signals, stopMonitor, failures, raised, history>>

MonitorPollQuiet ==   \* mutant: the failure is noted, no signal is sent
  /\ monitor = "watching"
  /\ state' = Polled
  /\ failures' = (failures \/ Failing # {})
  /\ monitor' = IF Failing # {} THEN "off" ELSE monitor
  /\ UNCHANGED <<main, proc, signals, stopMonitor, raised, history>>

(* A turn of the monitor; a poll under way goes on after the event is set. *)
MonitorPoll ==
  /\ monitor = "watching"
  /\ state' = Polled
  /\ failures' = (failures \/ Failing # {})
  /\ monitor' = IF Failing # {} THEN "alarmed" ELSE monitor
  /\ UNCHANGED <<main, proc, signals, stopMonitor, raised, history>>

(* The status write of its poll raises, and the thread ends with it.       *)
MonitorFails ==
  /\ monitor = "watching" /\ Unseen # {}
  /\ faults < MaxFaults /\ faults' = faults + 1
  /\ state' = Polled /\ monitor' = "off"
  /\ UNCHANGED <<main, proc, signals, stopMonitor, failures, raised, swallowed, escaped, lost, deaths>>

MonitorAlarms ==
  /\ monitor = "alarmed" /\ monitor' = "off"
  /\ alarm' = ("stack" \in handled)
  /\ UNCHANGED <<main, processes, handled, cancelled, stopMonitor, failures, raised, history>>

MonitorEnds ==
  /\ monitor = "watching" /\ stopMonitor /\ monitor' = "off"
  /\ UNCHANGED <<main, processes, signals, stopMonitor, failures, raised, history>>

(* run_closed_loop_demo returns or raises.                                 *)
MissionReturns(outcome) ==
  /\ pc = "mission"
  /\ IF outcome = "none"
     THEN pc' = "leaving" /\ UNCHANGED <<next, walk, waiting, raised, escaped>>
     ELSE Raised(outcome)
  /\ UNCHANGED <<processes, signals, watch, swallowed, lost, deaths, faults>>

(* stop_monitor.set(); thread.join()                                       *)
StopMonitor ==
  /\ pc \in {"leaving", "joining"} /\ ~stopMonitor /\ stopMonitor' = TRUE
  /\ UNCHANGED <<main, processes, signals, monitor, failures, raised, history>>

Leave ==
  /\ pc = "leaving" /\ stopMonitor /\ monitor = "off"
  /\ pc' = IF raised = "none" THEN "poll" ELSE "closing"
  /\ UNCHANGED <<next, walk, waiting, processes, signals, watch, raised, history>>

LastPollSkipped ==   \* mutant: only the monitor's failures count
  /\ pc = "poll"
  /\ UNCHANGED state
  /\ IF failures THEN Raised("stack")
     ELSE pc' = "closing" /\ UNCHANGED <<next, walk, waiting, raised, escaped>>
  /\ UNCHANGED <<proc, signals, watch, swallowed, lost, deaths, faults>>

(* The last poll, after the monitor has ended; then the result is written. *)
LastPoll ==
  /\ pc = "poll"
  /\ state' = Polled
  /\ IF failures \/ Failing # {} THEN Raised("stack")
     ELSE pc' = "closing" /\ UNCHANGED <<next, walk, waiting, raised, escaped>>
  /\ UNCHANGED <<proc, signals, watch, swallowed, lost, deaths, faults>>

----------------------------------------------------------------------------
(* The outer finally: it ignores SIGUSR1, then SIGTERM.                    *)
IgnoreFailures ==
  /\ pc = "closing" /\ "stack" \in handled
  /\ handled' = handled \ {"stack"}
  /\ UNCHANGED <<main, processes, alarm, cancelled, watch, raised, history>>

KeepCancel ==   \* mutant: SIGTERM keeps its handler
  /\ pc = "closing" /\ "stack" \notin handled
  /\ pc' = "joining"
  /\ UNCHANGED <<next, walk, waiting, processes, signals, watch, raised, history>>

IgnoreCancel ==
  /\ pc = "closing" /\ "stack" \notin handled
  /\ handled' = {} /\ pc' = "joining"
  /\ UNCHANGED <<next, walk, waiting, processes, alarm, cancelled, watch, raised, history>>

(* The camera stops, the last world frame is taken, the closed loop ends:  *)
(* each in a finally of its own, so that stop is reached whatever raises.  *)
Close ==
  /\ pc = "joining" /\ stopMonitor /\ monitor = "off"
  /\ pc' = "stopping" /\ walk' = 0
  /\ UNCHANGED <<next, waiting, processes, signals, watch, raised, history>>

InStartOrder(k) == k + 1   \* mutant: the first service started goes first

(* stop walks over the services in reverse start order.                    *)
InTurn(k) == N - k

Tearing == pc \in {"undo", "stopping"}

(* A service that has gone keeps or gets its ending; one that is up turns  *)
(* "stopping", unless it has failed, and gets SIGTERM.                     *)
StopNext ==
  /\ Tearing /\ ~waiting /\ walk < N
  /\ LET s == InTurn(walk)
     IN IF proc[s] \in Alive
        THEN /\ state' = [state EXCEPT ![s] = IF @ \in {"failed", "exited"} THEN @ ELSE "stopping"]
             /\ proc' = [proc EXCEPT ![s] = "terminating"]
             /\ waiting' = TRUE /\ UNCHANGED walk
        ELSE /\ state' = [state EXCEPT ![s] =
                  IF proc[s] = "none" \/ @ \in {"failed", "exited", "stopped"} THEN @ ELSE Ending(s)]
             /\ walk' = walk + 1 /\ UNCHANGED <<proc, waiting>>
  /\ UNCHANGED <<pc, next, signals, watch, raised, history>>

(* A service obeys SIGTERM, whether it is waited for or not.               *)
ObeysSigTerm(s, code) ==
  /\ proc[s] = "terminating" /\ proc' = [proc EXCEPT ![s] = code]
  /\ UNCHANGED <<main, state, signals, watch, raised, history>>

(* It has exited, or it gets SIGKILL when its grace is over.               *)
Stopped ==
  /\ Tearing /\ waiting
  /\ LET s == InTurn(walk)
     IN /\ proc' = [proc EXCEPT ![s] = IF @ = "terminating" THEN "bad" ELSE @]
        /\ state' = [state EXCEPT ![s] = IF @ = "stopping" THEN "stopped" ELSE @]
  /\ walk' = walk + 1 /\ waiting' = FALSE
  /\ UNCHANGED <<pc, next, signals, watch, raised, history>>

(* stop returns: start raises on; the worker leaves, with the failure the  *)
(* monitor found if nothing else is under way.                             *)
TornDown ==
  /\ Tearing /\ ~waiting /\ walk = N
  /\ pc' = IF pc = "undo" THEN "closing" ELSE "left"
  /\ raised' = IF pc = "stopping" /\ raised = "none" /\ failures THEN "stack" ELSE raised
  /\ UNCHANGED <<next, walk, waiting, processes, signals, watch, history>>

----------------------------------------------------------------------------
Supervising ==
  \/ (\E ok \in BOOLEAN : RunStep(ok) \/ StartService(ok))
  \/ (\E ready, late \in BOOLEAN : AwaitReady(ready, late))
  \/ Begin \/ StopMonitor \/ Leave \/ LastPoll
  \/ IgnoreFailures \/ IgnoreCancel \/ Close \/ StopNext \/ Stopped \/ TornDown
Watching == MonitorPoll \/ MonitorAlarms \/ MonitorEnds
Delivering == \E taken \in BOOLEAN : DeliverAlarm(taken)

SessionNext ==
  \/ Supervising \/ Watching \/ Delivering \/ SigTerm \/ WriteFails \/ MonitorFails
  \/ \E outcome \in {"none", "other"} : MissionReturns(outcome)
  \/ \E s \in Services, code \in Gone : ServiceDies(s, code) \/ ObeysSigTerm(s, code)

SessionSpec == SessionInit /\ [][SessionNext]_session

(* The worker's main thread runs, and so does its monitor, while it has    *)
(* something to report; a signal is delivered.  A mission need not end.    *)
FairSession ==
  /\ SessionSpec /\ WF_session(Supervising) /\ WF_session(Watching) /\ WF_session(Delivering)
----------------------------------------------------------------------------
(* A worker that leaves leaves no service running, whatever it is torn     *)
(* down for and whichever signals arrive meanwhile; except that a signal   *)
(* can hit the finally clause before it has ignored the signals, and that  *)
(* stop gives up when the status file cannot be written.                   *)
NothingLeftRunning ==
  pc = "left" /\ ~escaped /\ faults = 0 => \A s \in Services : proc[s] \notin Alive

(* A service is signalled only when every service started after it, which  *)
(* may depend on it, has gone: also when an interrupted teardown is taken  *)
(* up again.                                                               *)
ReverseTeardown ==
  [][\A s \in Services : proc[s] = "up" /\ proc'[s] = "terminating" =>
       \A t \in Services : t > s => proc[t] \notin Alive]_session

(* A mission does not succeed on a stack that fell apart under it: a       *)
(* required service that ended before the mission did is noticed, by the   *)
(* monitor or by the last poll, though poll reports each end only once.    *)
NoSilentLoss == pc = "left" /\ raised = "none" /\ faults = 0 => lost = {}

(* A required service that ends during the mission ends the mission,       *)
(* unless mission code swallows the exception.                             *)
FailureEndsRun ==
  \A s \in Services :
    (pc = "mission" /\ s \in Failing) ~> (pc = "left" \/ swallowed \/ faults > 0)

(* A service that teardown has signalled ends as stopped                   *)
(* (docs/design/operator-console/README.md).                               *)
StopModeKept ==
  [][\A s \in Services : state[s] = "stopping" => state'[s] \in {"stopping", "stopped"}]_session
=============================================================================
