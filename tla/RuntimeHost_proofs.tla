------------------------- MODULE RuntimeHost_proofs -------------------------
(***************************************************************************)
(* Theorems about the records and the processes of Mission Runs, for any   *)
(* number of runs, Host crashes, dying workers and reused process groups;  *)
(* and, in the second part, about one Run Worker and its Environment       *)
(* Stack, for every number of services and every choice of required and    *)
(* completing ones.                                                        *)
(***************************************************************************)
EXTENDS RuntimeHost, WorkerSession, FiniteSetTheorems, TLAPS

(* What the proofs need of TypeOK.                                         *)
Types == /\ runs \in [Runs -> RunRecord \cup {None}]
         /\ activator \in [Runs -> {"none", "launching", "registering", "reaping", "releasing", "opening"}]
         /\ worker \in [Runs -> Live \cup {"absent", "gone"}]
         /\ services \subseteq Runs /\ accepted \subseteq Runs
         /\ result \in [Runs -> Failures \cup {"succeeded", "cancelled", None}]
         /\ reaper = [r \in Runs |-> reaper[r]]

(* What is true of one run: no process before the record; no work before   *)
(* the identity is on disk and none after the end; a cancellation accepted *)
(* is on the record; and every run but the current one is over.            *)
RunInv(r) ==
  /\ runs[r] = None => /\ worker[r] = "absent" /\ r \notin services /\ r \notin gate
                       /\ activator[r] = "none" /\ r \notin accepted
                       /\ r \notin canceller /\ reaper[r] = None
  /\ worker[r] = "absent" \/ worker[r] = "reporting" => r \notin services
  /\ worker[r] = "reporting" => result[r] # "cancelled"
  /\ activator[r] = "launching" => worker[r] = "absent"
  /\ activator[r] \in {"releasing", "reaping", "opening"} \/ r \in gate \/ Working(r) =>
       runs[r].registered
  /\ Ended(r) => ~Working(r)
  /\ host = "down" => activator[r] = "none"
  /\ r \in accepted =>
       /\ runs[r].cancelled
       /\ Ended(r) /\ r \notin reused =>
            runs[r].status = "cancelled" \/ (~runs[r].registered /\ activator[r] = "none")
  /\ runs[r] # None /\ r # current => Ended(r)

HostInv == Types /\ \A r \in Runs : RunInv(r)

LEMMA HostInvInit == Init => HostInv
BY DEF Init, HostInv, Types, RunInv, Working, Ended

(* A step that leaves a run alone keeps its invariant.                     *)
Same(s) ==
  /\ runs'[s] = runs[s] /\ activator'[s] = activator[s] /\ worker'[s] = worker[s]
  /\ s \in services' <=> s \in services
  /\ s \in gate' <=> s \in gate
  /\ s \in accepted' <=> s \in accepted
  /\ s \in reused => s \in reused'
  /\ s \in canceller' <=> s \in canceller
  /\ reaper'[s] = reaper[s] \/ reaper'[s] = None \/ runs[s] # None
  /\ result'[s] = result[s]

LEMMA SameKeeps ==
  ASSUME NEW s \in Runs, RunInv(s), Same(s), host' = host \/ host' = "up", current' = current
  PROVE  RunInv(s)'
BY DEF RunInv, Same, Working, Ended

LEMMA OneRun ==
  ASSUME HostInv, Types', NEW r \in Runs, UNCHANGED <<host, current>>,
         \A s \in Runs \ {r} : Same(s), RunInv(r)'
  PROVE  HostInv'
BY SameKeeps DEF HostInv

(* What _transition makes of a record.                                     *)
LEMMA TransitionAt ==
  ASSUME Types, NEW r \in Runs, runs[r] # None, NEW status \in {"running"} \cup Terminal,
         NEW class \in Classes \cup {None}, NEW treeExited \in BOOLEAN,
         Transition(r, status, class, treeExited)
  PROVE  /\ runs' \in [Runs -> RunRecord \cup {None}]
         /\ \A s \in Runs \ {r} : runs'[s] = runs[s]
         /\ runs'[r] # None
         /\ runs'[r].cancelled = runs[r].cancelled /\ runs'[r].registered = runs[r].registered
         /\ Ended(r) => runs'[r] = runs[r]
         /\ ~Ended(r) /\ runs'[r].status \in Terminal =>
              status # "running" /\ (runs[r].cancelled => runs'[r].status = "cancelled")
<1>1. runs[r] \in RunRecord
  BY DEF Types
<1>2. PICK t : t = Transitioned(runs[r], status, class, treeExited)
  OBVIOUS
<1>3. runs' = [runs EXCEPT ![r] = t]
  BY <1>2 DEF Transition
<1>4. /\ t \in RunRecord
      /\ t.cancelled = runs[r].cancelled /\ t.registered = runs[r].registered
      /\ runs[r].status \in Terminal => t = runs[r]
      /\ runs[r].status \in Nonterminal /\ t.status \in Terminal =>
           status # "running" /\ (runs[r].cancelled => t.status = "cancelled")
  BY <1>1, <1>2 DEF Transitioned, RunRecord, Nonterminal, Terminal, Classes
<1>5. runs[r].status \in Nonterminal \cup Terminal
  BY <1>1 DEF RunRecord
<1>6. t # None
  BY <1>4, HostAssumption
<1>7. runs'[r] = t /\ \A s \in Runs \ {r} : runs'[s] = runs[s]
  BY <1>3 DEF Types
<1>8. runs' \in [Runs -> RunRecord \cup {None}]
  BY <1>3, <1>4 DEF Types
<1>9. Ended(r) <=> runs[r].status \in Terminal
  BY DEF Ended
<1> QED
  BY <1>4, <1>5, <1>6, <1>7, <1>8, <1>9, Zenon

(* One step of a single run, action by action: the types, the other runs   *)
(* left alone, and the invariant of the run.  Activate, a Host crash and a *)
(* restart concern every run.                                              *)
LEMMA HostInvStep == HostInv /\ [Next]_vars => HostInv'
<1> SUFFICES ASSUME HostInv, [Next]_vars PROVE HostInv'
  OBVIOUS
<1> USE HostAssumption
<1>1. ASSUME NEW r \in Runs,
             \/ ActivatorStep(r) \/ WorkerStep(r) \/ MissionEnds(r) \/ WorkerDies(r)
             \/ GroupReused(r) \/ Cancel(r) \/ LookUp(r) \/ ReaperStep(r)
      PROVE  HostInv'
  <2>0. RunInv(r)
    BY DEF HostInv
  <2>00. Types
    BY DEF HostInv
  <2>1. CASE Launch(r)
    <3>1. Types'
      BY <2>1, <2>0 DEF Launch, HostInv, Types, process, threads, Live
    <3>2. \A s \in Runs \ {r} : Same(s)
      BY <2>1 DEF Launch, HostInv, Types, Same, process, threads
    <3>3. RunInv(r)'
      BY <2>1, <2>0 DEF Launch, HostInv, Types, RunInv, Working, Ended, process, threads
    <3> QED
      BY <2>1, <3>1, <3>2, <3>3, OneRun DEF Launch, process, threads
  <2>2. CASE LaunchFails(r)
    <3>1. runs[r] # None
      BY <2>2, <2>0 DEF LaunchFails, RunInv, Reaping, Working
    <3>2. /\ runs' \in [Runs -> RunRecord \cup {None}]
          /\ \A s \in Runs \ {r} : runs'[s] = runs[s]
          /\ runs'[r] # None
          /\ runs'[r].cancelled = runs[r].cancelled /\ runs'[r].registered = runs[r].registered
          /\ Ended(r) => runs'[r] = runs[r]
          /\ ~Ended(r) /\ runs'[r].status \in Terminal =>
               (runs[r].cancelled => runs'[r].status = "cancelled")
      BY <2>2, <2>00, <2>0, <3>1, TransitionAt DEF LaunchFails, Terminal, Classes, Failures
    <3>3. Types'
      BY <2>2, <2>00, <3>2 DEF LaunchFails, Types, process, threads, Live
    <3>4. \A s \in Runs \ {r} : Same(s)
      BY <2>2, <2>00, <3>2 DEF LaunchFails, Types, Same, process, threads
    <3>5. RunInv(r)'
      BY <2>2, <2>00, <2>0, <3>1, <3>2
      DEF LaunchFails, Types, RunInv, Working, Ended, process, threads
    <3> QED
      BY <2>2, <3>3, <3>4, <3>5, OneRun DEF LaunchFails, process, threads
  <2>3. CASE Register(r)
    <3>1. runs[r] # None
      BY <2>3, <2>0 DEF Register, RunInv
    <3>2. PICK t : t = [runs[r] EXCEPT !.registered = TRUE]
      OBVIOUS
    <3>3. runs' = [runs EXCEPT ![r] = t]
      BY <2>3, <3>2 DEF Register
    <3>4. runs[r] \in RunRecord
      BY <2>00, <3>1 DEF Types
    <3>5. /\ t \in RunRecord /\ t.registered
          /\ t.status = runs[r].status /\ t.cancelled = runs[r].cancelled
      BY <3>2, <3>4 DEF RunRecord
    <3>6. t # None
      BY <3>5
    <3>7. /\ runs'[r] = t /\ runs' \in [Runs -> RunRecord \cup {None}]
          /\ \A s \in Runs \ {r} : runs'[s] = runs[s]
      BY <2>00, <3>3, <3>5 DEF Types
    <3>8. Types'
      BY <2>3, <2>00, <3>7 DEF Register, ReapBy, Types, process
    <3>9. \A s \in Runs \ {r} : Same(s)
      BY <2>3, <2>00, <3>7 DEF Register, ReapBy, Types, Same, process
    <3>10. RunInv(r)'
      BY <2>3, <2>00, <2>0, <3>1, <3>5, <3>6, <3>7
      DEF Register, ReapBy, Types, RunInv, Working, Ended, process
    <3> QED
      BY <2>3, <3>8, <3>9, <3>10, OneRun DEF Register
  <2>4. CASE Release(r)
    <3>1. Types'
      BY <2>4, <2>0 DEF Release, HostInv, Types, process, threads, Live
    <3>2. \A s \in Runs \ {r} : Same(s)
      BY <2>4 DEF Release, HostInv, Types, Same, process, threads
    <3>3. RunInv(r)'
      BY <2>4, <2>0 DEF Release, HostInv, Types, RunInv, Working, Ended, process, threads
    <3> QED
      BY <2>4, <3>1, <3>2, <3>3, OneRun DEF Release, process, threads
  <2>5. CASE OpenGate(r)
    <3>1. Types'
      BY <2>5, <2>0 DEF OpenGate, HostInv, Types, process, threads, Live
    <3>2. \A s \in Runs \ {r} : Same(s)
      BY <2>5 DEF OpenGate, HostInv, Types, Same, process, threads
    <3>3. RunInv(r)'
      BY <2>5, <2>0 DEF OpenGate, HostInv, Types, RunInv, Working, Ended, process, threads
    <3> QED
      BY <2>5, <3>1, <3>2, <3>3, OneRun DEF OpenGate, process, threads
  <2>6. CASE GateTimeout(r)
    <3>1. Types'
      BY <2>6, <2>0 DEF GateTimeout, Exits, HostInv, Types, process, threads, Live
    <3>2. \A s \in Runs \ {r} : Same(s)
      BY <2>6 DEF GateTimeout, Exits, HostInv, Types, Same, process, threads
    <3>3. RunInv(r)'
      BY <2>6, <2>0 DEF GateTimeout, Exits, HostInv, Types, RunInv, Working, Ended, process, threads
    <3> QED
      BY <2>6, <3>1, <3>2, <3>3, OneRun DEF GateTimeout, Exits, process, threads
  <2>7. CASE Check(r)
    <3>1. Types'
      BY <2>7, <2>0
      DEF Check, Exits, Active, Nonterminal, Terminal, HostInv, Types, process, threads, Live
    <3>2. \A s \in Runs \ {r} : Same(s)
      BY <2>7
      DEF Check, Exits, Active, Nonterminal, Terminal, HostInv, Types, Same, process, threads
    <3>3. RunInv(r)'
      BY <2>7, <2>0
      DEF Check, Exits, Active, Nonterminal, Terminal, HostInv, Types, RunInv, Working, Ended,
          process, threads
    <3> QED
      BY <2>7, <3>1, <3>2, <3>3, OneRun
      DEF Check, Exits, Active, Nonterminal, Terminal, process, threads
  <2>8. CASE RunWorker(r)
    <3>1. runs[r] # None
      BY <2>8, <2>0 DEF RunWorker, RunInv, Reaping, Working
    <3>2. /\ runs' \in [Runs -> RunRecord \cup {None}]
          /\ \A s \in Runs \ {r} : runs'[s] = runs[s]
          /\ runs'[r] # None
          /\ runs'[r].cancelled = runs[r].cancelled /\ runs'[r].registered = runs[r].registered
          /\ Ended(r) => runs'[r] = runs[r]
          /\ ~Ended(r) /\ runs'[r].status \in Terminal =>
               FALSE
      BY <2>8, <2>00, <2>0, <3>1, TransitionAt DEF RunWorker, Terminal, Classes, Failures
    <3>3. Types'
      BY <2>8, <2>00, <3>2 DEF RunWorker, Types, process, threads, Live
    <3>4. \A s \in Runs \ {r} : Same(s)
      BY <2>8, <2>00, <3>2 DEF RunWorker, Types, Same, process, threads
    <3>5. RunInv(r)'
      BY <2>8, <2>00, <2>0, <3>1, <3>2 DEF RunWorker, Types, RunInv, Working, Ended, process, threads
    <3> QED
      BY <2>8, <3>3, <3>4, <3>5, OneRun DEF RunWorker, process, threads
  <2>9. CASE TearDown(r)
    <3>1. Types'
      BY <2>9, <2>0 DEF TearDown, HostInv, Types, process, threads, Live
    <3>2. \A s \in Runs \ {r} : Same(s)
      BY <2>9 DEF TearDown, HostInv, Types, Same, process, threads
    <3>3. RunInv(r)'
      BY <2>9, <2>0 DEF TearDown, HostInv, Types, RunInv, Working, Ended, process, threads
    <3> QED
      BY <2>9, <3>1, <3>2, <3>3, OneRun DEF TearDown, process, threads
  <2>10. CASE Report(r)
    <3>1. runs[r] # None
      BY <2>10, <2>0 DEF Report, RunInv, Reaping, Working
    <3>2. /\ runs' \in [Runs -> RunRecord \cup {None}]
          /\ \A s \in Runs \ {r} : runs'[s] = runs[s]
          /\ runs'[r] # None
          /\ runs'[r].cancelled = runs[r].cancelled /\ runs'[r].registered = runs[r].registered
          /\ Ended(r) => runs'[r] = runs[r]
          /\ ~Ended(r) /\ runs'[r].status \in Terminal =>
               (runs[r].cancelled => runs'[r].status = "cancelled")
      BY <2>10, <2>00, <2>0, <3>1, TransitionAt
      DEF Report, Terminal, Classes, Failures, Types, RunInv
    <3>3. Types'
      BY <2>10, <2>00, <3>2 DEF Report, Exits, Types, process, threads, Live
    <3>4. \A s \in Runs \ {r} : Same(s)
      BY <2>10, <2>00, <3>2 DEF Report, Exits, Types, Same, process, threads
    <3>5. RunInv(r)'
      BY <2>10, <2>00, <2>0, <3>1, <3>2
      DEF Report, Exits, Types, RunInv, Working, Ended, process, threads
    <3> QED
      BY <2>10, <3>3, <3>4, <3>5, OneRun DEF Report, Exits, process, threads
  <2>11. CASE TreeExits(r)
    <3>1. Types'
      BY <2>11, <2>0 DEF TreeExits, Exits, HostInv, Types, process, threads, Live
    <3>2. \A s \in Runs \ {r} : Same(s)
      BY <2>11 DEF TreeExits, Exits, HostInv, Types, Same, process, threads
    <3>3. RunInv(r)'
      BY <2>11, <2>0 DEF TreeExits, Exits, HostInv, Types, RunInv, Working, Ended, process, threads
    <3> QED
      BY <2>11, <3>1, <3>2, <3>3, OneRun DEF TreeExits, Exits, process, threads
  <2>12. CASE MissionEnds(r)
    <3>1. Types'
      BY <2>12, <2>0 DEF MissionEnds, HostInv, Types, process, threads, Live
    <3>2. \A s \in Runs \ {r} : Same(s)
      BY <2>12 DEF MissionEnds, HostInv, Types, Same, process, threads
    <3>3. RunInv(r)'
      BY <2>12, <2>0 DEF MissionEnds, HostInv, Types, RunInv, Working, Ended, process, threads
    <3> QED
      BY <2>12, <3>1, <3>2, <3>3, OneRun DEF MissionEnds, process, threads
  <2>13. CASE WorkerDies(r)
    <3>1. Types'
      BY <2>13, <2>0 DEF WorkerDies, Exits, Live, HostInv, Types, process, threads, Live
    <3>2. \A s \in Runs \ {r} : Same(s)
      BY <2>13 DEF WorkerDies, Exits, Live, HostInv, Types, Same, process, threads
    <3>3. RunInv(r)'
      BY <2>13, <2>0
      DEF WorkerDies, Exits, Live, HostInv, Types, RunInv, Working, Ended, process, threads
    <3> QED
      BY <2>13, <3>1, <3>2, <3>3, OneRun DEF WorkerDies, Exits, Live, process, threads
  <2>14. CASE GroupReused(r)
    <3>1. Types'
      BY <2>14, <2>0 DEF GroupReused, HostInv, Types, process, threads, Live
    <3>2. \A s \in Runs \ {r} : Same(s)
      BY <2>14 DEF GroupReused, HostInv, Types, Same, process, threads
    <3>3. RunInv(r)'
      BY <2>14, <2>0 DEF GroupReused, HostInv, Types, RunInv, Working, Ended, process, threads
    <3> QED
      BY <2>14, <3>1, <3>2, <3>3, OneRun DEF GroupReused, process, threads
  <2>15. CASE Cancel(r)
    <3>1. runs[r] # None
      BY <2>15 DEF Cancel
    <3>2. PICK t : t = [runs[r] EXCEPT !.cancelled = TRUE]
      OBVIOUS
    <3>3. runs' = [runs EXCEPT ![r] = t]
      BY <2>15, <3>2 DEF Cancel
    <3>4. runs[r] \in RunRecord
      BY <2>00, <3>1 DEF Types
    <3>5. /\ t \in RunRecord /\ t.cancelled
          /\ t.status = runs[r].status /\ t.registered = runs[r].registered
      BY <3>2, <3>4 DEF RunRecord
    <3>6. t # None
      BY <3>5
    <3>7. /\ runs'[r] = t /\ runs' \in [Runs -> RunRecord \cup {None}]
          /\ \A s \in Runs \ {r} : runs'[s] = runs[s]
      BY <2>00, <3>3, <3>5 DEF Types
    <3>8. Types'
      BY <2>15, <2>00, <3>7 DEF Cancel, ReapBy, Types, process
    <3>9. \A s \in Runs \ {r} : Same(s)
      BY <2>15, <2>00, <3>7 DEF Cancel, ReapBy, Types, Same, process
    <3>10. RunInv(r)'
      BY <2>15, <2>00, <2>0, <3>1, <3>5, <3>6, <3>7
      DEF Cancel, ReapBy, Types, RunInv, Working, Ended, Active, Nonterminal, Terminal, process
    <3> QED
      BY <2>15, <3>8, <3>9, <3>10, OneRun DEF Cancel
  <2>16. CASE LookUp(r)
    <3>1. Types'
      BY <2>16, <2>0 DEF LookUp, ReapBy, HostInv, Types, process, threads, Live
    <3>2. \A s \in Runs \ {r} : Same(s)
      BY <2>16 DEF LookUp, ReapBy, HostInv, Types, Same, process, threads
    <3>3. RunInv(r)'
      BY <2>16, <2>0 DEF LookUp, ReapBy, HostInv, Types, RunInv, Working, Ended, process, threads
    <3> QED
      BY <2>16, <3>1, <3>2, <3>3, OneRun DEF LookUp, ReapBy, process, threads
  <2>17. CASE Terminate(r)
    <3>1. Types'
      BY <2>17, <2>0 DEF Terminate, Reaping, HostInv, Types, process, threads, Live
    <3>2. \A s \in Runs \ {r} : Same(s)
      BY <2>17 DEF Terminate, Reaping, HostInv, Types, Same, process, threads
    <3>3. RunInv(r)'
      BY <2>17, <2>0 DEF Terminate, Reaping, HostInv, Types, RunInv, Working, Ended, process, threads
    <3> QED
      BY <2>17, <3>1, <3>2, <3>3, OneRun DEF Terminate, Reaping, process, threads
  <2>18. CASE Kill(r)
    <3>1. Types'
      BY <2>18, <2>0 DEF Kill, Owned, Live, Reaping, HostInv, Types, process, threads, Live
    <3>2. \A s \in Runs \ {r} : Same(s)
      BY <2>18 DEF Kill, Owned, Live, Reaping, HostInv, Types, Same, process, threads
    <3>3. RunInv(r)'
      BY <2>18, <2>0
      DEF Kill, Owned, Live, Reaping, HostInv, Types, RunInv, Working, Ended, process, threads
    <3> QED
      BY <2>18, <3>1, <3>2, <3>3, OneRun DEF Kill, Owned, Live, Reaping, process, threads
  <2>19. CASE Reap(r)
    <3>1. runs[r] # None
      BY <2>19, <2>0 DEF Reap, RunInv, Reaping, Working
    <3>2. /\ runs' \in [Runs -> RunRecord \cup {None}]
          /\ \A s \in Runs \ {r} : runs'[s] = runs[s]
          /\ runs'[r] # None
          /\ runs'[r].cancelled = runs[r].cancelled /\ runs'[r].registered = runs[r].registered
          /\ Ended(r) => runs'[r] = runs[r]
          /\ ~Ended(r) /\ runs'[r].status \in Terminal =>
               (runs[r].cancelled => runs'[r].status = "cancelled")
      BY <2>19, <2>00, <2>0, <3>1, TransitionAt DEF Reap, Terminal, Classes, Failures
    <3>3. Types'
      BY <2>19, <2>00, <3>2 DEF Reap, Owned, Live, Reaped, Reaping, Types, process, threads, Live
    <3>4. \A s \in Runs \ {r} : Same(s)
      BY <2>19, <2>00, <3>2 DEF Reap, Owned, Live, Reaped, Reaping, Types, Same, process, threads
    <3>5. RunInv(r)'
      BY <2>19, <2>00, <2>0, <3>1, <3>2
      DEF Reap, Owned, Live, Reaped, Reaping, Types, RunInv, Working, Ended, process, threads
    <3> QED
      BY <2>19, <3>3, <3>4, <3>5, OneRun DEF Reap, Owned, Live, Reaped, Reaping, process, threads
  <2>20. CASE FinishUnowned(r)
    <3>1. runs[r] # None
      BY <2>20, <2>0 DEF FinishUnowned, RunInv, Reaping, Working
    <3>2. /\ runs' \in [Runs -> RunRecord \cup {None}]
          /\ \A s \in Runs \ {r} : runs'[s] = runs[s]
          /\ runs'[r] # None
          /\ runs'[r].cancelled = runs[r].cancelled /\ runs'[r].registered = runs[r].registered
          /\ Ended(r) => runs'[r] = runs[r]
          /\ ~Ended(r) /\ runs'[r].status \in Terminal =>
               (runs[r].cancelled => runs'[r].status = "cancelled" \/ r \in reused)
      <4>1. CASE r \notin reused
        BY <2>20, <2>00, <3>1, <4>1, TransitionAt DEF FinishUnowned, Terminal, Classes
      <4>2. CASE r \in reused /\ ~Active(r)
        <5>0. runs[r] \in RunRecord /\ Ended(r) /\ runs' = runs
          BY <2>20, <2>00, <3>1, <4>2 DEF FinishUnowned, Types, Active, Ended, RunRecord
        <5> QED
          BY <2>00, <3>1, <5>0 DEF Types
      <4>3. CASE r \in reused /\ Active(r)
        <5>1. runs[r] \in RunRecord
          BY <2>00, <3>1 DEF Types
        <5>2. PICK t : t = [runs[r] EXCEPT !.status = "failed", !.class = "host_interrupted"]
          OBVIOUS
        <5>3. runs' = [runs EXCEPT ![r] = t]
          BY <2>20, <4>3, <5>2, <2>00, <5>1 DEF FinishUnowned, Types, RunRecord
        <5>4. t \in RunRecord /\ t.cancelled = runs[r].cancelled /\ t.registered = runs[r].registered
          BY <5>1, <5>2 DEF RunRecord, Terminal, Classes
        <5>5. ~Ended(r)
          BY <4>3 DEF Active, Ended, Nonterminal, Terminal
        <5> QED
          <6>1. runs'[r] = t /\ (\A s \in Runs \ {r} : runs'[s] = runs[s]) /\ t # None
            BY <2>00, <5>3, <5>4 DEF Types
          <6>2. runs' \in [Runs -> RunRecord \cup {None}]
            BY <2>00, <5>3, <5>4 DEF Types
          <6> QED
            BY <4>3, <5>4, <5>5, <6>1, <6>2
      <4> QED
        BY <4>1, <4>2, <4>3
    <3>3. Types'
      BY <2>20, <2>00, <3>2
      DEF FinishUnowned, Owned, Live, Reaped, Reaping, Types, process, threads, Live
    <3>4. \A s \in Runs \ {r} : Same(s)
      BY <2>20, <2>00, <3>2
      DEF FinishUnowned, Owned, Live, Reaped, Reaping, Types, Same, process, threads
    <3>5. RunInv(r)'
      BY <2>20, <2>00, <2>0, <3>1, <3>2
      DEF FinishUnowned, Owned, Live, Reaped, Reaping, Types, RunInv, Working, Ended, process,
          threads
    <3> QED
      BY <2>20, <3>3, <3>4, <3>5, OneRun
      DEF FinishUnowned, Owned, Live, Reaped, Reaping, process, threads
  <2> QED
    BY <1>1, <2>1, <2>2, <2>3, <2>4, <2>5, <2>6, <2>7, <2>8, <2>9, <2>10, <2>11, <2>12,
       <2>13, <2>14, <2>15, <2>16, <2>17, <2>18, <2>19, <2>20
    DEF ActivatorStep, WorkerStep, ReaperStep
<1>2. ASSUME NEW r \in Runs, Activate(r) PROVE HostInv'
  <2>1. Types'
    BY <1>2 DEF Activate, HostInv, Types, RunRecord, Nonterminal, process
  <2>2. ASSUME NEW s \in Runs PROVE RunInv(s)'
    <3>1. RunInv(s)
      BY DEF HostInv
    <3>2. CASE s = r
      <4>1. runs[s] = None /\ host = "up" /\ host' = "up" /\ current' = s /\ s \notin accepted'
        BY <1>2, <3>1, <3>2 DEF Activate, Serving, RunInv
      <4>2. /\ runs'[s] \in RunRecord /\ runs'[s].status = "queued" /\ ~runs'[s].registered
            /\ activator'[s] = "launching"
        BY <1>2, <3>2 DEF Activate, HostInv, Types, RunRecord, Nonterminal
      <4>3. ~Ended(s)'
        BY <4>2 DEF Ended, Terminal
      <4>4. /\ worker'[s] = "absent" /\ s \notin services' /\ s \notin gate'
        BY <1>2, <3>1, <4>1 DEF Activate, RunInv, process
      <4> QED
        BY <4>1, <4>2, <4>3, <4>4 DEF RunInv, Working
    <3>3. CASE s # r
      BY <1>2, <3>1, <3>3
      DEF Activate, HostInv, Types, RunInv, Working, Ended, Active, RunRecord, process
    <3> QED
      BY <3>2, <3>3
  <2> QED
    BY <2>1, <2>2 DEF HostInv
<1>3. CASE HostCrash
  <2>1. Types'
    BY <1>3 DEF HostCrash, HostInv, Types, process
  <2>2. ASSUME NEW s \in Runs PROVE RunInv(s)'
    BY <1>3 DEF HostCrash, HostInv, Types, RunInv, Working, Ended, process
  <2> QED
    BY <2>1, <2>2 DEF HostInv
<1>4. CASE HostRestart
  <2>1. Types'
    <3>1. ASSUME NEW s \in Runs, Active(s) PROVE Interrupted(s) \in RunRecord
      BY <3>1 DEF Active, HostInv, Types, Interrupted, RunRecord, Terminal, Classes
    <3>2. runs' \in [Runs -> RunRecord \cup {None}]
      BY <1>4, <3>1 DEF HostRestart, HostInv, Types
    <3>3. reaper' = [s \in Runs |-> reaper'[s]]
      BY <1>4 DEF HostRestart
    <3> QED
      BY <1>4, <3>2, <3>3 DEF HostRestart, HostInv, Types, process
  <2>2. ASSUME NEW s \in Runs PROVE RunInv(s)'
    <3>0. RunInv(s)
      BY DEF HostInv
    <3>1. CASE Active(s) /\ ~Recoverable(s)
      <4>1. runs'[s] = Interrupted(s)
        BY <1>4, <3>1 DEF HostRestart
      <4>2. runs[s] # None /\ runs[s] \in RunRecord
        BY <3>1 DEF Active, HostInv, Types
      <4>3. /\ runs'[s].cancelled = runs[s].cancelled /\ runs'[s].registered = runs[s].registered
            /\ runs'[s].status \in Terminal
            /\ runs[s].registered /\ runs[s].cancelled /\ s \notin reused => runs'[s].status = "cancelled"
            /\ runs'[s] \in RunRecord
        <5>1. CASE runs[s].cancelled
          BY <4>1, <4>2, <5>1 DEF Interrupted, RunRecord, Terminal, Classes
        <5>2. CASE ~runs[s].cancelled
          <6>1. runs'[s] = [runs[s] EXCEPT !.status = "failed", !.class = "host_interrupted"]
            BY <4>1, <5>2 DEF Interrupted
          <6>2. "failed" \in Terminal /\ "host_interrupted" \in Classes
            BY DEF Terminal, Classes
          <6> QED
            BY <4>2, <5>2, <6>1, <6>2 DEF RunRecord
        <5> QED
          BY <5>1, <5>2
      <4>4. ~Working(s)
        BY <3>0, <3>1 DEF Recoverable, Owned, Live, RunInv, Working
      <4>5. UNCHANGED <<activator, worker, services, gate, accepted, reused, current>> /\ activator[s] = "none"
        BY <1>4, <3>0 DEF HostRestart, process, RunInv
      <4>6. runs'[s] # None
        BY <4>3
      <4>7. ~Working(s)'
        BY <4>4, <4>5 DEF Working
      <4>8. runs[s].status \in Nonterminal
        BY <3>1 DEF Active
      <4>9. worker'[s] = "reporting" \/ worker'[s] = "absent" => s \notin services'
        BY <3>0, <4>5 DEF RunInv
      <4>10. s \in gate' => runs'[s].registered
        BY <3>0, <4>5, <4>3 DEF RunInv
      <4>11. s \in accepted' => runs'[s].cancelled /\ s \in accepted
        BY <3>0, <4>5, <4>3 DEF RunInv
      <4>12. worker'[s] = "reporting" => result'[s] # "cancelled"
        BY <1>4, <3>0 DEF HostRestart, process, RunInv
      <4> QED
        BY <4>12, <4>3, <4>5, <4>6, <4>7, <4>9, <4>10, <4>11 DEF RunInv, Ended
    <3>2. CASE ~(Active(s) /\ ~Recoverable(s))
      <4>1. Same(s) /\ host' = "up" /\ current' = current
        BY <1>4, <3>2 DEF HostRestart, Same, process, Recoverable, Active
      <4> QED
        BY <3>0, <4>1, SameKeeps
    <3> QED
      BY <3>1, <3>2
  <2> QED
    BY <2>1, <2>2 DEF HostInv
<1>5. CASE UNCHANGED vars
  BY <1>5, SameKeeps DEF vars, HostInv, Types, Same
<1> QED
  BY <1>1, <1>2, <1>3, <1>4, <1>5 DEF Next

LEMMA HostInvAlways == Spec => []HostInv
BY HostInvInit, HostInvStep, PTL DEF Spec

(* Whatever works for a run works for a run whose process identity is on   *)
(* disk, so that a restarted Host finds all of it (_register_worker and    *)
(* the two gates of the worker).                                           *)
THEOREM WorkIsFound == Spec => []WorkIsRegistered
<1>1. HostInv => WorkIsRegistered
  BY DEF HostInv, RunInv, Working, WorkIsRegistered
<1> QED
  BY <1>1, HostInvAlways, PTL

(* A record that says its run is over is true: no worker works and no      *)
(* stack process lives, whoever closed the run.                            *)
THEOREM ClosedRunsAreReaped == Spec => []EndedIsReaped
<1>1. HostInv => EndedIsReaped
  BY DEF HostInv, RunInv, Working, EndedIsReaped
<1> QED
  BY <1>1, HostInvAlways, PTL

(* Only the current run has work going on, so at most one has.             *)
THEOREM WorkIsExclusive == Spec => []OneRunAtWork
<1>1. ASSUME HostInv PROVE OneRunAtWork
  <2> DEFINE W == {r \in Runs : Working(r)}
  <2>1. \A r \in W : r = current
    BY <1>1 DEF HostInv, RunInv, Working, Ended
  <2>2. W = {} \/ W = {current}
    BY <2>1
  <2>3. Cardinality(W) = 0 \/ Cardinality(W) = 1
    BY <2>2, FS_EmptySet, FS_Singleton
  <2>4. Cardinality(W) <= 1
    BY <2>3
  <2> QED
    BY <2>4 DEF OneRunAtWork, Working
<1> QED
  BY <1>1, HostInvAlways, PTL

(* A cancellation accepted while the run was open decides how it ends, once *)
(* the worker was registered, unless a stranger took its process group.    *)
THEOREM CancellationWins == Spec => []AcceptedCancelStands
<1>1. ASSUME HostInv PROVE AcceptedCancelStands
  <2>1. accepted \subseteq Runs
    BY <1>1 DEF HostInv, Types
  <2> QED
    BY <1>1, <2>1 DEF HostInv, RunInv, AcceptedCancelStands
<1> QED
  BY <1>1, HostInvAlways, PTL

LEMMA TransitionOfEnded ==
  ASSUME Types, NEW r \in Runs, Ended(r), NEW q \in Runs, NEW status, NEW class, NEW treeExited,
         Transition(q, status, class, treeExited)
  PROVE  runs'[r] = runs[r]
BY DEF Types, Ended, Transition, Transitioned, Nonterminal, Terminal

(* An end is final: nothing overwrites the status and the classification   *)
(* of a closed run, and no activation reopens it.                          *)
THEOREM EndsAreFinal == Spec => EndsOnce
<1>1. ASSUME HostInv, [Next]_vars, NEW r \in Runs, Ended(r)
      PROVE  runs'[r].status = runs[r].status /\ runs'[r].class = runs[r].class
  <2>0. Types /\ runs[r] \in RunRecord /\ ~Active(r)
    BY <1>1 DEF HostInv, Types, Ended, Active, Nonterminal, Terminal
  <2>1. ASSUME NEW q \in Runs, LaunchFails(q) \/ RunWorker(q) \/ Report(q) \/ Reap(q)
        PROVE  runs'[r] = runs[r]
    BY <1>1, <2>0, <2>1, TransitionOfEnded DEF LaunchFails, RunWorker, Report, Reap
  <2>2. ASSUME NEW q \in Runs, Register(q) \/ Cancel(q)
        PROVE  runs'[r].status = runs[r].status /\ runs'[r].class = runs[r].class
    BY <1>1, <2>0, <2>2 DEF Register, Cancel, Types, RunRecord
  <2>3. ASSUME NEW q \in Runs, FinishUnowned(q) PROVE runs'[r] = runs[r]
    <3>1. CASE q \notin reused
      BY <1>1, <2>0, <2>3, <3>1, TransitionOfEnded DEF FinishUnowned
    <3>2. CASE q \in reused
      BY <1>1, <2>0, <2>3, <3>2 DEF FinishUnowned, Types
    <3> QED
      BY <3>1, <3>2
  <2>4. ASSUME NEW q \in Runs, Activate(q) PROVE runs'[r] = runs[r]
    BY <1>1, <2>0, <2>4 DEF Activate, Ended, Types
  <2>5. CASE HostRestart
    BY <1>1, <2>0, <2>5 DEF HostRestart
  <2>6. CASE UNCHANGED runs
    BY <2>6
  <2>7. ASSUME NEW q \in Runs,
               \/ Launch(q) \/ Release(q) \/ OpenGate(q) \/ GateTimeout(q) \/ Check(q)
               \/ TearDown(q) \/ TreeExits(q) \/ MissionEnds(q) \/ WorkerDies(q)
               \/ GroupReused(q) \/ LookUp(q) \/ Terminate(q) \/ Kill(q)
        PROVE  UNCHANGED runs
    BY <2>7 DEF Launch, Release, OpenGate, GateTimeout, Check, TearDown, TreeExits, MissionEnds,
                WorkerDies, GroupReused, LookUp, Terminate, Kill
  <2> QED
    BY <1>1, <2>1, <2>2, <2>3, <2>4, <2>5, <2>6, <2>7
    DEF Next, ActivatorStep, WorkerStep, ReaperStep, HostCrash, vars
<1>2. HostInv /\ [Next]_vars =>
        \A r \in Runs : Ended(r) => runs'[r].status = runs[r].status /\ runs'[r].class = runs[r].class
  BY <1>1
<1> QED
  BY <1>2, HostInvAlways, PTL DEF Spec, EndsOnce

(***************************************************************************)
(* The abstract lifecycle.                                                 *)
(***************************************************************************)
Opened == {r \in Runs : runs[r] # None}
AtWork == {r \in Runs : Working(r)}
EndOf(r) == [run |-> r, outcome |-> <<runs[r].status, runs[r].class>>]
Ends == {EndOf(r) : r \in {s \in Runs : Ended(s)}}

(* What a step does is seen in these three sets, and in nothing else.      *)
LEMMA LifecycleSteps ==
  /\ Lifecycle!LInit <=> Opened = {} /\ AtWork = {} /\ Ends = {}
  /\ UNCHANGED Lifecycle!lvars <=> UNCHANGED <<Opened, AtWork, Ends>>
  /\ \A r \in Runs :
       Lifecycle!Accept(r) <=>
         r \notin Opened /\ (\A s \in Opened : Ended(s)) /\ Opened' = Opened \cup {r} /\ UNCHANGED <<AtWork, Ends>>
  /\ \A r \in Runs :
       Lifecycle!Begin(r) <=>
         r \in Opened /\ ~Ended(r) /\ AtWork' = AtWork \cup {r} /\ UNCHANGED <<Opened, Ends>>
  /\ \A r \in Runs : Lifecycle!Leave(r) <=> AtWork' = AtWork \ {r} /\ UNCHANGED <<Opened, Ends>>
  /\ \A r \in Runs : \A outcome :
       Lifecycle!End(r, outcome) <=>
         /\ r \in Opened \ AtWork /\ ~Ended(r)
         /\ Ends' = Ends \cup {[run |-> r, outcome |-> outcome]} /\ UNCHANGED <<Opened, AtWork>>
<1>1. Lifecycle!Closed = {r \in Runs : Ended(r)}
  <2>1. Lifecycle!Closed = {e.run : e \in Ends}
    BY DEF Lifecycle!Closed, Ends, EndOf
  <2>2. \A r : EndOf(r).run = r
    BY DEF EndOf
  <2> QED
    BY <2>1, <2>2 DEF Ends
<1>2. Lifecycle!Open = {r \in Opened : ~Ended(r)}
  BY <1>1 DEF Lifecycle!Open, Opened
<1> QED
  BY <1>2 DEF Lifecycle!LInit, Lifecycle!lvars, Lifecycle!Accept, Lifecycle!Begin, Lifecycle!Leave, Lifecycle!End,
              Opened, AtWork, Ends, EndOf

(* The Outcomes of the refinement.                                         *)
Outcomes == Terminal \X (Classes \cup {None})
Mapped == (\E r \in Runs : Lifecycle!Accept(r) \/ Lifecycle!Begin(r) \/ Lifecycle!Leave(r)
                           \/ \E outcome \in Outcomes : Lifecycle!End(r, outcome))
          \/ UNCHANGED Lifecycle!lvars

(* A step that opens and ends no run moves the work of one run at most.    *)
LEMMA WorkMoves ==
  ASSUME HostInv, HostInv', NEW r \in Runs,
         \A s \in Runs : /\ runs'[s] = None <=> runs[s] = None
                         /\ Ended(s)' <=> Ended(s)
                         /\ Ended(s) => EndOf(s)' = EndOf(s),
         \A s \in Runs \ {r} : Working(s)' <=> Working(s)
  PROVE  Mapped
<1>1. Opened' = Opened
  BY DEF Opened
<1>2. Ends' = Ends
  <2>1. Ends' = {EndOf(s)' : s \in {q \in Runs : Ended(q)'}}
    BY DEF Ends
  <2> QED
    BY <2>1 DEF Ends
<1>3. CASE Working(r)'
  <2>1. AtWork' = AtWork \cup {r}
    BY <1>3 DEF AtWork
  <2>2. runs'[r] # None /\ ~Ended(r)'
    BY <1>3 DEF HostInv, RunInv, Working
  <2>3. r \in Opened /\ ~Ended(r)
    BY <2>2 DEF Opened
  <2> QED
    BY <1>1, <1>2, <2>1, <2>3, LifecycleSteps DEF Mapped
<1>4. CASE ~Working(r)'
  <2>1. AtWork' = AtWork \ {r}
    BY <1>4 DEF AtWork
  <2> QED
    BY <1>1, <1>2, <2>1, LifecycleSteps DEF Mapped
<1> QED
  BY <1>3, <1>4

(* A step that moves no work may end one open run.                         *)
LEMMA RecordMoves ==
  ASSUME HostInv, HostInv', NEW r \in Runs, runs[r] # None, runs'[r] # None,
         \A s \in Runs \ {r} : runs'[s] = runs[s],
         Ended(r) => runs'[r] = runs[r],
         \A s \in Runs : Working(s)' <=> Working(s)
  PROVE  Mapped
<1>1. ASSUME NEW s \in Runs, runs'[s] = runs[s]
      PROVE  (runs'[s] = None <=> runs[s] = None) /\ (Ended(s)' <=> Ended(s)) /\ EndOf(s)' = EndOf(s)
  BY <1>1 DEF Ended, EndOf
<1>2. CASE Ended(r)' <=> Ended(r)
  BY <1>1, <1>2, WorkMoves
<1>3. CASE Ended(r)' /\ ~Ended(r)
  <2>1. Opened' = Opened /\ r \in Opened
    BY <1>1 DEF Opened
  <2>2. AtWork' = AtWork /\ r \notin AtWork
    BY <1>3 DEF AtWork, HostInv, RunInv
  <2>3. Ends' = Ends \cup {EndOf(r)'}
    <3>1. Ends' = {EndOf(s)' : s \in {q \in Runs : Ended(q)'}}
      BY DEF Ends
    <3>2. \A s \in Runs : Ended(s)' <=> Ended(s) \/ s = r
      BY <1>1, <1>3
    <3>3. \A s \in Runs : Ended(s) => EndOf(s)' = EndOf(s)
      BY <1>1, <1>3
    <3> QED
      BY <3>1, <3>2, <3>3 DEF Ends
  <2>4. PICK outcome : outcome = <<runs'[r].status, runs'[r].class>>
    OBVIOUS
  <2>5. outcome \in Outcomes
    BY <1>3, <2>4 DEF HostInv, Types, RunRecord, Ended, Outcomes
  <2>6. EndOf(r)' = [run |-> r, outcome |-> outcome]
    BY <2>4 DEF EndOf
  <2>7. Lifecycle!End(r, outcome)
    BY <1>3, <2>1, <2>2, <2>3, <2>6, LifecycleSteps
  <2> QED
    BY <2>5, <2>7 DEF Mapped
<1>4. Ended(r) => Ended(r)'
  BY <1>1
<1> QED
  BY <1>2, <1>3, <1>4

LEMMA NothingMoves ==
  ASSUME UNCHANGED <<runs, worker, services>>
  PROVE  Mapped
<1>1. UNCHANGED <<Opened, AtWork, Ends>>
  BY DEF Opened, AtWork, Ends, EndOf, Ended, Working
<1> QED
  BY <1>1, LifecycleSteps DEF Mapped

(* Steps of the activator, the worker, a canceller or the reaper that end  *)
(* no run.                                                                 *)
LEMMA WorkSteps ==
  ASSUME HostInv, HostInv', NEW r \in Runs,
         \/ Launch(r) \/ Register(r) \/ Release(r) \/ OpenGate(r) \/ GateTimeout(r) \/ Check(r) \/ RunWorker(r)
         \/ MissionEnds(r) \/ TearDown(r) \/ TreeExits(r) \/ WorkerDies(r) \/ GroupReused(r)
         \/ Cancel(r) \/ LookUp(r) \/ Terminate(r) \/ Kill(r)
  PROVE  Mapped
<1>1. Types /\ RunInv(r)
  BY DEF HostInv
<1>2. CASE \/ Launch(r) \/ Release(r) \/ OpenGate(r) \/ GateTimeout(r) \/ Check(r) \/ MissionEnds(r) \/ TearDown(r)
           \/ TreeExits(r) \/ WorkerDies(r) \/ GroupReused(r) \/ LookUp(r) \/ Terminate(r) \/ Kill(r)
  <2>1. UNCHANGED runs
    BY <1>2 DEF Launch, Release, OpenGate, GateTimeout, Check, TearDown, TreeExits, MissionEnds,
                WorkerDies, GroupReused, LookUp, Terminate, Kill
  <2>2. ASSUME NEW s \in Runs \ {r} PROVE worker'[s] = worker[s] /\ (s \in services' <=> s \in services)
    BY <1>1, <1>2 DEF Launch, Release, OpenGate, GateTimeout, Check, TearDown, TreeExits, MissionEnds,
                WorkerDies, GroupReused, LookUp, Terminate, Kill, Exits, Types, process
  <2>3. \A s \in Runs \ {r} : Working(s)' <=> Working(s)
    BY <2>2 DEF Working
  <2> QED
    BY <2>1, <2>3, WorkMoves DEF Ended, EndOf
<1>3. ASSUME NEW rec, runs' = [runs EXCEPT ![r] = rec], runs[r] # None, rec # None,
             rec.status = runs[r].status \/ {rec.status, runs[r].status} \subseteq Nonterminal,
             rec.class = runs[r].class,
             \A s \in Runs \ {r} : Working(s)' <=> Working(s)
      PROVE  Mapped
  <2>1. runs'[r] = rec /\ \A s \in Runs \ {r} : runs'[s] = runs[s]
    BY <1>1, <1>3 DEF Types
  <2>2. Ended(r)' <=> Ended(r)
    BY <1>3, <2>1 DEF Ended, Terminal, Nonterminal
  <2>3. Ended(r) => EndOf(r)' = EndOf(r)
    BY <1>3, <2>1 DEF Ended, EndOf, Terminal, Nonterminal
  <2>4. ASSUME NEW s \in Runs
        PROVE  /\ runs'[s] = None <=> runs[s] = None
               /\ Ended(s)' <=> Ended(s)
               /\ Ended(s) => EndOf(s)' = EndOf(s)
    <3>1. CASE s = r
      BY <1>3, <2>1, <2>2, <2>3, <3>1
    <3>2. CASE s # r
      BY <2>1, <3>2 DEF Ended, EndOf
    <3> QED
      BY <3>1, <3>2
  <2> QED
    BY <1>3, <2>4, WorkMoves
<1>4. runs[r] # None => runs[r] \in RunRecord
  BY <1>1 DEF Types
<1>5. CASE Register(r) \/ Cancel(r)
  <2>1. runs[r] # None /\ UNCHANGED <<worker, services>>
    BY <1>1, <1>5 DEF Register, Cancel, process, RunInv
  <2>2. PICK rec : /\ rec \in {[runs[r] EXCEPT !.registered = TRUE], [runs[r] EXCEPT !.cancelled = TRUE]}
                   /\ runs' = [runs EXCEPT ![r] = rec]
    BY <1>5 DEF Register, Cancel
  <2>3. rec \in RunRecord /\ rec.status = runs[r].status /\ rec.class = runs[r].class
    BY <1>4, <2>1, <2>2 DEF RunRecord
  <2>4. rec # None
    BY <2>3, HostAssumption
  <2> QED
    BY <1>3, <2>1, <2>2, <2>3, <2>4 DEF Working
<1>6. CASE RunWorker(r)
  <2>1. Working(r) /\ runs[r] # None /\ ~Ended(r)
    BY <1>1, <1>6 DEF RunWorker, RunInv, Working
  <2>2. PICK rec : rec = Transitioned(runs[r], "running", None, FALSE)
    OBVIOUS
  <2>3. runs' = [runs EXCEPT ![r] = rec]
    BY <1>6, <2>2 DEF RunWorker, Transition
  <2>4. runs[r].status \in Nonterminal
    BY <1>4, <2>1 DEF Ended, RunRecord
  <2>5. rec = [runs[r] EXCEPT !.status = "running"]
    BY <2>2, <2>4 DEF Transitioned
  <2>6. rec \in RunRecord /\ rec.status = "running" /\ rec.class = runs[r].class
    BY <1>4, <2>1, <2>5 DEF RunRecord, Nonterminal
  <2>7. rec # None /\ {rec.status, runs[r].status} \subseteq Nonterminal
    BY <2>4, <2>6, HostAssumption DEF Nonterminal
  <2>8. \A s \in Runs \ {r} : Working(s)' <=> Working(s)
    BY <1>1, <1>6 DEF RunWorker, Types, Working
  <2> QED
    BY <1>3, <2>1, <2>3, <2>6, <2>7, <2>8
<1> QED
  BY <1>2, <1>5, <1>6

(* Steps that may write the end of a run: nothing works for it then.       *)
LEMMA EndingSteps ==
  ASSUME HostInv, HostInv', NEW r \in Runs, LaunchFails(r) \/ Report(r) \/ Reap(r) \/ FinishUnowned(r)
  PROVE  Mapped
<1>1. Types /\ RunInv(r)
  BY DEF HostInv
<1>2. runs[r] # None
  BY <1>1 DEF RunInv, LaunchFails, Report, Reap, FinishUnowned, Reaping
<1>3. \A s \in Runs : Working(s)' <=> Working(s)
  <2>1. CASE Report(r)
    <3>1. UNCHANGED services /\ worker' = [worker EXCEPT ![r] = "gone"] /\ worker[r] = "reporting"
      BY <2>1 DEF Report, Exits
    <3> QED
      BY <1>1, <3>1 DEF Types, Working
  <2>2. CASE LaunchFails(r) \/ Reap(r) \/ FinishUnowned(r)
    BY <2>2 DEF LaunchFails, Reap, FinishUnowned, process, Working
  <2> QED
    BY <2>1, <2>2
<1>4. ASSUME NEW status \in Terminal, NEW class \in Classes \cup {None}, NEW treeExited \in BOOLEAN,
             Transition(r, status, class, treeExited)
      PROVE  Mapped
  <2>1. /\ \A s \in Runs \ {r} : runs'[s] = runs[s]
        /\ runs'[r] # None
        /\ Ended(r) => runs'[r] = runs[r]
    BY <1>1, <1>2, <1>4, TransitionAt
  <2> QED
    BY <1>2, <1>3, <2>1, RecordMoves
<1>5. CASE LaunchFails(r) \/ Report(r) \/ Reap(r)
  <2>1. result[r] \in Failures \cup {"succeeded", "cancelled", None}
    BY <1>1 DEF Types
  <2>2. Report(r) => result[r] # "cancelled"
    BY <1>1 DEF Report, RunInv
  <2> QED
    BY <1>4, <1>5, <2>1, <2>2 DEF LaunchFails, Report, Reap, Terminal, Classes
<1>6. CASE FinishUnowned(r)
  <2>1. CASE r \notin reused
    BY <1>4, <1>6, <2>1 DEF FinishUnowned, Terminal, Classes
  <2>2. CASE r \in reused /\ Active(r)
    <3>1. PICK rec : rec = [runs[r] EXCEPT !.status = "failed", !.class = "host_interrupted"]
      OBVIOUS
    <3>2. runs' = [runs EXCEPT ![r] = rec]
      BY <1>6, <2>2, <3>1 DEF FinishUnowned
    <3>3. rec \in RunRecord
      BY <1>1, <1>2, <3>1 DEF Types, RunRecord, Terminal, Classes
    <3>4. runs'[r] = rec /\ rec # None /\ \A s \in Runs \ {r} : runs'[s] = runs[s]
      BY <1>1, <3>2, <3>3, HostAssumption DEF Types
    <3>5. ~Ended(r)
      BY <2>2 DEF Active, Ended, Nonterminal, Terminal
    <3> QED
      BY <1>2, <1>3, <3>4, <3>5, RecordMoves
  <2>3. CASE r \in reused /\ ~Active(r)
    <3>1. UNCHANGED <<runs, worker, services>>
      BY <1>6, <2>3 DEF FinishUnowned, process
    <3> QED
      BY <3>1, NothingMoves
  <2> QED
    BY <2>1, <2>2, <2>3
<1> QED
  BY <1>5, <1>6

(* A request is accepted when the current run, the only one that may be    *)
(* open, has ended.                                                        *)
LEMMA Acceptance ==
  ASSUME HostInv, HostInv', NEW r \in Runs, Activate(r)
  PROVE  Mapped
<1>1. runs[r] = None /\ UNCHANGED <<worker, services>>
  BY DEF Activate, process
<1>2. runs'[r] # None /\ ~Ended(r)' /\ \A s \in Runs \ {r} : runs'[s] = runs[s]
  <2>1. PICK rec : rec = [status |-> "queued", class |-> None, cancelled |-> FALSE, registered |-> FALSE]
    OBVIOUS
  <2>2. rec \in RunRecord /\ rec.status \notin Terminal
    BY <2>1 DEF RunRecord, Nonterminal, Terminal
  <2>3. runs' = [runs EXCEPT ![r] = rec]
    BY <2>1 DEF Activate
  <2> QED
    BY <2>2, <2>3, HostAssumption DEF HostInv, Types, Ended
<1>3. \A s \in Runs : Ended(s)' <=> Ended(s)
  BY <1>1, <1>2 DEF Ended
<1>4. \A s \in Runs : Ended(s) => EndOf(s)' = EndOf(s)
  BY <1>1, <1>2 DEF Ended, EndOf
<1>5. Ends' = Ends
  <2>1. Ends' = {EndOf(s)' : s \in {q \in Runs : Ended(q)'}}
    BY DEF Ends
  <2> QED
    BY <1>3, <1>4, <2>1 DEF Ends
<1>6. AtWork' = AtWork
  BY <1>1 DEF AtWork, Working
<1>7. Opened' = Opened \cup {r} /\ r \notin Opened
  BY <1>1, <1>2 DEF Opened
<1>8. ASSUME NEW s \in Opened PROVE Ended(s)
  <2>1. runs[s] # None /\ runs[s] \in RunRecord
    BY DEF Opened, HostInv, Types
  <2>2. s = current => ~Active(s)
    BY DEF Activate, Opened
  <2>3. ~Active(s) => Ended(s)
    BY <2>1 DEF Active, Ended, RunRecord
  <2> QED
    BY <2>1, <2>2, <2>3 DEF Opened, HostInv, RunInv
<1> QED
  BY <1>5, <1>6, <1>7, <1>8, LifecycleSteps DEF Mapped

(* A restarted Host closes the current run, or none.                       *)
LEMMA Recovery ==
  ASSUME HostInv, HostInv', HostRestart
  PROVE  Mapped
<1>1. UNCHANGED <<worker, services>> /\ Types
  BY DEF HostRestart, process, HostInv
<1>2. ASSUME NEW s \in Runs, Active(s) PROVE s = current
  BY <1>2 DEF HostInv, RunInv, Active, Ended, Nonterminal, Terminal
<1>3. \A s \in Runs : runs'[s] = IF Active(s) /\ ~Recoverable(s) THEN Interrupted(s) ELSE runs[s]
  BY DEF HostRestart
<1>4. CASE \E r \in Runs : Active(r) /\ ~Recoverable(r)
  <2>1. PICK r \in Runs : Active(r) /\ ~Recoverable(r)
    BY <1>4
  <2>2. \A s \in Runs \ {r} : runs'[s] = runs[s]
    BY <1>2, <1>3, <2>1
  <2>3. runs[r] \in RunRecord /\ runs[r] # None /\ ~Ended(r)
    BY <1>1, <2>1 DEF Types, Active, Ended, Nonterminal, Terminal
  <2>4. Interrupted(r) \in RunRecord
    BY <2>3 DEF Interrupted, RunRecord, Terminal, Classes
  <2>5. runs'[r] # None
    BY <1>3, <2>1, <2>4, HostAssumption
  <2> QED
    BY <1>1, <2>2, <2>3, <2>5, RecordMoves DEF Working
<1>5. CASE ~\E r \in Runs : Active(r) /\ ~Recoverable(r)
  <2>1. runs' = [r \in Runs |-> runs[r]]
    BY <1>5 DEF HostRestart
  <2>2. runs' = runs
    BY <1>1, <2>1 DEF Types
  <2> QED
    BY <1>1, <2>2, NothingMoves
<1> QED
  BY <1>4, <1>5

(* The Host implements the lifecycle: whatever threads, workers and        *)
(* crashes do, a run is accepted when no other is open, works only while   *)
(* it is open, and ends once, when nothing works for it.                   *)
THEOREM HostImplementsLifecycle == Spec => ImplementsLifecycle
<1>1. Init => Lifecycle!LInit
  BY LifecycleSteps DEF Init, Opened, AtWork, Ends, Working, Ended
<1>2. HostInv /\ HostInv' /\ [Next]_vars => [Lifecycle!LNext]_(Lifecycle!lvars)
  <2> SUFFICES ASSUME HostInv, HostInv', [Next]_vars PROVE Mapped
    BY DEF Mapped, Lifecycle!LNext, Outcomes
  <2>1. CASE HostCrash \/ UNCHANGED vars
    BY <2>1, NothingMoves DEF HostCrash, process, vars
  <2>2. CASE HostRestart
    BY <2>2, Recovery
  <2>3. CASE \E r \in Runs : \/ Activate(r) \/ ActivatorStep(r)
                             \/ WorkerStep(r) \/ MissionEnds(r) \/ WorkerDies(r) \/ GroupReused(r)
                             \/ Cancel(r) \/ LookUp(r) \/ ReaperStep(r)
    BY <2>3, WorkSteps, EndingSteps, Acceptance DEF ActivatorStep, WorkerStep, ReaperStep
  <2> QED
    BY <2>1, <2>2, <2>3 DEF Next
<1> QED
  BY <1>1, <1>2, HostInvAlways, PTL DEF Spec, ImplementsLifecycle, Lifecycle!LSpec

(***************************************************************************)
(* One Run Worker and its stack.                                           *)
(***************************************************************************)
PCs == Starting \cup {"undo", "begin", "mission", "leaving", "poll", "closing", "joining",
                      "stopping", "left"}
States == {"pending", "starting", "ready", "exited", "failed", "stopping", "stopped"}
Seen == {"exited", "failed", "stopping", "stopped"}

Typed ==
  /\ pc \in PCs /\ next \in Services /\ walk \in 0..N /\ waiting \in BOOLEAN
  /\ proc \in [Services -> Alive \cup Gone \cup {"none"}]
  /\ state \in [Services -> States]
  /\ handled \subseteq {"cancel", "stack"}
  /\ faults \in Nat /\ deaths \in Nat
  /\ escaped \in BOOLEAN /\ failures \in BOOLEAN
  /\ lost \subseteq Services

(* Services after the one being started have no process.                   *)
Fresh ==
  /\ \A s \in Services : s > next => proc[s] = "none"
  /\ pc \in {"prepare", "start"} => proc[next] = "none"

(* Teardown is behind every service it has walked over, and whoever it     *)
(* waits for has been signalled.                                           *)
Walked ==
  /\ waiting => Tearing
  /\ Tearing => \A s \in Services : s > N - walk => proc[s] \notin Alive
  /\ waiting => walk < N /\ proc[N - walk] # "up"

(* The last part of the finally clause runs with both signals ignored, and *)
(* the worker left with its services running only if that part was hit.    *)
Closed ==
  /\ pc \in {"joining", "stopping"} => handled = {}
  /\ pc = "left" /\ ~escaped /\ faults = 0 => \A s \in Services : proc[s] \notin Alive

(* Until the mission has ended, no service that is up is recorded as gone. *)
Up ==
  pc \in Starting \cup {"begin", "mission"} =>
    \A s \in Services : proc[s] = "up" => state[s] \notin Seen

(* A lost service has ended and not been recorded yet, unless its loss is  *)
(* known; after the last poll there is no such service.                    *)
Known == raised # "none" \/ failures \/ faults > 0
Loss ==
  /\ \A s \in lost : /\ s \in Required /\ proc[s] \in Gone
                     /\ ~(s \in Completes /\ proc[s] = "ok")
                     /\ Known \/ state[s] \notin Seen
  /\ pc = "undo" => raised # "none"
  /\ pc \in {"closing", "joining", "stopping"} => Known \/ lost = {}
  /\ pc = "left" /\ raised = "none" /\ faults = 0 => lost = {}

IInv == Typed /\ Fresh /\ Walked /\ Closed /\ Up /\ Loss

(* Where an exception takes the main thread.                               *)
LEMMA RaisedEffect ==
  ASSUME Typed, pc # "left", NEW kind, Raised(kind)
  PROVE  /\ pc' = "undo" <=> pc \in Starting
         /\ pc' = "left" <=> pc \in {"closing", "joining", "stopping"}
         /\ pc' \in {"undo", "leaving", "closing", "left"}
         /\ raised' = kind /\ next' = next
         /\ escaped' \in BOOLEAN /\ (pc = "closing" => escaped')
         /\ walk' \in 0..N /\ waiting' \in BOOLEAN
         /\ Walked'
<1>1. raised' = kind /\ next' = next /\ walk' = 0 /\ waiting' = FALSE
      /\ escaped' = (escaped \/ pc = "closing")
  BY DEF Raised
<1>2. Walked'
  BY <1>1, StackAssumption DEF Services, Walked
<1>3. /\ pc' = "undo" <=> pc \in Starting
      /\ pc' = "left" <=> pc \in {"closing", "joining", "stopping"}
      /\ pc' \in {"undo", "leaving", "closing", "left"}
  BY DEF Raised, PCs, Starting, Typed
<1>4. escaped' \in BOOLEAN /\ (pc = "closing" => escaped')
  BY <1>1
<1>5. walk' \in 0..N
  BY <1>1, StackAssumption
<1>6. waiting' \in BOOLEAN
  BY <1>1
<1> QED
  BY <1>1, <1>2, <1>3, <1>4, <1>5, <1>6

(* An exception by itself preserves the invariant: one that hits the       *)
(* finally clause counts as escaped, one inside the teardown as a fault.   *)
LEMMA RaisedKeeps ==
  ASSUME IInv, pc # "left", NEW kind, kind # "none", Raised(kind),
         UNCHANGED <<processes, lost, failures, deaths>>,
         handled' \subseteq handled, faults' \in {faults, faults + 1},
         pc \in {"joining", "stopping"} => faults' > 0
  PROVE  IInv'
<1> USE DEF IInv, processes
<1>1. Typed'
  BY RaisedEffect DEF PCs, Typed
<1>2. Fresh'
  BY RaisedEffect DEF Fresh
<1>3. Closed'
  BY RaisedEffect DEF Typed, Closed
<1>4. Up'
  BY RaisedEffect DEF Starting, Up
<1>5. raised' # "none" /\ proc' = proc /\ lost' = lost
  BY RaisedEffect
<1>6. Loss'
  BY <1>5 DEF Loss, Known
<1> QED
  BY RaisedEffect, <1>1, <1>2, <1>3, <1>4, <1>6

LEMMA PolledTyped ==
  ASSUME Typed
  PROVE  /\ Polled \in [Services -> States]
         /\ \A s \in Services : Polled[s] = IF s \in Unseen THEN Ending(s) ELSE state[s]
         /\ \A s \in Services : Ending(s) \in {"exited", "failed"}
BY DEF Polled, Ending, States, Typed

LEMMA IInvStep == IInv /\ [SessionNext]_session => IInv'
<1> SUFFICES ASSUME IInv, [SessionNext]_session PROVE IInv'
  OBVIOUS
<1> USE StackAssumption DEF PCs, Starting, Services, Alive, Gone, States, Seen
<1>1. ASSUME NEW ok \in BOOLEAN, RunStep(ok) PROVE IInv'
  <2>1. CASE ok
    BY <1>1, <2>1 DEF RunStep, IInv, Typed, Fresh, Walked, Closed, Up, Loss, Known,
       Tearing, main, processes, signals, watch, history
  <2>2. CASE ~ok
    BY <1>1, <2>2, RaisedKeeps DEF RunStep, processes, signals, watch
  <2> QED
    BY <2>1, <2>2
<1>2. ASSUME NEW outcome \in {"none", "other"}, MissionReturns(outcome) PROVE IInv'
  <2>1. CASE outcome = "none"
    BY <1>2, <2>1 DEF MissionReturns, IInv, Typed, Fresh, Walked, Closed, Up, Loss, Known,
       Tearing, main, processes, signals, watch, history
  <2>2. CASE outcome = "other"
    BY <1>2, <2>2, RaisedKeeps DEF MissionReturns, processes, signals, watch
  <2> QED
    BY <2>1, <2>2
<1>3. ASSUME SigTerm PROVE IInv'
  <2>1. CASE "cancel" \notin handled
    BY <1>3, <2>1 DEF SigTerm, IInv, Typed, Fresh, Walked, Closed, Up, Loss, Known,
       Tearing, main, processes, signals, watch, history
  <2>2. CASE "cancel" \in handled
    BY <1>3, <2>2, RaisedKeeps DEF SigTerm, IInv, Closed, processes, signals, watch
  <2> QED
    BY <2>1, <2>2
<1>4. ASSUME NEW taken \in BOOLEAN, DeliverAlarm(taken) PROVE IInv'
  <2>1. CASE taken \/ "stack" \notin handled \/ pc = "left"
    BY <1>4, <2>1 DEF DeliverAlarm, IInv, Typed, Fresh, Walked, Closed, Up, Loss, Known,
       Tearing, main, processes, signals, watch, history
  <2>2. CASE ~taken /\ "stack" \in handled /\ pc # "left"
    BY <1>4, <2>2, RaisedKeeps DEF DeliverAlarm, IInv, Closed, processes, signals, watch
  <2> QED
    BY <2>1, <2>2
<1>5. ASSUME WriteFails PROVE IInv'
  BY <1>5, RaisedKeeps DEF WriteFails, IInv, Typed, processes, signals, watch
<1>6. ASSUME NEW ok \in BOOLEAN, StartService(ok) PROVE IInv'
  <2>1. CASE ok
    <3>1. proc' = [proc EXCEPT ![next] = "up"] /\ state' = [state EXCEPT ![next] = "starting"]
      BY <1>6, <2>1 DEF StartService
    <3>2. Typed'
      BY <1>6, <2>1, <3>1 DEF StartService, IInv, Typed, Walked, Up, main, processes,
         signals, watch, history
    <3>3. Fresh' /\ Walked' /\ Closed'
      BY <1>6, <2>1, <3>1 DEF StartService, IInv, Typed, Fresh, Walked, Closed, Up,
         Tearing, main, processes, signals, watch, history
    <3>4. Up' /\ Loss'
      BY <1>6, <2>1, <3>1 DEF StartService, IInv, Typed, Fresh, Walked, Up, Loss, Known,
         main, processes, signals, watch, history
    <3> QED
      BY <3>2, <3>3, <3>4 DEF IInv
  <2>2. CASE ~ok
    <3>1. state' = [state EXCEPT ![next] = "failed"] /\ Raised("stack") /\ pc = "start"
      BY <1>6, <2>2 DEF StartService
    <3>2. Typed'
      BY <1>6, <2>2, <3>1, RaisedEffect DEF StartService, IInv, Typed, Walked, Up, main,
         processes, signals, watch, history
    <3>3. Fresh' /\ Closed'
      BY <1>6, <2>2, <3>1, RaisedEffect DEF StartService, IInv, Typed, Fresh, Walked,
         Closed, Up, main, processes, signals, watch, history
    <3>4. Up' /\ Loss'
      BY <1>6, <2>2, <3>1, RaisedEffect DEF StartService, IInv, Typed, Walked, Up, Loss,
         Known, main, processes, signals, watch, history
    <3> QED
      BY <3>1, <3>2, <3>3, <3>4, RaisedEffect DEF IInv
  <2> QED
    BY <2>1, <2>2
<1>7. ASSUME NEW ready \in BOOLEAN, NEW late \in BOOLEAN, AwaitReady(ready, late) PROVE IInv'
  <2>0. /\ pc = "ready" /\ UNCHANGED <<proc, signals, watch, swallowed, lost, deaths, faults>>
        /\ \/ state' = Polled
           \/ \E st \in {"ready", "failed"} : state' = [Polled EXCEPT ![next] = st]
    BY <1>7 DEF AwaitReady
  <2>1. state' \in [Services -> States]
    BY <2>0, PolledTyped DEF IInv, Typed
  <2>2. CASE Raised("stack")
    <3>1. Typed'
      BY <2>0, <2>1, <2>2, RaisedEffect DEF IInv, Typed, signals, watch
    <3>2. Fresh' /\ Closed'
      BY <2>0, <2>2, RaisedEffect DEF IInv, Fresh, Closed, signals
    <3>3. Up' /\ Loss'
      BY <2>0, <2>2, RaisedEffect DEF IInv, Up, Loss, Known
    <3> QED
      BY <2>0, <2>2, <3>1, <3>2, <3>3, RaisedEffect DEF IInv
  <2>3. CASE ~Raised("stack")
    <3>1. /\ Failing = {}
          /\ UNCHANGED <<walk, waiting, raised, escaped>>
          /\ \/ pc' = "ready" /\ next' = next
             \/ pc' = "post" /\ next' = next
             \/ pc' = "start" /\ next' = next + 1 /\ next # N
          /\ state' = Polled \/ state' = [Polled EXCEPT ![next] = "ready"]
      BY <1>7, <2>3 DEF AwaitReady, main
    <3>2. Typed'
      BY <2>0, <2>1, <3>1 DEF IInv, Typed, signals, watch
    <3>3. Fresh'
      BY <2>0, <3>1 DEF IInv, Typed, Fresh
    <3>4. Walked' /\ Closed'
      BY <2>0, <3>1 DEF IInv, Walked, Closed, Tearing, signals
    <3>5. Known \/ lost = {}
      BY <3>1 DEF Failing, Unseen, IInv, Typed, Up, Loss
    <3>6. Loss'
      BY <2>0, <3>1, <3>5 DEF IInv, Loss, Known, watch
    <3>7. ASSUME NEW s \in Services, proc[s] = "up" PROVE state'[s] \notin Seen
      <4>1. s \notin Unseen /\ state[s] \notin Seen
        BY <2>0, <3>7 DEF Unseen, IInv, Up
      <4> QED
        BY <3>1, <4>1, PolledTyped DEF IInv
    <3>8. Up'
      BY <2>0, <3>7 DEF Up
    <3> QED
      BY <3>2, <3>3, <3>4, <3>6, <3>8 DEF IInv
  <2> QED
    BY <2>2, <2>3
<1>8. ASSUME LastPoll PROVE IInv'
  <2>0. /\ pc = "poll" /\ state' = Polled /\ UNCHANGED <<proc, signals, watch, swallowed, lost, deaths, faults>>
    BY <1>8 DEF LastPoll
  <2>1. state' \in [Services -> States]
    BY <2>0, PolledTyped DEF IInv
  <2>2. CASE Raised("stack")
    <3>1. Typed'
      BY <2>0, <2>1, <2>2, RaisedEffect DEF IInv, Typed, signals, watch
    <3>2. Fresh' /\ Closed'
      BY <2>0, <2>2, RaisedEffect DEF IInv, Fresh, Closed, signals
    <3>3. Up' /\ Loss'
      BY <2>0, <2>2, RaisedEffect DEF IInv, Up, Loss, Known
    <3> QED
      BY <2>0, <2>2, <3>1, <3>2, <3>3, RaisedEffect DEF IInv
  <2>3. CASE ~Raised("stack")
    <3>1. Failing = {} /\ pc' = "closing" /\ UNCHANGED <<next, walk, waiting, raised, escaped>>
      BY <1>8, <2>3 DEF LastPoll
    <3>2. Typed'
      BY <2>0, <2>1, <3>1 DEF IInv, Typed, signals, watch
    <3>3. Fresh' /\ Walked' /\ Closed'
      BY <2>0, <3>1 DEF IInv, Fresh, Walked, Closed, Tearing, signals
    <3>4. Known \/ lost = {}
      BY <3>1 DEF Failing, Unseen, IInv, Typed, Up, Loss
    <3>5. Up' /\ Loss'
      BY <2>0, <3>1, <3>4 DEF IInv, Up, Loss, Known, watch
    <3> QED
      BY <3>2, <3>3, <3>5 DEF IInv
  <2> QED
    BY <2>2, <2>3
<1>9. ASSUME StopNext PROVE IInv'
  <2> DEFINE t == N - walk
  <2>0. t \in Services /\ InTurn(walk) = t /\ Tearing /\ ~waiting
    BY <1>9 DEF StopNext, InTurn, IInv, Typed
  <2>1. /\ UNCHANGED <<pc, next, signals, watch, raised, history>>
        /\ \/ /\ proc[t] \in Alive
              /\ proc' = [proc EXCEPT ![t] = "terminating"]
              /\ \E st \in {state[t], "stopping"} : state' = [state EXCEPT ![t] = st]
              /\ waiting' = TRUE /\ walk' = walk
           \/ /\ proc[t] \notin Alive /\ proc' = proc
              /\ \E st \in {state[t], Ending(t)} : state' = [state EXCEPT ![t] = st]
              /\ walk' = walk + 1 /\ waiting' = waiting
    BY <1>9, <2>0 DEF StopNext, Typed
  <2>2. walk < N
    BY <1>9 DEF StopNext
  <2>3. Ending(t) \in States
    BY <2>0, PolledTyped DEF IInv
  <2> HIDE DEF t
  <2>4. proc' \in [Services -> Alive \cup Gone \cup {"none"}]
    BY <2>0, <2>1 DEF IInv, Typed
  <2>5. state' \in [Services -> States]
    BY <2>0, <2>1, <2>3 DEF IInv, Typed
  <2>6. walk' \in 0..N
    BY <2>1, <2>2 DEF IInv, Typed
  <2>7. waiting' \in BOOLEAN
    BY <2>1 DEF IInv, Typed
  <2>8. Typed'
    BY <2>1, <2>4, <2>5, <2>6, <2>7 DEF IInv, Typed, signals, watch, history
  <2>9. Fresh'
    BY <2>0, <2>1 DEF IInv, Typed, Fresh
  <2>10. Walked'
    BY <2>0, <2>1, <2>2 DEF t, IInv, Typed, Walked, Tearing
  <2>11. Closed'
    BY <2>0, <2>1 DEF IInv, Typed, Closed, signals, history
  <2>12. Up' /\ Loss'
    BY <2>0, <2>1 DEF IInv, Typed, Up, Loss, Known, Tearing, watch, history
  <2> QED
    BY <2>8, <2>9, <2>10, <2>11, <2>12 DEF IInv
<1>10. ASSUME Stopped PROVE IInv'
  <2> DEFINE t == N - walk
  <2>0. t \in Services /\ InTurn(walk) = t /\ Tearing /\ waiting /\ walk < N /\ proc[t] # "up"
    BY <1>10 DEF Stopped, InTurn, IInv, Typed, Walked
  <2>1. /\ UNCHANGED <<pc, next, signals, watch, raised, history>>
        /\ walk' = walk + 1 /\ waiting' = FALSE
        /\ proc' = [proc EXCEPT ![t] = IF proc[t] = "terminating" THEN "bad" ELSE proc[t]]
        /\ \E st \in {"stopped", state[t]} : state' = [state EXCEPT ![t] = st]
    BY <1>10, <2>0 DEF Stopped
  <2> HIDE DEF t
  <2>2. proc' \in [Services -> Alive \cup Gone \cup {"none"}]
    BY <2>0, <2>1 DEF IInv, Typed
  <2>3. state' \in [Services -> States]
    BY <2>0, <2>1 DEF IInv, Typed
  <2>4. walk' \in 0..N
    BY <2>0, <2>1 DEF IInv, Typed
  <2>5. waiting' \in BOOLEAN
    BY <2>1
  <2>6. Typed'
    BY <2>1, <2>2, <2>3, <2>4, <2>5 DEF IInv, Typed, signals, watch, history
  <2>7. Fresh'
    BY <2>0, <2>1 DEF IInv, Typed, Fresh
  <2>8. Walked'
    BY <2>0, <2>1 DEF t, IInv, Typed, Walked
  <2>9. Closed'
    BY <2>0, <2>1 DEF IInv, Typed, Closed, signals, history
  <2>10. Up' /\ Loss'
    BY <2>0, <2>1 DEF IInv, Typed, Up, Loss, Known, Tearing, watch, history
  <2> QED
    BY <2>6, <2>7, <2>8, <2>9, <2>10 DEF IInv
<1>11. ASSUME NEW s \in Services, NEW code \in Gone, ServiceDies(s, code) PROVE IInv'
  <2>0. /\ proc[s] = "up" /\ proc' = [proc EXCEPT ![s] = code]
        /\ UNCHANGED <<main, state, signals, watch, raised, swallowed, escaped, faults>>
        /\ deaths' = deaths + 1
        /\ \/ lost' = lost
           \/ /\ lost' = lost \cup {s} /\ s \in Required /\ ~(s \in Completes /\ code = "ok")
              /\ pc \in Starting \cup {"begin", "mission"}
    BY <1>11 DEF ServiceDies
  <2>1. proc' \in [Services -> Alive \cup Gone \cup {"none"}] /\ code \notin Alive /\ code # "up"
    BY <2>0 DEF IInv, Typed
  <2>2. deaths' \in Nat
    BY <2>0 DEF IInv, Typed
  <2>3. lost' \subseteq Services
    BY <2>0, Zenon DEF IInv, Typed
  <2>4. Typed'
    BY <2>0, <2>1, <2>3, <2>2 DEF IInv, Typed, main, signals, watch
  <2>5. Fresh' /\ Up'
    BY <2>0, <2>1 DEF IInv, Typed, Fresh, Up, main
  <2>6. Walked'
    BY <2>0, <2>1 DEF IInv, Typed, Walked, Tearing, main
  <2>7. Closed'
    BY <2>0, <2>1 DEF IInv, Typed, Closed, main, signals
  <2>8. Typed' /\ Fresh' /\ Walked' /\ Closed' /\ Up'
    BY <2>4, <2>5, <2>6, <2>7
  <2>9. ASSUME NEW r \in lost'
        PROVE  /\ r \in Required /\ proc'[r] \in Gone /\ ~(r \in Completes /\ proc'[r] = "ok")
               /\ Known' \/ state'[r] \notin Seen
    BY <2>0, <2>9 DEF IInv, Typed, Up, Loss, Known, watch
  <2>10. Up' /\ Loss'
    BY <2>0, <2>9 DEF IInv, Up, Loss, Known, main, watch
  <2> QED
    BY <2>8, <2>10 DEF IInv
<1>12. ASSUME Close PROVE IInv'
  BY <1>12 DEF Close, IInv, Typed, Fresh, Walked, Closed, Up, Loss, Known, Tearing, main,
     processes, signals, watch, history
<1>13. ASSUME Begin PROVE IInv'
  BY <1>13 DEF Begin, IInv, Typed, Fresh, Walked, Closed, Up, Loss, Known, Tearing, main,
     processes, signals, watch, history
<1>14. ASSUME StopMonitor PROVE IInv'
  BY <1>14 DEF StopMonitor, IInv, Typed, Fresh, Walked, Closed, Up, Loss, Known, Tearing,
     main, processes, signals, watch, history
<1>15. ASSUME Leave PROVE IInv'
  BY <1>15 DEF Leave, IInv, Typed, Fresh, Walked, Closed, Up, Loss, Known, Tearing, main,
     processes, signals, watch, history
<1>16. ASSUME IgnoreFailures PROVE IInv'
  BY <1>16 DEF IgnoreFailures, IInv, Typed, Fresh, Walked, Closed, Up, Loss, Known,
     Tearing, main, processes, signals, watch, history
<1>17. ASSUME IgnoreCancel PROVE IInv'
  BY <1>17 DEF IgnoreCancel, IInv, Typed, Fresh, Walked, Closed, Up, Loss, Known, Tearing,
     main, processes, signals, watch, history
<1>18. ASSUME TornDown PROVE IInv'
  BY <1>18 DEF TornDown, IInv, Typed, Fresh, Walked, Closed, Up, Loss, Known, Tearing,
     main, processes, signals, watch, history
<1>19. ASSUME MonitorPoll PROVE IInv'
  <2>0. /\ state' = Polled /\ failures' = (failures \/ Failing # {})
        /\ UNCHANGED <<main, proc, signals, stopMonitor, raised, history>>
    BY <1>19 DEF MonitorPoll
  <2>1. state' \in [Services -> States] /\ failures' \in BOOLEAN /\ (failures => failures')
    BY <2>0, PolledTyped DEF IInv
  <2>2. Typed'
    BY <2>0, <2>1 DEF IInv, Typed, main, signals, history
  <2>3. Fresh' /\ Walked' /\ Closed'
    BY <2>0 DEF IInv, Fresh, Walked, Closed, Tearing, main, signals, history
  <2>4. Up'
    BY <2>0, PolledTyped DEF Unseen, IInv, Up, main
  <2>5. Failing = {} => Known \/ lost = {}
    BY DEF Failing, Unseen, IInv, Typed, Loss
  <2>6. Known' \/ lost' = {}
    BY <2>0, <2>1, <2>5 DEF Known, history
  <2>7. Loss'
    BY <2>0, <2>6 DEF IInv, Loss, main, history
  <2> QED
    BY <2>2, <2>3, <2>4, <2>7 DEF IInv
<1>20. ASSUME MonitorAlarms PROVE IInv'
  BY <1>20 DEF MonitorAlarms, IInv, Typed, Fresh, Walked, Closed, Up, Loss, Known,
     Tearing, main, processes, signals, watch, history
<1>21. ASSUME MonitorEnds PROVE IInv'
  BY <1>21 DEF MonitorEnds, IInv, Typed, Fresh, Walked, Closed, Up, Loss, Known, Tearing,
     main, processes, signals, watch, history
<1>22. ASSUME MonitorFails PROVE IInv'
  BY <1>22, PolledTyped DEF MonitorFails, Unseen, IInv, Typed, Fresh, Walked, Closed, Up,
     Loss, Known, Tearing, main, processes, signals, watch, history
<1>23. ASSUME NEW s \in Services, NEW code \in Gone, ObeysSigTerm(s, code) PROVE IInv'
  BY <1>23 DEF ObeysSigTerm, IInv, Typed, Fresh, Walked, Closed, Up, Loss, Known, Tearing, main,
     processes, signals, watch, history
<1>24. CASE UNCHANGED session
  BY <1>24 DEF session, IInv, Typed, Fresh, Walked, Closed, Up, Loss, Known, Tearing, main,
     processes, signals, watch, history
<1> QED
  BY <1>1, <1>2, <1>3, <1>4, <1>5, <1>6, <1>7, <1>8, <1>9, <1>10, <1>11, <1>12, <1>13,
     <1>14, <1>15, <1>16, <1>17, <1>18, <1>19, <1>20, <1>21, <1>22, <1>23, <1>24
  DEF SessionNext, Supervising, Watching, Delivering

LEMMA IInvInit == SessionInit => IInv
<1> SUFFICES ASSUME SessionInit PROVE IInv
  OBVIOUS
<1> USE DEF SessionInit, PCs, Starting, Services, Alive, Gone, States, Seen
<1>1. proc \in [Services -> Alive \cup Gone \cup {"none"}] /\ state \in [Services -> States]
  OBVIOUS
<1>2. walk \in 0..N /\ next \in Services
  BY StackAssumption
<1>3. pc \in PCs /\ waiting \in BOOLEAN /\ escaped \in BOOLEAN /\ failures \in BOOLEAN
  OBVIOUS
<1>4. Typed
  BY <1>1, <1>2, <1>3 DEF Typed
<1>5. Fresh /\ Closed /\ Up /\ Loss
  BY StackAssumption DEF Fresh, Closed, Up, Loss
<1>6. Walked
  BY DEF Walked, Tearing
<1> QED
  BY <1>4, <1>5, <1>6 DEF IInv

LEMMA IInvHolds == SessionSpec => []IInv
<1>1. SessionInit => IInv
  BY IInvInit
<1>2. IInv /\ [SessionNext]_session => IInv'
  BY IInvStep
<1> QED
  BY <1>1, <1>2, PTL DEF SessionSpec

(* A worker that has left, with no status write failed and no signal that  *)
(* hit its finally clause before both were ignored there, has left no      *)
(* service running: whatever the teardown was for, and wherever an         *)
(* exception took the main thread before it.                               *)
THEOREM NothingSurvives == SessionSpec => []NothingLeftRunning
<1>1. IInv => NothingLeftRunning
  BY DEF IInv, Closed, NothingLeftRunning
<1> QED
  BY <1>1, IInvHolds, PTL

(* A worker that reports success has lost no required service during its   *)
(* mission: the poll that recorded the end has raised, or told the         *)
(* monitor's failures, or the last poll finds it.                          *)
THEOREM LossNoticed == SessionSpec => []NoSilentLoss
<1>1. IInv => NoSilentLoss
  BY DEF IInv, Loss, NoSilentLoss
<1> QED
  BY <1>1, IInvHolds, PTL

(* Only stop's walk signals a service, and the walk is behind every        *)
(* service started after it.                                               *)
LEMMA SignalledInTurn ==
  ASSUME IInv, SessionNext, NEW s \in Services, proc[s] = "up", proc'[s] = "terminating"
  PROVE  StopNext /\ s = N - walk
<1> USE DEF Services, Alive, Gone
<1>1. CASE proc' = proc
  BY <1>1
<1>2. ASSUME NEW ok \in BOOLEAN, StartService(ok) PROVE FALSE
  BY <1>2 DEF StartService, IInv, Typed
<1>3. CASE StopNext
  BY <1>3 DEF StopNext, InTurn, IInv, Typed
<1>4. CASE Stopped
  BY <1>4 DEF Stopped, IInv, Typed
<1>5. ASSUME NEW r \in Services, NEW code \in Gone, ServiceDies(r, code) \/ ObeysSigTerm(r, code)
      PROVE FALSE
  BY <1>5 DEF ServiceDies, ObeysSigTerm, IInv, Typed
<1>6. CASE Watching \/ Delivering \/ SigTerm \/ WriteFails \/ MonitorFails
  <2>1. proc' = proc
    BY <1>6 DEF Watching, MonitorPoll, MonitorAlarms, MonitorEnds, MonitorFails, Delivering,
       DeliverAlarm, SigTerm, WriteFails, processes
  <2> QED
    BY <2>1
<1>7. ASSUME NEW outcome \in {"none", "other"}, MissionReturns(outcome) PROVE FALSE
  BY <1>7 DEF MissionReturns, processes
<1>8. CASE Supervising
  <2>1. ASSUME \/ \E ok \in BOOLEAN : RunStep(ok)
               \/ \E ready, late \in BOOLEAN : AwaitReady(ready, late)
               \/ Begin \/ StopMonitor \/ Leave \/ LastPoll
               \/ IgnoreFailures \/ IgnoreCancel \/ Close \/ TornDown
        PROVE FALSE
    BY <2>1 DEF RunStep, AwaitReady, Begin, StopMonitor, Leave, LastPoll, IgnoreFailures,
       IgnoreCancel, Close, TornDown, processes
  <2> QED
    BY <1>2, <1>3, <1>4, <1>8, <2>1 DEF Supervising
<1> QED
  BY <1>1, <1>5, <1>6, <1>7, <1>8 DEF SessionNext

(* A service is signalled only when every service started after it has     *)
(* gone, also when an interrupted teardown is taken up again.              *)
THEOREM TeardownIsReverse == SessionSpec => ReverseTeardown
<1> DEFINE InReverse ==
      \A s \in Services : proc[s] = "up" /\ proc'[s] = "terminating" =>
        \A t \in Services : t > s => proc[t] \notin Alive
<1>1. ASSUME IInv, [SessionNext]_session PROVE [InReverse]_session
  <2>1. CASE UNCHANGED session
    BY <2>1
  <2>2. CASE SessionNext
    <3>1. ASSUME NEW s \in Services, proc[s] = "up", proc'[s] = "terminating",
                 NEW t \in Services, t > s
          PROVE  proc[t] \notin Alive
      <4>1. StopNext /\ s = N - walk
        BY <2>2, <3>1, <1>1, SignalledInTurn
      <4> QED
        BY <4>1, <3>1, <1>1 DEF StopNext, IInv, Walked
    <3> QED
      BY <3>1
  <2> QED
    BY <1>1, <2>1, <2>2
<1>2. []IInv /\ [][SessionNext]_session => [][InReverse]_session
  BY <1>1, PTL
<1> QED
  BY <1>2, IInvHolds, PTL DEF SessionSpec, ReverseTeardown
=============================================================================
