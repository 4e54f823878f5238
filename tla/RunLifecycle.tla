---------------------------- MODULE RunLifecycle ----------------------------
(***************************************************************************)
(* What the Runtime Host promises of Mission Runs, without threads,        *)
(* processes, signals and crashes: a run is accepted only when every run   *)
(* accepted before has ended, works only while it is open, and ends once,  *)
(* with one outcome, when nothing works for it any more.                   *)
(***************************************************************************)
CONSTANTS Runs, Outcomes

VARIABLES
  opened,    \* the runs that were accepted
  working,   \* the runs something works for
  ends       \* [run, outcome] of the runs that have ended

lvars == <<opened, working, ends>>

Closed == {e.run : e \in ends}
Open == opened \ Closed

LInit == opened = {} /\ working = {} /\ ends = {}

Accept(r) ==
  /\ r \notin opened /\ Open = {}
  /\ opened' = opened \cup {r}
  /\ UNCHANGED <<working, ends>>

(* Work may stop and begin again as long as the run is open.               *)
Begin(r) ==
  /\ r \in Open
  /\ working' = working \cup {r}
  /\ UNCHANGED <<opened, ends>>

Leave(r) ==
  /\ working' = working \ {r}
  /\ UNCHANGED <<opened, ends>>

End(r, outcome) ==
  /\ r \in Open \ working
  /\ ends' = ends \cup {[run |-> r, outcome |-> outcome]}
  /\ UNCHANGED <<opened, working>>

LNext ==
  \E r \in Runs : Accept(r) \/ Begin(r) \/ Leave(r) \/ \E outcome \in Outcomes : End(r, outcome)

LSpec == LInit /\ [][LNext]_lvars
=============================================================================
