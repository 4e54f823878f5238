----------------------------- MODULE DurableFSM -----------------------------
(***************************************************************************)
(* What the FSM Runner and its store promise while no write raises: one    *)
(* FSM on disk, with its Statechart and its execution record, that moves   *)
(* only along an edge of that Statechart which a fresh decision names, and *)
(* of which nothing is published or acknowledged before it is durable.     *)
(* The two files are replaced one after the other: while a newer           *)
(* Statechart is coming in there is no FSM, only the last record.  Memory, *)
(* the running machine, crashes and restarts do not appear.                *)
(***************************************************************************)
EXTENDS Naturals

CONSTANTS Charts, Decisions, None

VARIABLES
  chart,    \* the Statechart of the FSM on disk, or None while there is none
  record,   \* the last execution record on disk, or None before the first
  heard,    \* the statuses published
  acked     \* the Statecharts acknowledged

dvars == <<chart, record, heard, acked>>

DInit == chart = None /\ record = None /\ heard = {} /\ acked = {}

Withdraw ==
  /\ chart # None /\ chart' = None
  /\ UNCHANGED <<record, heard, acked>>

Install(c) ==
  /\ chart = None /\ chart' = c
  /\ record # None => c.revision > record.plan
  /\ record' = [plan |-> c.revision, state |-> c.entry, applied |-> {},
                entry |-> IF record = None THEN 1 ELSE record.entry + 1]
  /\ UNCHANGED <<heard, acked>>

Move(t, d) ==
  /\ chart # None /\ t \in chart.transitions /\ t.source = record.state
  /\ d.plan = chart.revision /\ d.event = t.event /\ d.id \notin record.applied
  /\ record' = [plan |-> record.plan, state |-> t.target, applied |-> record.applied \cup {d.id},
                entry |-> record.entry + 1]
  /\ UNCHANGED <<chart, heard, acked>>

Publish ==
  /\ chart # None
  /\ heard' = heard \cup {record}
  /\ acked' = acked \/ acked' = acked \cup {chart}
  /\ UNCHANGED <<chart, record>>

(* The Statechart of the FSM is delivered once more.                       *)
AcknowledgeAgain ==
  /\ chart # None
  /\ acked' = acked \cup {chart}
  /\ UNCHANGED <<chart, record, heard>>

DNext ==
  \/ Withdraw \/ Publish \/ AcknowledgeAgain
  \/ \E c \in Charts : Install(c) \/ \E t \in c.transitions, d \in Decisions : Move(t, d)

DSpec == DInit /\ [][DNext]_dvars
=============================================================================
