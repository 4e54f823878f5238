---------------------------- MODULE BeliefLedger ----------------------------
(***************************************************************************)
(* What the belief service and its store promise together, without files,  *)
(* retries, exceptions, crashes and recoveries: a belief that only grows,  *)
(* by inputs in their order and by one revision at a time, and a topic,    *)
(* shared with other services, on which every revision is announced before *)
(* the next one is committed.                                              *)
(***************************************************************************)
EXTENDS Integers, FiniteSets, Sequences

CONSTANTS Kind, Foreign, None

VARIABLES
  belief,   \* the inputs of the committed belief
  owed,     \* the revision committed and not announced yet, or None
  topic     \* what has been announced, by this service and by others

lvars == <<belief, owed, topic>>

Revision(applied) == Cardinality({n \in DOMAIN applied : Kind[applied[n]] = "risk.observed"})

LInit == belief = <<>> /\ owed = None /\ topic = <<>>

(* Inputs that are no observations raise no revision.  After a recovery    *)
(* that could not read the store a commit may carry more than one of them. *)
Commit ==
  /\ owed = None
  /\ Len(belief) < Len(belief') /\ \A n \in DOMAIN belief : belief'[n] = belief[n]
  /\ \A m, n \in DOMAIN belief' : m < n => belief'[m] < belief'[n]
  /\ \/ Revision(belief') = Revision(belief) /\ owed' = None
     \/ Revision(belief') = Revision(belief) + 1 /\ owed' # None /\ owed'.revision = Revision(belief')
  /\ topic' = topic

Announce ==
  /\ owed # None
  /\ topic' = Append(topic, owed) /\ owed' = None
  /\ belief' = belief

OthersAnnounce ==
  /\ topic' = Append(topic, Foreign)
  /\ UNCHANGED <<belief, owed>>

LNext == Commit \/ Announce \/ OthersAnnounce
LSpec == LInit /\ [][LNext]_lvars
=============================================================================
