--------------------------- MODULE DeliveryQueue ---------------------------
(***************************************************************************)
(* What the file transport promises a subscription, without files, locks,  *)
(* cursors and crashes: messages are stored before a publishing call       *)
(* returns, and each is handed over until it is acknowledged or, after     *)
(* Limit counted attempts, given up.  With messages of one source the      *)
(* queue is append-only, and nothing is handed over before all that was    *)
(* stored earlier has been handed over or given up.                        *)
(***************************************************************************)
EXTENDS Naturals

CONSTANTS Messages, Limit, None

VARIABLES
  ordered,        \* all messages are of one source; never changes
  stored,         \* the copies in the queue, each with its id and its sequence
  returned,       \* messages whose publishing call has returned
  tries,          \* attempts counted
  given,          \* how often each message was handed over
  inHand,         \* the message in the handler's hands, or None
  acknowledged,
  dead            \* the messages given up

qvars == <<ordered, stored, returned, tries, given, inHand, acknowledged, dead>>

QInit ==
  /\ ordered \in BOOLEAN
  /\ stored = {} /\ returned = {} /\ acknowledged = {} /\ dead = {}
  /\ tries = [m \in Messages |-> 0] /\ given = [m \in Messages |-> 0]
  /\ inHand = None

(* A message may have two copies when a publisher crashes.                 *)
Store ==
  /\ \E e \in stored' :
       stored' = stored \cup {e} /\ (ordered => \A f \in stored : f.sequence < e.sequence)
  /\ UNCHANGED <<ordered, returned, tries, given, inHand, acknowledged, dead>>

Return ==
  /\ \E e \in stored : returned' = returned \cup {e.id}
  /\ UNCHANGED <<ordered, stored, tries, given, inHand, acknowledged, dead>>

Try ==
  /\ \E e \in stored :
       e.id \notin acknowledged /\ tries' = [tries EXCEPT ![e.id] = @ + 1]
  /\ inHand' = None
  /\ UNCHANGED <<ordered, stored, returned, given, acknowledged, dead>>

Seen(m) == given[m] > 0 \/ m \in dead

HandOver ==
  /\ inHand = None
  /\ \E e \in stored :
       /\ e.id \notin acknowledged \cup dead
       /\ given[e.id] < tries[e.id] /\ tries[e.id] <= Limit
       /\ ordered => \A f \in stored : f.sequence < e.sequence => Seen(f.id)
       /\ given' = [given EXCEPT ![e.id] = @ + 1] /\ inHand' = e.id
  /\ UNCHANGED <<ordered, stored, returned, tries, acknowledged, dead>>

Acknowledge ==
  /\ inHand # None
  /\ acknowledged' = acknowledged \cup {inHand} /\ inHand' = None
  /\ UNCHANGED <<ordered, stored, returned, tries, given, dead>>

(* The handler fails, or the process does.                                 *)
LetGo ==
  /\ inHand' = None
  /\ UNCHANGED <<ordered, stored, returned, tries, given, acknowledged, dead>>

GiveUp ==
  /\ inHand = None
  /\ \E e \in stored :
       e.id \notin acknowledged /\ tries[e.id] > Limit /\ dead' = dead \cup {e.id}
  /\ UNCHANGED <<ordered, stored, returned, tries, given, inHand, acknowledged>>

QNext == Store \/ Return \/ Try \/ HandOver \/ Acknowledge \/ LetGo \/ GiveUp
QSpec == QInit /\ [][QNext]_qvars
============================================================================
