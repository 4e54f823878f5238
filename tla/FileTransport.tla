--------------------------- MODULE FileTransport ---------------------------
(***************************************************************************)
(* The file transport (adapters/file_transport.py) for one topic and one   *)
(* target service of a mission: publishers that share a file lock, and the *)
(* one consumer a subscription may have.                                   *)
(*                                                                         *)
(* Every file write is a step of its own, visible to the consumer at once, *)
(* and any process may crash between two of them.  A publisher of events   *)
(* works as the services of the repository do: it looks its event up by    *)
(* identity, draws the next sequence, and publishes; the draw and the      *)
(* publication take the lock separately.                                   *)
(***************************************************************************)
EXTENDS Integers, FiniteSets, FiniteSetsExt

CONSTANTS
  Publishers,    \* publishing processes
  Messages,      \* message identities, ordered as the code orders identities
  Kind,          \* [Messages -> Kinds]
  Author,        \* [Messages -> Publishers]
  CommandOf,     \* [outcomes -> the command each answers]
  Workloads,     \* sets of messages, one of which is published to the subscription
  Limit,         \* subscription.max_retries
  MaxCrashes,    \* bound on the crashes of all processes together
  None

Kinds == {"event", "command", "outcome"}

(* A message file of a directory; how far a publisher is with a message.   *)
File == [source: {"event", "command"}, sequence: Nat, id: Messages]
Progress == [step: {"drawn", "stored", "identified"}, id: Messages, sequence: Nat]

ASSUME TransportAssumption ==
  /\ IsFiniteSet(Messages) /\ Messages \subseteq Nat
  /\ Kind \in [Messages -> Kinds]
  /\ Author \in [Messages -> Publishers]
  /\ CommandOf \in [{m \in Messages : Kind[m] = "outcome"} -> {m \in Messages : Kind[m] = "command"}]
  /\ Workloads \subseteq SUBSET Messages
  /\ Limit \in Nat \ {0} /\ MaxCrashes \in Nat
  /\ None \notin File \cup Progress \cup Messages

VARIABLES
  offered,       \* the messages of this life of the subscription; never changes
  files,         \* message files: [source, sequence, id]
  identities,    \* messages with an identity file
  receipts,      \* commands with a receipt file
  publishing,    \* per publisher: None or [step, id, sequence]
  returned,      \* messages for which a publishing call has returned
  consumer,      \* where the consumer stands; "closed" when nobody holds the subscription
  active,        \* self._active_delivery, or None
  cursor,        \* cursor.json, whose keys appear as they are first written
  processed,     \* processed.json
  attempts,      \* attempts.json
  dead,          \* dead-lettered identities
  deliveries,    \* how often each message was handed over, counted to Limit + 1
  acknowledged,  \* messages whose acknowledgement returned
  crashes

vars == <<offered, files, identities, receipts, publishing, returned, consumer, active, cursor,
          processed, attempts, dead, deliveries, acknowledged, crashes>>
publisherVars == <<offered, files, identities, receipts, publishing, returned>>
consumerVars == <<consumer, active, cursor, processed, attempts, dead, deliveries, acknowledged>>

Source(m) == IF Kind[m] = "event" THEN "event" ELSE "command"

Filed(m, n) == [source |-> Source(m), sequence |-> n, id |-> m]

Init ==
  /\ offered \in Workloads
  /\ files = {} /\ identities = {} /\ receipts = {} /\ returned = {}
  /\ publishing = [p \in Publishers |-> None]
  /\ consumer = "closed" /\ active = None
  /\ cursor = [k \in {"sequence"} |-> -1]
  /\ processed = {} /\ dead = {} /\ acknowledged = {}
  /\ attempts = [m \in Messages |-> 0] /\ deliveries = [m \in Messages |-> 0]
  /\ crashes = 0

----------------------------------------------------------------------------
(* Publishers.                                                             *)

Working(p, step) == publishing[p] # None /\ publishing[p].step = step

(* _publisher_lock is held from the first to the last write of a call.     *)
LockFree == \A p \in Publishers : ~Working(p, "stored") /\ ~Working(p, "identified")

LastSequence(source) ==   \* mutant: the next sequence is the last one
  Max({-1} \cup {f.sequence : f \in {g \in files : g.source = source}})

NextSequence(source) ==
  1 + Max({-1} \cup {f.sequence : f \in {g \in files : g.source = source}})

(* get_event finds nothing, and next_event_sequence draws the next number. *)
Draw(p, m) ==
  /\ Author[m] = p /\ Kind[m] = "event" /\ publishing[p] = None /\ LockFree
  /\ m \notin identities
  /\ publishing' = [publishing EXCEPT ![p] =
       [step |-> "drawn", id |-> m, sequence |-> NextSequence("event")]]
  /\ UNCHANGED <<offered, files, identities, receipts, returned, consumerVars, crashes>>

NeverTaken(n) == FALSE   \* mutant: no conflict check on the sequence

SequenceTaken(n) == \E f \in files : f.source = "event" /\ f.sequence = n

(* _publish_event: another event took the sequence, the call raises and    *)
(* the publisher may start again; otherwise the stream file is written.    *)
PublishEvent(p) ==
  /\ Working(p, "drawn") /\ LockFree
  /\ IF SequenceTaken(publishing[p].sequence)
     THEN /\ publishing' = [publishing EXCEPT ![p] = None]
          /\ UNCHANGED files
     ELSE /\ files' = files \cup {Filed(publishing[p].id, publishing[p].sequence)}
          /\ publishing' = [publishing EXCEPT ![p].step = "stored"]
  /\ UNCHANGED <<offered, identities, receipts, returned, consumerVars, crashes>>

SendNoRepair(p, m) ==   \* mutant: a repeated command returns at once
  /\ Author[m] = p /\ Kind[m] = "command" /\ publishing[p] = None /\ LockFree
  /\ IF m \in identities
     THEN returned' = returned \cup {m} /\ UNCHANGED <<files, publishing, receipts>>
     ELSE /\ files' = files \cup {Filed(m, NextSequence("command"))}
          /\ publishing' = [publishing EXCEPT ![p] =
               [step |-> "stored", id |-> m, sequence |-> NextSequence("command")]]
          /\ UNCHANGED <<receipts, returned>>
  /\ UNCHANGED <<offered, identities, consumerVars, crashes>>

(* _send_command: a known identity only repairs a missing receipt.         *)
SendCommand(p, m) ==
  /\ Author[m] = p /\ Kind[m] = "command" /\ publishing[p] = None /\ LockFree
  /\ IF m \in identities
     THEN /\ receipts' = receipts \cup {m} /\ returned' = returned \cup {m}
          /\ UNCHANGED <<files, publishing>>
     ELSE /\ files' = files \cup {Filed(m, NextSequence("command"))}
          /\ publishing' = [publishing EXCEPT ![p] =
               [step |-> "stored", id |-> m, sequence |-> NextSequence("command")]]
          /\ UNCHANGED <<receipts, returned>>
  /\ UNCHANGED <<offered, identities, consumerVars, crashes>>

(* _publish_outcome: in the directory of the command it answers.           *)
PublishOutcome(p, m) ==
  /\ Author[m] = p /\ Kind[m] = "outcome" /\ publishing[p] = None /\ LockFree
  /\ CommandOf[m] \in identities
  /\ IF m \in identities
     THEN returned' = returned \cup {m} /\ UNCHANGED <<files, publishing>>
     ELSE /\ files' = files \cup {Filed(m, NextSequence("command"))}
          /\ publishing' = [publishing EXCEPT ![p] =
               [step |-> "stored", id |-> m, sequence |-> NextSequence("command")]]
          /\ UNCHANGED returned
  /\ UNCHANGED <<offered, identities, receipts, consumerVars, crashes>>

(* The identity file; only a command has a third write to make.            *)
SaveIdentity(p) ==
  /\ Working(p, "stored")
  /\ LET m == publishing[p].id IN
     /\ identities' = identities \cup {m}
     /\ IF Kind[m] = "command"
        THEN /\ publishing' = [publishing EXCEPT ![p].step = "identified"]
             /\ UNCHANGED returned
        ELSE /\ publishing' = [publishing EXCEPT ![p] = None]
             /\ returned' = returned \cup {m}
  /\ UNCHANGED <<offered, files, receipts, consumerVars, crashes>>

SaveReceipt(p) ==
  /\ Working(p, "identified")
  /\ receipts' = receipts \cup {publishing[p].id}
  /\ returned' = returned \cup {publishing[p].id}
  /\ publishing' = [publishing EXCEPT ![p] = None]
  /\ UNCHANGED <<offered, files, identities, consumerVars, crashes>>

(* The lock of a crashed publisher is released by the operating system.    *)
CrashPublisher(p) ==
  /\ publishing[p] # None /\ crashes < MaxCrashes
  /\ publishing' = [publishing EXCEPT ![p] = None]
  /\ crashes' = crashes + 1
  /\ UNCHANGED <<offered, files, identities, receipts, returned, consumerVars>>

----------------------------------------------------------------------------
(* The consumer.                                                           *)

(* The last sequence passed in a source; events fall back to the shared    *)
(* "sequence" key until their own is written.                              *)
Passed(source) ==
  IF source \in DOMAIN cursor THEN cursor[source]
  ELSE IF source = "event" THEN cursor["sequence"] ELSE -1

WaitingUnpassed == {f \in files : f.sequence > Passed(f.source)}   \* mutant: processed.json is not consulted

Waiting == {f \in files : f.id \notin processed /\ f.sequence > Passed(f.source)}

(* _next_candidate: in the order of (sequence, identity).                  *)
NextCandidate ==
  CHOOSE f \in Waiting :
    \A g \in Waiting \ {f} :
      f.sequence < g.sequence \/ (f.sequence = g.sequence /\ f.id <= g.id)

OpenConsumer ==
  /\ consumer = "closed"
  /\ consumer' = "idle"
  /\ UNCHANGED <<publisherVars, active, cursor, processed, attempts, dead, deliveries, acknowledged, crashes>>

ReceiveUncounted ==   \* mutant: a redelivery of the active message is not counted
  /\ consumer \in {"idle", "handling"}
  /\ active # None \/ Waiting # {}
  /\ LET f == IF active # None THEN active ELSE NextCandidate IN
     /\ attempts' = IF active # None THEN attempts ELSE [attempts EXCEPT ![f.id] = @ + 1]
     /\ active' = f
     /\ consumer' = IF attempts'[f.id] > Limit THEN "exhausted" ELSE "counted"
  /\ UNCHANGED <<publisherVars, cursor, processed, dead, deliveries, acknowledged, crashes>>

(* receive, also when the last delivery was not acknowledged (nack leaves  *)
(* it active): the attempt is counted on disk before anything else.        *)
Receive ==
  /\ consumer \in {"idle", "handling"}
  /\ active # None \/ Waiting # {}
  /\ LET f == IF active # None THEN active ELSE NextCandidate IN
     /\ attempts' = [attempts EXCEPT ![f.id] = @ + 1]
     /\ active' = f
     /\ consumer' = IF attempts'[f.id] > Limit THEN "exhausted" ELSE "counted"
  /\ UNCHANGED <<publisherVars, cursor, processed, dead, deliveries, acknowledged, crashes>>

HandOver ==
  /\ consumer = "counted"
  /\ deliveries' = [deliveries EXCEPT ![active.id] = Min({@ + 1, Limit + 1})]
  /\ consumer' = "handling"
  /\ UNCHANGED <<publisherVars, active, cursor, processed, attempts, dead, acknowledged, crashes>>

(* An exhausted message is dead-lettered, then passed over like an         *)
(* acknowledged one.                                                       *)
DeadLetter ==
  /\ consumer = "exhausted"
  /\ dead' = dead \cup {active.id}
  /\ consumer' = "burying"
  /\ UNCHANGED <<publisherVars, active, cursor, processed, attempts, deliveries, acknowledged, crashes>>

(* _save_ack, first write, of an acknowledgement or of a dead letter.      *)
SaveCursor ==
  /\ consumer \in {"handling", "burying"}
  /\ cursor' = [k \in DOMAIN cursor \cup {active.source, "sequence"} |->
                  CASE k = active.source -> Max({Passed(k), active.sequence})
                    [] k = "sequence" -> Max({cursor[k], active.sequence})
                    [] OTHER -> cursor[k]]
  /\ consumer' = IF consumer = "handling" THEN "acknowledging" ELSE "passing"
  /\ UNCHANGED <<publisherVars, active, processed, attempts, dead, deliveries, acknowledged, crashes>>

(* _save_ack, second write; the delivery is done.                          *)
SaveProcessed ==
  /\ consumer \in {"acknowledging", "passing"}
  /\ processed' = processed \cup {active.id}
  /\ acknowledged' = IF consumer = "acknowledging" THEN acknowledged \cup {active.id}
                     ELSE acknowledged
  /\ active' = None
  /\ consumer' = "idle"
  /\ UNCHANGED <<publisherVars, cursor, attempts, dead, deliveries, crashes>>

CrashForgetsAttempts ==   \* mutant: the attempts are only counted in memory
  /\ consumer # "closed" /\ crashes < MaxCrashes
  /\ consumer' = "closed" /\ active' = None
  /\ attempts' = [m \in Messages |-> 0]
  /\ crashes' = crashes + 1
  /\ UNCHANGED <<publisherVars, cursor, processed, dead, deliveries, acknowledged>>

CrashConsumer ==
  /\ consumer # "closed" /\ crashes < MaxCrashes
  /\ consumer' = "closed" /\ active' = None
  /\ crashes' = crashes + 1
  /\ UNCHANGED <<publisherVars, cursor, processed, attempts, dead, deliveries, acknowledged>>

----------------------------------------------------------------------------
Publishing ==
  \E p \in Publishers :
    \/ \E m \in offered : Draw(p, m) \/ SendCommand(p, m) \/ PublishOutcome(p, m)
    \/ PublishEvent(p) \/ SaveIdentity(p) \/ SaveReceipt(p)

Consuming ==
  OpenConsumer \/ Receive \/ HandOver \/ DeadLetter \/ SaveCursor \/ SaveProcessed

Next ==
  \/ Publishing \/ Consuming
  \/ \E p \in Publishers : CrashPublisher(p)
  \/ CrashConsumer

Spec == Init /\ [][Next]_vars

(* The services poll their consumer in every cycle of their loop, and a    *)
(* call that has begun runs to its end unless the process crashes.         *)
FairSpec == Spec /\ WF_vars(Consuming)
----------------------------------------------------------------------------
TypeOK ==
  /\ files \subseteq File
  /\ offered \in Workloads
  /\ identities \subseteq Messages /\ receipts \subseteq Messages /\ returned \subseteq Messages
  /\ publishing \in [Publishers -> Progress \cup {None}]
  /\ consumer \in {"closed", "idle", "counted", "handling", "exhausted", "burying",
                   "acknowledging", "passing"}
  /\ active \in File \cup {None}
  /\ "sequence" \in DOMAIN cursor /\ DOMAIN cursor \subseteq {"event", "command", "sequence"}
  /\ \A k \in DOMAIN cursor : cursor[k] \in Nat \cup {-1}
  /\ processed \subseteq Messages /\ dead \subseteq Messages /\ acknowledged \subseteq Messages
  /\ attempts \in [Messages -> Nat]
  /\ deliveries \in [Messages -> 0..(Limit + 1)]
  /\ crashes \in 0..MaxCrashes

(* A call that returned left the message where get_event,                  *)
(* get_command_outcome and get_command_receipt find it, whatever crash     *)
(* preceded the call that returned.                                        *)
ReturnedIsFindable ==
  \A m \in returned : m \in identities /\ (Kind[m] = "command" => m \in receipts)

(* At-least-once: nothing the cursor has passed is unseen; it was handed   *)
(* over or dead-lettered under its identity.                               *)
AtLeastOnce ==
  \A f \in files : f.sequence <= Passed(f.source) => deliveries[f.id] > 0 \/ f.id \in dead

(* The same for a subscription that receives events only, or commands and  *)
(* outcomes only, where no acknowledgement moves another source's cursor.  *)
AtLeastOnceOfOneSource == Cardinality({Source(m) : m \in offered}) = 1 => AtLeastOnce

(* Once an acknowledgement has returned the message is not handed over     *)
(* again, although a crashed and repeated publication may have stored a    *)
(* second copy of it under a later sequence.                               *)
NoRedeliveryAfterAck ==
  consumer \in {"counted", "handling"} => active.id \notin acknowledged

(* A message is handed over at most max_retries times over all the lives   *)
(* of the consumer: a message that crashes its handler cannot do so        *)
(* forever.                                                                *)
DeliveriesBounded == \A m \in Messages : deliveries[m] <= Limit

(* Everything published is eventually behind the consumer, in every copy:  *)
(* acknowledged, or dead-lettered after the handler refused it Limit       *)
(* times.  A message that is neither acknowledged nor exhausted may not    *)
(* stop the subscription.                                                  *)
EventuallySettled ==
  \A m \in Messages :
    m \in returned ~>
      \A f \in files : f.id = m => f.sequence <= Passed(f.source) \/ m \in processed

(* The files implement the queue: whatever crashes, a message is handed    *)
(* over only after the attempt was counted, never once it is acknowledged  *)
(* or given up, and, when all messages are of one source, not before those *)
(* stored earlier.                                                         *)
Queue == INSTANCE DeliveryQueue WITH
  ordered <- \A m, n \in offered : Source(m) = Source(n),
  stored <- files,
  tries <- attempts,
  given <- deliveries,
  inHand <- IF consumer \in {"handling", "acknowledging"} THEN active.id ELSE None

ImplementsQueue == Queue!QSpec
============================================================================
