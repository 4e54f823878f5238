--------------------------- MODULE BayesianBelief ---------------------------
(***************************************************************************)
(* The durable Bayesian belief of one mission                              *)
(* (application/bayesian_belief.py, adapters/bayesian_belief_store.py):    *)
(* the service that consumes belief inputs and announces every committed   *)
(* belief on the context topic, and the store that commits a generation    *)
(* directory by replacing one pointer file.                                *)
(*                                                                         *)
(* A belief is identified with the sequence of inputs applied to it: its   *)
(* revision is the number of observations among them.  The particles, the  *)
(* constraints and the hashes are a function of that sequence and of the   *)
(* moment the snapshot was made (created_at), which "made" counts.         *)
(*                                                                         *)
(* Every file write is a step.  A write may raise before or after it took  *)
(* effect, the process may crash anywhere, other services publish on the   *)
(* context topic between a draw and a publication, and a viewer process    *)
(* reads the files without the store's lock.                               *)
(***************************************************************************)
EXTENDS Integers, FiniteSets, FiniteSetsExt, Sequences, Functions

CONSTANTS
  Inputs,        \* belief inputs by input revision, in the order of their stream
  Kind,          \* [Inputs -> {"risk.observed", "belief.constraints"}]
  HistoryLimit,  \* history_limit, the committed generations that are kept
  MaxRetries,    \* subscription.max_retries
  MaxFaults,     \* bound on exceptions and crashes together
  MaxOthers,     \* bound on the events other services publish on the topic
  None

(* An observation in the belief raises its revision.                       *)
Observations(applied) == {n \in DOMAIN applied : Kind[applied[n]] = "risk.observed"}
Revision(applied) == Cardinality(Observations(applied))
LastOf(applied) == IF applied = <<>> THEN 0 ELSE applied[Len(applied)]

(* What a reference names; and what the pointer file holds.                *)
Content == [revision : Nat, made : Nat]
Pointer == [generation : Nat \ {0}, content : Content \cup {None}, checkpoint : Seq(Inputs),
            pending : BOOLEAN]

(* A commit under way: what it writes, the file it is at, and which of the *)
(* store's three operations it is.                                         *)
Files == {"begin", "snapshot", "artifact", "checkpoint", "pending", "commit", "prune"}
CommitJob ==
  [content : Content \cup {None}, checkpoint : Seq(Inputs), pending : BOOLEAN,
   then : {"update", "constraints", "clear"}, file : Files]

ASSUME BeliefAssumption ==
  /\ Inputs \subseteq Nat \ {0}
  /\ Kind \in [Inputs -> {"risk.observed", "belief.constraints"}]
  /\ HistoryLimit \in Nat \ {0}
  /\ None \notin Inputs \cup Content \cup Pointer \cup CommitJob

VARIABLES
  generations,   \* the numbered directories, each with the files it holds so far
  artifacts,     \* contents with a file under generations/by-content
  committed,     \* committed-state-v1.json
  manager,       \* the belief in memory
  prior,         \* the checkpoint handle took before it changed the manager
  lastInput,     \* self._last_input_revision
  service,       \* where the service stands
  writing,       \* the generation being committed, or None
  delivery,      \* the input in hand, or None
  handled,       \* handle has returned for it
  attempts,      \* deliveries counted by the consumer
  settled,       \* inputs acknowledged or dead-lettered
  acknowledged,
  stream,        \* the context topic: contents announced, or Foreign
  drawn,         \* the sequence drawn for the pending output
  made,          \* snapshots made so far
  reader,        \* a read-only reader's progress, or None
  unread,        \* a recovery once failed to read the store
  faults

disk == <<generations, artifacts, committed>>
memory == <<manager, prior, lastInput>>
consumer == <<delivery, handled, attempts, settled, acknowledged>>
vars == <<disk, memory, consumer, service, writing, stream, drawn, made, reader, unread, faults>>

Foreign == [revision |-> 0, made |-> 0]   \* an event of another service
EmptyDirectory == [content |-> None, checkpoint |-> None, pending |-> None]
Generation == IF committed = None THEN 0 ELSE committed.generation
Pending == committed # None /\ committed.pending

(* The belief a restarted service would have.                              *)
Stored == IF committed = None THEN <<>> ELSE committed.checkpoint

Init ==
  /\ generations = [g \in {} |-> EmptyDirectory] /\ artifacts = {} /\ committed = None
  /\ manager = <<>> /\ prior = <<>> /\ lastInput = 0
  /\ service = "down" /\ writing = None
  /\ delivery = None /\ handled = FALSE
  /\ attempts = [i \in Inputs |-> 0] /\ settled = {} /\ acknowledged = {}
  /\ stream = <<>> /\ drawn = 0 /\ made = 0
  /\ reader = None /\ unread = FALSE /\ faults = 0

----------------------------------------------------------------------------
(* The store.                                                              *)

RetainedFewer(pointer) ==   \* mutant: one generation less is kept
  {g \in DOMAIN generations : pointer - HistoryLimit < g - 1 /\ g <= pointer}

(* _prune_generations: directories above the pointer are partial commits,  *)
(* of the others the last HistoryLimit stay, and the artifacts they name.  *)
Retained(pointer) ==
  {g \in DOMAIN generations :
     g <= pointer /\ Cardinality({h \in DOMAIN generations : g < h /\ h <= pointer}) < HistoryLimit}
Prune(pointer) ==
  /\ generations' = Restrict(generations, Retained(pointer))
  /\ artifacts' = artifacts \cap {generations[g].content : g \in Retained(pointer)}

(* _load_state prunes whenever there is a pointer.                         *)
Load == IF committed = None THEN UNCHANGED <<generations, artifacts>> ELSE Prune(Generation)

(* The file after a given one; a file with nothing to hold is left out.    *)
NextFile(w, file) ==
  CASE file = "snapshot" -> "artifact"
    [] file = "artifact" -> "checkpoint"
    [] file = "checkpoint" -> IF w.pending THEN "pending" ELSE "commit"
    [] file = "pending" -> "commit"
    [] file = "commit" -> "prune"

Job(content, applied, pending, then) ==
  [content |-> content, checkpoint |-> applied, pending |-> pending, then |-> then, file |-> "begin"]

(* What commit_update, save_checkpoint and clear_pending_output require of *)
(* the committed state.                                                    *)
Admissible(w) ==
  CASE w.then = "update" -> ~Pending /\ Revision(w.checkpoint) = Revision(Stored) + 1
    [] w.then = "constraints" ->
         ~Pending /\ Revision(w.checkpoint) = Revision(Stored) /\ LastOf(w.checkpoint) > LastOf(Stored)
    [] w.then = "clear" -> TRUE

Directory == Generation + 1

(* An incomplete directory of that number is removed first.                *)
BeginCommit ==
  /\ service = "commit" /\ writing.file = "begin"
  /\ IF Admissible(writing)
     THEN /\ generations' = [g \in {h \in DOMAIN generations : h <= Generation} \cup {Directory} |->
                               IF g = Directory THEN EmptyDirectory ELSE generations[g]]
          /\ writing' = [writing EXCEPT !.file = IF writing.content = None THEN "checkpoint" ELSE "snapshot"]
          /\ UNCHANGED <<service, artifacts>>
     ELSE /\ service' = "recover" /\ writing' = None
          /\ UNCHANGED <<generations, artifacts>>
  /\ UNCHANGED <<committed, memory, consumer, stream, drawn, made, reader, unread, faults>>

(* _atomic_write: a directory a pruning reader has removed is made again.  *)
Put(field, value) ==
  LET directory == IF Directory \in DOMAIN generations THEN generations[Directory] ELSE EmptyDirectory
  IN generations' = [g \in DOMAIN generations \cup {Directory} |->
       IF g = Directory THEN [directory EXCEPT ![field] = value] ELSE generations[g]]

WriteFile ==
  /\ service = "commit" /\ writing.file \in {"snapshot", "artifact", "checkpoint", "pending"}
  /\ CASE writing.file = "snapshot" -> Put("content", writing.content) /\ UNCHANGED artifacts
       [] writing.file = "artifact" -> artifacts' = artifacts \cup {writing.content} /\ UNCHANGED generations
       [] writing.file = "checkpoint" -> Put("checkpoint", writing.checkpoint) /\ UNCHANGED artifacts
       [] writing.file = "pending" -> Put("pending", TRUE) /\ UNCHANGED artifacts
  /\ writing' = [writing EXCEPT !.file = NextFile(writing, @)]
  /\ UNCHANGED <<committed, memory, consumer, service, stream, drawn, made, reader, unread, faults>>

WritePointer ==
  /\ service = "commit" /\ writing.file = "commit"
  /\ committed' = [generation |-> Directory, content |-> writing.content,
                   checkpoint |-> writing.checkpoint, pending |-> writing.pending]
  /\ writing' = [writing EXCEPT !.file = "prune"]
  /\ UNCHANGED <<generations, artifacts, memory, consumer, service, stream, drawn, made, reader, unread, faults>>

AfterFlush == IF delivery = None THEN "receive" ELSE IF handled THEN "ack" ELSE "handle"

(* The commit returns: handle sets _last_input_revision; an update is then *)
(* announced, a change of constraints is not.                              *)
FinishCommit ==
  /\ service = "commit" /\ writing.file = "prune"
  /\ Prune(Generation)
  /\ writing' = None
  /\ IF writing.then = "clear"
     THEN service' = AfterFlush /\ UNCHANGED <<handled, lastInput>>
     ELSE /\ handled' = TRUE /\ lastInput' = delivery
          /\ service' = IF writing.then = "update" THEN "flush" ELSE "ack"
  /\ UNCHANGED <<committed, manager, prior, delivery, attempts, settled, acknowledged, stream, drawn, made,
                 reader, unread, faults>>

----------------------------------------------------------------------------
(* The service.                                                            *)

(* create_bayesian_belief_service restores the checkpoint of the pointer.  *)
Start ==
  /\ service = "down"
  /\ Load
  /\ manager' = Stored
  /\ prior' = manager' /\ lastInput' = LastOf(manager')
  /\ service' = "flush"
  /\ UNCHANGED <<committed, consumer, writing, stream, drawn, made, reader, unread, faults>>

FlushBlind ==   \* mutant: the pending event is not looked up before it is published
  /\ service = "flush"
  /\ Load
  /\ IF ~Pending THEN service' = AfterFlush /\ UNCHANGED drawn
     ELSE drawn' = Len(stream) + 1 /\ service' = "publish"
  /\ UNCHANGED <<committed, memory, consumer, writing, stream, made, reader, unread, faults>>

FlushAfterUpdate ==   \* mutant: only the call that committed an update flushes its output
  /\ service = "flush"
  /\ Load
  /\ IF ~Pending \/ ~handled THEN service' = AfterFlush /\ UNCHANGED drawn
     ELSE drawn' = Len(stream) + 1 /\ service' = "publish"
  /\ UNCHANGED <<committed, memory, consumer, writing, stream, made, reader, unread, faults>>

(* flush_pending_output finds nothing, finds the event published already,  *)
(* or draws a sequence for it.                                             *)
Flush ==
  /\ service = "flush"
  /\ Load
  /\ IF ~Pending THEN service' = AfterFlush /\ UNCHANGED <<writing, drawn>>
     ELSE IF \E n \in DOMAIN stream : stream[n] = committed.content
     THEN /\ writing' = Job(committed.content, committed.checkpoint, FALSE, "clear")
          /\ service' = "commit" /\ UNCHANGED drawn
     ELSE /\ drawn' = Len(stream) + 1
          /\ service' = "publish" /\ UNCHANGED writing
  /\ UNCHANGED <<committed, memory, consumer, stream, made, reader, unread, faults>>

(* The sequence may be taken by now: the loop draws again.                 *)
Publish ==
  /\ service = "publish"
  /\ IF Len(stream) >= drawn
     THEN drawn' = Len(stream) + 1 /\ UNCHANGED <<stream, writing, service>>
     ELSE /\ stream' = Append(stream, committed.content)
          /\ writing' = Job(committed.content, committed.checkpoint, FALSE, "clear")
          /\ service' = "commit" /\ UNCHANGED drawn
  /\ UNCHANGED <<disk, memory, consumer, made, reader, unread, faults>>

OtherPublishes ==
  /\ Cardinality({n \in DOMAIN stream : stream[n] = Foreign}) < MaxOthers
  /\ stream' = Append(stream, Foreign)
  /\ UNCHANGED <<disk, memory, consumer, service, writing, drawn, made, reader, unread, faults>>

(* The consumer counts the attempt, or dead-letters an exhausted input.    *)
Receive ==
  /\ service = "receive" /\ settled # Inputs
  /\ LET i == Min(Inputs \ settled) IN
     IF attempts[i] >= MaxRetries
     THEN settled' = settled \cup {i} /\ UNCHANGED <<delivery, handled, attempts, service>>
     ELSE /\ attempts' = [attempts EXCEPT ![i] = @ + 1]
          /\ delivery' = i /\ handled' = FALSE
          /\ service' = "flush" /\ UNCHANGED settled
  /\ UNCHANGED <<disk, memory, acknowledged, writing, stream, drawn, made, reader, unread, faults>>

(* _is_committed_input.                                                    *)
CommittedInput(i) == LastOf(manager) = i

(* handle: a known input is done, an input not newer than the last raises, *)
(* a new one changes the belief in memory and starts its commit.           *)
Handle ==
  /\ service = "handle"
  /\ LET i == delivery
         observed == Kind[i] = "risk.observed"
         content == [revision |-> Revision(manager) + 1, made |-> made + 1]
         current == IF committed = None THEN None ELSE committed.content
     IN IF CommittedInput(i)
        THEN handled' = TRUE /\ service' = "ack" /\ UNCHANGED <<memory, writing, made>>
        ELSE IF i <= lastInput
        THEN service' = "raised" /\ UNCHANGED <<memory, handled, writing, made>>
        ELSE /\ prior' = manager
             /\ manager' = Append(manager, i)
             /\ made' = IF observed THEN made + 1 ELSE made
             /\ writing' = IF observed THEN Job(content, manager', TRUE, "update")
                           ELSE Job(current, manager', FALSE, "constraints")
             /\ service' = "commit"
             /\ UNCHANGED <<lastInput, handled>>
  /\ UNCHANGED <<disk, delivery, attempts, settled, acknowledged, stream, drawn, reader, unread, faults>>

Acknowledge ==
  /\ service = "ack"
  /\ settled' = settled \cup {delivery} /\ acknowledged' = acknowledged \cup {delivery}
  /\ delivery' = None /\ handled' = FALSE
  /\ service' = "flush"
  /\ UNCHANGED <<disk, memory, attempts, writing, stream, drawn, made, reader, unread, faults>>

----------------------------------------------------------------------------
(* Failures.                                                               *)

(* A write of a commit raises, before or after the file is in place.  A    *)
(* raising publication has stored its event or not.                        *)
Raise ==
  /\ faults < MaxFaults /\ faults' = faults + 1
  /\ \/ /\ service = "commit"
        /\ service' = IF writing.then = "clear" THEN "raised" ELSE "recover"
        /\ UNCHANGED stream
     \/ /\ service = "publish" /\ Len(stream) < drawn
        /\ stream' \in {stream, Append(stream, committed.content)}
        /\ service' = "raised"
  /\ writing' = None
  /\ UNCHANGED <<disk, memory, consumer, drawn, made, reader, unread>>

RestoreNothing ==   \* mutant: a failed commit leaves the manager as it is
  /\ service = "recover"
  /\ Load /\ UNCHANGED <<manager, lastInput, prior>>
  /\ service' = "raised"
  /\ UNCHANGED <<committed, consumer, writing, stream, drawn, made, reader, unread, faults>>

(* _recover_or_restore: what the store holds decides whether the input is  *)
(* in the belief.                                                          *)
Recover ==
  /\ service = "recover"
  /\ Load
  /\ IF committed # None /\ LastOf(committed.checkpoint) = delivery
     THEN manager' = committed.checkpoint /\ lastInput' = delivery
     ELSE manager' = prior /\ UNCHANGED lastInput
  /\ service' = "raised"
  /\ UNCHANGED <<committed, prior, consumer, writing, stream, drawn, made, reader, unread, faults>>

(* The recovery cannot read the store: the manager keeps the uncommitted   *)
(* belief.                                                                 *)
RecoverRaises ==
  /\ service = "recover"
  /\ faults < MaxFaults /\ faults' = faults + 1
  /\ unread' = TRUE /\ service' = "raised"
  /\ UNCHANGED <<disk, memory, consumer, writing, stream, drawn, made, reader>>

(* The delivery was rejected; the caller drains again in the same process. *)
DrainAgain ==
  /\ service = "raised"
  /\ delivery' = None /\ handled' = FALSE /\ service' = "flush"
  /\ UNCHANGED <<disk, memory, attempts, settled, acknowledged, writing, stream, drawn, made, reader, unread, faults>>

Crash ==
  /\ service # "down" /\ faults < MaxFaults
  /\ faults' = faults + 1
  /\ service' = "down" /\ writing' = None
  /\ delivery' = None /\ handled' = FALSE
  /\ manager' = <<>> /\ prior' = <<>> /\ lastInput' = 0 /\ drawn' = 0
  /\ UNCHANGED <<disk, attempts, settled, acknowledged, stream, made, reader, unread>>

----------------------------------------------------------------------------
(* load_current_read_only, called by the viewer and the Runtime Host in    *)
(* their own processes: the pointer, then the files it names.              *)

OpenPruning ==   \* mutant: the reader prunes like the writer's own loads do
  /\ committed # None /\ reader = None
  /\ reader' = [at |-> committed, file |-> "checkpoint"]
  /\ Prune(Generation)
  /\ UNCHANGED <<committed, memory, consumer, service, writing, stream, drawn, made, unread, faults>>

OpenReader ==
  /\ committed # None /\ reader = None
  /\ reader' = [at |-> committed, file |-> "checkpoint"]
  /\ UNCHANGED <<disk, memory, consumer, service, writing, stream, drawn, made, unread, faults>>

(* Whether the file the reader wants is there with the content the pointer *)
(* has a hash of.                                                          *)
Readable(r) ==
  LET g == r.at.generation IN
  IF r.file = "artifact" THEN r.at.content = None \/ r.at.content \in artifacts
  ELSE /\ g \in DOMAIN generations
       /\ CASE r.file = "checkpoint" -> generations[g].checkpoint = r.at.checkpoint
            [] r.file = "snapshot" -> generations[g].content = r.at.content
            [] r.file = "pending" -> r.at.pending => generations[g].pending = TRUE

Read ==
  /\ reader # None /\ reader.file \notin {"done", "failed"}
  /\ reader' = [reader EXCEPT !.file =
       IF ~Readable(reader) THEN "failed"
       ELSE CASE @ = "checkpoint" -> "artifact"
              [] @ = "artifact" -> "snapshot"
              [] @ = "snapshot" -> "pending"
              [] @ = "pending" -> "done"]
  /\ UNCHANGED <<disk, memory, consumer, service, writing, stream, drawn, made, unread, faults>>

CloseReader ==
  /\ reader # None /\ reader.file \in {"done", "failed"}
  /\ reader' = None
  /\ UNCHANGED <<disk, memory, consumer, service, writing, stream, drawn, made, unread, faults>>

----------------------------------------------------------------------------
Serving ==
  \/ Start \/ Flush \/ Publish \/ Receive \/ Handle \/ Acknowledge
  \/ BeginCommit \/ WriteFile \/ WritePointer \/ FinishCommit
  \/ Recover \/ DrainAgain

Next ==
  \/ Serving
  \/ OtherPublishes \/ Raise \/ RecoverRaises \/ Crash
  \/ OpenReader \/ Read \/ CloseReader

Spec == Init /\ [][Next]_vars

(* The process is started again after a crash and its callers drain again  *)
(* after an exception.                                                     *)
FairSpec == Spec /\ WF_vars(Serving)
----------------------------------------------------------------------------
Directories ==
  [content : Content \cup {None}, checkpoint : Seq(Inputs) \cup {None}, pending : {None, TRUE}]
Reading ==
  [at : Pointer, file : {"checkpoint", "artifact", "snapshot", "pending", "done", "failed"}]

(* What the directories, the pointer, the commit under way, the consumer,  *)
(* the topic and the reader may hold.                                      *)
TypeOK ==
  /\ DOMAIN generations \subseteq Nat
  /\ generations \in [DOMAIN generations -> Directories]
  /\ artifacts \subseteq Content \cup {None}
  /\ committed \in Pointer \cup {None}
  /\ manager \in Seq(Inputs) /\ prior \in Seq(Inputs) /\ lastInput \in Inputs \cup {0}
  /\ service \in {"down", "flush", "publish", "receive", "handle", "ack", "commit", "recover", "raised"}
  /\ writing \in CommitJob \cup {None}
  /\ delivery \in Inputs \cup {None} /\ handled \in BOOLEAN
  /\ attempts \in [Inputs -> Nat] /\ settled \subseteq Inputs /\ acknowledged \subseteq settled
  /\ stream \in Seq(Content) /\ {drawn, made, faults} \subseteq Nat
  /\ reader \in Reading \cup {None}
  /\ unread \in BOOLEAN

(* Whatever was written, raised, crashed, recovered and pruned, the        *)
(* pointer names a generation whose files are all there and an artifact    *)
(* that is there: the belief can be restored and its reference resolved.   *)
PointerComplete ==
  committed # None =>
    /\ Generation \in DOMAIN generations
    /\ generations[Generation].checkpoint = committed.checkpoint
    /\ generations[Generation].content = committed.content
    /\ committed.pending => generations[Generation].pending = TRUE
    /\ committed.content # None => committed.content \in artifacts

(* Every input acknowledged is in the committed belief, and no input is in *)
(* it twice, however often it was delivered; unless a recovery could not   *)
(* read the store.                                                         *)
AppliedOnce ==
  /\ IsInjective(Stored)
  /\ ~unread => acknowledged \subseteq Range(Stored)

Announced == {n \in DOMAIN stream : stream[n] # Foreign}

(* The context topic carries every belief revision once and in order, each *)
(* with the content that was committed as that revision, and the newest    *)
(* one is the committed belief or about to be followed by it: an announced *)
(* reference is the one load_reference accepts once nothing is pending.    *)
AnnouncedInOrder ==
  /\ \A n \in Announced : stream[n].revision = Cardinality({k \in Announced : k <= n})
  /\ committed # None /\ ~committed.pending /\ committed.content # None =>
       \E n \in Announced : stream[n] = committed.content /\ \A k \in Announced : k <= n

(* A reader without the lock fails only when HistoryLimit generations were *)
(* committed while it read.                                                *)
ReaderOutlived ==
  reader # None /\ reader.file = "failed" =>
    Generation >= reader.at.generation + HistoryLimit

(* A committed belief does not stay unannounced.                           *)
EventuallyAnnounced == []<>~Pending

(* The service and the store implement the ledger: whatever is written,    *)
(* raised, crashed and recovered, the committed belief only grows, one     *)
(* revision at a time, and each revision is announced once, before the     *)
(* next one is committed.                                                  *)
Ledger == INSTANCE BeliefLedger WITH
  belief <- Stored,
  owed <- IF Pending /\ ~\E n \in DOMAIN stream : stream[n] = committed.content
          THEN committed.content ELSE None,
  topic <- stream

ImplementsLedger == Ledger!LSpec
=============================================================================
