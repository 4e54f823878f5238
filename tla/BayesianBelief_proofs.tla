----------------------- MODULE BayesianBelief_proofs -----------------------
(***************************************************************************)
(* Theorems about the durable belief, for any inputs, any history limit    *)
(* and any number of crashes, raising writes and foreign events.           *)
(***************************************************************************)
EXTENDS BayesianBelief, FiniteSetTheorems, SequenceTheorems, TLAPS

Changing == service = "commit" /\ writing.then # "clear"
Clearing == service = "commit" /\ writing.then = "clear"

(* Where the service stands, and what it then has in hand.                 *)
Phased ==
  /\ writing # None <=> service = "commit"
  /\ handled \/ service \in {"handle", "ack", "recover"} \/ Changing => delivery # None
  /\ service \in {"handle", "recover"} \/ Changing => ~handled
  /\ service = "ack" => handled
  /\ service = "receive" => delivery = None
  /\ service = "publish" => Pending
  /\ Pending => committed.content # None
  /\ service = "commit" /\ writing.pending => writing.content # None
  /\ Clearing =>
       /\ committed # None /\ ~writing.pending
       /\ writing.content = committed.content /\ writing.checkpoint = committed.checkpoint

(* Inputs are settled in their order; no belief has an input from beyond   *)
(* the one in hand, nor an older one after a newer one.                    *)
Reached(i, done) == \A j \in Inputs \ done : i <= j
Sorted(belief, done) ==
  /\ \A m, n \in DOMAIN belief : m < n => belief[m] < belief[n]
  /\ \A n \in DOMAIN belief : Reached(belief[n], done)

(* The beliefs kept anywhere.                                              *)
Beliefs == {manager, prior, Stored} \cup (IF writing = None THEN {} ELSE {writing.checkpoint})

Ordered ==
  /\ \A i \in settled : Reached(i, settled)
  /\ delivery # None => delivery \notin settled /\ Reached(delivery, settled)
  /\ \A belief \in Beliefs : Sorted(belief, settled)

(* Outside a commit and its recovery the memory is what is stored.         *)
InStep ==
  /\ acknowledged \subseteq Range(Stored)
  /\ handled => delivery \in Range(Stored)
  /\ service \notin {"commit", "recover", "down"} \/ Clearing => manager = Stored
  /\ Changing =>
       /\ manager = Append(prior, delivery) /\ writing.checkpoint = manager
       /\ Stored = IF writing.file = "prune" THEN manager ELSE prior
  /\ service = "recover" => manager = Append(prior, delivery) /\ Stored \in {prior, manager}

(* The files a pointer promises.                                           *)
Complete(p, directories, contents) ==
  /\ p.generation \in DOMAIN directories
  /\ directories[p.generation].checkpoint = p.checkpoint
  /\ directories[p.generation].content = p.content
  /\ p.pending => directories[p.generation].pending = TRUE
  /\ p.content # None => p.content \in contents

(* How far the directory being written has come.                           *)
Written ==
  service = "commit" =>
    /\ writing.file \in {"artifact", "checkpoint", "pending", "commit"} =>
         /\ Directory \in DOMAIN generations
         /\ generations[Directory].content = writing.content
    /\ writing.file \in {"checkpoint", "pending", "commit"} /\ writing.content # None =>
         writing.content \in artifacts
    /\ writing.file \in {"pending", "commit"} =>
         generations[Directory].checkpoint = writing.checkpoint
    /\ writing.file = "commit" /\ writing.pending => generations[Directory].pending = TRUE

Following ==
  reader # None =>
    /\ reader.at.generation <= Generation
    /\ Generation < reader.at.generation + HistoryLimit =>
         Complete(reader.at, generations, artifacts) /\ reader.file # "failed"

FilesInv ==
  /\ committed # None => Complete(committed, generations, artifacts)
  /\ Written
  /\ Following

(* What a topic announces; the announcements count the revisions.          *)
Announcements(topic) == {n \in DOMAIN topic : topic[n] # Foreign}
UpTo(topic, n) == {k \in Announcements(topic) : k <= n}
Count(topic) == Cardinality(Announcements(topic))
Numbered(topic) ==
  \A n \in Announcements(topic) : topic[n].revision = Cardinality(UpTo(topic, n))
Newest(topic, content) ==
  \E n \in Announcements(topic) :
    topic[n] = content /\ \A k \in Announcements(topic) : k <= n

Named(content, belief) ==
  IF content = None THEN Revision(belief) = 0
  ELSE content.revision = Revision(belief) /\ content.revision > 0

(* The topic is up to date with the pointer, or one revision behind it     *)
(* while that one is pending.                                              *)
Told ==
  /\ Numbered(stream)
  /\ committed = None => Count(stream) = 0
  /\ committed # None =>
       /\ Named(committed.content, committed.checkpoint)
       /\ \/ committed.pending /\ Count(stream) = Revision(committed.checkpoint) - 1
          \/ /\ Count(stream) = Revision(committed.checkpoint)
             /\ committed.content # None => Newest(stream, committed.content)

(* The commit under way is of the next revision, of the same one, or takes *)
(* away a pending output that has been announced.                          *)
Underway ==
  /\ service = "publish" => Count(stream) = Revision(committed.checkpoint) - 1
  /\ service = "commit" /\ writing.file # "prune" =>
       /\ writing.then = "clear" => Pending /\ Count(stream) = Revision(committed.checkpoint)
       /\ writing.then = "update" =>
            writing.pending /\ Named(writing.content, writing.checkpoint)
       /\ writing.then = "constraints" =>
            /\ ~writing.pending
            /\ writing.content = IF committed = None THEN None ELSE committed.content
       /\ writing.then # "clear" /\ writing.file # "begin" =>
            /\ ~Pending
            /\ Revision(writing.checkpoint) =
                 Revision(Stored) + (IF writing.then = "update" THEN 1 ELSE 0)

StreamInv == Told /\ Underway

BeliefInv == TypeOK /\ Phased /\ Ordered /\ (~unread => InStep)

(***************************************************************************)
(* Operators.                                                              *)
(***************************************************************************)

(* The first of the inputs not yet settled is one of them.                 *)
LEMMA LeastNatural ==
  ASSUME NEW S \in SUBSET Nat, S # {}
  PROVE  Min(S) \in S /\ \A i \in S : Min(S) <= i
<1> DEFINE Below == {0 .. i : i \in S}
<1>1. Below \subseteq FiniteSubsetsOf(Nat) /\ Below # {}
  <2>1. ASSUME NEW i \in S PROVE 0 .. i \in SUBSET Nat /\ IsFiniteSet(0 .. i)
    BY FS_Interval
  <2> QED
    BY <2>1 DEF FiniteSubsetsOf
<1>2. PICK b \in Below : \A c \in Below : ~(<<c, b>> \in StrictSubsetOrdering(Nat))
  <2> HIDE DEF Below
  <2> QED
    BY <1>1, FS_StrictSubsetOrderingWellFounded, WFMin, Zenon
<1>3. PICK i \in S : b = 0 .. i
  BY <1>2
<1>4. ASSUME NEW j \in S, j < i PROVE FALSE
  <2>1. 0 .. j \in Below
    OBVIOUS
  <2>2. 0 .. j \subseteq 0 .. i /\ 0 .. j # 0 .. i /\ 0 .. j \in SUBSET Nat /\ 0 .. i \in SUBSET Nat
    BY <1>4
  <2>3. <<0 .. j, b>> \in StrictSubsetOrdering(Nat)
    BY <1>3, <2>2 DEF StrictSubsetOrdering
  <2> QED
    BY <1>2, <2>1, <2>3
<1>5. \A j \in S : i <= j
  BY <1>4
<1> QED
  BY <1>5 DEF Min

LEMMA RevisionIsNat ==
  ASSUME NEW belief \in Seq(Inputs)
  PROVE  Revision(belief) \in Nat /\ IsFiniteSet(Observations(belief))
<1>1. Observations(belief) \subseteq 1 .. Len(belief) /\ Len(belief) \in Nat
  BY DEF Observations
<1>2. IsFiniteSet(Observations(belief))
  <2>1. IsFiniteSet(1 .. Len(belief))
    BY <1>1, FS_Interval
  <2> QED
    BY <1>1, <2>1, FS_Subset
<1> QED
  BY <1>2, FS_CardinalityType DEF Revision

LEMMA RevisionOfEmpty == Revision(<<>>) = 0
BY FS_EmptySet DEF Revision, Observations

LEMMA RevisionOfAppend ==
  ASSUME NEW belief \in Seq(Inputs), NEW i \in Inputs
  PROVE  Revision(Append(belief, i)) =
           Revision(belief) + (IF Kind[i] = "risk.observed" THEN 1 ELSE 0)
<1> DEFINE longer == Append(belief, i)
<1>1. /\ DOMAIN longer = DOMAIN belief \cup {Len(belief) + 1}
      /\ Len(belief) + 1 \notin DOMAIN belief
      /\ longer[Len(belief) + 1] = i /\ \A n \in DOMAIN belief : longer[n] = belief[n]
  OBVIOUS
<1> HIDE DEF longer
<1>2. CASE Kind[i] = "risk.observed"
  <2>1. Observations(longer) = Observations(belief) \cup {Len(belief) + 1}
    BY <1>1, <1>2 DEF Observations
  <2>2. Len(belief) + 1 \notin Observations(belief)
    BY <1>1 DEF Observations
  <2>3. Cardinality(Observations(longer)) = Cardinality(Observations(belief)) + 1
    BY <2>1, <2>2, RevisionIsNat, FS_AddElement
  <2> QED
    BY <2>3, <1>2 DEF Revision, longer
<1>3. CASE Kind[i] # "risk.observed"
  <2>1. Observations(longer) = Observations(belief)
    BY <1>1, <1>3 DEF Observations
  <2> QED
    BY <2>1, <1>3, RevisionIsNat DEF Revision, longer
<1> QED
  BY <1>2, <1>3

LEMMA RangeOfAppend ==
  ASSUME NEW belief \in Seq(Inputs), NEW i \in Inputs
  PROVE  Range(Append(belief, i)) = Range(belief) \cup {i}
<1> DEFINE longer == Append(belief, i)
<1>1. /\ DOMAIN longer = DOMAIN belief \cup {Len(belief) + 1}
      /\ longer[Len(belief) + 1] = i /\ \A n \in DOMAIN belief : longer[n] = belief[n]
  OBVIOUS
<1> HIDE DEF longer
<1>2. Range(longer) = Range(belief) \cup {i}
  BY <1>1 DEF Range
<1> QED
  BY <1>2 DEF longer

LEMMA LastIsInRange ==
  ASSUME NEW belief \in Seq(Inputs)
  PROVE  /\ LastOf(belief) \in Inputs \cup {0}
         /\ LastOf(belief) # 0 => LastOf(belief) \in Range(belief)
<1>1. CASE belief = <<>>
  BY <1>1 DEF LastOf
<1>2. CASE belief # <<>>
  <2>1. Len(belief) \in DOMAIN belief
    BY <1>2
  <2> QED
    BY <1>2, <2>1 DEF LastOf, Range
<1> QED
  BY <1>1, <1>2

LEMMA NoneIsApart ==
  None \notin Inputs /\ None \notin Content /\ None \notin Pointer /\ None \notin CommitJob
BY BeliefAssumption

LEMMA ForeignIsContent == Foreign \in Content /\ Foreign.revision = 0
BY DEF Foreign, Content

(***************************************************************************)
(* Types.                                                                  *)
(***************************************************************************)

DirectoriesOK ==
  DOMAIN generations \subseteq Nat /\ generations \in [DOMAIN generations -> Directories]

LEMMA EmptyDirectoryType == EmptyDirectory \in Directories
BY DEF EmptyDirectory, Directories

LEMMA PruneTypes ==
  ASSUME NEW pointer, DirectoriesOK, artifacts \subseteq Content \cup {None}, Prune(pointer)
  PROVE  DirectoriesOK' /\ artifacts' \subseteq Content \cup {None}
BY DEF Prune, DirectoriesOK, Retained, Restrict

LEMMA PutTypes ==
  ASSUME DirectoriesOK, Directory \in Nat, NEW field \in {"content", "checkpoint", "pending"},
         NEW value, field = "content" => value \in Content \cup {None},
         field = "checkpoint" => value \in Seq(Inputs), field = "pending" => value = TRUE,
         Put(field, value)
  PROVE  DirectoriesOK'
<1> DEFINE old == IF Directory \in DOMAIN generations THEN generations[Directory] ELSE EmptyDirectory
           new == [old EXCEPT ![field] = value]
<1>1. old \in Directories
  BY EmptyDirectoryType DEF DirectoriesOK
<1>2. new \in Directories
  <2> HIDE DEF old
  <2> QED
    BY <1>1 DEF Directories
<1>3. generations' = [g \in DOMAIN generations \cup {Directory} |-> IF g = Directory THEN new ELSE generations[g]]
  BY DEF Put
<1> HIDE DEF new
<1> QED
  BY <1>2, <1>3 DEF DirectoriesOK

LEMMA GenerationType == TypeOK => Generation \in Nat /\ Directory \in Nat \ {0} /\ Pending \in BOOLEAN
BY DEF TypeOK, Generation, Directory, Pending, Pointer

LEMMA TypesInit == Init => TypeOK /\ Phased
<1> SUFFICES ASSUME Init PROVE TypeOK /\ Phased
  OBVIOUS
<1>1. DOMAIN generations \subseteq Nat /\ generations \in [DOMAIN generations -> Directories]
  BY DEF Init
<1>2. attempts \in [Inputs -> Nat]
  BY DEF Init
<1>3. stream \in Seq(Content) /\ manager \in Seq(Inputs) /\ prior \in Seq(Inputs)
  <2>1. stream = <<>> /\ manager = <<>> /\ prior = <<>>
    BY DEF Init
  <2> QED
    BY <2>1, EmptySeq
<1>4. writing = None /\ committed = None /\ reader = None /\ delivery = None /\ service = "down" /\ handled = FALSE
  BY DEF Init
<1>5. /\ artifacts \subseteq Content \cup {None} /\ settled \subseteq Inputs /\ acknowledged \subseteq settled
      /\ {drawn, made, faults} \subseteq Nat /\ lastInput \in Inputs \cup {0} /\ unread \in BOOLEAN
  <2>1. /\ artifacts = {} /\ settled = {} /\ acknowledged = {} /\ drawn = 0 /\ made = 0 /\ faults = 0
        /\ lastInput = 0 /\ unread = FALSE
    BY DEF Init
  <2>2. artifacts \subseteq Content \cup {None} /\ settled \subseteq Inputs /\ acknowledged \subseteq settled
    BY <2>1
  <2>3. {drawn, made, faults} \subseteq Nat /\ lastInput \in Inputs \cup {0}
    BY <2>1
  <2> QED
    BY <2>1, <2>2, <2>3
<1>6. TypeOK
  BY <1>1, <1>2, <1>3, <1>4, <1>5 DEF TypeOK
<1> QED
  BY <1>4, <1>6 DEF Phased, Changing, Clearing, Pending

(* A job of handle or of the flush.                                        *)
LEMMA JobType ==
  ASSUME NEW content \in Content \cup {None}, NEW belief \in Seq(Inputs), NEW pending \in BOOLEAN,
         NEW then \in {"update", "constraints", "clear"}
  PROVE  Job(content, belief, pending, then) \in CommitJob
BY DEF Job, CommitJob, Files

(* A job moved on to its next file.                                        *)
LEMMA JobMoves ==
  ASSUME NEW job \in CommitJob, NEW file \in Files, NEW moved, moved = [job EXCEPT !.file = file]
  PROVE  /\ moved \in CommitJob /\ moved.file = file
         /\ moved.content = job.content /\ moved.checkpoint = job.checkpoint
         /\ moved.pending = job.pending /\ moved.then = job.then
BY DEF CommitJob

LEMMA NextFileType ==
  ASSUME NEW job \in CommitJob, job.file \in {"snapshot", "artifact", "checkpoint", "pending", "commit"}
  PROVE  NextFile(job, job.file) \in Files
BY DEF NextFile, Files

(* Directories and artifacts.                                              *)
LEMMA StoreTypes ==
  ASSUME TypeOK, Phased, [Next]_vars
  PROVE  DirectoriesOK' /\ artifacts' \subseteq Content \cup {None}
<1>0. DirectoriesOK /\ artifacts \subseteq Content \cup {None} /\ Generation \in Nat /\ Directory \in Nat
  BY GenerationType DEF TypeOK, DirectoriesOK
<1>1. CASE Load
  BY <1>0, <1>1, PruneTypes DEF Load, DirectoriesOK
<1>2. CASE FinishCommit
  BY <1>0, <1>2, PruneTypes DEF FinishCommit
<1>3. CASE BeginCommit
  BY <1>0, <1>3, EmptyDirectoryType DEF BeginCommit, DirectoriesOK
<1>4. CASE WriteFile
  <2>1. writing \in CommitJob
    BY <1>4 DEF WriteFile, TypeOK, Phased
  <2>2. writing.content \in Content \cup {None} /\ writing.checkpoint \in Seq(Inputs)
    BY <2>1 DEF CommitJob
  <2>3. CASE writing.file = "snapshot"
    BY <1>0, <1>4, <2>2, <2>3, PutTypes DEF WriteFile
  <2>4. CASE writing.file = "artifact"
    BY <1>0, <1>4, <2>2, <2>4 DEF WriteFile, DirectoriesOK
  <2>5. CASE writing.file = "checkpoint"
    BY <1>0, <1>4, <2>2, <2>5, PutTypes DEF WriteFile
  <2>6. CASE writing.file = "pending"
    BY <1>0, <1>4, <2>2, <2>6, PutTypes DEF WriteFile
  <2> QED
    BY <1>4, <2>3, <2>4, <2>5, <2>6 DEF WriteFile
<1>5. CASE UNCHANGED <<generations, artifacts>>
  BY <1>0, <1>5 DEF DirectoriesOK
<1> QED
  BY <1>1, <1>2, <1>3, <1>4, <1>5
  DEF Next, Serving, Start, Flush, Publish, Receive, Handle, Acknowledge, WritePointer, Recover,
      DrainAgain, OtherPublishes, Raise, RecoverRaises, Crash, OpenReader, Read, CloseReader,
      vars, disk

(* What handle does with the input in hand.                                *)
LEMMA HandleEffect ==
  ASSUME TypeOK, Phased, Handle
  PROVE  /\ delivery \in Inputs
         /\ UNCHANGED <<generations, artifacts, committed, lastInput, delivery, attempts, settled,
                       acknowledged, stream, drawn, reader, unread, faults>>
         /\ \/ /\ LastOf(manager) = delivery /\ service' = "ack" /\ handled' = TRUE
               /\ UNCHANGED <<manager, prior, made>> /\ writing' = None
            \/ /\ service' = "raised" /\ handled' = handled
               /\ UNCHANGED <<manager, prior, made>> /\ writing' = None
            \/ /\ LastOf(manager) # delivery /\ service' = "commit" /\ handled' = handled
               /\ prior' = manager /\ manager' = Append(manager, delivery)
               /\ \/ /\ Kind[delivery] = "risk.observed" /\ made' = made + 1
                     /\ writing' = Job([revision |-> Revision(manager) + 1, made |-> made + 1],
                                       Append(manager, delivery), TRUE, "update")
                  \/ /\ Kind[delivery] # "risk.observed" /\ made' = made
                     /\ writing' = Job(IF committed = None THEN None ELSE committed.content,
                                       Append(manager, delivery), FALSE, "constraints")
<1>1. delivery \in Inputs /\ writing = None
  BY DEF Handle, Phased, TypeOK
<1>2. UNCHANGED <<generations, artifacts, committed, lastInput, delivery, attempts, settled,
                  acknowledged, stream, drawn, reader, unread, faults>>
  BY DEF Handle, disk, memory
<1>3. CASE LastOf(manager) = delivery
  BY <1>1, <1>2, <1>3 DEF Handle, CommittedInput, memory
<1>4. CASE LastOf(manager) # delivery /\ delivery <= lastInput
  BY <1>1, <1>2, <1>4 DEF Handle, CommittedInput, memory
<1>5. CASE LastOf(manager) # delivery /\ ~(delivery <= lastInput)
  BY <1>1, <1>2, <1>5 DEF Handle, CommittedInput
<1> QED
  BY <1>3, <1>4, <1>5

JobAtHand == IF service = "commit" THEN writing \in CommitJob ELSE writing = None

(* The pointer, the commit under way and the reader.                       *)
LEMMA JobTypes ==
  ASSUME TypeOK, Phased, [Next]_vars
  PROVE  committed' \in Pointer \cup {None} /\ JobAtHand' /\ reader' \in Reading \cup {None}
<1>0. /\ committed \in Pointer \cup {None} /\ writing \in CommitJob \cup {None}
      /\ reader \in Reading \cup {None}
      /\ service = "commit" => writing \in CommitJob
      /\ service # "commit" => writing = None
      /\ committed # None => committed \in Pointer
  BY DEF TypeOK, Phased
<1>00. committed # None =>
         /\ committed.content \in Content \cup {None} /\ committed.checkpoint \in Seq(Inputs)
         /\ committed.generation \in Nat \ {0} /\ committed.pending \in BOOLEAN
  BY <1>0 DEF Pointer
<1>1. CASE Flush \/ Publish
  <2>1. /\ committed' = committed /\ reader' = reader
        /\ \/ writing' = None /\ service' # "commit"
           \/ /\ committed # None /\ service' = "commit"
              /\ writing' = Job(committed.content, committed.checkpoint, FALSE, "clear")
    BY <1>0, <1>1 DEF Flush, Publish, AfterFlush, disk, Phased, Pending
  <2> QED
    BY <1>0, <1>00, <2>1, JobType DEF JobAtHand
<1>3. CASE Handle
  <2>1. delivery \in Inputs /\ manager \in Seq(Inputs) /\ made \in Nat
    BY <1>3 DEF Handle, Phased, TypeOK
  <2> DEFINE content == [revision |-> Revision(manager) + 1, made |-> made + 1]
             current == IF committed = None THEN None ELSE committed.content
  <2>2. content \in Content
    BY <2>1, RevisionIsNat DEF Content
  <2>3. current \in Content \cup {None}
    BY <1>00
  <2>4. Append(manager, delivery) \in Seq(Inputs)
    BY <2>1
  <2>5. /\ committed' = committed /\ reader' = reader
        /\ \/ writing' = None /\ service' # "commit"
           \/ writing' = Job(content, Append(manager, delivery), TRUE, "update") /\ service' = "commit"
           \/ writing' = Job(current, Append(manager, delivery), FALSE, "constraints") /\ service' = "commit"
    BY <1>0, <1>3 DEF Handle, disk
  <2> HIDE DEF content, current
  <2>6. Job(content, Append(manager, delivery), TRUE, "update") \in CommitJob
    BY <2>2, <2>4, JobType
  <2>7. Job(current, Append(manager, delivery), FALSE, "constraints") \in CommitJob
    BY <2>3, <2>4, JobType
  <2> QED
    BY <1>0, <2>5, <2>6, <2>7 DEF JobAtHand
<1>4. CASE BeginCommit
  <2>1. \/ writing' = None /\ service' # "commit"
        \/ service' = "commit" /\ \E file \in Files : writing' = [writing EXCEPT !.file = file]
    BY <1>4 DEF BeginCommit, Files
  <2>2. JobAtHand'
    BY <1>0, <1>4, <2>1, JobMoves DEF BeginCommit, JobAtHand
  <2> QED
    BY <1>0, <1>4, <2>2 DEF BeginCommit
<1>5. CASE WriteFile
  <2>1. writing' = [writing EXCEPT !.file = NextFile(writing, writing.file)]
    BY <1>0, <1>5 DEF WriteFile, CommitJob
  <2>2. NextFile(writing, writing.file) \in Files
    BY <1>0, <1>5, NextFileType DEF WriteFile
  <2>3. writing' \in CommitJob
    BY <1>0, <1>5, <2>1, <2>2, JobMoves DEF WriteFile
  <2> QED
    BY <1>0, <1>5, <2>3 DEF WriteFile, JobAtHand
<1>6. CASE WritePointer
  <2>1. writing' \in CommitJob
    BY <1>0, <1>6, JobMoves DEF WritePointer, Files
  <2>2. committed' \in Pointer
    BY <1>0, <1>6, GenerationType DEF WritePointer, Pointer, CommitJob
  <2> QED
    BY <1>0, <1>6, <2>1, <2>2 DEF WritePointer, JobAtHand
<1>7. CASE OpenReader
  BY <1>0, <1>7 DEF OpenReader, disk, Reading, JobAtHand
<1>8. CASE Read
  <2>1. reader \in Reading
    BY <1>0, <1>8 DEF Read
  <2>2. PICK file : /\ reader' = [reader EXCEPT !.file = file]
                    /\ file \in {"checkpoint", "artifact", "snapshot", "pending", "done", "failed"}
    BY <1>8, <2>1 DEF Read, Reading
  <2>3. reader' \in Reading
    BY <2>1, <2>2 DEF Reading
  <2> QED
    BY <1>0, <1>8, <2>3 DEF Read, disk, JobAtHand
<1>9. CASE CloseReader
  BY <1>0, <1>9 DEF CloseReader, disk, JobAtHand
<1>10. CASE /\ UNCHANGED <<committed, writing, reader>>
            /\ service' = service \/ (service # "commit" /\ service' # "commit")
  BY <1>0, <1>10 DEF JobAtHand
<1>11. CASE FinishCommit \/ Raise \/ Crash
  BY <1>0, <1>11 DEF FinishCommit, Raise, Crash, disk, AfterFlush, JobAtHand
<1>12. CASE Start \/ Receive \/ Acknowledge \/ Recover \/ DrainAgain \/ RecoverRaises
  BY <1>12, <1>10 DEF Start, Receive, Acknowledge, Recover, DrainAgain, RecoverRaises, disk
<1>13. CASE OtherPublishes \/ UNCHANGED vars
  <2>1. UNCHANGED <<committed, writing, reader, service>>
    BY <1>13 DEF OtherPublishes, vars, disk
  <2> QED
    BY <1>0, <2>1 DEF JobAtHand
<1> QED
  BY <1>1, <1>3, <1>4, <1>5, <1>6, <1>7, <1>8, <1>9, <1>11, <1>12, <1>13 DEF Next, Serving

(* The memory, the consumer, the topic.                                    *)
LEMMA OtherTypes ==
  ASSUME TypeOK, Phased, [Next]_vars
  PROVE  /\ manager' \in Seq(Inputs) /\ prior' \in Seq(Inputs) /\ lastInput' \in Inputs \cup {0}
         /\ service' \in {"down", "flush", "publish", "receive", "handle", "ack", "commit", "recover", "raised"}
         /\ delivery' \in Inputs \cup {None} /\ handled' \in BOOLEAN
         /\ settled' \subseteq Inputs /\ acknowledged' \subseteq settled'
         /\ {drawn', made', faults'} \subseteq Nat /\ unread' \in BOOLEAN
         /\ attempts' \in [Inputs -> Nat] /\ stream' \in Seq(Content)
<1>0. /\ manager \in Seq(Inputs) /\ prior \in Seq(Inputs) /\ lastInput \in Inputs \cup {0}
      /\ service \in {"down", "flush", "publish", "receive", "handle", "ack", "commit", "recover", "raised"}
      /\ delivery \in Inputs \cup {None} /\ handled \in BOOLEAN
      /\ settled \subseteq Inputs /\ acknowledged \subseteq settled
      /\ {drawn, made, faults} \subseteq Nat /\ unread \in BOOLEAN
      /\ attempts \in [Inputs -> Nat] /\ stream \in Seq(Content)
  BY DEF TypeOK
<1>1. committed # None => committed.checkpoint \in Seq(Inputs) /\ committed.content \in Content \cup {None}
  BY DEF TypeOK, Pointer
<1>2. CASE Start
  <2>1. manager' \in Seq(Inputs)
    BY <1>1, <1>2, EmptySeq DEF Start, Stored
  <2> QED
    BY <1>0, <1>2, <2>1, LastIsInRange DEF Start, consumer
<1>3. CASE Publish \/ Raise \/ OtherPublishes
  <2>1. \A e \in Content : Append(stream, e) \in Seq(Content)
    BY <1>0
  <2>2. service = "publish" => committed.content \in Content
    BY <1>1 DEF Phased, Pending
  <2>3. stream' \in Seq(Content)
    BY <1>0, <1>3, <2>1, <2>2, ForeignIsContent DEF Publish, Raise, OtherPublishes
  <2>4. drawn' \in Nat /\ faults' \in Nat
    <3>1. Len(stream) + 1 \in Nat /\ drawn \in Nat /\ faults \in Nat
      BY <1>0
    <3>2. drawn' \in {drawn, Len(stream) + 1} /\ faults' \in {faults, faults + 1}
      BY <1>3 DEF Publish, Raise, OtherPublishes
    <3> QED
      BY <3>1, <3>2
  <2> QED
    BY <1>0, <1>3, <2>3, <2>4 DEF Publish, Raise, OtherPublishes, disk, memory, consumer
<1>4. CASE Receive
  <2> DEFINE i == Min(Inputs \ settled)
  <2>1. i \in Inputs
    BY <1>0, <1>4, LeastNatural, BeliefAssumption DEF Receive
  <2>2. attempts' \in [Inputs -> Nat] /\ settled' \subseteq Inputs /\ settled \subseteq settled'
    <3> HIDE DEF i
    <3>1. \/ attempts' = attempts /\ settled' = settled \cup {i}
          \/ attempts' = [attempts EXCEPT ![i] = @ + 1] /\ settled' = settled
      BY <1>4 DEF Receive, i
    <3>2. [attempts EXCEPT ![i] = @ + 1] \in [Inputs -> Nat]
      BY <1>0, <2>1
    <3> QED
      BY <1>0, <2>1, <3>1, <3>2
  <2>3. delivery' \in Inputs \cup {None} /\ handled' \in BOOLEAN /\ service' \in {"receive", "flush"}
    BY <1>0, <1>4, <2>1 DEF Receive
  <2> QED
    BY <1>0, <1>4, <2>2, <2>3 DEF Receive, disk, memory
<1>5. CASE Handle
  <2>1. delivery \in Inputs
    BY <1>5 DEF Handle, Phased, TypeOK
  <2>2. manager' \in Seq(Inputs) /\ prior' \in Seq(Inputs) /\ lastInput' = lastInput
    <3>1. \/ UNCHANGED memory
          \/ prior' = manager /\ manager' = Append(manager, delivery) /\ lastInput' = lastInput
      BY <1>5 DEF Handle
    <3>2. Append(manager, delivery) \in Seq(Inputs)
      BY <1>0, <2>1
    <3> QED
      BY <1>0, <3>1, <3>2 DEF memory
  <2>3. made' \in Nat
    <3>1. made' = made \/ made' = made + 1
      BY <1>5 DEF Handle
    <3> QED
      BY <1>0, <3>1
  <2>4. service' \in {"ack", "raised", "commit"} /\ handled' \in BOOLEAN
    BY <1>0, <1>5 DEF Handle
  <2> QED
    BY <1>0, <1>5, <2>2, <2>3, <2>4 DEF Handle, disk
<1>6. CASE Acknowledge \/ DrainAgain
  BY <1>0, <1>6 DEF Acknowledge, DrainAgain, disk, memory, Phased
<1>7. CASE FinishCommit
  <2>1. writing.then # "clear" => delivery \in Inputs
    BY <1>0, <1>7 DEF FinishCommit, Phased, Changing
  <2> QED
    BY <1>0, <1>7, <2>1 DEF FinishCommit, AfterFlush
<1>8. CASE Recover
  <2>1. delivery \in Inputs
    BY <1>0, <1>8 DEF Recover, Phased
  <2> QED
    BY <1>0, <1>1, <1>8, <2>1 DEF Recover, consumer
<1>9. CASE RecoverRaises \/ Crash
  <2>1. faults' \in Nat
    <3>1. faults' = faults + 1
      BY <1>9 DEF RecoverRaises, Crash
    <3> QED
      BY <1>0, <3>1
  <2>2. /\ manager' \in {manager, <<>>} /\ prior' \in {prior, <<>>} /\ lastInput' \in {lastInput, 0}
        /\ drawn' \in {drawn, 0} /\ delivery' \in {delivery, None} /\ handled' \in {handled, FALSE}
        /\ service' \in {"down", "raised"} /\ unread' \in {unread, TRUE}
        /\ UNCHANGED <<attempts, settled, acknowledged, stream, made>>
    BY <1>9 DEF RecoverRaises, Crash, disk, memory, consumer
  <2>3. <<>> \in Seq(Inputs)
    BY EmptySeq
  <2>4. manager' \in Seq(Inputs) /\ prior' \in Seq(Inputs)
    BY <1>0, <2>2, <2>3
  <2>5. lastInput' \in Inputs \cup {0} /\ delivery' \in Inputs \cup {None} /\ {drawn', made', faults'} \subseteq Nat
    BY <1>0, <2>1, <2>2
  <2> QED
    BY <1>0, <2>2, <2>4, <2>5
<1>10. CASE Flush
  <2>1. drawn' \in Nat
    <3>1. drawn' = drawn \/ drawn' = Len(stream) + 1
      BY <1>10 DEF Flush
    <3> QED
      BY <1>0, <3>1
  <2> QED
    BY <1>0, <1>10, <2>1 DEF Flush, AfterFlush, memory, consumer
<1>11. CASE BeginCommit \/ WriteFile \/ WritePointer \/ OpenReader \/ Read \/ CloseReader \/ UNCHANGED vars
  BY <1>0, <1>11 DEF BeginCommit, WriteFile, WritePointer, OpenReader, Read, CloseReader, vars, disk, memory, consumer
<1> QED
  BY <1>2, <1>3, <1>4, <1>5, <1>6, <1>7, <1>8, <1>9, <1>10, <1>11 DEF Next, Serving

LEMMA TypesStep == TypeOK /\ Phased /\ [Next]_vars => TypeOK'
BY StoreTypes, JobTypes, OtherTypes DEF TypeOK, DirectoriesOK, JobAtHand

(***************************************************************************)
(* Where the service stands.                                               *)
(***************************************************************************)

(* One file of a commit: the job keeps what it writes.                     *)
LEMMA CommitEffect ==
  ASSUME TypeOK, Phased, BeginCommit \/ WriteFile \/ WritePointer
  PROVE  /\ service = "commit" /\ writing \in CommitJob
         /\ UNCHANGED <<manager, prior, lastInput, delivery, handled, settled, acknowledged,
                       stream, reader, unread>>
         /\ \/ BeginCommit /\ service' = "recover" /\ writing' = None /\ ~Admissible(writing)
            \/ /\ service' = "commit" /\ writing' \in CommitJob
               /\ writing'.content = writing.content /\ writing'.checkpoint = writing.checkpoint
               /\ writing'.pending = writing.pending /\ writing'.then = writing.then
               /\ \/ /\ BeginCommit /\ Admissible(writing) /\ writing.file = "begin"
                     /\ writing'.file = IF writing.content = None THEN "checkpoint" ELSE "snapshot"
                  \/ WriteFile /\ writing'.file = NextFile(writing, writing.file)
                  \/ WritePointer /\ writing.file = "commit" /\ writing'.file = "prune"
         /\ WritePointer \/ committed' = committed
<1>1. service = "commit" /\ writing \in CommitJob
  BY DEF BeginCommit, WriteFile, WritePointer, Phased, TypeOK
<1>2. UNCHANGED <<manager, prior, lastInput, delivery, handled, settled, acknowledged, stream, reader, unread>>
  BY DEF BeginCommit, WriteFile, WritePointer, memory, consumer
<1>3. CASE BeginCommit
  <2>1. CASE Admissible(writing)
    <3>1. PICK file \in Files : /\ file = IF writing.content = None THEN "checkpoint" ELSE "snapshot"
                               /\ writing' = [writing EXCEPT !.file = file]
      BY <1>3, <2>1 DEF BeginCommit, Files
    <3>2. service' = "commit" /\ committed' = committed /\ writing.file = "begin"
      BY <1>3, <2>1 DEF BeginCommit
    <3> QED
      BY <1>1, <1>2, <1>3, <2>1, <3>1, <3>2, JobMoves
  <2>2. CASE ~Admissible(writing)
    BY <1>1, <1>2, <1>3, <2>2 DEF BeginCommit
  <2> QED
    BY <2>1, <2>2
<1>4. CASE WriteFile
  <2>1. /\ writing' = [writing EXCEPT !.file = NextFile(writing, writing.file)]
        /\ service' = "commit" /\ committed' = committed
    BY <1>1, <1>4 DEF WriteFile, CommitJob
  <2>2. NextFile(writing, writing.file) \in Files
    BY <1>1, <1>4, NextFileType DEF WriteFile
  <2> QED
    BY <1>1, <1>2, <1>4, <2>1, <2>2, JobMoves
<1>5. CASE WritePointer
  <2>1. writing' = [writing EXCEPT !.file = "prune"] /\ service' = "commit" /\ writing.file = "commit"
    BY <1>5 DEF WritePointer
  <2>2. "prune" \in Files
    BY DEF Files
  <2> QED
    BY <1>1, <1>2, <1>5, <2>1, <2>2, JobMoves
<1> QED
  BY <1>3, <1>4, <1>5

(* The replaced pointer.                                                   *)
LEMMA PointerEffect ==
  ASSUME TypeOK, Phased, WritePointer
  PROVE  /\ committed' \in Pointer /\ committed' # None
         /\ committed'.generation = Directory /\ Generation' = Directory
         /\ committed'.content = writing.content /\ committed'.checkpoint = writing.checkpoint
         /\ committed'.pending = writing.pending /\ (Pending' <=> writing.pending)
<1>2. committed' = [generation |-> Directory, content |-> writing.content,
                    checkpoint |-> writing.checkpoint, pending |-> writing.pending]
  BY DEF WritePointer
<1>3. writing \in CommitJob
  BY CommitEffect
<1>4. committed' \in Pointer
  BY <1>2, <1>3, GenerationType DEF Pointer, CommitJob
<1>5. committed' # None
  BY <1>4, NoneIsApart
<1> QED
  BY <1>2, <1>4, <1>5 DEF Generation, Pending

LEMMA PhasedStep == TypeOK /\ Phased /\ [Next]_vars => Phased'
<1> SUFFICES ASSUME TypeOK, Phased, [Next]_vars PROVE Phased'
  OBVIOUS
<1>0. /\ service = "commit" => writing \in CommitJob
      /\ delivery \in Inputs \cup {None} /\ handled \in BOOLEAN /\ settled \subseteq Inputs
      /\ committed # None => committed \in Pointer
  BY DEF TypeOK, Phased
<1>1. writing' # None <=> service' = "commit"
  BY JobTypes, NoneIsApart DEF JobAtHand
<1>2. CASE Start \/ Acknowledge \/ DrainAgain \/ Crash
  BY <1>0, <1>1, <1>2 DEF Start, Acknowledge, DrainAgain, Crash, Phased, Changing, Clearing, Pending, disk, consumer
<1>8. CASE Recover \/ RecoverRaises
  BY <1>0, <1>1, <1>8 DEF Recover, RecoverRaises, Phased, Changing, Clearing, Pending, disk, consumer
<1>9. CASE Receive
  <2>1. Min(Inputs \ settled) \in Inputs
    BY <1>0, <1>9, LeastNatural, BeliefAssumption DEF Receive
  <2>2. Min(Inputs \ settled) # None
    BY <2>1, NoneIsApart
  <2> QED
    BY <1>0, <1>1, <1>9, <2>2 DEF Receive, Phased, Changing, Clearing, Pending, disk
<1>3. CASE Flush \/ Publish
  <2>1. /\ UNCHANGED <<committed, delivery, handled>>
        /\ \/ service' = AfterFlush /\ service = "flush"
           \/ service' = "publish" /\ Pending
           \/ /\ service' = "commit" /\ writing' = Job(committed.content, committed.checkpoint, FALSE, "clear")
              /\ Pending
    BY <1>3 DEF Flush, Publish, disk, consumer, Phased
  <2>2. service' = "commit" =>
          /\ writing'.then = "clear" /\ writing'.pending = FALSE /\ committed # None
          /\ writing'.content = committed.content /\ writing'.checkpoint = committed.checkpoint
    BY <2>1 DEF Job, AfterFlush, Pending
  <2> QED
    BY <1>0, <1>1, <2>1, <2>2 DEF Phased, Changing, Clearing, Pending, AfterFlush
<1>4. CASE Handle
  <2>1. [revision |-> Revision(manager) + 1, made |-> made + 1] \in Content
    <3>1. manager \in Seq(Inputs) /\ made \in Nat
      BY DEF TypeOK
    <3> QED
      BY <3>1, RevisionIsNat DEF Content
  <2>2. \/ service' # "commit"
        \/ writing' = Job([revision |-> Revision(manager) + 1, made |-> made + 1],
                          Append(manager, delivery), TRUE, "update")
        \/ writing' = Job(IF committed = None THEN None ELSE committed.content,
                          Append(manager, delivery), FALSE, "constraints")
    BY <1>4, HandleEffect
  <2>3. service' = "commit" =>
          writing'.then # "clear" /\ (writing'.pending = FALSE \/ writing'.content # None)
    BY <2>1, <2>2, NoneIsApart DEF Job
  <2>4. /\ \/ service' = "ack" /\ handled' = TRUE
           \/ service' \in {"raised", "commit"} /\ handled' = handled
        /\ delivery \in Inputs /\ delivery' = delivery /\ committed' = committed
    BY <1>4, HandleEffect
  <2>5. Pending' = Pending
    BY <2>4 DEF Pending
  <2>6. delivery' # None /\ ~handled
    BY <1>4, <2>4, NoneIsApart DEF Phased, Handle
  <2> QED
    BY <1>0, <1>1, <2>3, <2>4, <2>5, <2>6 DEF Phased, Changing, Clearing
<1>5. CASE BeginCommit \/ WriteFile \/ WritePointer
  <2>1. /\ UNCHANGED <<delivery, handled>> /\ service = "commit"
        /\ \/ service' = "recover" /\ ~Admissible(writing)
           \/ /\ service' = "commit" /\ writing'.content = writing.content
              /\ writing'.pending = writing.pending /\ writing'.then = writing.then
              /\ writing'.checkpoint = writing.checkpoint
    BY <1>5, CommitEffect
  <2>2. ~Admissible(writing) => writing.then # "clear"
    BY <1>0, <2>1 DEF Admissible, CommitJob
  <2>3. Pending' => committed'.content # None
    <3>1. CASE WritePointer
      BY <2>1, <3>1, CommitEffect, PointerEffect DEF Phased, WritePointer
    <3>2. CASE committed' = committed
      BY <3>2 DEF Phased, Pending
    <3> QED
      BY <1>5, <3>1, <3>2, CommitEffect
  <2>4. Clearing =>
          /\ committed' # None /\ ~writing.pending
          /\ writing.content = committed'.content /\ writing.checkpoint = committed'.checkpoint
    BY <1>5, CommitEffect, PointerEffect DEF Phased
  <2>5. Clearing' => Clearing
    BY <2>1 DEF Clearing
  <2>6. Clearing' =>
          /\ committed' # None /\ ~writing'.pending
          /\ writing'.content = committed'.content /\ writing'.checkpoint = committed'.checkpoint
    BY <2>1, <2>4, <2>5 DEF Clearing
  <2>7. service' = "commit" /\ writing'.pending => writing'.content # None
    BY <2>1 DEF Phased
  <2>8. Changing' => Changing
    BY <2>1 DEF Changing
  <2>9. service' = "recover" => Changing
    BY <2>1, <2>2 DEF Changing
  <2> QED
    BY <1>1, <2>1, <2>3, <2>6, <2>7, <2>8, <2>9 DEF Phased
<1>6. CASE FinishCommit \/ Raise
  BY <1>0, <1>1, <1>6 DEF FinishCommit, Raise, AfterFlush, Phased, Changing, Clearing, Pending, disk, consumer
<1>7. CASE UNCHANGED <<handled, service, writing, delivery, committed>>
  BY <1>7 DEF Phased, Changing, Clearing, Pending
<1> QED
  BY <1>2, <1>3, <1>4, <1>5, <1>6, <1>7, <1>8, <1>9
  DEF Next, Serving, OtherPublishes, OpenReader, Read, CloseReader, vars, disk, memory, consumer

(***************************************************************************)
(* The order of the inputs.                                                *)
(***************************************************************************)

LEMMA SortedKept ==
  ASSUME NEW done, NEW later, done \subseteq later, NEW belief, Sorted(belief, done)
  PROVE  Sorted(belief, later)
BY DEF Sorted, Reached

LEMMA SortedAppend ==
  ASSUME NEW done, NEW belief \in Seq(Inputs), Sorted(belief, done),
         NEW i \in Inputs \ done, Reached(i, done), LastOf(belief) # i
  PROVE  Sorted(Append(belief, i), done)
<1> DEFINE longer == Append(belief, i)
           n == Len(belief)
<1>1. /\ n \in Nat /\ DOMAIN belief = 1 .. n /\ DOMAIN longer = 1 .. (n + 1)
      /\ longer[n + 1] = i /\ \A k \in 1 .. n : longer[k] = belief[k] /\ belief[k] \in Nat
  <2>1. \A k \in 1 .. n : belief[k] \in Nat
    <3>1. \A k \in 1 .. n : belief[k] \in Inputs
      OBVIOUS
    <3> QED
      BY <3>1, BeliefAssumption
  <2>2. n \in Nat /\ DOMAIN belief = 1 .. n /\ DOMAIN longer = 1 .. (n + 1)
    OBVIOUS
  <2>3. longer[n + 1] = i /\ \A k \in 1 .. n : longer[k] = belief[k]
    OBVIOUS
  <2> QED
    BY <2>1, <2>2, <2>3
<1>2. \A k \in 1 .. n : belief[k] < i
  <2>1. \A k \in 1 .. n : belief[k] <= i
    BY <1>1 DEF Sorted, Reached
  <2>2. n > 0 => belief[n] # i
    BY DEF LastOf
  <2>3. \A k \in 1 .. n : k < n => belief[k] < belief[n]
    BY <1>1 DEF Sorted
  <2> HIDE DEF n
  <2> QED
    BY <1>1, <2>1, <2>2, <2>3, BeliefAssumption
<1>3. \A k \in DOMAIN longer : Reached(longer[k], done)
  BY <1>1 DEF Sorted
<1> HIDE DEF longer, n
<1>4. \A k, m \in DOMAIN longer : k < m => longer[k] < longer[m]
  BY <1>1, <1>2 DEF Sorted
<1> QED
  BY <1>3, <1>4 DEF Sorted, longer

(* A step keeps the beliefs it has, starts from nothing, or is handle's    *)
(* with the input in hand.                                                 *)
LEMMA BeliefsMove ==
  ASSUME TypeOK, Phased, [Next]_vars
  PROVE  /\ settled \subseteq settled'
         /\ \/ Beliefs' \subseteq Beliefs \cup {<<>>}
            \/ /\ service = "handle" /\ delivery \in Inputs /\ LastOf(manager) # delivery
               /\ settled' = settled
               /\ Beliefs' \subseteq Beliefs \cup {Append(manager, delivery)}
<1>1. CASE Handle
  <2>1. Stored' = Stored /\ settled' = settled /\ service = "handle" /\ delivery \in Inputs
    BY <1>1, HandleEffect DEF Stored, Handle
  <2>2. \/ UNCHANGED <<manager, prior>> /\ writing' = None
        \/ /\ LastOf(manager) # delivery /\ prior' = manager /\ manager' = Append(manager, delivery)
           /\ writing' # None => writing'.checkpoint = Append(manager, delivery)
    <3>1. \/ UNCHANGED <<manager, prior>> /\ writing' = None
          \/ /\ LastOf(manager) # delivery /\ prior' = manager /\ manager' = Append(manager, delivery)
             /\ \E content, pending, then : writing' = Job(content, Append(manager, delivery), pending, then)
      BY <1>1, HandleEffect
    <3>2. \A content, pending, then : writing' = Job(content, Append(manager, delivery), pending, then)
            => writing'.checkpoint = Append(manager, delivery)
      BY DEF Job
    <3> QED
      BY <3>1, <3>2
  <2> QED
    BY <2>1, <2>2 DEF Beliefs
<1>2. CASE BeginCommit \/ WriteFile \/ WritePointer
  <2>1. UNCHANGED <<manager, prior, settled>>
    BY <1>2, CommitEffect DEF BeginCommit, WriteFile, WritePointer, consumer
  <2>2. writing # None /\ (writing' = None \/ writing'.checkpoint = writing.checkpoint)
    BY <1>2, CommitEffect, NoneIsApart
  <2>3. Stored' \in {Stored, writing.checkpoint}
    BY <1>2, CommitEffect, PointerEffect DEF Stored
  <2> QED
    BY <2>1, <2>2, <2>3 DEF Beliefs
<1>3. CASE Flush \/ Publish
  <2>1. UNCHANGED <<manager, prior, settled, committed>>
    BY <1>3 DEF Flush, Publish, memory, consumer, disk
  <2>2. writing' # None => writing'.checkpoint = Stored
    BY <1>3 DEF Flush, Publish, Job, Stored, Pending, Phased
  <2> QED
    BY <2>1, <2>2 DEF Beliefs, Stored
<1>4. CASE Start \/ Recover \/ Crash
  <2>1. committed' = committed /\ settled' = settled
    BY <1>4 DEF Start, Recover, Crash, disk, consumer
  <2>2. manager' \in {manager, prior, Stored, <<>>} /\ prior' \in {prior, Stored, <<>>}
    BY <1>4 DEF Start, Recover, Crash, Stored
  <2>3. writing' \in {writing, None}
    BY <1>4 DEF Start, Recover, Crash
  <2> QED
    BY <2>1, <2>2, <2>3 DEF Beliefs, Stored
<1>5. CASE FinishCommit \/ Raise \/ Receive \/ Acknowledge
  <2>1. UNCHANGED <<manager, prior, committed>> /\ settled \subseteq settled'
    BY <1>5 DEF FinishCommit, Raise, Receive, Acknowledge, disk, memory, consumer
  <2>2. writing' \in {writing, None}
    BY <1>5 DEF FinishCommit, Raise, Receive, Acknowledge
  <2> QED
    BY <2>1, <2>2 DEF Beliefs, Stored
<1>6. CASE DrainAgain \/ OtherPublishes \/ RecoverRaises \/ OpenReader \/ Read \/ CloseReader \/ UNCHANGED vars
  <2>1. UNCHANGED <<manager, prior, committed, settled, writing>>
    BY <1>6 DEF DrainAgain, OtherPublishes, RecoverRaises, OpenReader, Read, CloseReader, vars, disk, memory, consumer
  <2> QED
    BY <2>1 DEF Beliefs, Stored
<1> QED
  BY <1>1, <1>2, <1>3, <1>4, <1>5, <1>6 DEF Next, Serving

LEMMA OrderedStep == TypeOK /\ Phased /\ Ordered /\ [Next]_vars => Ordered'
<1> SUFFICES ASSUME TypeOK, Phased, Ordered, [Next]_vars PROVE Ordered'
  OBVIOUS
<1>1. \A belief \in Beliefs' : Sorted(belief, settled')
  <2>1. ASSUME NEW belief \in Beliefs \cup {<<>>} PROVE Sorted(belief, settled')
    <3>1. Sorted(<<>>, settled)
      BY DEF Sorted
    <3> QED
      BY <2>1, <3>1, BeliefsMove, SortedKept DEF Ordered
  <2>2. CASE /\ service = "handle" /\ delivery \in Inputs /\ LastOf(manager) # delivery
             /\ settled' = settled
    <3>1. manager \in Seq(Inputs) /\ manager \in Beliefs
      BY DEF TypeOK, Beliefs
    <3>2. delivery \in Inputs \ settled /\ Reached(delivery, settled)
      BY <2>2, NoneIsApart DEF Ordered
    <3>3. Sorted(Append(manager, delivery), settled')
      BY <2>2, <3>1, <3>2, SortedAppend DEF Ordered
    <3> QED
      BY <2>1, <3>3, BeliefsMove
  <2> QED
    BY <2>1, <2>2, BeliefsMove
<1>2. CASE Receive
  <2>1. PICK i : i = Min(Inputs \ settled)
    OBVIOUS
  <2>2. settled # Inputs /\ settled \subseteq Inputs
    BY <1>2 DEF Receive, TypeOK
  <2>3. i \in Inputs \ settled /\ Reached(i, settled)
    BY <2>1, <2>2, LeastNatural, BeliefAssumption DEF Reached
  <2>4. \/ settled' = settled \cup {i} /\ delivery' = None
        \/ settled' = settled /\ delivery' = i
    BY <1>2, <2>1 DEF Receive, Phased
  <2>5. \A k \in settled' : Reached(k, settled')
    BY <2>3, <2>4 DEF Ordered, Reached
  <2> QED
    BY <1>1, <2>3, <2>4, <2>5 DEF Ordered
<1>3. CASE Acknowledge
  <2>1. delivery # None /\ settled' = settled \cup {delivery} /\ delivery' = None
    BY <1>3 DEF Acknowledge, Phased
  <2>2. \A k \in settled' : Reached(k, settled')
    BY <2>1 DEF Ordered, Reached
  <2> QED
    BY <1>1, <2>1, <2>2 DEF Ordered
<1>4. CASE settled' = settled /\ delivery' \in {delivery, None}
  BY <1>1, <1>4 DEF Ordered
<1>5. (settled' = settled /\ delivery' \in {delivery, None}) \/ Receive \/ Acknowledge
  BY DEF Next, Serving, Start, Flush, Publish, Handle, BeginCommit, WriteFile, WritePointer, FinishCommit,
         Recover, DrainAgain, OtherPublishes, Raise, RecoverRaises, Crash, OpenReader, Read, CloseReader,
         vars, consumer
<1> QED
  BY <1>2, <1>3, <1>4, <1>5

(***************************************************************************)
(* Memory and store.                                                       *)
(***************************************************************************)

LEMMA InStepStep ==
  ASSUME TypeOK, Phased, InStep, [Next]_vars, ~unread'
  PROVE  InStep'
<1>0. /\ service = "commit" => writing \in CommitJob
      /\ delivery \in Inputs \cup {None} /\ handled \in BOOLEAN
      /\ manager \in Seq(Inputs) /\ prior \in Seq(Inputs) /\ Stored \in Seq(Inputs)
      /\ delivery # None => delivery \in Inputs
  <2>1. Stored \in Seq(Inputs)
    BY EmptySeq DEF TypeOK, Stored, Pointer
  <2> QED
    BY <2>1 DEF TypeOK, Phased
<1>1. CASE Start \/ Acknowledge \/ DrainAgain \/ Crash
  BY <1>1 DEF Start, Acknowledge, DrainAgain, Crash, disk, memory, consumer, Phased, InStep, Stored, Changing, Clearing
<1>2. CASE Receive
  BY <1>2 DEF Receive, disk, memory, InStep, Stored, Changing, Clearing
<1>3. CASE Flush \/ Publish
  <2>1. /\ UNCHANGED <<committed, manager, prior, delivery, handled, acknowledged>>
        /\ service \in {"flush", "publish"}
        /\ service' # "recover" /\ (service' = "commit" => writing'.then = "clear")
    BY <1>3 DEF Flush, Publish, AfterFlush, disk, memory, consumer, Job
  <2> QED
    BY <2>1 DEF InStep, Stored, Changing, Clearing
<1>4. CASE Handle
  <2>1. manager = Stored /\ Stored' = Stored /\ service = "handle" /\ ~handled
    BY <1>4, HandleEffect DEF Handle, InStep, Stored, Phased
  <2>2. CASE LastOf(manager) = delivery /\ service' = "ack" /\ manager' = manager
    <3>1. delivery \in Range(Stored)
      BY <1>0, <1>4, <2>1, <2>2, HandleEffect, LastIsInRange, BeliefAssumption
    <3> QED
      BY <1>4, <2>1, <2>2, <3>1, HandleEffect DEF InStep, Changing, Clearing
  <2>3. CASE service' = "raised" /\ handled' = handled /\ manager' = manager
    BY <1>4, <2>1, <2>3, HandleEffect DEF InStep, Changing, Clearing
  <2>4. CASE /\ service' = "commit" /\ handled' = handled /\ prior' = manager
             /\ manager' = Append(manager, delivery)
             /\ \/ \E content : writing' = Job(content, Append(manager, delivery), TRUE, "update")
                \/ \E content : writing' = Job(content, Append(manager, delivery), FALSE, "constraints")
    <3>1. writing'.checkpoint = manager' /\ writing'.then # "clear" /\ writing'.file = "begin"
      BY <2>4 DEF Job
    <3> QED
      BY <1>4, <2>1, <2>4, <3>1, HandleEffect DEF InStep, Changing, Clearing
  <2>5. \/ LastOf(manager) = delivery /\ service' = "ack" /\ manager' = manager
        \/ service' = "raised" /\ handled' = handled /\ manager' = manager
        \/ /\ service' = "commit" /\ handled' = handled /\ prior' = manager
           /\ manager' = Append(manager, delivery)
           /\ \/ \E content : writing' = Job(content, Append(manager, delivery), TRUE, "update")
              \/ \E content : writing' = Job(content, Append(manager, delivery), FALSE, "constraints")
    BY <1>4, HandleEffect
  <2> QED
    BY <2>2, <2>3, <2>4, <2>5
<1>5. CASE BeginCommit \/ WriteFile
  <2>1. /\ UNCHANGED <<manager, prior, delivery, handled, acknowledged>> /\ Stored' = Stored
        /\ service = "commit" /\ writing.file # "prune"
        /\ \/ service' = "recover" /\ writing.then # "clear"
           \/ /\ service' = "commit" /\ writing'.checkpoint = writing.checkpoint
              /\ writing'.then = writing.then /\ writing'.file # "prune"
    <3>1. Stored' = Stored /\ UNCHANGED <<manager, prior, delivery, handled, acknowledged>>
      BY <1>5, CommitEffect DEF BeginCommit, WriteFile, Stored
    <3>2. ~Admissible(writing) => writing.then # "clear"
      BY <1>0, <1>5, CommitEffect DEF Admissible, CommitJob
    <3>3. WriteFile => NextFile(writing, writing.file) # "prune" /\ writing.file # "prune"
      BY DEF NextFile, WriteFile
    <3>4. ~WritePointer
      BY <1>5 DEF BeginCommit, WriteFile, WritePointer
    <3>5. writing.file # "prune"
      BY <1>5, <3>3 DEF BeginCommit
    <3> QED
      BY <1>5, <3>1, <3>2, <3>3, <3>4, <3>5, CommitEffect
  <2> QED
    BY <2>1 DEF InStep, Changing, Clearing
<1>6. CASE WritePointer
  <2>1. /\ UNCHANGED <<manager, prior, delivery, handled, acknowledged>>
        /\ service = "commit" /\ service' = "commit" /\ writing'.checkpoint = writing.checkpoint
        /\ writing'.then = writing.then /\ writing.file = "commit" /\ writing'.file = "prune"
        /\ Stored' = writing.checkpoint
    BY <1>6, CommitEffect, PointerEffect DEF WritePointer, Stored
  <2>2. CASE writing.then = "clear"
    BY <2>1, <2>2 DEF InStep, Changing, Clearing, Phased, Stored
  <2>3. CASE writing.then # "clear"
    <3>1. Stored = prior /\ Stored' = manager /\ manager = Append(prior, delivery) /\ ~handled /\ delivery \in Inputs
      BY <1>0, <2>1, <2>3 DEF InStep, Changing, Phased
    <3>2. Range(Stored) \subseteq Range(Stored')
      BY <1>0, <3>1, RangeOfAppend
    <3> QED
      BY <2>1, <2>3, <3>1, <3>2 DEF InStep, Changing, Clearing
  <2> QED
    BY <2>2, <2>3
<1>7. CASE FinishCommit
  <2>1. /\ UNCHANGED <<committed, manager, prior, delivery, acknowledged>> /\ Stored' = Stored
        /\ service = "commit" /\ writing.file = "prune" /\ service' \notin {"commit", "recover", "down"}
        /\ handled' => handled \/ writing.then # "clear"
    BY <1>7 DEF FinishCommit, AfterFlush, Stored
  <2>2. writing.then # "clear" => Stored = manager /\ manager = Append(prior, delivery) /\ delivery \in Inputs
    BY <1>0, <2>1 DEF InStep, Changing, Phased
  <2>3. writing.then # "clear" => delivery \in Range(Stored)
    <3>1. delivery \in Inputs => delivery \in Range(Append(prior, delivery))
      BY <1>0, RangeOfAppend
    <3> QED
      BY <2>2, <3>1
  <2>4. writing.then = "clear" => Stored = manager
    BY <2>1 DEF InStep, Clearing
  <2> QED
    BY <2>1, <2>2, <2>3, <2>4 DEF InStep, Changing, Clearing
<1>8. CASE Raise
  BY <1>0, <1>8 DEF Raise, disk, memory, consumer, InStep, Stored, Changing, Clearing
<1>9. CASE Recover
  <2>1. /\ Stored' = Stored /\ UNCHANGED <<prior, delivery, handled, acknowledged>>
        /\ service = "recover" /\ service' = "raised" /\ delivery \in Inputs
        /\ Stored = prior \/ Stored = Append(prior, delivery)
    BY <1>0, <1>9 DEF Recover, Stored, consumer, InStep, Phased
  <2>2. LastOf(Append(prior, delivery)) = delivery /\ Append(prior, delivery) # <<>>
    BY <1>0, <2>1 DEF LastOf
  <2>3. manager' = Stored
    BY <1>9, <2>1, <2>2 DEF Recover, Stored
  <2> QED
    BY <2>1, <2>3 DEF InStep, Changing, Clearing
<1>10. CASE UNCHANGED <<committed, memory, consumer, service, writing>>
  BY <1>10 DEF InStep, Stored, Changing, Clearing, memory, consumer
<1> QED
  BY <1>1, <1>2, <1>3, <1>4, <1>5, <1>6, <1>7, <1>8, <1>9, <1>10
  DEF Next, Serving, OtherPublishes, RecoverRaises, OpenReader, Read, CloseReader, vars, disk

LEMMA BeliefInit == Init => BeliefInv
<1> SUFFICES ASSUME Init PROVE BeliefInv
  OBVIOUS
<1>1. TypeOK /\ Phased
  BY TypesInit
<1>2. /\ manager = <<>> /\ prior = <<>> /\ committed = None /\ writing = None /\ delivery = None
      /\ settled = {} /\ acknowledged = {} /\ ~handled /\ service = "down"
  BY DEF Init
<1>3. Beliefs = {<<>>}
  BY <1>2 DEF Beliefs, Stored
<1>4. Ordered
  BY <1>2, <1>3 DEF Ordered, Sorted
<1>5. InStep
  BY <1>2 DEF InStep, Changing, Clearing
<1> QED
  BY <1>1, <1>4, <1>5 DEF BeliefInv

LEMMA BeliefStep == BeliefInv /\ [Next]_vars => BeliefInv'
<1> SUFFICES ASSUME BeliefInv, [Next]_vars PROVE BeliefInv'
  OBVIOUS
<1>1. ~unread' => ~unread
  BY DEF Next, Serving, Start, Flush, Publish, Receive, Handle, Acknowledge, BeginCommit, WriteFile, WritePointer,
         FinishCommit, Recover, DrainAgain, OtherPublishes, Raise, RecoverRaises, Crash, OpenReader, Read,
         CloseReader, vars
<1> QED
  BY <1>1, TypesStep, PhasedStep, OrderedStep, InStepStep DEF BeliefInv

LEMMA BeliefInvariant == Spec => []BeliefInv
BY BeliefInit, BeliefStep, PTL DEF Spec

(* Every variable of the service, the store and the reader keeps its type, *)
(* through every crash, raising write and recovery.                        *)
THEOREM BeliefTypes == Spec => []TypeOK
<1>1. BeliefInv => TypeOK
  BY DEF BeliefInv
<1> QED
  BY <1>1, BeliefInvariant, PTL

(* An input is applied once, however often it is delivered, and an input   *)
(* acknowledged is in the committed belief.                                *)
THEOREM BeliefAppliedOnce == Spec => []AppliedOnce
<1>1. ASSUME BeliefInv PROVE AppliedOnce
  <2>1. Stored \in Seq(Inputs)
    BY <1>1, EmptySeq DEF BeliefInv, TypeOK, Stored, Pointer
  <2>2. \A n \in DOMAIN Stored : Stored[n] \in Nat /\ n \in Nat
    BY <2>1, BeliefAssumption
  <2>3. \A m, n \in DOMAIN Stored : m < n => Stored[m] < Stored[n]
    BY <1>1 DEF BeliefInv, Ordered, Beliefs, Sorted
  <2>4. \A m, n \in DOMAIN Stored : Stored[m] = Stored[n] => m = n
    <3> HIDE DEF Stored
    <3> QED
      BY <2>2, <2>3
  <2>5. IsInjective(Stored)
    BY <2>4 DEF IsInjective
  <2>6. ~unread => acknowledged \subseteq Range(Stored)
    BY <1>1 DEF BeliefInv, InStep
  <2> QED
    BY <2>5, <2>6 DEF AppliedOnce, Stored
<1> QED
  BY <1>1, BeliefInvariant, PTL

(***************************************************************************)
(* The files.                                                              *)
(***************************************************************************)

(* Fewer than the history limit lie above a generation that is not as old. *)
LEMMA FewAbove ==
  ASSUME NEW S \in SUBSET Nat, NEW g \in Nat, NEW top \in Nat, g <= top, top < g + HistoryLimit
  PROVE  Cardinality({h \in S : g < h /\ h <= top}) < HistoryLimit
<1> DEFINE above == {h \in S : g < h /\ h <= top}
           between == (g + 1) .. top
<1>1. above \subseteq between
  <2>1. ASSUME NEW h \in Nat, g < h, h <= top PROVE h \in between
    BY <2>1
  <2> QED
    BY <2>1
<1>2. IsFiniteSet(between) /\ Cardinality(between) = IF g + 1 > top THEN 0 ELSE top - (g + 1) + 1
  BY FS_Interval
<1>3. IsFiniteSet(above) /\ Cardinality(above) <= Cardinality(between)
  BY <1>1, <1>2, FS_Subset
<1>4. Cardinality(above) \in Nat
  BY <1>3, FS_CardinalityType
<1> HIDE DEF above, between
<1>5. Cardinality(above) < HistoryLimit
  BY <1>2, <1>3, <1>4, BeliefAssumption
<1> QED
  BY <1>5 DEF above

(* No step but the replacement of the pointer takes a file from a          *)
(* generation within the history limit.                                    *)
LEMMA StoreKeeps ==
  ASSUME TypeOK, Phased, [Next]_vars,
         NEW p, p.generation \in Nat, p.generation <= Generation, Generation < p.generation + HistoryLimit,
         Complete(p, generations, artifacts)
  PROVE  Complete(p, generations', artifacts')
<1>0. Generation \in Nat /\ Directory = Generation + 1 /\ DOMAIN generations \subseteq Nat
  BY GenerationType DEF Directory, TypeOK
<1>1. CASE Prune(Generation)
  <2>1. p.generation \in Retained(Generation)
    BY <1>0, FewAbove DEF Complete, Retained
  <2>2. /\ p.generation \in DOMAIN generations'
        /\ generations'[p.generation] = generations[p.generation]
    BY <1>0, <1>1, <2>1 DEF Prune, Retained, Restrict
  <2>3. p.content # None => p.content \in artifacts'
    BY <1>1, <2>1 DEF Prune, Complete
  <2> QED
    BY <2>2, <2>3 DEF Complete
<1>2. CASE UNCHANGED <<generations, artifacts>>
  BY <1>2
<1>3. CASE Load
  BY <1>1, <1>2, <1>3 DEF Load
<1>4. CASE BeginCommit
  <2>1. \/ UNCHANGED <<generations, artifacts>>
        \/ /\ artifacts' = artifacts
           /\ generations' = [g \in {h \in DOMAIN generations : h <= Generation} \cup {Directory} |->
                               IF g = Directory THEN EmptyDirectory ELSE generations[g]]
    BY <1>4 DEF BeginCommit
  <2>2. p.generation # Directory
    BY <1>0
  <2> QED
    BY <1>0, <2>1, <2>2 DEF Complete
<1>5. CASE WriteFile
  <2>1. p.generation # Directory
    BY <1>0
  <2>2. ASSUME NEW field, NEW value, Put(field, value)
        PROVE  /\ p.generation \in DOMAIN generations'
               /\ generations'[p.generation] = generations[p.generation]
    BY <2>1, <2>2 DEF Put, Complete
  <2>3. \/ artifacts' = artifacts /\ \E field, value : Put(field, value)
        \/ artifacts \subseteq artifacts' /\ generations' = generations
    BY <1>5 DEF WriteFile
  <2> QED
    BY <2>2, <2>3 DEF Complete
<1>6. CASE Start \/ Flush \/ Recover
  BY <1>3, <1>6 DEF Start, Flush, Recover
<1>7. CASE FinishCommit
  BY <1>1, <1>7 DEF FinishCommit
<1>8. CASE \/ Publish \/ Receive \/ Handle \/ Acknowledge \/ WritePointer \/ DrainAgain \/ OtherPublishes \/ Raise
           \/ RecoverRaises \/ Crash \/ OpenReader \/ Read \/ CloseReader \/ UNCHANGED vars
  BY <1>2, <1>8 DEF Publish, Receive, Handle, Acknowledge, WritePointer, DrainAgain, OtherPublishes, Raise,
     RecoverRaises, Crash, OpenReader, Read, CloseReader, vars, disk
<1> QED
  BY <1>4, <1>5, <1>6, <1>7, <1>8 DEF Next, Serving

(* Whatever the pointer is, its generation is complete; the next one is    *)
(* complete when its turn comes.                                           *)
LEMMA PointerStep ==
  ASSUME TypeOK, Phased, FilesInv, [Next]_vars
  PROVE  committed' # None => Complete(committed', generations', artifacts')
<1>0. committed # None =>
        committed.generation \in Nat /\ committed.generation = Generation /\ HistoryLimit \in Nat \ {0}
  BY BeliefAssumption DEF TypeOK, Pointer, Generation
<1>1. CASE committed' = committed
  <2>1. SUFFICES ASSUME committed # None PROVE Complete(committed, generations', artifacts')
    BY <1>1
  <2>2. Complete(committed, generations, artifacts)
    BY <2>1 DEF FilesInv
  <2>3. committed.generation <= Generation /\ Generation < committed.generation + HistoryLimit
    BY <1>0, <2>1
  <2> QED
    BY <1>0, <2>1, <2>2, <2>3, StoreKeeps
<1>2. CASE WritePointer
  <2>1. /\ committed'.generation = Directory /\ committed'.content = writing.content
        /\ committed'.checkpoint = writing.checkpoint /\ committed'.pending = writing.pending
    BY <1>2, PointerEffect
  <2>2. service = "commit" /\ writing.file = "commit" /\ UNCHANGED <<generations, artifacts>>
    BY <1>2 DEF WritePointer
  <2> QED
    BY <2>1, <2>2 DEF FilesInv, Written, Complete
<1>3. committed' = committed \/ WritePointer
  BY DEF Next, Serving, Start, Flush, Publish, Receive, Handle, Acknowledge, BeginCommit, WriteFile, FinishCommit,
         Recover, DrainAgain, OtherPublishes, Raise, RecoverRaises, Crash, OpenReader, Read, CloseReader, vars, disk
<1> QED
  BY <1>1, <1>2, <1>3

LEMMA WrittenStep ==
  ASSUME TypeOK, Phased, FilesInv, [Next]_vars
  PROVE  Written'
<1>0. service = "commit" => writing \in CommitJob
  BY DEF TypeOK, Phased
<1>1. CASE Flush \/ Publish \/ Handle
  <2>1. service' = "commit" => writing'.file = "begin"
    BY <1>1 DEF Flush, Publish, Handle, Job, AfterFlush
  <2> QED
    BY <2>1 DEF Written
<1>2. CASE BeginCommit
  <2>1. CASE service' = "commit"
    <3>1. Directory' = Directory
      BY <1>2 DEF BeginCommit, Directory, Generation
    <3>2. /\ writing'.file = IF writing.content = None THEN "checkpoint" ELSE "snapshot"
          /\ writing'.content = writing.content
      BY <1>2, <2>1, CommitEffect DEF BeginCommit, WriteFile, WritePointer
    <3>3. Directory \in DOMAIN generations' /\ generations'[Directory].content = None
      BY <1>2, <2>1 DEF BeginCommit, EmptyDirectory
    <3> QED
      BY <3>1, <3>2, <3>3 DEF Written
  <2>2. CASE service' # "commit"
    BY <2>2 DEF Written
  <2> QED
    BY <2>1, <2>2
<1>3. CASE WriteFile
  <2>1. /\ Directory' = Directory /\ writing'.file = NextFile(writing, writing.file)
        /\ writing'.content = writing.content /\ writing'.checkpoint = writing.checkpoint
        /\ writing'.pending = writing.pending /\ service = "commit"
    <3>1. Directory' = Directory
      BY <1>3 DEF WriteFile, Directory, Generation
    <3>2. ~BeginCommit /\ ~WritePointer
      BY <1>3 DEF WriteFile, BeginCommit, WritePointer
    <3>3. service' = "commit"
      BY <1>3 DEF WriteFile
    <3> QED
      BY <1>3, <3>1, <3>2, <3>3, CommitEffect
  <2>2. CASE writing.file = "snapshot"
    <3>1. Put("content", writing.content)
      BY <1>3, <2>2 DEF WriteFile
    <3>2. PICK directory : /\ directory \in Directories
                           /\ Directory \in DOMAIN generations'
                           /\ generations'[Directory] = [directory EXCEPT !["content"] = writing.content]
      BY <3>1, EmptyDirectoryType DEF Put, TypeOK
    <3>3. generations'[Directory].content = writing.content
      BY <3>2 DEF Directories
    <3> QED
      BY <2>1, <2>2, <3>2, <3>3 DEF Written, NextFile
  <2>3. CASE writing.file = "artifact"
    <3>1. generations' = generations /\ writing.content \in artifacts'
      BY <1>3, <2>3 DEF WriteFile
    <3> QED
      BY <2>1, <2>3, <3>1 DEF FilesInv, Written, NextFile
  <2>4. CASE writing.file \in {"checkpoint", "pending"}
    <3>1. Directory \in DOMAIN generations /\ artifacts' = artifacts
      BY <1>3, <2>1, <2>4 DEF WriteFile, FilesInv, Written
    <3>2. PICK directory : directory = generations[Directory] /\ directory \in Directories
      BY <3>1 DEF TypeOK
    <3>3. /\ Directory \in DOMAIN generations'
          /\ writing.file = "checkpoint" =>
               generations'[Directory] = [directory EXCEPT !["checkpoint"] = writing.checkpoint]
          /\ writing.file = "pending" => generations'[Directory] = [directory EXCEPT !["pending"] = TRUE]
      BY <1>3, <2>4, <3>1, <3>2 DEF WriteFile, Put
    <3>4. /\ generations'[Directory].content = directory.content
          /\ writing.file = "checkpoint" => generations'[Directory].checkpoint = writing.checkpoint
          /\ writing.file = "pending" =>
               generations'[Directory].checkpoint = directory.checkpoint /\ generations'[Directory].pending = TRUE
      <4>1. DOMAIN directory = {"content", "checkpoint", "pending"}
        BY <3>2 DEF Directories
      <4>2. CASE writing.file = "checkpoint"
        BY <3>3, <4>1, <4>2
      <4>3. CASE writing.file = "pending"
        BY <3>3, <4>1, <4>3
      <4> QED
        BY <2>4, <4>2, <4>3
    <3> QED
      BY <2>1, <2>4, <3>1, <3>2, <3>3, <3>4 DEF FilesInv, Written, NextFile
  <2> QED
    BY <1>3, <2>2, <2>3, <2>4 DEF WriteFile
<1>4. CASE WritePointer
  <2>1. writing'.file = "prune"
    BY <1>4, CommitEffect, NoneIsApart DEF WritePointer, BeginCommit
  <2> QED
    BY <2>1 DEF Written
<1>5. CASE service' # "commit"
  BY <1>5 DEF Written
<1>6. CASE UNCHANGED <<disk, service, writing>>
  BY <1>6 DEF disk, FilesInv, Written, Directory, Generation
<1>7. CASE Start \/ Receive \/ Acknowledge \/ FinishCommit \/ Recover \/ DrainAgain \/ RecoverRaises \/ Crash \/ Raise
  BY <1>5, <1>7 DEF Start, Receive, Acknowledge, FinishCommit, AfterFlush, Recover, DrainAgain, RecoverRaises, Crash, Raise
<1>8. CASE OtherPublishes \/ OpenReader \/ Read \/ CloseReader \/ UNCHANGED vars
  BY <1>6, <1>8 DEF OtherPublishes, OpenReader, Read, CloseReader, vars
<1> QED
  BY <1>1, <1>2, <1>3, <1>4, <1>7, <1>8 DEF Next, Serving

LEMMA FollowingStep ==
  ASSUME TypeOK, Phased, FilesInv, [Next]_vars
  PROVE  Following'
<1>0. /\ Generation \in Nat /\ HistoryLimit \in Nat \ {0}
      /\ reader # None => reader.at.generation \in Nat /\ reader \in Reading
      /\ committed # None => committed.generation = Generation
  BY GenerationType, BeliefAssumption DEF TypeOK, Reading, Pointer, Generation
<1>1. CASE reader' = reader /\ committed' = committed
  <2>1. Generation' = Generation
    BY <1>1 DEF Generation
  <2>2. SUFFICES ASSUME reader # None, Generation < reader.at.generation + HistoryLimit
                 PROVE  Complete(reader.at, generations', artifacts')
    BY <1>1, <2>1 DEF FilesInv, Following
  <2>3. reader.at.generation <= Generation /\ Complete(reader.at, generations, artifacts)
    BY <2>2 DEF FilesInv, Following
  <2> QED
    BY <1>0, <2>2, <2>3, StoreKeeps
<1>2. CASE WritePointer
  <2>1. reader' = reader /\ UNCHANGED <<generations, artifacts>> /\ Generation' = Generation + 1
    BY <1>2, PointerEffect DEF WritePointer, Directory
  <2> QED
    BY <1>0, <2>1 DEF FilesInv, Following
<1>3. CASE OpenReader
  <2>1. /\ reader' = [at |-> committed, file |-> "checkpoint"] /\ committed # None
        /\ UNCHANGED <<generations, artifacts, committed>>
    BY <1>3 DEF OpenReader, disk
  <2>2. Generation' = Generation
    BY <2>1 DEF Generation
  <2> QED
    BY <1>0, <2>1, <2>2 DEF FilesInv, Following
<1>4. CASE Read
  <2>1. /\ UNCHANGED <<generations, artifacts, committed>> /\ reader \in Reading /\ reader # None
        /\ reader.file \in {"checkpoint", "artifact", "snapshot", "pending"}
    BY <1>0, <1>4 DEF Read, disk, Reading
  <2>2. reader'.at = reader.at /\ (Readable(reader) => reader'.file # "failed")
    BY <1>4, <2>1 DEF Read, Reading
  <2>3. Complete(reader.at, generations, artifacts) => Readable(reader)
    BY <2>1 DEF Complete, Readable
  <2>4. Generation' = Generation
    BY <2>1 DEF Generation
  <2> QED
    BY <2>1, <2>2, <2>3, <2>4 DEF FilesInv, Following
<1>5. CASE CloseReader
  BY <1>5 DEF CloseReader, Following
<1>6. (reader' = reader /\ committed' = committed) \/ WritePointer \/ OpenReader \/ Read \/ CloseReader
  BY DEF Next, Serving, Start, Flush, Publish, Receive, Handle, Acknowledge, BeginCommit, WriteFile, FinishCommit,
         Recover, DrainAgain, OtherPublishes, Raise, RecoverRaises, Crash, vars, disk
<1> QED
  BY <1>1, <1>2, <1>3, <1>4, <1>5, <1>6

LEMMA FilesInvariant == Spec => [](TypeOK /\ FilesInv)
<1>1. Init => FilesInv
  BY DEF Init, FilesInv, Written, Following
<1>2. BeliefInv /\ FilesInv /\ [Next]_vars => FilesInv'
  BY PointerStep, WrittenStep, FollowingStep DEF FilesInv, BeliefInv
<1>3. BeliefInv => TypeOK
  BY DEF BeliefInv
<1> QED
  BY <1>1, <1>2, <1>3, BeliefInvariant, PTL DEF Spec

(* Whatever was written, raised, crashed and pruned, the pointer names a   *)
(* complete generation, so that the belief can be restored.                *)
THEOREM BeliefPointerComplete == Spec => []PointerComplete
<1>1. TypeOK /\ FilesInv => PointerComplete
  BY DEF FilesInv, Complete, PointerComplete, Generation
<1> QED
  BY <1>1, FilesInvariant, PTL

(* A reader without the lock fails only when HistoryLimit generations were *)
(* committed while it read.                                                *)
THEOREM BeliefReaderOutlived == Spec => []ReaderOutlived
<1>1. ASSUME TypeOK, FilesInv PROVE ReaderOutlived
  <2>1. Generation \in Nat /\ HistoryLimit \in Nat /\ (reader # None => reader.at.generation \in Nat)
    BY <1>1, GenerationType, BeliefAssumption DEF TypeOK, Reading, Pointer
  <2> QED
    BY <1>1, <2>1 DEF FilesInv, Following, ReaderOutlived
<1> QED
  BY <1>1, FilesInvariant, PTL

(***************************************************************************)
(* The context topic.                                                      *)
(***************************************************************************)

LEMMA UpToIsFinite ==
  ASSUME NEW topic \in Seq(Content), NEW n
  PROVE  /\ IsFiniteSet(Announcements(topic)) /\ Count(topic) \in Nat
         /\ Cardinality(UpTo(topic, n)) \in Nat /\ Cardinality(UpTo(topic, n)) <= Count(topic)
<1>1. Announcements(topic) \subseteq 1 .. Len(topic) /\ Len(topic) \in Nat
  BY DEF Announcements
<1>2. IsFiniteSet(Announcements(topic))
  <2>1. IsFiniteSet(1 .. Len(topic))
    BY <1>1, FS_Interval
  <2> QED
    BY <1>1, <2>1, FS_Subset
<1>3. UpTo(topic, n) \subseteq Announcements(topic)
  BY DEF UpTo
<1>4. IsFiniteSet(UpTo(topic, n)) /\ Cardinality(UpTo(topic, n)) <= Cardinality(Announcements(topic))
  BY <1>2, <1>3, FS_Subset
<1> QED
  BY <1>2, <1>4, FS_CardinalityType DEF Count

(* An event of another service announces nothing.                          *)
LEMMA ForeignAppended ==
  ASSUME NEW topic \in Seq(Content), NEW later, later = Append(topic, Foreign)
  PROVE  /\ Count(later) = Count(topic) /\ (Numbered(topic) => Numbered(later))
         /\ \A content : Newest(topic, content) => Newest(later, content)
<1>1. /\ DOMAIN later = DOMAIN topic \cup {Len(topic) + 1} /\ Len(topic) + 1 \notin DOMAIN topic
      /\ later[Len(topic) + 1] = Foreign /\ \A n \in DOMAIN topic : later[n] = topic[n]
  BY ForeignIsContent
<1>2. Announcements(later) = Announcements(topic)
  BY <1>1 DEF Announcements
<1>3. \A n \in Announcements(topic) : later[n] = topic[n]
  BY <1>1 DEF Announcements
<1> QED
  BY <1>2, <1>3 DEF Count, Numbered, Newest, UpTo

(* The next revision announced is the newest.                              *)
LEMMA ContentAppended ==
  ASSUME NEW topic \in Seq(Content), NEW content \in Content, content # Foreign,
         Numbered(topic), content.revision = Count(topic) + 1,
         NEW later, later = Append(topic, content)
  PROVE  Count(later) = Count(topic) + 1 /\ Numbered(later) /\ Newest(later, content)
<1> DEFINE last == Len(topic) + 1
<1>1. /\ DOMAIN later = DOMAIN topic \cup {last} /\ \A n \in DOMAIN topic : n < last
      /\ last \in Nat /\ later[last] = content /\ \A n \in DOMAIN topic : later[n] = topic[n]
  OBVIOUS
<1> HIDE DEF last
<1>2. Announcements(later) = Announcements(topic) \cup {last} /\ last \notin Announcements(topic)
  BY <1>1 DEF Announcements
<1>3. Count(later) = Count(topic) + 1
  BY <1>2, UpToIsFinite, FS_AddElement DEF Count
<1>4. UpTo(later, last) = Announcements(later)
  BY <1>1, <1>2 DEF UpTo, Announcements
<1>5. \A n \in Announcements(topic) : later[n] = topic[n] /\ UpTo(later, n) = UpTo(topic, n)
  BY <1>1, <1>2 DEF UpTo, Announcements
<1>6. Numbered(later)
  BY <1>1, <1>2, <1>3, <1>4, <1>5 DEF Numbered, Count
<1>7. Newest(later, content)
  BY <1>1, <1>2 DEF Newest, Announcements
<1> QED
  BY <1>3, <1>6, <1>7

(* No revision announced is beyond the number of announcements.            *)
LEMMA FoundIsCounted ==
  ASSUME NEW topic \in Seq(Content), Numbered(topic), NEW n \in DOMAIN topic, topic[n].revision > 0
  PROVE  topic[n].revision <= Count(topic)
<1>1. n \in Announcements(topic)
  BY ForeignIsContent DEF Announcements
<1> QED
  BY <1>1, UpToIsFinite DEF Numbered

LEMMA PointerFacts ==
  ASSUME TypeOK, Phased
  PROVE  /\ stream \in Seq(Content) /\ Count(stream) \in Nat
         /\ Stored \in Seq(Inputs) /\ Revision(Stored) \in Nat
         /\ committed # None =>
              /\ committed.checkpoint = Stored /\ committed.pending \in BOOLEAN
              /\ committed.content \in Content \cup {None}
         /\ committed = None => Revision(Stored) = 0
         /\ service = "commit" => Revision(writing.checkpoint) \in Nat /\ writing \in CommitJob
<1>1. stream \in Seq(Content)
  BY DEF TypeOK
<1>2. Stored \in Seq(Inputs)
  BY EmptySeq DEF TypeOK, Stored, Pointer
<1>3. service = "commit" => writing \in CommitJob /\ writing.checkpoint \in Seq(Inputs)
  BY DEF TypeOK, Phased, CommitJob
<1>4. committed # None =>
        /\ committed.checkpoint = Stored /\ committed.pending \in BOOLEAN
        /\ committed.content \in Content \cup {None}
  BY DEF TypeOK, Stored, Pointer
<1>5. committed = None => Revision(Stored) = 0
  BY RevisionOfEmpty DEF Stored
<1> QED
  BY <1>1, <1>2, <1>3, <1>4, <1>5, RevisionIsNat, UpToIsFinite

(* The announcement of a pending output is the next revision's.            *)
LEMMA Announce ==
  ASSUME TypeOK, Phased, StreamInv, service = "publish",
         NEW later, later = Append(stream, committed.content)
  PROVE  /\ Count(later) = Revision(committed.checkpoint) /\ Numbered(later)
         /\ Newest(later, committed.content)
<1>1. /\ committed # None /\ committed.content \in Content /\ Numbered(stream)
      /\ Count(stream) = Revision(committed.checkpoint) - 1
      /\ committed.content.revision = Revision(committed.checkpoint) /\ committed.content.revision > 0
  BY PointerFacts DEF Phased, Pending, StreamInv, Told, Underway, Named
<1>2. committed.content # Foreign /\ Count(stream) + 1 = Revision(committed.checkpoint)
  BY <1>1, PointerFacts, ForeignIsContent
<1> QED
  BY <1>1, <1>2, PointerFacts, ContentAppended

(* What a step does to the topic.                                          *)
LEMMA TopicMoves ==
  ASSUME TypeOK, Phased, [Next]_vars
  PROVE  /\ \/ stream' = stream
            \/ stream' = Append(stream, Foreign) /\ OtherPublishes
            \/ /\ service = "publish" /\ stream' = Append(stream, committed.content)
               /\ Publish \/ service' = "raised"
         /\ \/ committed' = committed
            \/ WritePointer /\ stream' = stream
<1> QED
  BY DEF Next, Serving, Start, Flush, Publish, Receive, Handle, Acknowledge, BeginCommit, WriteFile, WritePointer,
         FinishCommit, Recover, DrainAgain, OtherPublishes, Raise, RecoverRaises, Crash, OpenReader, Read,
         CloseReader, vars, disk

LEMMA ToldStep ==
  ASSUME TypeOK, Phased, StreamInv, [Next]_vars
  PROVE  Told'
<1>1. CASE committed' = committed /\ stream' = stream
  BY <1>1 DEF StreamInv, Told
<1>2. CASE committed' = committed /\ stream' = Append(stream, Foreign)
  BY <1>2, PointerFacts, ForeignAppended DEF StreamInv, Told
<1>3. CASE committed' = committed /\ service = "publish" /\ stream' = Append(stream, committed.content)
  BY <1>3, Announce DEF StreamInv, Told, Phased, Pending
<1>4. CASE WritePointer /\ stream' = stream
  <2>1. /\ committed' # None /\ committed'.content = writing.content
        /\ committed'.checkpoint = writing.checkpoint /\ committed'.pending = writing.pending
        /\ writing.then \in {"clear", "update", "constraints"} /\ writing.pending \in BOOLEAN
        /\ service = "commit" /\ writing.file = "commit"
    BY <1>4, PointerEffect, PointerFacts DEF WritePointer, CommitJob
  <2>2. CASE writing.then = "clear"
    <3>1. /\ committed # None /\ writing.content = committed.content
          /\ writing.checkpoint = committed.checkpoint /\ ~writing.pending
      BY <2>1, <2>2 DEF Phased, Clearing
    <3>2. Count(stream) = Revision(committed.checkpoint)
      BY <2>1, <2>2 DEF StreamInv, Underway
    <3>3. committed.content # None => Newest(stream, committed.content)
      BY <3>1, <3>2, PointerFacts DEF StreamInv, Told
    <3> QED
      BY <1>4, <2>1, <3>1, <3>2, <3>3 DEF StreamInv, Told
  <2>3. CASE writing.then # "clear"
    <3>1. /\ ~Pending
          /\ Revision(writing.checkpoint) = Revision(Stored) + (IF writing.then = "update" THEN 1 ELSE 0)
      BY <2>1, <2>3 DEF StreamInv, Underway
    <3>2. /\ Count(stream) = Revision(Stored) /\ Numbered(stream)
          /\ committed # None =>
               /\ Named(committed.content, Stored)
               /\ committed.content # None => Newest(stream, committed.content)
      BY <3>1, PointerFacts DEF StreamInv, Told, Pending
    <3>3. CASE writing.then = "update"
      <4>1. writing.pending /\ Named(writing.content, writing.checkpoint)
        BY <2>1, <3>3 DEF StreamInv, Underway
      <4>2. Count(stream) = Revision(writing.checkpoint) - 1
        BY <3>1, <3>2, <3>3, PointerFacts
      <4> QED
        BY <1>4, <2>1, <3>2, <4>1, <4>2 DEF Told
    <3>4. CASE writing.then = "constraints"
      <4>1. /\ ~writing.pending
            /\ writing.content = IF committed = None THEN None ELSE committed.content
        BY <2>1, <3>4 DEF StreamInv, Underway
      <4>2. Revision(writing.checkpoint) = Revision(Stored)
        BY <3>1, <3>4, PointerFacts
      <4>3. Named(writing.content, writing.checkpoint)
        BY <3>2, <4>1, <4>2, PointerFacts DEF Named
      <4>4. writing.content # None => Newest(stream, writing.content)
        BY <3>2, <4>1
      <4> QED
        BY <1>4, <2>1, <3>2, <4>1, <4>2, <4>3, <4>4 DEF Told
    <3> QED
      BY <2>1, <2>3, <3>3, <3>4
  <2> QED
    BY <2>2, <2>3
<1> QED
  BY <1>1, <1>2, <1>3, <1>4, TopicMoves

LEMMA UnderwayStep ==
  ASSUME TypeOK, Phased, StreamInv, [Next]_vars
  PROVE  Underway'
<1>1. CASE service' \notin {"publish", "commit"}
  BY <1>1 DEF Underway
<1>2. CASE UNCHANGED <<committed, stream, service, writing>>
  BY <1>2 DEF StreamInv, Underway, Stored, Pending
<1>3. CASE Flush
  <2>1. service = "flush" /\ UNCHANGED <<committed, stream>>
    BY <1>3 DEF Flush
  <2>2. CASE Pending
    <3>1. /\ committed # None /\ committed.pending /\ committed.content \in Content
          /\ Named(committed.content, committed.checkpoint)
      BY <2>2, PointerFacts DEF Phased, Pending, StreamInv, Told
    <3>2. CASE \E n \in DOMAIN stream : stream[n] = committed.content
      <4>1. committed.content.revision <= Count(stream)
        BY <3>1, <3>2, NoneIsApart, PointerFacts, FoundIsCounted DEF Named, StreamInv, Told
      <4>2. Count(stream) = Revision(committed.checkpoint)
        BY <3>1, <4>1, NoneIsApart, PointerFacts DEF Named, StreamInv, Told
      <4>3. service' = "commit" /\ writing'.then = "clear"
        BY <1>3, <2>2, <3>2 DEF Flush, Job
      <4> QED
        BY <2>1, <2>2, <4>2, <4>3 DEF Underway, Pending
    <3>3. CASE ~(\E n \in DOMAIN stream : stream[n] = committed.content)
      <4>1. ~Newest(stream, committed.content)
        BY <3>3 DEF Newest, Announcements
      <4>2. Count(stream) = Revision(committed.checkpoint) - 1
        BY <3>1, <4>1, NoneIsApart DEF StreamInv, Told
      <4>3. service' = "publish"
        BY <1>3, <2>2, <3>3 DEF Flush
      <4> QED
        BY <2>1, <4>2, <4>3 DEF Underway
    <3> QED
      BY <3>2, <3>3
  <2>3. CASE ~Pending
    BY <1>1, <1>3, <2>3 DEF Flush, AfterFlush
  <2> QED
    BY <2>2, <2>3
<1>4. CASE Publish
  <2>1. service = "publish" /\ committed' = committed
    BY <1>4 DEF Publish, disk
  <2>2. CASE stream' = stream /\ service' = "publish"
    BY <2>1, <2>2 DEF StreamInv, Underway
  <2>3. CASE /\ stream' = Append(stream, committed.content) /\ service' = "commit"
             /\ writing'.then = "clear"
    <3>1. Count(stream') = Revision(committed.checkpoint)
      BY <2>1, <2>3, Announce
    <3>2. Pending
      BY <2>1 DEF Phased
    <3> QED
      BY <2>1, <2>3, <3>1, <3>2 DEF Underway, Pending
  <2> QED
    BY <1>4, <2>2, <2>3 DEF Publish, Job
<1>5. CASE Handle
  <2>1. delivery \in Inputs /\ manager \in Seq(Inputs) /\ committed' = committed /\ stream' = stream
    BY <1>5, HandleEffect DEF TypeOK
  <2>2. CASE /\ service' = "commit" /\ Kind[delivery] = "risk.observed"
             /\ writing' = Job([revision |-> Revision(manager) + 1, made |-> made + 1],
                               Append(manager, delivery), TRUE, "update")
    <3>1. Revision(Append(manager, delivery)) = Revision(manager) + 1 /\ Revision(manager) \in Nat
      BY <2>1, <2>2, RevisionOfAppend, RevisionIsNat
    <3>2. [revision |-> Revision(manager) + 1, made |-> made + 1] \in Content
      BY <3>1 DEF TypeOK, Content
    <3>3. Named([revision |-> Revision(manager) + 1, made |-> made + 1], Append(manager, delivery))
      BY <3>1, <3>2, NoneIsApart DEF Named
    <3>4. /\ writing'.then = "update" /\ writing'.pending = TRUE /\ writing'.file = "begin"
          /\ writing'.content = [revision |-> Revision(manager) + 1, made |-> made + 1]
          /\ writing'.checkpoint = Append(manager, delivery)
      BY <2>2 DEF Job
    <3> QED
      BY <2>2, <3>3, <3>4 DEF Underway
  <2>3. CASE /\ service' = "commit"
             /\ writing' = Job(IF committed = None THEN None ELSE committed.content,
                               Append(manager, delivery), FALSE, "constraints")
    <3>1. /\ writing'.then = "constraints" /\ writing'.pending = FALSE /\ writing'.file = "begin"
          /\ writing'.content = IF committed = None THEN None ELSE committed.content
      BY <2>3 DEF Job
    <3> QED
      BY <2>1, <2>3, <3>1 DEF Underway
  <2> QED
    BY <1>1, <1>5, <2>2, <2>3, HandleEffect
<1>6. CASE BeginCommit \/ WriteFile
  <2>1. /\ service = "commit" /\ stream' = stream /\ committed' = committed
        /\ \/ service' = "recover"
           \/ /\ service' = "commit"
              /\ writing'.content = writing.content /\ writing'.checkpoint = writing.checkpoint
              /\ writing'.pending = writing.pending /\ writing'.then = writing.then
              /\ (Admissible(writing) /\ writing.file = "begin") \/ writing.file \notin {"begin", "prune"}
    <3>1. ~WritePointer
      BY <1>6 DEF BeginCommit, WriteFile, WritePointer
    <3>2. WriteFile => writing.file \notin {"begin", "prune"}
      BY DEF WriteFile
    <3> QED
      BY <1>6, <3>1, <3>2, CommitEffect
  <2>2. Admissible(writing) /\ writing.then # "clear" =>
          /\ ~Pending
          /\ Revision(writing.checkpoint) = Revision(Stored) + (IF writing.then = "update" THEN 1 ELSE 0)
    <3>1. writing.then \in {"clear", "update", "constraints"} /\ Revision(Stored) \in Nat
      BY <2>1, PointerFacts DEF CommitJob
    <3>2. CASE writing.then = "update"
      BY <3>1, <3>2 DEF Admissible, Stored
    <3>3. CASE writing.then = "constraints"
      BY <3>1, <3>3 DEF Admissible, Stored
    <3> QED
      BY <3>1, <3>2, <3>3
  <2>3. CASE service' = "commit"
    BY <2>1, <2>2, <2>3 DEF StreamInv, Underway, Stored, Pending
  <2> QED
    BY <1>1, <2>1, <2>3
<1>8. CASE WritePointer
  BY <1>8, CommitEffect DEF WritePointer, BeginCommit, WriteFile, Underway
<1>9. CASE OtherPublishes
  <2>1. Count(stream') = Count(stream) /\ UNCHANGED <<committed, service, writing>>
    BY <1>9, PointerFacts, ForeignAppended DEF OtherPublishes, disk
  <2> QED
    BY <2>1 DEF StreamInv, Underway, Stored, Pending
<1>10. CASE Start \/ Receive \/ Acknowledge \/ FinishCommit \/ Recover \/ DrainAgain \/ RecoverRaises \/ Crash \/ Raise
  BY <1>1, <1>2, <1>10 DEF Start, Receive, Acknowledge, FinishCommit, AfterFlush, Recover, DrainAgain, RecoverRaises, Crash, Raise
<1>11. CASE OpenReader \/ Read \/ CloseReader \/ UNCHANGED vars
  BY <1>2, <1>11 DEF OpenReader, Read, CloseReader, vars, disk
<1> QED
  BY <1>3, <1>4, <1>5, <1>6, <1>8, <1>9, <1>10, <1>11 DEF Next, Serving

LEMMA StreamInvariant == Spec => []StreamInv
<1>1. Init => StreamInv
  <2> SUFFICES ASSUME Init PROVE StreamInv
    OBVIOUS
  <2>1. stream = <<>> /\ committed = None /\ service = "down"
    BY DEF Init
  <2>2. Announcements(stream) = {}
    BY <2>1 DEF Announcements
  <2> QED
    BY <2>1, <2>2, FS_EmptySet DEF StreamInv, Told, Underway, Count, Numbered
<1>2. BeliefInv /\ StreamInv /\ [Next]_vars => StreamInv'
  BY ToldStep, UnderwayStep DEF StreamInv, BeliefInv
<1> QED
  BY <1>1, <1>2, BeliefInvariant, PTL DEF Spec

(* The context topic carries every belief revision once and in order, and  *)
(* the newest one is the committed belief unless that is pending.          *)
THEOREM BeliefAnnouncedInOrder == Spec => []AnnouncedInOrder
<1>1. StreamInv => AnnouncedInOrder
  BY DEF StreamInv, Told, AnnouncedInOrder, Announced, Announcements, Numbered, UpTo, Newest
<1> QED
  BY <1>1, StreamInvariant, PTL

(***************************************************************************)
(* The ledger.                                                             *)
(***************************************************************************)
Begins(s, t) == Len(s) <= Len(t) /\ \A n \in DOMAIN s : t[n] = s[n]

(* The belief in memory continues the stored one, whatever was raised and  *)
(* recovered; in a commit, so does the belief the commit began with.       *)
Lineage ==
  /\ service # "down" => Begins(Stored, manager)
  /\ Changing =>
       /\ writing.checkpoint = manager /\ manager = Append(prior, delivery)
       /\ Begins(Stored, prior) \/ (writing.file = "prune" /\ Stored = manager)
  /\ service = "recover" =>
       manager = Append(prior, delivery) /\ (Begins(Stored, prior) \/ Stored = manager)

LEMMA BeginsReflexive == ASSUME NEW s \in Seq(Inputs) PROVE Begins(s, s)
BY DEF Begins

LEMMA BeginsAppend ==
  ASSUME NEW s \in Seq(Inputs), NEW t \in Seq(Inputs), NEW i \in Inputs, Begins(s, t)
  PROVE  /\ Begins(s, Append(t, i)) /\ Len(s) < Len(Append(t, i))
         /\ Append(t, i) \in Seq(Inputs) /\ LastOf(Append(t, i)) = i
<1>1. /\ DOMAIN s = 1 .. Len(s) /\ Len(s) \in Nat /\ Len(t) \in Nat /\ Len(Append(t, i)) = Len(t) + 1
      /\ \A n \in 1 .. Len(t) : Append(t, i)[n] = t[n]
      /\ Append(t, i)[Len(t) + 1] = i /\ Append(t, i) \in Seq(Inputs)
  OBVIOUS
<1>2. Append(t, i) # <<>>
  BY <1>1
<1> QED
  BY <1>1, <1>2 DEF Begins, LastOf

LEMMA LineageStep ==
  ASSUME TypeOK, Phased, Lineage, [Next]_vars
  PROVE  Lineage'
<1>0. /\ service = "commit" => writing \in CommitJob
      /\ manager \in Seq(Inputs) /\ prior \in Seq(Inputs) /\ Stored \in Seq(Inputs)
      /\ delivery # None => delivery \in Inputs
  <2>1. Stored \in Seq(Inputs)
    BY EmptySeq DEF TypeOK, Stored, Pointer
  <2> QED
    BY <2>1 DEF TypeOK, Phased
<1>1. CASE Start
  <2>1. Stored' = Stored /\ manager' = Stored /\ service' = "flush"
    BY <1>1 DEF Start, Stored
  <2> QED
    BY <1>0, <2>1, BeginsReflexive DEF Lineage, Changing
<1>2. CASE Crash
  BY <1>2 DEF Crash, Lineage, Changing
<1>3. CASE Flush \/ Publish
  <2>1. /\ UNCHANGED <<committed, manager>> /\ service # "down" /\ service' # "recover"
        /\ service' = "commit" => writing'.then = "clear"
    BY <1>3 DEF Flush, Publish, AfterFlush, disk, memory, Job
  <2> QED
    BY <2>1 DEF Lineage, Changing, Stored
<1>4. CASE Handle
  <2>1. Stored' = Stored /\ service = "handle" /\ delivery \in Inputs /\ Begins(Stored, manager) /\ delivery' = delivery
    BY <1>4, HandleEffect DEF Handle, Stored, Lineage
  <2>2. CASE manager' = manager /\ service' \in {"ack", "raised"}
    BY <2>1, <2>2 DEF Lineage, Changing
  <2>3. CASE /\ service' = "commit" /\ prior' = manager /\ manager' = Append(manager, delivery)
             /\ \E content, pending, then : writing' = Job(content, Append(manager, delivery), pending, then)
    <3>1. writing'.checkpoint = manager'
      BY <2>3 DEF Job
    <3>2. Begins(Stored, manager')
      BY <1>0, <2>1, <2>3, BeginsAppend
    <3> QED
      BY <2>1, <2>3, <3>1, <3>2 DEF Lineage, Changing
  <2> QED
    BY <1>4, <2>2, <2>3, HandleEffect
<1>5. CASE BeginCommit \/ WriteFile
  <2>1. /\ UNCHANGED <<manager, prior, delivery>> /\ Stored' = Stored /\ service = "commit"
        /\ \/ service' = "recover" /\ writing.then # "clear"
           \/ /\ service' = "commit" /\ writing'.checkpoint = writing.checkpoint
              /\ writing'.then = writing.then /\ writing.file # "prune"
    <3>1. ~WritePointer
      BY <1>5 DEF BeginCommit, WriteFile, WritePointer
    <3>2. writing.file # "prune"
      BY <1>5 DEF BeginCommit, WriteFile
    <3>3. ~Admissible(writing) => writing.then # "clear"
      BY <1>0, <1>5, CommitEffect DEF Admissible, CommitJob
    <3> QED
      BY <1>5, <3>1, <3>2, <3>3, CommitEffect DEF Stored
  <2> QED
    BY <2>1 DEF Lineage, Changing
<1>6. CASE WritePointer
  <2>1. /\ UNCHANGED <<manager, prior, delivery>> /\ service = "commit" /\ service' = "commit"
        /\ writing'.checkpoint = writing.checkpoint /\ writing'.then = writing.then
        /\ writing.file = "commit" /\ writing'.file = "prune" /\ Stored' = writing.checkpoint
    BY <1>6, CommitEffect, PointerEffect DEF WritePointer, Stored
  <2>2. CASE writing.then = "clear"
    <3>1. Stored' = Stored
      BY <2>1, <2>2 DEF Phased, Clearing, Stored
    <3> QED
      BY <2>1, <2>2, <3>1 DEF Lineage, Changing
  <2>3. CASE writing.then # "clear"
    <3>1. Stored' = manager
      BY <2>1, <2>3 DEF Lineage, Changing
    <3> QED
      BY <1>0, <2>1, <2>3, <3>1, BeginsReflexive DEF Lineage, Changing
  <2> QED
    BY <2>2, <2>3
<1>7. CASE FinishCommit \/ DrainAgain \/ Acknowledge \/ Receive
  <2>1. UNCHANGED <<committed, manager>> /\ service # "down" /\ service' \notin {"commit", "recover"}
    BY <1>7 DEF FinishCommit, DrainAgain, Acknowledge, Receive, AfterFlush, disk, memory
  <2> QED
    BY <2>1 DEF Lineage, Changing, Stored
<1>8. CASE Raise
  <2>1. /\ UNCHANGED <<committed, manager, prior, delivery>> /\ service # "down"
        /\ service' = "raised" \/ (service' = "recover" /\ Changing)
    BY <1>8 DEF Raise, disk, memory, consumer, Changing
  <2> QED
    BY <2>1 DEF Lineage, Changing, Stored
<1>9. CASE Recover
  <2>1. /\ Stored' = Stored /\ service = "recover" /\ service' = "raised" /\ delivery \in Inputs
        /\ Begins(Stored, prior) \/ Stored = Append(prior, delivery)
    BY <1>0, <1>9 DEF Recover, Stored, Phased, Lineage
  <2>2. CASE manager' = Stored
    BY <1>0, <2>1, <2>2, BeginsReflexive DEF Lineage, Changing
  <2>3. CASE manager' = prior /\ ~(committed # None /\ LastOf(Stored) = delivery)
    <3>1. LastOf(Append(prior, delivery)) = delivery /\ Append(prior, delivery) # <<>>
      <4>1. Append(prior, delivery) = <<>> => Len(Append(prior, delivery)) = 0
        OBVIOUS
      <4> QED
        BY <1>0, <2>1, <4>1, BeginsReflexive, BeginsAppend
    <3>2. Stored # Append(prior, delivery)
      BY <2>3, <3>1 DEF Stored
    <3> QED
      BY <2>1, <2>3, <3>2 DEF Lineage, Changing
  <2> QED
    BY <1>9, <2>2, <2>3 DEF Recover, Stored
<1>10. CASE RecoverRaises
  BY <1>10 DEF RecoverRaises, disk, memory, Lineage, Changing, Stored
<1>11. CASE UNCHANGED <<committed, memory, consumer, service, writing>>
  BY <1>11 DEF Lineage, Stored, Changing, memory, consumer
<1> QED
  BY <1>1, <1>2, <1>3, <1>4, <1>5, <1>6, <1>7, <1>8, <1>9, <1>10, <1>11
  DEF Next, Serving, OtherPublishes, OpenReader, Read, CloseReader, vars, disk

LEMMA LineageInvariant == Spec => []Lineage
<1>1. Init => Lineage
  BY DEF Init, Lineage, Changing
<1>2. BeliefInv /\ Lineage /\ [Next]_vars => Lineage'
  BY LineageStep DEF BeliefInv
<1> QED
  BY <1>1, <1>2, BeliefInvariant, PTL DEF Spec

(* The revision the ledger owes: the pending one until it is on the topic. *)
OnTopic(topic, content) == \E n \in DOMAIN topic : topic[n] = content
Owed == IF Pending /\ ~OnTopic(stream, committed.content) THEN committed.content ELSE None

(* The ledger's steps in the terms of this module.                         *)
LEMMA LedgerSteps ==
  /\ Ledger!LInit <=> Stored = <<>> /\ Owed = None /\ stream = <<>>
  /\ UNCHANGED Ledger!lvars <=> UNCHANGED <<Stored, Owed, stream>>
  /\ Ledger!Commit <=>
       /\ Owed = None
       /\ Len(Stored) < Len(Stored') /\ \A n \in DOMAIN Stored : Stored'[n] = Stored[n]
       /\ \A m, n \in DOMAIN Stored' : m < n => Stored'[m] < Stored'[n]
       /\ \/ Revision(Stored') = Revision(Stored) /\ Owed' = None
          \/ Revision(Stored') = Revision(Stored) + 1 /\ Owed' # None /\ Owed'.revision = Revision(Stored')
       /\ stream' = stream
  /\ Ledger!Announce <=> Owed # None /\ stream' = Append(stream, Owed) /\ Owed' = None /\ Stored' = Stored
  /\ Ledger!OthersAnnounce <=> stream' = Append(stream, Foreign) /\ UNCHANGED <<Stored, Owed>>
<1>1. Ledger!LInit <=> Stored = <<>> /\ Owed = None /\ stream = <<>>
  BY DEF Ledger!LInit, Owed, OnTopic
<1>2. UNCHANGED Ledger!lvars <=> UNCHANGED <<Stored, Owed, stream>>
  BY DEF Ledger!lvars, Owed, OnTopic
<1>3. ASSUME NEW applied PROVE Ledger!Revision(applied) = Revision(applied)
  BY DEF Ledger!Revision, Revision, Observations, Ledger!Cardinality, Cardinality
<1>4. Ledger!Commit <=>
       /\ Owed = None
       /\ Len(Stored) < Len(Stored') /\ \A n \in DOMAIN Stored : Stored'[n] = Stored[n]
       /\ \A m, n \in DOMAIN Stored' : m < n => Stored'[m] < Stored'[n]
       /\ \/ Revision(Stored') = Revision(Stored) /\ Owed' = None
          \/ Revision(Stored') = Revision(Stored) + 1 /\ Owed' # None /\ Owed'.revision = Revision(Stored')
       /\ stream' = stream
  BY <1>3 DEF Ledger!Commit, Owed, OnTopic
<1>5. Ledger!Announce <=> Owed # None /\ stream' = Append(stream, Owed) /\ Owed' = None /\ Stored' = Stored
  BY DEF Ledger!Announce, Owed, OnTopic
<1>6. Ledger!OthersAnnounce <=> stream' = Append(stream, Foreign) /\ UNCHANGED <<Stored, Owed>>
  BY DEF Ledger!OthersAnnounce, Owed, OnTopic
<1> QED
  BY <1>1, <1>2, <1>4, <1>5, <1>6

Recorded == [Ledger!LNext]_(Ledger!lvars)

(* A revision beyond the count is not on the topic.                        *)
LEMMA NotYetOnTopic ==
  ASSUME NEW topic \in Seq(Content), Numbered(topic), NEW content \in Content,
         Count(topic) < content.revision
  PROVE  ~OnTopic(topic, content)
<1> SUFFICES ASSUME NEW n \in DOMAIN topic, topic[n] = content PROVE FALSE
  BY DEF OnTopic
<1>1. Count(topic) \in Nat /\ content.revision \in Nat
  BY UpToIsFinite DEF Content
<1>2. topic[n].revision <= Count(topic)
  BY <1>1, FoundIsCounted
<1> QED
  BY <1>1, <1>2

(* What is owed when nothing is pending, when the pending revision is not  *)
(* counted yet, and when it is announced.                                  *)
LEMMA OwedCases ==
  ASSUME TypeOK, Phased, Told
  PROVE  /\ ~Pending => Owed = None
         /\ Pending => /\ committed # None /\ committed.content \in Content /\ committed.content # Foreign
                       /\ committed.content.revision = Revision(Stored)
         /\ Pending /\ Count(stream) = Revision(Stored) - 1 => Owed = committed.content
         /\ Count(stream) = Revision(Stored) => Owed = None
<1>1. ~Pending => Owed = None
  BY DEF Owed
<1>2. ASSUME Pending
      PROVE  /\ committed # None /\ committed.content \in Content /\ committed.content # Foreign
             /\ committed.content.revision = Revision(Stored) /\ committed.content.revision > 0
  BY <1>2, PointerFacts, ForeignIsContent DEF Phased, Pending, Told, Named
<1>3. ASSUME Pending, Count(stream) = Revision(Stored) - 1
      PROVE  Owed = committed.content
  <2>1. ~OnTopic(stream, committed.content)
    BY <1>2, <1>3, PointerFacts, NotYetOnTopic DEF Told
  <2> QED
    BY <1>3, <2>1 DEF Owed
<1>4. ASSUME Pending, Count(stream) = Revision(Stored)
      PROVE  Owed = None
  <2>1. Newest(stream, committed.content)
    BY <1>2, <1>4, NoneIsApart, PointerFacts DEF Told
  <2>2. OnTopic(stream, committed.content)
    BY <2>1 DEF Newest, OnTopic, Announcements
  <2> QED
    BY <2>2 DEF Owed
<1> QED
  BY <1>1, <1>2, <1>3, <1>4

(* The pointer of a change continues the stored belief by inputs newer     *)
(* than all of it, with at most one revision, which is owed from then on.  *)
LEMMA ChangeRecorded ==
  ASSUME BeliefInv, BeliefInv', StreamInv, StreamInv', Lineage, WritePointer, writing.then # "clear"
  PROVE  Ledger!Commit
<1>1. TypeOK /\ Phased /\ Told /\ TypeOK' /\ Phased' /\ Told'
  BY DEF BeliefInv, StreamInv
<1>2. /\ service = "commit" /\ writing.file = "commit" /\ writing \in CommitJob /\ stream' = stream
      /\ committed' # None /\ committed'.content = writing.content
      /\ committed'.checkpoint = writing.checkpoint /\ committed'.pending = writing.pending
  BY <1>1, PointerEffect, PointerFacts DEF WritePointer
<1>3. Stored' = writing.checkpoint /\ (Pending' <=> writing.pending)
  BY <1>2 DEF Stored, Pending, CommitJob
<1>4. /\ ~Pending /\ writing.then \in {"update", "constraints"}
      /\ Revision(Stored') = Revision(Stored) + (IF writing.then = "update" THEN 1 ELSE 0)
      /\ writing.then = "update" => writing.pending
      /\ writing.then = "constraints" => ~writing.pending
  BY <1>2, <1>3 DEF StreamInv, Underway, CommitJob
<1>5. Owed = None /\ Count(stream) = Revision(Stored) /\ Revision(Stored) \in Nat
  <2>1. Count(stream) = Revision(Stored)
    BY <1>1, <1>4, PointerFacts DEF Told, Pending
  <2> QED
    BY <1>1, <2>1, OwedCases, PointerFacts
<1>6. Len(Stored) < Len(Stored') /\ \A n \in DOMAIN Stored : Stored'[n] = Stored[n]
  <2>1. /\ Stored' = Append(prior, delivery) /\ Begins(Stored, prior)
        /\ Stored \in Seq(Inputs) /\ prior \in Seq(Inputs) /\ delivery \in Inputs
    BY <1>1, <1>2, <1>3, PointerFacts DEF Lineage, Changing, Phased, TypeOK
  <2>2. Begins(Stored, Stored') /\ Len(Stored) < Len(Stored')
    BY <2>1, BeginsAppend
  <2> QED
    BY <2>2 DEF Begins
<1>7. \A m, n \in DOMAIN Stored' : m < n => Stored'[m] < Stored'[n]
  <2>1. Sorted(Stored', settled')
    BY DEF BeliefInv, Ordered, Beliefs
  <2> QED
    BY <2>1 DEF Sorted
<1>8. CASE writing.then = "update"
  <2>1. Pending' /\ Revision(Stored') = Revision(Stored) + 1
    BY <1>3, <1>4, <1>8
  <2>2. committed'.content \in Content /\ committed'.content.revision = Revision(Stored')
    BY <1>1, <1>2, <2>1, NoneIsApart DEF Phased, Pending, Told, Named, Stored, CommitJob
  <2>3. Owed' = committed'.content
    <3>1. stream \in Seq(Content) /\ Numbered(stream)
      BY <1>1, PointerFacts DEF Told
    <3>2. ~OnTopic(stream, committed'.content)
      BY <1>5, <2>1, <2>2, <3>1, NotYetOnTopic
    <3> QED
      BY <1>2, <2>1, <3>2 DEF Owed
  <2>4. Owed' # None
    BY <2>2, <2>3, NoneIsApart
  <2> QED
    BY <1>2, <1>5, <1>6, <1>7, <2>1, <2>2, <2>3, <2>4, LedgerSteps
<1>9. CASE writing.then = "constraints"
  <2>1. ~Pending' /\ Revision(Stored') = Revision(Stored)
    BY <1>3, <1>4, <1>5, <1>9
  <2>2. Owed' = None
    BY <2>1 DEF Owed
  <2> QED
    BY <1>2, <1>5, <1>6, <1>7, <2>1, <2>2, LedgerSteps
<1> QED
  BY <1>4, <1>8, <1>9

LEMMA LedgerStep ==
  ASSUME BeliefInv, BeliefInv', StreamInv, StreamInv', Lineage, [Next]_vars
  PROVE  Recorded
<1>0. TypeOK /\ Phased /\ Told /\ TypeOK' /\ Phased' /\ Told'
  BY DEF BeliefInv, StreamInv
<1>1. CASE UNCHANGED <<committed, stream>>
  BY <1>1, LedgerSteps DEF Recorded, Stored, Owed, Pending, OnTopic
<1>2. CASE committed' = committed /\ stream' = Append(stream, Foreign)
  <2>1. Stored' = Stored /\ (Pending' <=> Pending)
    BY <1>2 DEF Stored, Pending
  <2>2. Pending => (OnTopic(stream', committed.content) <=> OnTopic(stream, committed.content))
    <3>1. stream \in Seq(Content) /\ Foreign \in Content /\ (Pending => committed.content # Foreign)
      BY <1>0, OwedCases, PointerFacts, ForeignIsContent
    <3>2. /\ DOMAIN stream' = DOMAIN stream \cup {Len(stream) + 1}
          /\ stream'[Len(stream) + 1] = Foreign /\ \A n \in DOMAIN stream : stream'[n] = stream[n]
      BY <1>2, <3>1
    <3> QED
      BY <3>1, <3>2 DEF OnTopic
  <2>3. Owed' = Owed
    BY <1>2, <2>1, <2>2 DEF Owed
  <2> QED
    BY <1>2, <2>1, <2>3, LedgerSteps DEF Recorded, Ledger!LNext
<1>3. CASE committed' = committed /\ service = "publish" /\ stream' = Append(stream, committed.content)
  <2>1. Pending /\ Pending' /\ Stored' = Stored
    BY <1>0, <1>3 DEF Phased, Stored, Pending
  <2>2. Count(stream) = Revision(Stored) - 1
    BY <1>0, <1>3, <2>1, PointerFacts DEF StreamInv, Underway, Pending
  <2>3. Owed = committed.content /\ Owed # None
    BY <1>0, <2>1, <2>2, OwedCases, NoneIsApart
  <2>4. stream' # <<>> /\ Newest(stream', committed.content)
    BY <1>0, <1>3, Announce DEF Newest, Announcements
  <2>5. Owed' = None
    BY <1>3, <2>4 DEF Owed, OnTopic, Newest, Announcements
  <2> QED
    BY <1>3, <2>1, <2>3, <2>5, LedgerSteps DEF Recorded, Ledger!LNext
<1>4. CASE WritePointer /\ stream' = stream
  <2>1. CASE writing.then = "clear"
    <3>1. /\ service = "commit" /\ writing.file = "commit" /\ committed # None
          /\ writing.checkpoint = committed.checkpoint /\ ~writing.pending
      BY <1>0, <1>4, <2>1 DEF WritePointer, Phased, Clearing
    <3>2. /\ committed' # None /\ committed'.checkpoint = committed.checkpoint
          /\ committed'.pending = writing.pending
      BY <1>0, <1>4, <3>1, PointerEffect
    <3>3. Stored' = Stored /\ ~Pending'
      BY <3>1, <3>2 DEF Stored, Pending
    <3>4. Count(stream) = Revision(Stored)
      BY <1>0, <2>1, <3>1, PointerFacts DEF StreamInv, Underway
    <3>5. Owed = None /\ Owed' = None
      BY <1>0, <3>3, <3>4, OwedCases DEF Owed
    <3> QED
      BY <1>4, <3>3, <3>5, LedgerSteps DEF Recorded
  <2>2. CASE writing.then # "clear"
    BY <1>4, <2>2, ChangeRecorded DEF Recorded, Ledger!LNext
  <2> QED
    BY <2>1, <2>2
<1> QED
  BY <1>0, <1>1, <1>2, <1>3, <1>4, TopicMoves

(* The service and the store implement the ledger: a belief that grows by  *)
(* inputs in their order and by one revision at a time, each announced     *)
(* once, before the next one is committed.                                 *)
THEOREM BeliefImplementsLedger == Spec => ImplementsLedger
<1>1. Init => Ledger!LInit
  <2>1. Init => Stored = <<>> /\ Owed = None /\ stream = <<>>
    BY DEF Init, Stored, Owed, Pending
  <2> QED
    BY <2>1, LedgerSteps
<1>2. /\ BeliefInv /\ BeliefInv' /\ StreamInv /\ StreamInv' /\ Lineage /\ [Next]_vars
      => Recorded
  BY LedgerStep
<1> QED
  BY <1>1, <1>2, BeliefInvariant, StreamInvariant, LineageInvariant, PTL
  DEF Spec, ImplementsLedger, Ledger!LSpec, Recorded
=============================================================================
