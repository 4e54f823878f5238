------------------------ MODULE FileTransport_proofs ------------------------
(***************************************************************************)
(* Theorems about the file transport, for any publishers and messages, any *)
(* number of crashes and any max_retries.                                  *)
(***************************************************************************)
EXTENDS FileTransport, FiniteSetTheorems, TLAPS

(* A publisher's call is past its stream file only when that file is       *)
(* there, and past its identity file likewise.                             *)
Held ==
  /\ IsFiniteSet(files)
  /\ \A f \in files : f.id \in offered /\ f.source = Source(f.id)
  /\ \A p \in Publishers : publishing[p] # None => publishing[p].id \in offered
  /\ \A p \in Publishers : Working(p, "drawn") => Kind[publishing[p].id] = "event"
  /\ \A p \in Publishers : Working(p, "identified") => publishing[p].id \in identities

(* The message in hand is one of the files, and not done with.             *)
Attending ==
  /\ acknowledged \subseteq processed
  /\ consumer \notin {"closed", "idle"} => active # None
  /\ active # None => active \in files /\ active.id \notin processed

(* A message was handed over, or given up.                                 *)
Settled(m) == deliveries[m] > 0 \/ m \in dead

Known ==
  /\ \A m \in processed : Settled(m)
  /\ consumer \in {"handling", "acknowledging"} => deliveries[active.id] > 0
  /\ consumer \in {"burying", "passing"} => active.id \in dead

(* The events number the stream from 0 without a gap, so that a number not *)
(* taken is above all that are.                                            *)
Contiguous ==
  /\ \A f \in files : f.source = "event" => \A n \in 0 .. (f.sequence - 1) : SequenceTaken(n)
  /\ \A p \in Publishers :
       Working(p, "drawn") => \A n \in 0 .. (publishing[p].sequence - 1) : SequenceTaken(n)

(* A cursor stands at a file that was there.                               *)
Anchored ==
  \A k \in DOMAIN cursor : cursor[k] = -1 \/ \E f \in files : cursor[k] <= f.sequence

(* A subscription of one source: every file of it up to the one in hand    *)
(* has been seen, and files have numbers of their own.                     *)
Single == \A m, n \in offered : Source(m) = Source(n)

InOrder ==
  /\ \A f, g \in files : f.sequence = g.sequence => f = g
  /\ \A f \in files : f.sequence <= Passed(f.source) => Settled(f.id)
  /\ active # None =>
       \A f \in files :
         f.sequence <= active.sequence =>
           f = active \/ f.id \in processed \/ f.sequence <= Passed(f.source)

(* Attempts are counted before the message is handed over.                 *)
Counted ==
  /\ \A m \in Messages : deliveries[m] <= attempts[m] /\ deliveries[m] <= Limit
  /\ consumer = "counted" => deliveries[active.id] < attempts[active.id] /\ attempts[active.id] <= Limit

TransportInv ==
  TypeOK /\ Held /\ Attending /\ Known /\ Contiguous /\ Anchored /\ (Single => InOrder) /\ Counted

(***************************************************************************)
(* Finite sets.                                                            *)
(***************************************************************************)

(* A finite set has a first element in any strict order.                   *)
LEMMA FirstInOrder ==
  ASSUME NEW S, IsFiniteSet(S), S # {}, NEW Before,
         \A x \in S : <<x, x>> \notin Before,
         \A x, y, z \in S : <<x, y>> \in Before /\ <<y, z>> \in Before => <<x, z>> \in Before
  PROVE  \E x \in S : \A y \in S : <<y, x>> \notin Before
<1> DEFINE Earlier(x) == {y \in S : <<y, x>> \in Before}
           All == {Earlier(x) : x \in S}
<1>1. All \subseteq FiniteSubsetsOf(S) /\ All # {}
  <2>1. \A x \in S : IsFiniteSet(Earlier(x)) /\ Earlier(x) \in SUBSET S
    <3>1. \A x \in S : Earlier(x) \in SUBSET S
      OBVIOUS
    <3> HIDE DEF Earlier
    <3> QED
      BY <3>1, FS_Subset
  <2> HIDE DEF Earlier
  <2> QED
    BY <2>1 DEF FiniteSubsetsOf
<1>2. PICK b \in All : \A c \in All : ~(<<c, b>> \in StrictSubsetOrdering(S))
  <2> HIDE DEF All
  <2> QED
    BY <1>1, FS_StrictSubsetOrderingWellFounded, WFMin, Zenon
<1>3. PICK x \in S : b = Earlier(x)
  BY <1>2
<1>4. ASSUME NEW y \in S, <<y, x>> \in Before PROVE FALSE
  <2>1. Earlier(y) \subseteq Earlier(x)
    BY <1>4
  <2>2. y \in Earlier(x) /\ y \notin Earlier(y)
    BY <1>4
  <2>3. <<Earlier(y), b>> \in StrictSubsetOrdering(S)
    BY <1>3, <2>1, <2>2 DEF StrictSubsetOrdering
  <2> QED
    BY <1>2, <2>3
<1> QED
  BY <1>4

LEMMA MaxOfFinite ==
  ASSUME NEW S \in SUBSET Int, IsFiniteSet(S), S # {}
  PROVE  Max(S) \in S /\ \A x \in S : x <= Max(S)
<1> DEFINE Above == {pair \in S \X S : pair[1] > pair[2]}
<1>1. PICK x \in S : \A y \in S : <<y, x>> \notin Above
  <2>1. \A y \in S : <<y, y>> \notin Above
    OBVIOUS
  <2>2. \A y, z, w \in S : <<y, z>> \in Above /\ <<z, w>> \in Above => <<y, w>> \in Above
    OBVIOUS
  <2> HIDE DEF Above
  <2> QED
    BY <2>1, <2>2, FirstInOrder
<1>2. \A y \in S : x >= y
  <2>1. \A y \in S : ~(y > x)
    BY <1>1
  <2>2. \A y \in S : y \in Int /\ x \in Int
    OBVIOUS
  <2> QED
    BY <2>1, <2>2
<1>3. \A y \in S : \A z \in Int : z >= y => y <= z
  OBVIOUS
<1>4. Max(S) \in S /\ \A y \in S : Max(S) >= y
  BY <1>2 DEF Max
<1> QED
  BY <1>3, <1>4

LEMMA MaxOfTwo ==
  ASSUME NEW a \in Int, NEW b \in Int
  PROVE  /\ Max({a, b}) \in {a, b} /\ a <= Max({a, b}) /\ b <= Max({a, b})
         /\ Min({a, b}) \in {a, b} /\ Min({a, b}) <= a /\ Min({a, b}) <= b
<1>1. Max({a, b}) \in {a, b} /\ \A x \in {a, b} : Max({a, b}) >= x
  <2>1. \E x \in {a, b} : \A y \in {a, b} : x >= y
    OBVIOUS
  <2> QED
    BY <2>1 DEF Max
<1>2. Min({a, b}) \in {a, b} /\ \A x \in {a, b} : Min({a, b}) <= x
  <2>1. \E x \in {a, b} : \A y \in {a, b} : x <= y
    OBVIOUS
  <2> QED
    BY <2>1 DEF Min
<1> QED
  BY <1>1, <1>2

LEMMA PassedType == TypeOK => \A source : Passed(source) \in Nat \cup {-1}
BY DEF TypeOK, Passed

LEMMA OfferedType == TypeOK => offered \subseteq Messages
BY TransportAssumption DEF TypeOK

(* The next sequence of a directory is above all that are there.           *)
LEMMA NextSequenceAbove ==
  ASSUME TypeOK, Held, NEW source
  PROVE  /\ NextSequence(source) \in Nat
         /\ \A f \in files : f.source = source => f.sequence < NextSequence(source)
         /\ \/ NextSequence(source) = 0
            \/ \E f \in files : f.source = source /\ f.sequence = NextSequence(source) - 1
<1> DEFINE stored == {g \in files : g.source = source}
           taken == {f.sequence : f \in stored}
           top == Max({-1} \cup taken)
<1>1. IsFiniteSet(taken)
  <2>1. IsFiniteSet(stored)
    BY FS_Subset DEF Held
  <2>2. [f \in stored |-> f.sequence] \in Surjection(stored, taken)
    BY DEF Surjection
  <2> HIDE DEF stored, taken
  <2> QED
    BY <2>1, <2>2, FS_Surjection
<1>2. taken \subseteq Nat
  BY DEF TypeOK, File
<1>3. {-1} \cup taken \in SUBSET Int /\ IsFiniteSet({-1} \cup taken)
  <2>1. IsFiniteSet(taken \cup {-1}) /\ taken \cup {-1} = {-1} \cup taken
    BY <1>1, FS_AddElement
  <2> QED
    BY <1>2, <2>1
<1>4. top \in {-1} \cup taken /\ \A n \in taken : n <= top
  <2> HIDE DEF taken
  <2> QED
    BY <1>3, MaxOfFinite
<1>5. NextSequence(source) = 1 + top
  BY DEF NextSequence
<1>6. \A f \in files : f.source = source => f.sequence \in taken
  OBVIOUS
<1>7. \A n \in taken : \E f \in files : f.source = source /\ f.sequence = n
  OBVIOUS
<1>8. top \in Int /\ (top = -1 \/ (top \in taken /\ top \in Nat))
  BY <1>2, <1>4
<1> HIDE DEF top, taken
<1>9. NextSequence(source) \in Nat
  BY <1>5, <1>8
<1>10. \A f \in files : f.source = source => f.sequence < NextSequence(source)
  <2>1. \A n \in taken : n < NextSequence(source)
    BY <1>2, <1>4, <1>5, <1>8
  <2> QED
    BY <1>6, <2>1
<1>11. NextSequence(source) - 1 = top
  BY <1>5, <1>8
<1> QED
  BY <1>5, <1>7, <1>8, <1>9, <1>10, <1>11

(* The candidate is the first of the waiting files.                        *)
LEMMA CandidateIsFirst ==
  ASSUME TypeOK, Held, Waiting # {}
  PROVE  /\ NextCandidate \in Waiting
         /\ \A g \in Waiting : g = NextCandidate \/ NextCandidate.sequence <= g.sequence
<1> DEFINE Before == {pair \in Waiting \X Waiting :
                        \/ pair[1].sequence < pair[2].sequence
                        \/ pair[1].sequence = pair[2].sequence /\ pair[1].id < pair[2].id}
<1>1. \A f \in Waiting : f.sequence \in Nat /\ f.id \in Nat
  BY TransportAssumption DEF TypeOK, File, Waiting
<1>2. IsFiniteSet(Waiting)
  BY FS_Subset DEF Held, Waiting
<1>3. PICK f \in Waiting : \A g \in Waiting : <<g, f>> \notin Before
  <2>1. \A x \in Waiting : <<x, x>> \notin Before
    BY <1>1
  <2>2. \A x, y, z \in Waiting : <<x, y>> \in Before /\ <<y, z>> \in Before => <<x, z>> \in Before
    BY <1>1
  <2> HIDE DEF Before
  <2> QED
    BY <1>2, <2>1, <2>2, FirstInOrder
<1>4. \A g \in Waiting \ {f} : f.sequence < g.sequence \/ (f.sequence = g.sequence /\ f.id <= g.id)
  <2>1. \A g \in Waiting :
          ~(g.sequence < f.sequence) /\ ~(g.sequence = f.sequence /\ g.id < f.id)
    BY <1>3
  <2> QED
    BY <1>1, <2>1
<1>5. /\ NextCandidate \in Waiting
      /\ \A g \in Waiting \ {NextCandidate} :
           \/ NextCandidate.sequence < g.sequence
           \/ NextCandidate.sequence = g.sequence /\ NextCandidate.id <= g.id
  BY <1>4 DEF NextCandidate
<1> QED
  BY <1>1, <1>5

(***************************************************************************)
(* Steps of the publishers.                                                *)
(***************************************************************************)

CrashPublishing == \E p \in Publishers : CrashPublisher(p)

(* A call either leaves the files, or stores a message above all the files *)
(* of its directory.                                                       *)
LEMMA StoreMoves ==
  ASSUME TypeOK, Held, Contiguous, Publishing \/ CrashPublishing
  PROVE  /\ UNCHANGED <<offered, consumer, active, cursor, processed, attempts, dead, deliveries, acknowledged>>
         /\ \/ files' = files
            \/ \E m \in offered, n \in Nat :
                 /\ files' = files \cup {Filed(m, n)}
                 /\ \A f \in files : f.source = Source(m) => f.sequence < n
                 /\ Source(m) = "event" => \A k \in 0 .. (n - 1) : SequenceTaken(k)
<1>1. CASE CrashPublishing
  BY <1>1 DEF CrashPublishing, CrashPublisher, consumerVars
<1>2. CASE Publishing
  <2>1. PICK p \in Publishers :
          \/ \E m \in offered : Draw(p, m) \/ SendCommand(p, m) \/ PublishOutcome(p, m)
          \/ PublishEvent(p) \/ SaveIdentity(p) \/ SaveReceipt(p)
    BY <1>2 DEF Publishing
  <2>2. UNCHANGED <<offered, consumer, active, cursor, processed, attempts, dead, deliveries, acknowledged>>
    BY <2>1 DEF Draw, SendCommand, PublishOutcome, PublishEvent, SaveIdentity, SaveReceipt, consumerVars
  <2>3. CASE SaveIdentity(p) \/ SaveReceipt(p) \/ \E m \in offered : Draw(p, m)
    BY <2>2, <2>3 DEF SaveIdentity, SaveReceipt, Draw
  <2>4. ASSUME NEW m \in offered, SendCommand(p, m) \/ PublishOutcome(p, m)
        PROVE  \/ files' = files
               \/ /\ files' = files \cup {Filed(m, NextSequence("command"))}
                  /\ Source(m) = "command"
    BY <2>4 DEF SendCommand, PublishOutcome, Source
  <2>5. CASE \E m \in offered : SendCommand(p, m) \/ PublishOutcome(p, m)
    BY <2>2, <2>4, <2>5, NextSequenceAbove
  <2>6. CASE PublishEvent(p)
    <3>1. CASE SequenceTaken(publishing[p].sequence)
      BY <2>2, <2>6, <3>1 DEF PublishEvent
    <3>2. CASE ~SequenceTaken(publishing[p].sequence)
      <4> DEFINE m == publishing[p].id
                 n == publishing[p].sequence
      <4>1. Working(p, "drawn") /\ files' = files \cup {Filed(m, n)}
        BY <2>6, <3>2 DEF PublishEvent
      <4>2. m \in offered /\ Source(m) = "event" /\ n \in Nat
        BY <4>1 DEF Held, Working, Source, TypeOK, Progress
      <4>3. \A k \in 0 .. (n - 1) : SequenceTaken(k)
        BY <4>1 DEF Contiguous
      <4>4. ASSUME NEW f \in files, f.source = "event" PROVE f.sequence < n
        <5>1. f.sequence \in Nat /\ f.sequence # n
          BY <3>2, <4>4 DEF TypeOK, File, SequenceTaken
        <5>2. n \notin 0 .. (f.sequence - 1)
          BY <3>2, <4>4 DEF Contiguous
        <5> QED
          BY <4>2, <5>1, <5>2
      <4> QED
        BY <2>2, <4>1, <4>2, <4>3, <4>4
    <3> QED
      BY <3>1, <3>2
  <2> QED
    BY <2>1, <2>3, <2>5, <2>6
<1> QED
  BY <1>1, <1>2

LEMMA FiledType ==
  ASSUME NEW m \in Messages, NEW n \in Nat
  PROVE  Filed(m, n) \in File /\ Filed(m, n).sequence = n /\ Filed(m, n).id = m /\ Filed(m, n).source = Source(m)
BY DEF Filed, File, Source

(* What a publisher's call leaves.                                         *)
LEMMA CallMoves ==
  ASSUME TypeOK, Held, Publishing \/ CrashPublishing
  PROVE  /\ identities' \subseteq Messages /\ identities \subseteq identities'
         /\ receipts' \subseteq Messages /\ returned' \subseteq Messages
         /\ crashes' \in 0 .. MaxCrashes
         /\ \E p \in Publishers, call \in Progress \cup {None} :
              /\ publishing' = [publishing EXCEPT ![p] = call]
              /\ call # None =>
                   /\ call.id \in offered
                   /\ call.step = "drawn" =>
                        /\ Kind[call.id] = "event"
                        /\ call = publishing[p] \/ call.sequence = NextSequence("event")
                   /\ call.step = "identified" => call.id \in identities'
<1>0. /\ identities \subseteq Messages /\ receipts \subseteq Messages /\ returned \subseteq Messages
      /\ crashes \in 0 .. MaxCrashes /\ publishing \in [Publishers -> Progress \cup {None}]
      /\ offered \subseteq Messages
  BY OfferedType DEF TypeOK
<1>1. CASE CrashPublishing
  <2>1. PICK p \in Publishers : CrashPublisher(p)
    BY <1>1 DEF CrashPublishing
  <2>2. publishing' = [publishing EXCEPT ![p] = None] /\ UNCHANGED <<identities, receipts, returned>>
    BY <2>1 DEF CrashPublisher
  <2>3. crashes' \in 0 .. MaxCrashes
    BY <1>0, <2>1, TransportAssumption DEF CrashPublisher
  <2> QED
    BY <1>0, <2>2, <2>3
<1>2. CASE Publishing
  <2>1. PICK p \in Publishers :
          \/ \E m \in offered : Draw(p, m) \/ SendCommand(p, m) \/ PublishOutcome(p, m)
          \/ PublishEvent(p) \/ SaveIdentity(p) \/ SaveReceipt(p)
    BY <1>2 DEF Publishing
  <2>2. ASSUME NEW m \in offered, Draw(p, m) \/ SendCommand(p, m) \/ PublishOutcome(p, m)
        PROVE  /\ \/ publishing' = publishing
                  \/ \E call \in Progress :
                       /\ publishing' = [publishing EXCEPT ![p] = call] /\ call.id = m
                       /\ call.step # "identified"
                       /\ call.step = "drawn" => Kind[m] = "event" /\ call.sequence = NextSequence("event")
               /\ identities' = identities /\ receipts' \subseteq receipts \cup {m}
               /\ returned' \subseteq returned \cup {m} /\ crashes' = crashes
    <3>1. NextSequence("event") \in Nat /\ NextSequence("command") \in Nat /\ m \in Messages
      BY <1>0, NextSequenceAbove
    <3>2. \A step \in {"drawn", "stored"}, n \in Nat : [step |-> step, id |-> m, sequence |-> n] \in Progress
      BY <3>1 DEF Progress
    <3>3. CASE Draw(p, m)
      BY <3>1, <3>2, <3>3 DEF Draw
    <3>4. CASE SendCommand(p, m)
      BY <3>1, <3>2, <3>4 DEF SendCommand
    <3>5. CASE PublishOutcome(p, m)
      BY <3>1, <3>2, <3>5 DEF PublishOutcome
    <3> QED
      BY <2>2, <3>3, <3>4, <3>5
  <2>3. CASE \E m \in offered : Draw(p, m) \/ SendCommand(p, m) \/ PublishOutcome(p, m)
    <3>1. \/ publishing' = publishing
          \/ \E call \in Progress :
               /\ publishing' = [publishing EXCEPT ![p] = call] /\ call.id \in offered
               /\ call.step # "identified"
               /\ call.step = "drawn" => Kind[call.id] = "event" /\ call.sequence = NextSequence("event")
      BY <2>2, <2>3
    <3>2. /\ identities' = identities /\ receipts' \subseteq Messages
          /\ returned' \subseteq Messages /\ crashes' = crashes
      BY <1>0, <2>2, <2>3
    <3>3. CASE publishing' = publishing
      <4>1. publishing' = [publishing EXCEPT ![p] = publishing[p]] /\ publishing[p] \in Progress \cup {None}
        BY <1>0, <3>3
      <4> QED
        BY <1>0, <3>2, <4>1 DEF Held, Working
    <3> QED
      BY <1>0, <3>1, <3>2, <3>3
  <2>4. CASE PublishEvent(p)
    <3>1. publishing[p] \in Progress /\ publishing[p].id \in offered
      BY <1>0, <2>4 DEF PublishEvent, Working, Held
    <3>2. \/ publishing' = [publishing EXCEPT ![p] = None]
          \/ publishing' = [publishing EXCEPT ![p] = [publishing[p] EXCEPT !.step = "stored"]]
      BY <2>4 DEF PublishEvent
    <3>3. PICK call : call = [publishing[p] EXCEPT !.step = "stored"]
      OBVIOUS
    <3>4. call \in Progress /\ call.id \in offered /\ call.step = "stored"
      BY <3>1, <3>3 DEF Progress
    <3>5. UNCHANGED <<identities, receipts, returned, crashes>>
      BY <2>4 DEF PublishEvent
    <3> QED
      BY <1>0, <3>2, <3>3, <3>4, <3>5
  <2>5. CASE SaveIdentity(p)
    <3>1. publishing[p] \in Progress /\ publishing[p].id \in offered
      BY <1>0, <2>5 DEF SaveIdentity, Working, Held
    <3>2. /\ identities' = identities \cup {publishing[p].id}
          /\ \/ publishing' = [publishing EXCEPT ![p] = None]
             \/ publishing' = [publishing EXCEPT ![p] = [publishing[p] EXCEPT !.step = "identified"]]
          /\ returned' \subseteq returned \cup {publishing[p].id} /\ UNCHANGED <<receipts, crashes>>
      BY <2>5 DEF SaveIdentity
    <3>3. PICK call : call = [publishing[p] EXCEPT !.step = "identified"]
      OBVIOUS
    <3>4. call \in Progress /\ call.id = publishing[p].id /\ call.step = "identified"
      BY <3>1, <3>3 DEF Progress
    <3>5. identities' \subseteq Messages /\ returned' \subseteq Messages /\ call.id \in identities'
      BY <1>0, <3>1, <3>2, <3>4
    <3>6. publishing' = [publishing EXCEPT ![p] = None] \/ publishing' = [publishing EXCEPT ![p] = call]
      BY <3>2, <3>3
    <3>7. call # None => call.id \in offered /\ call.step # "drawn"
      BY <3>1, <3>4
    <3> QED
      BY <1>0, <3>2, <3>4, <3>5, <3>6, <3>7
  <2>6. CASE SaveReceipt(p)
    <3>1. publishing[p].id \in offered
      BY <2>6 DEF SaveReceipt, Working, Held
    <3> QED
      BY <1>0, <2>6, <3>1 DEF SaveReceipt
  <2> QED
    BY <2>1, <2>3, <2>4, <2>5, <2>6
<1> QED
  BY <1>1, <1>2

(* The publishers' half of the types and of the invariant.                 *)
LEMMA PublishersKeep ==
  ASSUME TypeOK, Held, Contiguous, Publishing \/ CrashPublishing
  PROVE  TypeOK' /\ Held'
<1>1. UNCHANGED <<offered, consumer, active, cursor, processed, attempts, dead, deliveries, acknowledged>>
  BY StoreMoves
<1>2. files' \subseteq File /\ IsFiniteSet(files') /\ \A f \in files' : f.id \in offered /\ f.source = Source(f.id)
  <2>1. files \subseteq File /\ IsFiniteSet(files) /\ \A f \in files : f.id \in offered /\ f.source = Source(f.id)
    BY DEF TypeOK, Held
  <2>2. ASSUME NEW m \in offered, NEW n \in Nat, files' = files \cup {Filed(m, n)}
        PROVE  /\ files' \subseteq File /\ IsFiniteSet(files')
               /\ \A f \in files' : f.id \in offered /\ f.source = Source(f.id)
    BY <2>1, <2>2, OfferedType, FiledType, FS_AddElement
  <2> QED
    BY <2>1, <2>2, StoreMoves
<1>3. PICK p \in Publishers, call \in Progress \cup {None} :
        /\ publishing' = [publishing EXCEPT ![p] = call]
        /\ call # None =>
             /\ call.id \in offered
             /\ call.step = "drawn" => Kind[call.id] = "event"
             /\ call.step = "identified" => call.id \in identities'
  BY CallMoves
<1>4. /\ publishing \in [Publishers -> Progress \cup {None}]
      /\ publishing' \in [Publishers -> Progress \cup {None}]
      /\ publishing'[p] = call /\ \A q \in Publishers \ {p} : publishing'[q] = publishing[q]
  BY <1>3 DEF TypeOK
<1>5. TypeOK'
  BY <1>1, <1>2, <1>4, CallMoves DEF TypeOK
<1>6. identities \subseteq identities'
  BY CallMoves
<1>7. ASSUME NEW q \in Publishers
      PROVE  /\ publishing'[q] # None => publishing'[q].id \in offered'
             /\ Working(q, "drawn")' => Kind[publishing'[q].id] = "event"
             /\ Working(q, "identified")' => publishing'[q].id \in identities'
  <2>1. CASE q = p
    BY <1>1, <1>3, <1>4, <2>1 DEF Working
  <2>2. CASE q # p
    BY <1>1, <1>4, <1>6, <2>2 DEF Working, Held
  <2> QED
    BY <2>1, <2>2
<1> QED
  BY <1>1, <1>2, <1>5, <1>7 DEF Held

(* Contiguity, for a draw and for a stored event.                          *)
LEMMA ContiguousKept ==
  ASSUME TypeOK, Held, Contiguous, Publishing \/ CrashPublishing
  PROVE  Contiguous'
<1>1. files \subseteq files'
  BY StoreMoves
<1>2. \A n : SequenceTaken(n) => SequenceTaken(n)'
  BY <1>1 DEF SequenceTaken
<1>3. ASSUME NEW f \in files', f.source = "event", NEW n \in 0 .. (f.sequence - 1)
      PROVE  SequenceTaken(n)'
  <2>1. CASE f \in files
    BY <1>2, <1>3, <2>1 DEF Contiguous
  <2>2. CASE f \notin files
    <3>1. PICK m \in offered, k \in Nat :
            /\ f = Filed(m, k)
            /\ Source(m) = "event" => \A i \in 0 .. (k - 1) : SequenceTaken(i)
      BY <2>2, StoreMoves
    <3>2. Source(m) = "event" /\ f.sequence = k
      BY <1>3, <3>1, OfferedType, FiledType
    <3> QED
      BY <1>2, <1>3, <3>1, <3>2
  <2> QED
    BY <2>1, <2>2
<1>4. ASSUME NEW p \in Publishers, Working(p, "drawn")', NEW n \in 0 .. (publishing'[p].sequence - 1)
      PROVE  SequenceTaken(n)'
  <2>1. PICK q \in Publishers, call \in Progress \cup {None} :
          /\ publishing' = [publishing EXCEPT ![q] = call]
          /\ call # None /\ call.step = "drawn" =>
               call = publishing[q] \/ call.sequence = NextSequence("event")
    BY CallMoves
  <2>2. /\ publishing'[q] = call /\ \A r \in Publishers \ {q} : publishing'[r] = publishing[r]
        /\ publishing'[p] # None /\ publishing'[p].step = "drawn"
    BY <1>4, <2>1 DEF TypeOK, Working
  <2>3. CASE publishing'[p] = publishing[p]
    BY <1>2, <1>4, <2>2, <2>3 DEF Contiguous, Working
  <2>4. CASE publishing'[p].sequence = NextSequence("event")
    <3>1. PICK f \in files : f.source = "event" /\ f.sequence = NextSequence("event") - 1
      BY <1>4, <2>4, NextSequenceAbove
    <3>2. f.sequence \in Nat /\ NextSequence("event") \in Nat
      BY NextSequenceAbove DEF TypeOK, File
    <3>3. n = f.sequence \/ n \in 0 .. (f.sequence - 1)
      BY <1>4, <2>4, <3>1, <3>2
    <3>4. SequenceTaken(n)
      BY <3>1, <3>3 DEF Contiguous, SequenceTaken
    <3> QED
      BY <1>2, <3>4
  <2> QED
    BY <2>1, <2>2, <2>3, <2>4
<1> QED
  BY <1>3, <1>4 DEF Contiguous

(***************************************************************************)
(* Steps of the consumer.                                                  *)
(***************************************************************************)

LEMMA ConsumerLeaves ==
  ASSUME Consuming \/ CrashConsumer
  PROVE  UNCHANGED <<offered, files, identities, receipts, publishing, returned>>
BY DEF Consuming, OpenConsumer, Receive, HandOver, DeadLetter, SaveCursor, SaveProcessed, CrashConsumer, publisherVars

(* The message received: the one in hand again, or the first that waits.   *)
LEMMA ReceiveEffect ==
  ASSUME TypeOK, Held, Attending, Receive
  PROVE  \E f \in files :
           /\ active' = f /\ f.id \notin processed /\ f.id \in Messages
           /\ (active # None /\ f = active) \/ (active = None /\ Waiting # {} /\ f = NextCandidate)
           /\ attempts' = [attempts EXCEPT ![f.id] = @ + 1]
           /\ consumer' = IF attempts'[f.id] > Limit THEN "exhausted" ELSE "counted"
           /\ UNCHANGED <<cursor, processed, dead, deliveries, acknowledged, crashes>>
<1>1. CASE active # None
  <2>1. active \in files /\ active.id \notin processed /\ active.id \in Messages
    BY <1>1 DEF Attending, TypeOK, File
  <2>2. /\ active' = active /\ attempts' = [attempts EXCEPT ![active.id] = @ + 1]
        /\ consumer' = IF attempts'[active.id] > Limit THEN "exhausted" ELSE "counted"
        /\ UNCHANGED <<cursor, processed, dead, deliveries, acknowledged, crashes>>
    BY <1>1 DEF Receive
  <2> QED
    BY <1>1, <2>1, <2>2
<1>2. CASE active = None
  <2>1. Waiting # {} /\ NextCandidate \in Waiting
    BY <1>2, CandidateIsFirst DEF Receive
  <2>2. NextCandidate \in files /\ NextCandidate.id \notin processed /\ NextCandidate.id \in Messages
    BY <2>1 DEF Waiting, TypeOK, File
  <2>3. /\ active' = NextCandidate /\ attempts' = [attempts EXCEPT ![NextCandidate.id] = @ + 1]
        /\ consumer' = IF attempts'[NextCandidate.id] > Limit THEN "exhausted" ELSE "counted"
        /\ UNCHANGED <<cursor, processed, dead, deliveries, acknowledged, crashes>>
    BY <1>2 DEF Receive
  <2> QED
    BY <1>2, <2>1, <2>2, <2>3
<1> QED
  BY <1>1, <1>2

(* The cursors of the message's source and of all sources move up to it.   *)
LEMMA CursorEffect ==
  ASSUME TypeOK, Attending, SaveCursor
  PROVE  /\ active \in files /\ active \in File
         /\ DOMAIN cursor' = DOMAIN cursor \cup {active.source, "sequence"}
         /\ cursor'[active.source] = Max({Passed(active.source), active.sequence})
         /\ cursor'["sequence"] = Max({cursor["sequence"], active.sequence})
         /\ \A k \in DOMAIN cursor \ {active.source, "sequence"} : cursor'[k] = cursor[k]
<1>1. active \in files /\ active \in File /\ active.source # "sequence" /\ "sequence" \in DOMAIN cursor
  BY DEF SaveCursor, Attending, TypeOK, File
<1>2. cursor' = [k \in DOMAIN cursor \cup {active.source, "sequence"} |->
                   CASE k = active.source -> Max({Passed(k), active.sequence})
                     [] k = "sequence" -> Max({cursor[k], active.sequence})
                     [] OTHER -> cursor[k]]
  BY DEF SaveCursor
<1> QED
  BY <1>1, <1>2

LEMMA ConsumerTypes ==
  ASSUME TypeOK, Held, Attending, Consuming \/ CrashConsumer
  PROVE  TypeOK'
<1>0. /\ processed \subseteq Messages /\ dead \subseteq Messages /\ acknowledged \subseteq Messages
      /\ attempts \in [Messages -> Nat] /\ deliveries \in [Messages -> 0 .. (Limit + 1)]
      /\ crashes \in 0 .. MaxCrashes /\ active \in File \cup {None} /\ files \subseteq File
      /\ Limit \in Nat /\ MaxCrashes \in Nat
      /\ active # None => active.id \in Messages
  BY TransportAssumption DEF TypeOK, File
<1>1. UNCHANGED <<offered, files, identities, receipts, publishing, returned>>
  BY ConsumerLeaves
<1>2. CASE OpenConsumer
  BY <1>2, <1>1 DEF OpenConsumer, TypeOK
<1>3. CASE Receive
  <2>1. PICK f \in files :
          /\ active' = f /\ f.id \in Messages
          /\ attempts' = [attempts EXCEPT ![f.id] = @ + 1]
          /\ consumer' = IF attempts'[f.id] > Limit THEN "exhausted" ELSE "counted"
          /\ UNCHANGED <<cursor, processed, dead, deliveries, acknowledged, crashes>>
    BY <1>3, ReceiveEffect
  <2>2. attempts' \in [Messages -> Nat]
    BY <1>0, <2>1
  <2>3. consumer' \in {"exhausted", "counted"} /\ active' \in File
    BY <1>0, <2>1
  <2> QED
    BY <1>1, <2>1, <2>2, <2>3 DEF TypeOK
<1>4. CASE HandOver
  <2>1. active.id \in Messages
    BY <1>0, <1>4 DEF HandOver, Attending
  <2>2. \A n \in 0 .. (Limit + 1) : Min({n + 1, Limit + 1}) \in 0 .. (Limit + 1)
    <3>1. ASSUME NEW n \in 0 .. (Limit + 1) PROVE Min({n + 1, Limit + 1}) \in 0 .. (Limit + 1)
      <4>1. n + 1 \in Int /\ Limit + 1 \in Int
        BY <1>0
      <4>2. Min({n + 1, Limit + 1}) \in {n + 1, Limit + 1} /\ Min({n + 1, Limit + 1}) <= Limit + 1
        BY <4>1, MaxOfTwo
      <4> QED
        BY <1>0, <4>2
    <3> QED
      BY <3>1
  <2>3. deliveries' \in [Messages -> 0 .. (Limit + 1)]
    BY <1>0, <1>4, <2>1, <2>2 DEF HandOver
  <2> QED
    BY <1>0, <1>1, <1>4, <2>3 DEF HandOver, TypeOK
<1>5. CASE DeadLetter
  <2>1. dead' \subseteq Messages
    BY <1>0, <1>5 DEF DeadLetter, Attending
  <2> QED
    BY <1>1, <1>5, <2>1 DEF DeadLetter, TypeOK
<1>6. CASE SaveCursor
  <2>1. active.source \in {"event", "command"} /\ active.sequence \in Nat
    BY <1>6, CursorEffect DEF File
  <2>2. cursor'[active.source] \in Nat /\ cursor'["sequence"] \in Nat
    <3>1. /\ Passed(active.source) \in Nat \cup {-1} /\ Passed(active.source) \in Int
          /\ cursor["sequence"] \in Nat \cup {-1} /\ cursor["sequence"] \in Int
          /\ active.sequence \in Int
      BY <2>1, PassedType DEF TypeOK
    <3>2. \A a \in Nat \cup {-1} : Max({a, active.sequence}) \in Nat
      <4>1. ASSUME NEW a \in Nat \cup {-1} PROVE Max({a, active.sequence}) \in Nat
        <5>1. a \in Int /\ active.sequence \in Int
          BY <3>1
        <5>2. Max({a, active.sequence}) \in {a, active.sequence} /\ active.sequence <= Max({a, active.sequence})
          BY <5>1, MaxOfTwo
        <5> QED
          BY <2>1, <5>2
      <4> QED
        BY <4>1
    <3> QED
      BY <1>6, <3>1, <3>2, CursorEffect
  <2>3. /\ "sequence" \in DOMAIN cursor' /\ DOMAIN cursor' \subseteq {"event", "command", "sequence"}
        /\ \A k \in DOMAIN cursor' : cursor'[k] \in Nat \cup {-1}
    BY <1>6, <2>1, <2>2, CursorEffect DEF TypeOK
  <2> QED
    BY <1>1, <1>6, <2>3 DEF SaveCursor, TypeOK
<1>7. CASE SaveProcessed
  <2>1. active.id \in Messages
    BY <1>0, <1>7 DEF SaveProcessed, Attending
  <2> QED
    BY <1>1, <1>7, <2>1 DEF SaveProcessed, TypeOK
<1>8. CASE CrashConsumer
  <2>1. crashes' \in 0 .. MaxCrashes
    BY <1>0, <1>8 DEF CrashConsumer
  <2> QED
    BY <1>1, <1>8, <2>1 DEF CrashConsumer, TypeOK
<1> QED
  BY <1>2, <1>3, <1>4, <1>5, <1>6, <1>7, <1>8 DEF Consuming

(* A counted message has been handed over fewer than Limit times.          *)
LEMMA HandOverCounts ==
  ASSUME TypeOK, Attending, Counted, HandOver
  PROVE  /\ active.id \in Messages /\ deliveries[active.id] + 1 <= attempts[active.id]
         /\ attempts[active.id] <= Limit
         /\ deliveries' = [deliveries EXCEPT ![active.id] = @ + 1]
<1>1. active.id \in Messages
  BY DEF HandOver, Attending, TypeOK, File
<1>2. deliveries[active.id] < attempts[active.id] /\ attempts[active.id] <= Limit
  BY DEF HandOver, Counted
<1>3. deliveries[active.id] \in Nat /\ attempts[active.id] \in Nat /\ Limit \in Nat
  <2>1. Limit \in Nat /\ \A n \in 0 .. (Limit + 1) : n \in Nat
    BY TransportAssumption
  <2> QED
    BY <1>1, <2>1 DEF TypeOK
<1>4. deliveries[active.id] + 1 \in Int /\ Limit + 1 \in Int /\ deliveries[active.id] + 1 < Limit + 1
  BY <1>2, <1>3
<1>5. Min({deliveries[active.id] + 1, Limit + 1}) = deliveries[active.id] + 1
  <2>1. /\ Min({deliveries[active.id] + 1, Limit + 1}) \in {deliveries[active.id] + 1, Limit + 1}
        /\ Min({deliveries[active.id] + 1, Limit + 1}) <= deliveries[active.id] + 1
    BY <1>4, MaxOfTwo
  <2> QED
    BY <1>4, <2>1
<1>6. deliveries' = [deliveries EXCEPT ![active.id] = Min({deliveries[active.id] + 1, Limit + 1})]
  BY DEF HandOver
<1>7. deliveries[active.id] + 1 <= attempts[active.id]
  BY <1>2, <1>3
<1>8. deliveries' = [deliveries EXCEPT ![active.id] = deliveries[active.id] + 1]
  BY <1>5, <1>6
<1> QED
  BY <1>1, <1>2, <1>7, <1>8

LEMMA AttendingKept ==
  ASSUME TypeOK, Held, Attending, Consuming \/ CrashConsumer
  PROVE  Attending'
<1>1. files' = files
  BY ConsumerLeaves
<1>2. CASE Receive
  <2>1. PICK f \in files : active' = f /\ f.id \notin processed /\ UNCHANGED <<processed, acknowledged>>
    BY <1>2, ReceiveEffect
  <2>2. f # None
    BY TransportAssumption DEF TypeOK
  <2> QED
    BY <1>1, <2>1, <2>2 DEF Attending
<1>3. CASE OpenConsumer \/ HandOver \/ DeadLetter \/ SaveCursor
  BY <1>1, <1>3 DEF OpenConsumer, HandOver, DeadLetter, SaveCursor, Attending
<1>4. CASE SaveProcessed \/ CrashConsumer
  BY <1>4 DEF SaveProcessed, CrashConsumer, Attending
<1> QED
  BY <1>2, <1>3, <1>4 DEF Consuming

LEMMA CountedKept ==
  ASSUME TypeOK, Held, Attending, Counted, Consuming \/ CrashConsumer
  PROVE  Counted'
<1>0. /\ \A m \in Messages : attempts[m] \in Nat /\ deliveries[m] \in Nat
      /\ attempts \in [Messages -> Nat] /\ deliveries \in [Messages -> 0 .. (Limit + 1)]
      /\ Limit \in Nat
  BY TransportAssumption DEF TypeOK
<1>1. CASE Receive
  <2>1. PICK f \in files :
          /\ active' = f /\ f.id \in Messages
          /\ attempts' = [attempts EXCEPT ![f.id] = @ + 1]
          /\ consumer' = IF attempts'[f.id] > Limit THEN "exhausted" ELSE "counted"
          /\ UNCHANGED deliveries
    BY <1>1, ReceiveEffect
  <2>2. \A m \in Messages : attempts'[m] = IF m = f.id THEN attempts[m] + 1 ELSE attempts[m]
    BY <1>0, <2>1
  <2>3. \A m \in Messages : deliveries[m] <= attempts'[m] /\ deliveries[m] <= Limit
    BY <1>0, <2>2 DEF Counted
  <2>4. attempts'[f.id] = attempts[f.id] + 1 /\ deliveries[f.id] <= attempts[f.id]
    BY <2>1, <2>2 DEF Counted
  <2>5. deliveries[f.id] < attempts'[f.id]
    BY <1>0, <2>1, <2>4
  <2>6. consumer' = "counted" => attempts'[f.id] <= Limit
    BY <1>0, <2>1, <2>4
  <2> QED
    BY <2>1, <2>3, <2>5, <2>6 DEF Counted
<1>2. CASE HandOver
  <2>1. /\ active.id \in Messages /\ deliveries[active.id] + 1 <= attempts[active.id]
        /\ attempts[active.id] <= Limit
        /\ deliveries' = [deliveries EXCEPT ![active.id] = @ + 1]
    BY <1>2, HandOverCounts
  <2>2. attempts' = attempts /\ consumer' = "handling"
    BY <1>2 DEF HandOver
  <2>3. deliveries[active.id] + 1 <= Limit
    BY <1>0, <2>1
  <2>4. \A m \in Messages : deliveries'[m] = IF m = active.id THEN deliveries[m] + 1 ELSE deliveries[m]
    BY <1>0, <2>1
  <2>5. \A m \in Messages : deliveries'[m] <= attempts[m] /\ deliveries'[m] <= Limit
    BY <2>1, <2>3, <2>4 DEF Counted
  <2> QED
    BY <2>2, <2>5 DEF Counted
<1>3. CASE OpenConsumer \/ DeadLetter \/ SaveCursor \/ SaveProcessed \/ CrashConsumer
  <2>1. attempts' = attempts /\ deliveries' = deliveries /\ consumer' # "counted"
    BY <1>3 DEF OpenConsumer, DeadLetter, SaveCursor, SaveProcessed, CrashConsumer
  <2> QED
    BY <2>1 DEF Counted
<1> QED
  BY <1>1, <1>2, <1>3 DEF Consuming

(* What has been seen stays seen.                                          *)
LEMMA SettledStays ==
  ASSUME TypeOK, Attending, Counted, Held, Consuming \/ CrashConsumer, NEW m \in Messages, Settled(m)
  PROVE  Settled(m)'
<1>1. CASE HandOver
  <2>1. /\ active.id \in Messages
        /\ deliveries' = [deliveries EXCEPT ![active.id] = @ + 1] /\ dead' = dead
    BY <1>1, HandOverCounts DEF HandOver
  <2>2. deliveries[m] \in Nat /\ deliveries \in [Messages -> 0 .. (Limit + 1)]
    <3>1. \A n \in 0 .. (Limit + 1) : n \in Nat
      OBVIOUS
    <3> QED
      BY <3>1 DEF TypeOK
  <2>3. deliveries'[m] = deliveries[m] \/ deliveries'[m] = deliveries[m] + 1
    BY <2>1, <2>2
  <2>4. deliveries[m] > 0 => deliveries'[m] > 0
    BY <2>2, <2>3
  <2> QED
    BY <2>1, <2>4 DEF Settled
<1>2. CASE ~HandOver
  <2>1. deliveries' = deliveries /\ dead \subseteq dead'
    BY <1>2 DEF Consuming, OpenConsumer, Receive, DeadLetter, SaveCursor, SaveProcessed, CrashConsumer
  <2> QED
    BY <2>1 DEF Settled
<1> QED
  BY <1>1, <1>2

LEMMA KnownKept ==
  ASSUME TypeOK, Held, Attending, Counted, Known, Consuming \/ CrashConsumer
  PROVE  Known'
<1>0. processed \subseteq Messages /\ \A m \in processed : Settled(m)'
  BY SettledStays DEF Known, TypeOK
<1>1. CASE OpenConsumer \/ Receive \/ CrashConsumer
  <2>1. processed' = processed /\ consumer' \in {"idle", "exhausted", "counted", "closed"}
    BY <1>1 DEF OpenConsumer, Receive, CrashConsumer
  <2> QED
    BY <1>0, <2>1 DEF Known
<1>2. CASE HandOver
  <2>1. /\ active.id \in Messages
        /\ deliveries' = [deliveries EXCEPT ![active.id] = @ + 1]
    BY <1>2, HandOverCounts
  <2>2. deliveries[active.id] \in Nat /\ deliveries'[active.id] = deliveries[active.id] + 1
    <3>1. \A n \in 0 .. (Limit + 1) : n \in Nat
      OBVIOUS
    <3>2. deliveries \in [Messages -> 0 .. (Limit + 1)]
      BY DEF TypeOK
    <3> QED
      BY <2>1, <3>1, <3>2
  <2>3. deliveries'[active.id] > 0
    BY <2>2
  <2>4. processed' = processed /\ active' = active /\ consumer' = "handling"
    BY <1>2 DEF HandOver
  <2> QED
    BY <1>0, <2>3, <2>4 DEF Known
<1>3. CASE DeadLetter
  <2>1. processed' = processed /\ active' = active /\ consumer' = "burying" /\ active.id \in dead'
    BY <1>3 DEF DeadLetter
  <2> QED
    BY <1>0, <2>1 DEF Known
<1>4. CASE SaveCursor
  <2>1. /\ processed' = processed /\ active' = active /\ deliveries' = deliveries /\ dead' = dead
        /\ \/ consumer = "handling" /\ consumer' = "acknowledging"
           \/ consumer = "burying" /\ consumer' = "passing"
    BY <1>4 DEF SaveCursor
  <2> QED
    BY <1>0, <2>1 DEF Known
<1>5. CASE SaveProcessed
  <2>1. /\ processed' = processed \cup {active.id} /\ consumer' = "idle"
        /\ deliveries' = deliveries /\ dead' = dead /\ consumer \in {"acknowledging", "passing"}
    BY <1>5 DEF SaveProcessed
  <2>2. deliveries'[active.id] > 0 \/ active.id \in dead'
    BY <2>1 DEF Known
  <2> QED
    BY <1>0, <2>1, <2>2 DEF Known, Settled
<1> QED
  BY <1>1, <1>2, <1>3, <1>4, <1>5 DEF Consuming

(* A cursor is never lowered, and is raised to the message in hand.        *)
LEMMA PassedMoves ==
  ASSUME TypeOK, Attending, SaveCursor
  PROVE  /\ cursor'[active.source] \in {Passed(active.source), active.sequence}
         /\ Passed(active.source) <= cursor'[active.source]
         /\ active.sequence <= cursor'[active.source]
         /\ cursor'["sequence"] \in {cursor["sequence"], active.sequence}
         /\ Passed(active.source)' = cursor'[active.source]
<1>1. active.sequence \in Int /\ Passed(active.source) \in Int /\ cursor["sequence"] \in Int
  BY CursorEffect, PassedType DEF TypeOK, File
<1>2. /\ Max({Passed(active.source), active.sequence}) \in {Passed(active.source), active.sequence}
      /\ Passed(active.source) <= Max({Passed(active.source), active.sequence})
      /\ active.sequence <= Max({Passed(active.source), active.sequence})
  BY <1>1, MaxOfTwo
<1>3. Max({cursor["sequence"], active.sequence}) \in {cursor["sequence"], active.sequence}
  BY <1>1, MaxOfTwo
<1>4. active' = active /\ active.source \in DOMAIN cursor'
  BY CursorEffect DEF SaveCursor
<1> QED
  BY <1>2, <1>3, <1>4, CursorEffect DEF Passed

LEMMA AnchoredKept ==
  ASSUME TypeOK, Attending, Anchored, Consuming \/ CrashConsumer
  PROVE  Anchored'
<1>1. files' = files
  BY ConsumerLeaves
<1>2. CASE ~SaveCursor
  <2>1. cursor' = cursor
    BY <1>2 DEF Consuming, OpenConsumer, Receive, HandOver, DeadLetter, SaveProcessed, CrashConsumer
  <2> QED
    BY <1>1, <2>1 DEF Anchored
<1>3. CASE SaveCursor
  <2> DEFINE Above(n) == n = -1 \/ \E f \in files : n <= f.sequence
  <2>1. Above(active.sequence)
    BY <1>3, CursorEffect DEF File
  <2>2. "sequence" \in DOMAIN cursor /\ \A k \in DOMAIN cursor : Above(cursor[k])
    BY DEF TypeOK, Anchored
  <2>3. Above(Passed(active.source))
    BY <2>2 DEF Passed
  <2> HIDE DEF Above
  <2>4. Above(cursor'[active.source]) /\ Above(cursor'["sequence"])
    BY <1>3, <2>1, <2>2, <2>3, PassedMoves
  <2>5. \A k \in DOMAIN cursor' : Above(cursor'[k])
    BY <1>3, <2>2, <2>4, CursorEffect
  <2> QED
    BY <1>1, <2>5 DEF Above, Anchored
<1> QED
  BY <1>2, <1>3

(* One source: the messages are seen in the order of their sequences.      *)
LEMMA InOrderKept ==
  ASSUME TypeOK, Held, Attending, Counted, Known, Single, InOrder, Consuming \/ CrashConsumer
  PROVE  InOrder'
<1>0. /\ files' = files /\ \A f \in files : f.id \in Messages /\ f.sequence \in Nat
      /\ \A f \in files : Settled(f.id) => Settled(f.id)'
      /\ \A f, g \in files : f.sequence = g.sequence => f = g
  BY ConsumerLeaves, SettledStays DEF TypeOK, File, InOrder
<1>1. CASE ~SaveCursor
  <2>1. cursor' = cursor
    BY <1>1 DEF Consuming, OpenConsumer, Receive, HandOver, DeadLetter, SaveProcessed, CrashConsumer
  <2>2. \A source : Passed(source)' = Passed(source)
    BY <2>1 DEF Passed
  <2>3. ASSUME active' # None, NEW f \in files, f.sequence <= active'.sequence
        PROVE  f = active' \/ f.id \in processed' \/ f.sequence <= Passed(f.source)
    <3>1. CASE Receive
      <4>1. PICK g \in files :
              /\ active' = g /\ processed' = processed
              /\ (active # None /\ g = active) \/ (active = None /\ Waiting # {} /\ g = NextCandidate)
        BY <3>1, ReceiveEffect
      <4>2. CASE active # None /\ g = active
        BY <2>3, <4>1, <4>2 DEF InOrder
      <4>3. CASE Waiting # {} /\ g = NextCandidate
        <5>1. f \in Waiting => f = g \/ g.sequence <= f.sequence
          BY <4>3, CandidateIsFirst
        <5>2. f \in Waiting => f = g
          BY <1>0, <2>3, <4>1, <5>1
        <5>3. Passed(f.source) \in Int
          BY PassedType
        <5>4. f \notin Waiting => f.id \in processed \/ f.sequence <= Passed(f.source)
          BY <1>0, <5>3 DEF Waiting
        <5> QED
          BY <4>1, <5>2, <5>4
      <4> QED
        BY <4>1, <4>2, <4>3
    <3>2. CASE OpenConsumer \/ HandOver \/ DeadLetter
      <4>1. active' = active /\ processed' = processed
        BY <3>2 DEF OpenConsumer, HandOver, DeadLetter
      <4> QED
        BY <2>3, <4>1 DEF InOrder
    <3>3. CASE SaveProcessed \/ CrashConsumer
      BY <2>3, <3>3 DEF SaveProcessed, CrashConsumer
    <3> QED
      BY <1>1, <3>1, <3>2, <3>3 DEF Consuming
  <2>4. \A f \in files : f.sequence <= Passed(f.source) => Settled(f.id)'
    BY <1>0 DEF InOrder
  <2> QED
    BY <1>0, <2>2, <2>3, <2>4 DEF InOrder
<1>2. CASE SaveCursor
  <2>1. /\ active' = active /\ processed' = processed /\ active \in files /\ active # None
        /\ Passed(active.source)' = cursor'[active.source]
    BY <1>2, PassedMoves, CursorEffect DEF SaveCursor, Attending
  <2>2. \A f \in files : f.source = active.source
    BY <2>1 DEF Held, Single
  <2>3. /\ cursor'[active.source] \in {Passed(active.source), active.sequence}
        /\ Passed(active.source) <= cursor'[active.source]
        /\ cursor'[active.source] \in Int /\ Passed(active.source) \in Int
    BY <1>0, <1>2, <2>1, PassedMoves, PassedType
  <2>4. \A f \in files : Passed(f.source)' = cursor'[active.source]
    BY <2>1, <2>2
  <2>5. Settled(active.id)
    BY <1>2 DEF SaveCursor, Known, Settled
  <2>6. ASSUME NEW f \in files, f.sequence <= cursor'[active.source] PROVE Settled(f.id)
    <3>1. CASE f.sequence <= Passed(active.source)
      BY <2>2, <3>1 DEF InOrder
    <3>2. CASE f.sequence <= active.sequence
      <4>1. f = active \/ f.id \in processed \/ f.sequence <= Passed(f.source)
        BY <2>1, <3>2 DEF InOrder
      <4> QED
        BY <2>5, <4>1 DEF Known, InOrder
    <3> QED
      BY <2>3, <2>6, <3>1, <3>2
  <2>7. ASSUME NEW f \in files, f.sequence <= active.sequence
        PROVE  f = active \/ f.id \in processed \/ f.sequence <= cursor'[active.source]
    <3>1. f = active \/ f.id \in processed \/ f.sequence <= Passed(active.source)
      BY <2>1, <2>2, <2>7 DEF InOrder
    <3> QED
      BY <1>0, <2>3, <3>1
  <2> QED
    BY <1>0, <2>1, <2>4, <2>6, <2>7 DEF InOrder
<1> QED
  BY <1>1, <1>2

(* A file stored in a subscription of one source is above every other, and *)
(* above the cursor.                                                       *)
LEMMA StoringInOrder ==
  ASSUME TypeOK, Held, Attending, Contiguous, Anchored, Single, InOrder, Publishing \/ CrashPublishing
  PROVE  InOrder'
<1>1. UNCHANGED <<offered, consumer, active, cursor, processed, deliveries, dead>>
  BY StoreMoves
<1>2. \A source : Passed(source)' = Passed(source)
  BY <1>1 DEF Passed
<1>3. \A m : Settled(m)' = Settled(m)
  BY <1>1 DEF Settled
<1>4. CASE files' = files
  BY <1>1, <1>2, <1>3, <1>4 DEF InOrder
<1>5. ASSUME NEW m \in offered, NEW n \in Nat, files' = files \cup {Filed(m, n)},
             \A f \in files : f.source = Source(m) => f.sequence < n
      PROVE  InOrder'
  <2> DEFINE new == Filed(m, n)
  <2>1. new.sequence = n /\ new.id = m /\ new.source = Source(m)
    BY <1>5, OfferedType, FiledType
  <2> HIDE DEF new
  <2>2. \A f \in files : f.sequence \in Nat /\ f.sequence < n
    BY <1>5 DEF TypeOK, File, Held, Single
  <2>3. files' = files \cup {new}
    BY <1>5 DEF new
  <2>4. Passed(new.source) < n
    <3>1. Passed(new.source) \in Int
      BY PassedType
    <3>2. Passed(new.source) = -1 \/ \E f \in files : Passed(new.source) <= f.sequence
      BY DEF Passed, Anchored, TypeOK
    <3> QED
      BY <1>5, <2>2, <3>1, <3>2
  <2>5. \A f, g \in files' : f.sequence = g.sequence => f = g
    <3>1. \A f \in files : f.sequence # new.sequence
      BY <1>5, <2>1, <2>2
    <3> QED
      BY <2>3, <3>1 DEF InOrder
  <2>6. ~(new.sequence <= Passed(new.source))
    BY <1>5, <2>1, <2>4, PassedType
  <2>7. \A f \in files' : f.sequence <= Passed(f.source) => Settled(f.id)
    BY <2>3, <2>6 DEF InOrder
  <2>8. active # None => ~(new.sequence <= active.sequence)
    BY <1>5, <2>1, <2>2 DEF Attending
  <2>9. active # None =>
          \A f \in files' :
            f.sequence <= active.sequence =>
              f = active \/ f.id \in processed \/ f.sequence <= Passed(f.source)
    BY <2>3, <2>8 DEF InOrder
  <2> QED
    BY <1>1, <1>2, <1>3, <2>5, <2>7, <2>9 DEF InOrder
<1> QED
  BY <1>4, <1>5, StoreMoves

(***************************************************************************)
(* The invariant.                                                          *)
(***************************************************************************)

LEMMA InitInv == Init => TransportInv
<1> SUFFICES ASSUME Init PROVE TransportInv
  OBVIOUS
<1>0. Limit \in Nat \ {0} /\ MaxCrashes \in Nat
  BY TransportAssumption
<1>1. files = {} /\ publishing = [p \in Publishers |-> None] /\ processed = {} /\ active = None /\ consumer = "closed"
  BY DEF Init
<1>2. TypeOK
  <2>1. cursor = [k \in {"sequence"} |-> -1] /\ offered \in Workloads /\ crashes \in 0 .. MaxCrashes
    BY <1>0 DEF Init
  <2>2. attempts \in [Messages -> Nat] /\ deliveries \in [Messages -> 0 .. (Limit + 1)]
    BY <1>0 DEF Init
  <2>3. publishing \in [Publishers -> Progress \cup {None}]
    BY <1>1
  <2> QED
    BY <1>1, <2>1, <2>2, <2>3 DEF Init, TypeOK
<1>3. Held
  BY <1>1, FS_EmptySet DEF Held, Working
<1>4. Attending /\ Known
  BY <1>1 DEF Init, Attending, Known
<1>5. Contiguous
  BY <1>1 DEF Contiguous, Working
<1>6. Anchored /\ InOrder
  BY <1>1 DEF Init, Anchored, InOrder
<1>7. Counted
  BY <1>0, <1>1 DEF Init, Counted
<1> QED
  BY <1>2, <1>3, <1>4, <1>5, <1>6, <1>7 DEF TransportInv

LEMMA StepKeepsInv == TransportInv /\ [Next]_vars => TransportInv'
<1> SUFFICES ASSUME TransportInv, [Next]_vars PROVE TransportInv'
  OBVIOUS
<1> USE DEF TransportInv
<1>1. CASE Publishing \/ CrashPublishing
  <2>1. TypeOK' /\ Held' /\ Contiguous'
    BY <1>1, PublishersKeep, ContiguousKept
  <2>2. /\ UNCHANGED <<offered, consumer, active, cursor, processed, attempts, dead, deliveries, acknowledged>>
        /\ files \subseteq files'
    BY <1>1, StoreMoves
  <2>3. Attending' /\ Known' /\ Counted'
    BY <2>2 DEF Attending, Known, Counted, Settled
  <2>4. Anchored'
    BY <2>2 DEF Anchored
  <2>5. (Single => InOrder)'
    BY <1>1, <2>2, StoringInOrder DEF Single
  <2> QED
    BY <2>1, <2>3, <2>4, <2>5
<1>2. CASE Consuming \/ CrashConsumer
  <2>1. UNCHANGED <<offered, files, identities, receipts, publishing, returned>>
    BY <1>2, ConsumerLeaves
  <2>2. TypeOK' /\ Attending' /\ Counted' /\ Known' /\ Anchored'
    BY <1>2, ConsumerTypes, AttendingKept, CountedKept, KnownKept, AnchoredKept
  <2>3. Held' /\ Contiguous'
    BY <2>1 DEF Held, Contiguous, Working, SequenceTaken
  <2>4. (Single => InOrder)'
    BY <1>2, <2>1, InOrderKept DEF Single
  <2> QED
    BY <2>2, <2>3, <2>4
<1>3. CASE UNCHANGED vars
  <2>1. /\ UNCHANGED <<offered, files, identities, receipts, publishing, returned>>
        /\ UNCHANGED <<consumer, active, cursor, processed, attempts, dead, deliveries, acknowledged, crashes>>
    BY <1>3 DEF vars
  <2>2. TypeOK'
    BY <2>1 DEF TypeOK
  <2>3. Held' /\ Contiguous' /\ Attending' /\ Counted'
    BY <2>1 DEF Held, Contiguous, Working, SequenceTaken, Attending, Counted
  <2>4. Known' /\ Anchored' /\ (Single => InOrder)'
    BY <2>1 DEF Known, Settled, Anchored, Single, InOrder, Passed
  <2> QED
    BY <2>2, <2>3, <2>4
<1> QED
  BY <1>1, <1>2, <1>3 DEF Next, CrashPublishing

(* The invariant of the transport: what a publisher holds between its two  *)
(* writes, that the files of a kind are contiguous, which delivery the     *)
(* consumer attends and how often it has been counted, what is known to    *)
(* the cursor of each kind and anchored by a file, and, with one source,   *)
(* that all of it is passed in order.                                      *)
THEOREM TransportInductive == Spec => []TransportInv
<1> QED
  BY InitInv, StepKeepsInv, PTL DEF Spec

(* The directories, the calls of the publishers and the files of the       *)
(* consumer keep their types; no delivery count leaves 0 .. Limit + 1 and  *)
(* no cursor falls below -1.                                               *)
THEOREM TransportTypes == Spec => []TypeOK
<1>1. TransportInv => TypeOK
  BY DEF TransportInv
<1> QED
  BY <1>1, TransportInductive, PTL

(* A call that returned left its message where the getters find it: the    *)
(* repair of a repeated command writes the receipt that a crash had lost.  *)
THEOREM TransportFindable == Spec => []ReturnedIsFindable
<1>1. Init => ReturnedIsFindable
  BY DEF Init, ReturnedIsFindable
<1>2. TransportInv /\ ReturnedIsFindable /\ [Next]_vars => ReturnedIsFindable'
  <2> SUFFICES ASSUME TransportInv, ReturnedIsFindable, [Next]_vars PROVE ReturnedIsFindable'
    OBVIOUS
  <2>1. CASE Consuming \/ CrashConsumer
    BY <2>1, ConsumerLeaves DEF ReturnedIsFindable
  <2>2. CASE \E p \in Publishers : CrashPublisher(p)
    BY <2>2 DEF CrashPublisher, ReturnedIsFindable
  <2>3. ASSUME NEW p \in Publishers,
               \/ \E m \in offered : Draw(p, m) \/ SendCommand(p, m) \/ PublishOutcome(p, m)
               \/ PublishEvent(p)
        PROVE  ReturnedIsFindable'
    <3>1. CASE PublishEvent(p) \/ \E m \in offered : Draw(p, m)
      BY <3>1 DEF PublishEvent, Draw, ReturnedIsFindable
    <3>2. CASE \E m \in offered : SendCommand(p, m)
      BY <3>2 DEF SendCommand, ReturnedIsFindable
    <3>3. CASE \E m \in offered : PublishOutcome(p, m)
      BY <3>3 DEF PublishOutcome, ReturnedIsFindable
    <3> QED
      BY <2>3, <3>1, <3>2, <3>3
  <2>4. ASSUME NEW p \in Publishers, SaveIdentity(p) PROVE ReturnedIsFindable'
    BY <2>4 DEF SaveIdentity, ReturnedIsFindable
  <2>5. ASSUME NEW p \in Publishers, SaveReceipt(p) PROVE ReturnedIsFindable'
    <3>1. publishing[p].id \in identities
      BY <2>5 DEF SaveReceipt, TransportInv, Held
    <3> QED
      BY <2>5, <3>1 DEF SaveReceipt, ReturnedIsFindable
  <2>6. CASE UNCHANGED vars
    BY <2>6 DEF vars, ReturnedIsFindable
  <2> QED
    BY <2>1, <2>2, <2>3, <2>4, <2>5, <2>6 DEF Next, Publishing
<1> QED
  BY <1>1, <1>2, TransportInductive, PTL DEF Spec

(* An acknowledged message is not handed over again, in none of its copies *)
(* and in none of the consumer's later lives.                              *)
THEOREM TransportNoRedelivery == Spec => []NoRedeliveryAfterAck
<1>1. TransportInv => NoRedeliveryAfterAck
  BY DEF TransportInv, Attending, NoRedeliveryAfterAck
<1> QED
  BY <1>1, TransportInductive, PTL

(* However often the consumer crashes in the handler, no message is handed *)
(* over more than max_retries times.                                       *)
THEOREM TransportDeliveriesBounded == Spec => []DeliveriesBounded
<1>1. TransportInv => DeliveriesBounded
  BY DEF TransportInv, Counted, DeliveriesBounded
<1> QED
  BY <1>1, TransportInductive, PTL

(* On a subscription to one source the cursor passes nothing that was not  *)
(* handed over or dead-lettered, for any order of publications, crashes,   *)
(* redeliveries and acknowledgements.                                      *)
THEOREM TransportAtLeastOnce == Spec => []AtLeastOnceOfOneSource
<1>1. Cardinality({Source(m) : m \in offered}) = 1 => Single
  <2> DEFINE S == {Source(m) : m \in offered}
  <2>1. S \subseteq {"event", "command"}
    BY DEF Source
  <2>2. IsFiniteSet(S)
    <3>1. IsFiniteSet({"event"} \cup {"command"}) /\ {"event", "command"} = {"event"} \cup {"command"}
      BY FS_Singleton, FS_AddElement
    <3> HIDE DEF S
    <3> QED
      BY <2>1, <3>1, FS_Subset
  <2>3. ASSUME Cardinality(S) = 1, NEW m \in offered, NEW n \in offered PROVE Source(m) = Source(n)
    <3>1. Source(m) \in S /\ Source(n) \in S
      OBVIOUS
    <3> HIDE DEF S
    <3>2. \E x : S = {x}
      BY <2>2, <2>3, FS_Singleton
    <3> QED
      BY <3>1, <3>2
  <2> QED
    BY <2>3 DEF Single
<1>2. TransportInv => AtLeastOnceOfOneSource
  BY <1>1 DEF TransportInv, InOrder, Settled, AtLeastOnceOfOneSource, AtLeastOnce
<1> QED
  BY <1>2, TransportInductive, PTL

(***************************************************************************)
(* The queue that the files implement.                                     *)
(***************************************************************************)

(* What the steps of the queue find behind them: a message with an         *)
(* identity file, or whose identity file comes next, has a file, and one   *)
(* that is given up has used up its attempts.                              *)
Copied(m) == \E f \in files : f.id = m

Booked ==
  /\ \A m \in identities : Copied(m)
  /\ \A p \in Publishers : Working(p, "stored") => Copied(publishing[p].id)
  /\ \A m \in dead : attempts[m] > Limit
  /\ consumer = "exhausted" => attempts[active.id] > Limit

LEMMA BookedByPublishers ==
  ASSUME TransportInv, Booked, Publishing \/ CrashPublishing
  PROVE  Booked'
<1>0. TypeOK /\ Held /\ Contiguous /\ publishing \in [Publishers -> Progress \cup {None}] /\ offered \subseteq Messages
  BY OfferedType DEF TransportInv, TypeOK
<1>1. UNCHANGED <<consumer, active, attempts, dead>> /\ files \subseteq files'
  BY <1>0, StoreMoves
<1>2. \A m : Copied(m) => Copied(m)'
  BY <1>1 DEF Copied
<1>3. (\A m \in dead : attempts[m] > Limit)' /\ (consumer = "exhausted" => attempts[active.id] > Limit)'
  BY <1>1 DEF Booked
<1> SUFFICES /\ \A m \in identities' : Copied(m)'
             /\ \A q \in Publishers : Working(q, "stored")' => Copied(publishing[q].id)'
  BY <1>3 DEF Booked
(* A call that leaves the identities, and stores no file or its own.       *)
<1>4. ASSUME NEW p \in Publishers, identities' = identities, NEW call,
             publishing' = [publishing EXCEPT ![p] = call],
             call # None /\ call.step = "stored" => Copied(call.id)'
      PROVE  /\ \A m \in identities' : Copied(m)'
             /\ \A q \in Publishers : Working(q, "stored")' => Copied(publishing[q].id)'
  <2>1. publishing'[p] = call /\ \A q \in Publishers \ {p} : publishing'[q] = publishing[q]
    BY <1>0, <1>4
  <2>2. ASSUME NEW q \in Publishers, Working(q, "stored")' PROVE Copied(publishing[q].id)'
    <3>1. CASE q = p
      BY <1>4, <2>1, <2>2, <3>1 DEF Working, Copied
    <3>2. CASE q # p
      <4>1. publishing'[q] = publishing[q] /\ Working(q, "stored")
        BY <2>1, <2>2, <3>2 DEF Working
      <4>2. Copied(publishing[q].id)
        BY <4>1 DEF Booked
      <4> QED
        BY <1>1, <4>1, <4>2 DEF Copied
    <3> QED
      BY <3>1, <3>2
  <2> QED
    BY <1>2, <1>4, <2>2 DEF Booked
<1>5. CASE CrashPublishing
  <2>1. PICK p \in Publishers : CrashPublisher(p)
    BY <1>5 DEF CrashPublishing
  <2>2. publishing' = [publishing EXCEPT ![p] = None] /\ identities' = identities
    BY <2>1 DEF CrashPublisher
  <2> QED
    BY <1>4, <2>2
<1>6. CASE Publishing
  <2>1. PICK p \in Publishers :
          \/ \E m \in offered : Draw(p, m) \/ SendCommand(p, m) \/ PublishOutcome(p, m)
          \/ PublishEvent(p) \/ SaveIdentity(p) \/ SaveReceipt(p)
    BY <1>6 DEF Publishing
  <2>2. ASSUME NEW m \in offered, Draw(p, m)
        PROVE  /\ \A i \in identities' : Copied(i)'
               /\ \A q \in Publishers : Working(q, "stored")' => Copied(publishing[q].id)'
    <3>1. /\ publishing' = [publishing EXCEPT ![p] = [step |-> "drawn", id |-> m, sequence |-> NextSequence("event")]]
          /\ identities' = identities
      BY <2>2 DEF Draw
    <3> QED
      BY <1>4, <3>1
  <2>3. ASSUME NEW m \in offered, SendCommand(p, m) \/ PublishOutcome(p, m)
        PROVE  /\ \A i \in identities' : Copied(i)'
               /\ \A q \in Publishers : Working(q, "stored")' => Copied(publishing[q].id)'
    <3>1. CASE m \in identities
      <4>1. publishing' = publishing /\ identities' = identities
        BY <2>3, <3>1 DEF SendCommand, PublishOutcome
      <4> QED
        BY <1>2, <4>1 DEF Booked, Working, Copied
    <3>2. CASE m \notin identities
      <4>1. /\ publishing' = [publishing EXCEPT ![p] =
                 [step |-> "stored", id |-> m, sequence |-> NextSequence("command")]]
            /\ identities' = identities /\ files' = files \cup {Filed(m, NextSequence("command"))}
        BY <2>3, <3>2 DEF SendCommand, PublishOutcome
      <4>2. Filed(m, NextSequence("command")) \in files' /\ Filed(m, NextSequence("command")).id = m
        BY <4>1 DEF Filed
      <4>3. Copied(m)'
        BY <4>2 DEF Copied
      <4> QED
        BY <1>4, <4>1, <4>3
    <3> QED
      BY <3>1, <3>2
  <2>4. CASE PublishEvent(p)
    <3>1. publishing[p] \in Progress /\ publishing[p] # None /\ identities' = identities
      BY <1>0, <2>4 DEF PublishEvent, Working
    <3>2. CASE SequenceTaken(publishing[p].sequence)
      <4>1. publishing' = [publishing EXCEPT ![p] = None]
        BY <2>4, <3>2 DEF PublishEvent
      <4> QED
        BY <1>4, <3>1, <4>1
    <3>3. CASE ~SequenceTaken(publishing[p].sequence)
      <4>1. PICK call : call = [publishing[p] EXCEPT !.step = "stored"]
        OBVIOUS
      <4>2. /\ publishing' = [publishing EXCEPT ![p] = call]
            /\ files' = files \cup {Filed(publishing[p].id, publishing[p].sequence)}
        BY <2>4, <3>3, <4>1 DEF PublishEvent
      <4>3. call.id = publishing[p].id
        BY <3>1, <4>1 DEF Progress
      <4>4. /\ Filed(publishing[p].id, publishing[p].sequence) \in files'
            /\ Filed(publishing[p].id, publishing[p].sequence).id = call.id
        BY <4>2, <4>3 DEF Filed
      <4>5. Copied(call.id)'
        BY <4>4 DEF Copied
      <4> QED
        BY <1>4, <3>1, <4>2, <4>5
    <3> QED
      BY <3>2, <3>3
  <2>5. CASE SaveIdentity(p)
    <3>1. publishing[p] \in Progress /\ Copied(publishing[p].id)
      BY <1>0, <2>5 DEF SaveIdentity, Working, Booked
    <3>2. PICK call : call = [publishing[p] EXCEPT !.step = "identified"]
      OBVIOUS
    <3>3. call.step = "identified"
      BY <3>1, <3>2 DEF Progress
    <3>4. /\ identities' = identities \cup {publishing[p].id} /\ files' = files
          /\ publishing' = [publishing EXCEPT ![p] = None] \/ publishing' = [publishing EXCEPT ![p] = call]
      BY <2>5, <3>2 DEF SaveIdentity
    <3>5. /\ publishing'[p] = None \/ publishing'[p] = call
          /\ \A q \in Publishers \ {p} : publishing'[q] = publishing[q]
      BY <1>0, <3>4
    <3>6. ASSUME NEW q \in Publishers, Working(q, "stored")' PROVE Copied(publishing[q].id)'
      <4>1. publishing'[q] = publishing[q] /\ Working(q, "stored")
        BY <3>3, <3>5, <3>6 DEF Working
      <4> QED
        BY <3>4, <4>1 DEF Booked, Copied
    <3>7. \A m \in identities' : Copied(m)'
      BY <1>2, <3>1, <3>4 DEF Booked
    <3> QED
      BY <3>6, <3>7
  <2>6. CASE SaveReceipt(p)
    <3>1. publishing' = [publishing EXCEPT ![p] = None] /\ identities' = identities
      BY <2>6 DEF SaveReceipt
    <3> QED
      BY <1>4, <3>1
  <2> QED
    BY <2>1, <2>2, <2>3, <2>4, <2>5, <2>6
<1> QED
  BY <1>5, <1>6

LEMMA BookedByConsumer ==
  ASSUME TransportInv, Booked, Consuming \/ CrashConsumer
  PROVE  Booked'
<1>0. /\ TypeOK /\ Held /\ Attending /\ attempts \in [Messages -> Nat] /\ dead \subseteq Messages /\ Limit \in Nat
  BY TransportAssumption DEF TransportInv, TypeOK
<1>1. UNCHANGED <<files, identities, publishing>>
  BY ConsumerLeaves
<1>2. (\A m \in identities : Copied(m))' /\ (\A p \in Publishers : Working(p, "stored") => Copied(publishing[p].id))'
  BY <1>1 DEF Booked, Working, Copied
<1>3. CASE Receive
  <2>1. PICK f \in files :
          /\ active' = f /\ f.id \in Messages /\ attempts' = [attempts EXCEPT ![f.id] = @ + 1]
          /\ consumer' = IF attempts'[f.id] > Limit THEN "exhausted" ELSE "counted"
          /\ UNCHANGED dead
    BY <1>0, <1>3, ReceiveEffect
  <2>2. \A m \in Messages : attempts'[m] = IF m = f.id THEN attempts[m] + 1 ELSE attempts[m]
    BY <1>0, <2>1
  <2>3. \A m \in Messages : attempts[m] > Limit => attempts'[m] > Limit
    BY <1>0, <2>2
  <2>4. \A m \in dead' : attempts'[m] > Limit
    BY <1>0, <2>1, <2>3 DEF Booked
  <2>5. consumer' = "exhausted" => attempts'[active'.id] > Limit
    BY <2>1
  <2> QED
    BY <1>2, <2>4, <2>5 DEF Booked
<1>4. CASE DeadLetter
  BY <1>2, <1>4 DEF DeadLetter, Booked
<1>5. CASE OpenConsumer \/ HandOver \/ SaveCursor \/ SaveProcessed \/ CrashConsumer
  <2>1. dead' = dead /\ attempts' = attempts /\ consumer' # "exhausted"
    BY <1>5 DEF OpenConsumer, HandOver, SaveCursor, SaveProcessed, CrashConsumer
  <2> QED
    BY <1>2, <2>1 DEF Booked
<1> QED
  BY <1>3, <1>4, <1>5 DEF Consuming

LEMMA BookedHolds == Spec => []Booked
<1>1. Init => Booked
  BY DEF Init, Booked, Working
<1>2. TransportInv /\ Booked /\ [Next]_vars => Booked'
  <2>1. ASSUME Booked, UNCHANGED vars PROVE Booked'
    BY <2>1 DEF vars, Booked, Working, Copied
  <2> QED
    BY <2>1, BookedByPublishers, BookedByConsumer DEF Next, CrashPublishing
<1> QED
  BY <1>1, <1>2, TransportInductive, PTL DEF Spec

InHand == IF consumer \in {"handling", "acknowledging"} THEN active.id ELSE None

(* The steps of the queue in the terms of the files.                       *)
LEMMA QueueSteps ==
  /\ Queue!QInit <=>
       /\ Single \in BOOLEAN /\ files = {} /\ returned = {} /\ acknowledged = {} /\ dead = {}
       /\ attempts = [m \in Messages |-> 0] /\ deliveries = [m \in Messages |-> 0] /\ InHand = None
  /\ UNCHANGED <<Single, files, returned, attempts, deliveries, InHand, acknowledged, dead>> => UNCHANGED Queue!qvars
  /\ Queue!Store <=>
       /\ \E e \in files' : files' = files \cup {e} /\ (Single => \A f \in files : f.sequence < e.sequence)
       /\ UNCHANGED <<Single, returned, attempts, deliveries, InHand, acknowledged, dead>>
  /\ Queue!Return <=>
       /\ \E e \in files : returned' = returned \cup {e.id}
       /\ UNCHANGED <<Single, files, attempts, deliveries, InHand, acknowledged, dead>>
  /\ Queue!Try <=>
       /\ \E e \in files : e.id \notin acknowledged /\ attempts' = [attempts EXCEPT ![e.id] = @ + 1]
       /\ InHand' = None
       /\ UNCHANGED <<Single, files, returned, deliveries, acknowledged, dead>>
  /\ Queue!HandOver <=>
       /\ InHand = None
       /\ \E e \in files :
            /\ e.id \notin acknowledged \cup dead
            /\ deliveries[e.id] < attempts[e.id] /\ attempts[e.id] <= Limit
            /\ Single => \A f \in files : f.sequence < e.sequence => Settled(f.id)
            /\ deliveries' = [deliveries EXCEPT ![e.id] = @ + 1] /\ InHand' = e.id
       /\ UNCHANGED <<Single, files, returned, attempts, acknowledged, dead>>
  /\ Queue!Acknowledge <=>
       /\ InHand # None /\ acknowledged' = acknowledged \cup {InHand} /\ InHand' = None
       /\ UNCHANGED <<Single, files, returned, attempts, deliveries, dead>>
  /\ Queue!LetGo <=>
       InHand' = None /\ UNCHANGED <<Single, files, returned, attempts, deliveries, acknowledged, dead>>
  /\ Queue!GiveUp <=>
       /\ InHand = None
       /\ \E e \in files : e.id \notin acknowledged /\ attempts[e.id] > Limit /\ dead' = dead \cup {e.id}
       /\ UNCHANGED <<Single, files, returned, attempts, deliveries, InHand, acknowledged>>
BY DEF Queue!QInit, Queue!qvars, Queue!Store, Queue!Return, Queue!Try, Queue!HandOver, Queue!Seen,
       Queue!Acknowledge, Queue!LetGo, Queue!GiveUp, Single, InHand, Settled

(* A publisher's call stores a message, returns for one that is stored, or *)
(* does nothing the queue shows.                                           *)
LEMMA QueuePublishing ==
  ASSUME TransportInv, Booked, Publishing \/ CrashPublishing
  PROVE  Queue!Store \/ Queue!Return \/ UNCHANGED Queue!qvars
<1>0. TypeOK /\ Held /\ Contiguous
  BY DEF TransportInv
<1>1. UNCHANGED <<offered, consumer, active, attempts, dead, deliveries, acknowledged>>
  BY <1>0, StoreMoves
<1>2. UNCHANGED <<Single, InHand, attempts, deliveries, acknowledged, dead>>
  BY <1>1 DEF Single, InHand
(* What is stored is above all that a subscription of one source has.      *)
<1>3. CASE files' # files
  <2>1. PICK m \in offered, n \in Nat :
          files' = files \cup {Filed(m, n)} /\ \A f \in files : f.source = Source(m) => f.sequence < n
    BY <1>0, <1>3, StoreMoves
  <2>2. Filed(m, n).sequence = n
    BY DEF Filed
  <2>3. Single => \A f \in files : f.sequence < Filed(m, n).sequence
    BY <1>0, <2>1, <2>2 DEF Held, Single
  <2>4. returned' = returned
    <3>1. PICK p \in Publishers :
            \/ \E i \in offered : Draw(p, i) \/ SendCommand(p, i) \/ PublishOutcome(p, i)
            \/ PublishEvent(p) \/ SaveIdentity(p) \/ SaveReceipt(p) \/ CrashPublisher(p)
      BY DEF Publishing, CrashPublishing
    <3> QED
      BY <1>3, <3>1 DEF Draw, SendCommand, PublishOutcome, PublishEvent, SaveIdentity, SaveReceipt, CrashPublisher
  <2>5. Queue!Store
    BY <1>2, <2>1, <2>3, <2>4, QueueSteps
  <2> QED
    BY <2>5
<1>4. CASE files' = files /\ returned' = returned
  BY <1>2, <1>4, QueueSteps
<1>5. CASE files' = files /\ returned' # returned
  <2>1. PICK p \in Publishers :
          \/ \E i \in offered : Draw(p, i) \/ SendCommand(p, i) \/ PublishOutcome(p, i)
          \/ PublishEvent(p) \/ SaveIdentity(p) \/ SaveReceipt(p) \/ CrashPublisher(p)
    BY DEF Publishing, CrashPublishing
  <2>2. CASE \E i \in offered : SendCommand(p, i) \/ PublishOutcome(p, i)
    <3>1. PICK i \in identities : returned' = returned \cup {i}
      BY <1>5, <2>2 DEF SendCommand, PublishOutcome
    <3>2. PICK e \in files : e.id = i
      BY DEF Booked, Copied
    <3>3. \E f \in files : returned' = returned \cup {f.id}
      BY <3>1, <3>2
    <3>4. Queue!Return
      BY <1>2, <1>5, <3>3, QueueSteps
    <3> QED
      BY <3>4
  <2>3. CASE SaveIdentity(p) \/ SaveReceipt(p)
    <3>1. returned' = returned \cup {publishing[p].id} /\ Copied(publishing[p].id)
      BY <1>0, <1>5, <2>3 DEF SaveIdentity, SaveReceipt, Booked, Held
    <3>2. \E f \in files : returned' = returned \cup {f.id}
      BY <3>1 DEF Copied
    <3>3. Queue!Return
      BY <1>2, <1>5, <3>2, QueueSteps
    <3> QED
      BY <3>3
  <2> QED
    BY <1>5, <2>1, <2>2, <2>3 DEF Draw, PublishEvent, CrashPublisher
<1> QED
  BY <1>3, <1>4, <1>5

LEMMA QueueConsuming ==
  ASSUME TransportInv, Booked, Consuming \/ CrashConsumer
  PROVE  Queue!QNext \/ UNCHANGED Queue!qvars
<1>0. TypeOK /\ Held /\ Attending /\ Known /\ Counted
  BY DEF TransportInv
<1>1. UNCHANGED <<files, returned, Single>>
  BY ConsumerLeaves DEF Single
<1>2. active # None => /\ active \in files /\ active.id \notin acknowledged
                       /\ active.id \in Messages /\ active.id # None
  <2>1. active # None => active \in files /\ active.id \notin acknowledged
    BY <1>0 DEF Attending
  <2>2. \A f \in files : f.id \in Messages
    BY <1>0 DEF TypeOK, File
  <2>3. \A m \in Messages : m # None
    BY TransportAssumption
  <2> QED
    BY <2>1, <2>2, <2>3
<1>3. CASE Receive
  <2>1. PICK f \in files :
          /\ f.id \notin processed /\ attempts' = [attempts EXCEPT ![f.id] = @ + 1]
          /\ consumer' = IF attempts'[f.id] > Limit THEN "exhausted" ELSE "counted"
          /\ UNCHANGED <<dead, deliveries, acknowledged>>
    BY <1>0, <1>3, ReceiveEffect
  <2>2. f.id \notin acknowledged
    BY <1>0, <2>1 DEF Attending
  <2>3. InHand' = None
    BY <2>1 DEF InHand
  <2>4. Queue!Try
    BY <1>1, <2>1, <2>2, <2>3, QueueSteps
  <2> QED
    BY <2>4 DEF Queue!QNext
<1>4. CASE HandOver
  <2>1. /\ consumer = "counted" /\ consumer' = "handling" /\ active # None /\ active' = active
        /\ UNCHANGED <<attempts, acknowledged, dead>>
    BY <1>0, <1>4 DEF HandOver, Attending
  <2>2. /\ deliveries[active.id] < attempts[active.id] /\ attempts[active.id] <= Limit
        /\ deliveries' = [deliveries EXCEPT ![active.id] = @ + 1]
    BY <1>0, <1>4, <2>1, HandOverCounts DEF Counted
  <2>3. active.id \notin dead
    <3>1. attempts[active.id] \in Nat /\ Limit \in Nat
      BY <1>2, <2>1, <1>0, TransportAssumption DEF TypeOK
    <3>2. ~(attempts[active.id] > Limit)
      BY <2>2, <3>1
    <3> QED
      BY <3>2 DEF Booked
  <2>4. ASSUME Single, NEW f \in files, f.sequence < active.sequence PROVE Settled(f.id)
    <3>1. active.sequence \in Nat /\ f.sequence \in Nat
      BY <1>0, <1>2, <2>1 DEF TypeOK, File
    <3>2. f.sequence <= active.sequence /\ f.sequence # active.sequence
      BY <2>4, <3>1
    <3>3. f \in files /\ f # active /\ InOrder
      BY <2>4, <3>2 DEF TransportInv
    <3>4. f.id \in processed \/ f.sequence <= Passed(f.source)
      BY <2>1, <3>2, <3>3 DEF InOrder
    <3> QED
      BY <1>0, <3>3, <3>4 DEF InOrder, Known
  <2>5. InHand = None /\ InHand' = active.id
    BY <2>1 DEF InHand
  <2>6. Queue!HandOver
    BY <1>1, <1>2, <2>1, <2>2, <2>3, <2>4, <2>5, QueueSteps
  <2> QED
    BY <2>6 DEF Queue!QNext
<1>5. CASE DeadLetter
  <2>1. /\ consumer = "exhausted" /\ consumer' = "burying" /\ active # None /\ dead' = dead \cup {active.id}
        /\ UNCHANGED <<attempts, deliveries, acknowledged>>
    BY <1>0, <1>5 DEF DeadLetter, Attending
  <2>2. attempts[active.id] > Limit
    BY <2>1 DEF Booked
  <2>3. InHand = None /\ InHand' = None
    BY <2>1 DEF InHand
  <2>4. Queue!GiveUp
    BY <1>1, <1>2, <2>1, <2>2, <2>3, QueueSteps
  <2> QED
    BY <2>4 DEF Queue!QNext
<1>6. CASE SaveProcessed /\ consumer = "acknowledging"
  <2>1. /\ consumer' = "idle" /\ active # None /\ acknowledged' = acknowledged \cup {active.id}
        /\ UNCHANGED <<attempts, deliveries, dead>>
    BY <1>0, <1>6 DEF SaveProcessed, Attending
  <2>2. InHand = active.id /\ InHand # None /\ InHand' = None
    BY <1>2, <1>6, <2>1 DEF InHand
  <2>3. Queue!Acknowledge
    BY <1>1, <2>1, <2>2, QueueSteps
  <2> QED
    BY <2>3 DEF Queue!QNext
<1>7. CASE CrashConsumer
  <2>1. consumer' = "closed" /\ UNCHANGED <<attempts, deliveries, acknowledged, dead>>
    BY <1>7 DEF CrashConsumer
  <2>2. InHand' = None
    BY <2>1 DEF InHand
  <2>3. Queue!LetGo
    BY <1>1, <2>1, <2>2, QueueSteps
  <2> QED
    BY <2>3 DEF Queue!QNext
<1>8. CASE OpenConsumer \/ SaveCursor \/ (SaveProcessed /\ consumer # "acknowledging")
  <2>1. UNCHANGED <<attempts, deliveries, acknowledged, dead>>
    BY <1>8 DEF OpenConsumer, SaveCursor, SaveProcessed
  <2>2. InHand' = InHand
    BY <1>8 DEF OpenConsumer, SaveCursor, SaveProcessed, InHand
  <2> QED
    BY <1>1, <2>1, <2>2, QueueSteps
<1> QED
  BY <1>3, <1>4, <1>5, <1>6, <1>7, <1>8 DEF Consuming

FollowsQueue == [Queue!QNext]_(Queue!qvars)

LEMMA QueueStep == TransportInv /\ Booked /\ [Next]_vars => FollowsQueue
<1> SUFFICES ASSUME TransportInv, Booked, [Next]_vars PROVE FollowsQueue
  OBVIOUS
<1>1. CASE Publishing \/ CrashPublishing
  BY <1>1, QueuePublishing DEF FollowsQueue, Queue!QNext
<1>2. CASE Consuming \/ CrashConsumer
  BY <1>2, QueueConsuming DEF FollowsQueue
<1>3. CASE UNCHANGED vars
  <2>1. UNCHANGED <<Single, files, returned, attempts, deliveries, InHand, acknowledged, dead>>
    BY <1>3 DEF vars, Single, InHand
  <2> QED
    BY <2>1, QueueSteps DEF FollowsQueue
<1> QED
  BY <1>1, <1>2, <1>3 DEF Next, CrashPublishing

(* The directories and the consumer's three files implement the queue,     *)
(* whichever process crashes between any two writes: a message stays in    *)
(* it until it is acknowledged or given up, and with one source they come  *)
(* in the order of their sequences.                                        *)
THEOREM TransportImplementsQueue == Spec => ImplementsQueue
<1>1. Init => Queue!QInit
  <2>1. Init => InHand = None /\ Single \in BOOLEAN
    BY DEF Init, InHand, Single
  <2> QED
    BY <2>1, QueueSteps DEF Init
<1> QED
  BY <1>1, QueueStep, TransportInductive, BookedHolds, PTL DEF Spec, ImplementsQueue, Queue!QSpec, FollowsQueue
=============================================================================
