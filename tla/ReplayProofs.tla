---------------------------- MODULE ReplayProofs ----------------------------
(***************************************************************************)
(* Proofs about strict replay: what a manifest says of its log, what is    *)
(* dispatched and in which order, which version the handlers see, and that *)
(* two runs of one manifest return the same, for any input log that grows  *)
(* or is replaced meanwhile, any number of manifests, runs, failures,      *)
(* restarts and edits of the source.                                       *)
(***************************************************************************)
EXTENDS Replay, RuntimeProofs, DataLemmas

(* What is true of a manifest that was made.                               *)
GoodManifest(m) ==
  /\ m.prefix \in Seq(Transaction)
  /\ Len(m.prefix) = m.through
  /\ m.watermark = WatermarkAt(m.prefix, m.through)
  /\ m.logical \in Manifest

(* The input log holds transactions; what build_replay_manifest has read   *)
(* of it so far is still true of it.                                       *)
InputInv ==
  /\ input \in Seq(Transaction)
  /\ source \in Version
  /\ building # NoBuild =>
       /\ DOMAIN building = {"through", "watermark"}
       /\ building.through \in 0..Len(input)
       /\ building.watermark # NoBuild =>
            building.watermark = WatermarkAt(input, building.through)
  /\ \A m \in manifests : GoodManifest(m)

(* What a run has verified holds as long as it is in progress.             *)
StageInv ==
  /\ stage \in {"idle", "watermark", "fingerprint", "decode", "dispatch"}
  /\ stage # "idle" => replayed \in manifests /\ versions = replayed.version
  /\ stage \in {"fingerprint", "decode"} => replayed.through <= Len(input)
  /\ stage = "decode" => Prefix(replayed.through) = replayed.prefix
  /\ stage # "dispatch" => phase = "idle" /\ queue = << >> /\ outputs = << >>

Messages == MessagesIn(replayed.prefix)

Outcome(i) == outputs[i].execution.message

(* What is still to dispatch is in order, ...                              *)
QueueInv ==
  /\ IsList(queue) /\ Messages \subseteq Message
  /\ \A i \in DOMAIN queue : queue[i] \in Messages
  /\ \A i, j \in DOMAIN queue : i < j => queue[i].seqNo < queue[j].seqNo

(* ... what was handled comes before it, ...                               *)
OutputsInv ==
  /\ IsList(outputs)
  /\ \A i \in DOMAIN outputs :
       /\ Outcome(i) \in Messages
       /\ \A j \in DOMAIN queue : Outcome(i).seqNo < queue[j].seqNo
  /\ \A i, j \in DOMAIN outputs : i < j => Outcome(i).seqNo <= Outcome(j).seqNo

(* ... nothing was left out, ...                                           *)
CoverInv ==
  \A m \in Messages :
    \/ \E i \in DOMAIN queue : queue[i] = m
    \/ \E i \in DOMAIN outputs : Outcome(i) = m
    \/ HandlersFor(m) = {}

(* ... and the runtime works on the first of it.                           *)
HeadInv ==
  phase # "idle" =>
    /\ queue # << >> /\ message = queue[1] /\ manifest = replayed.logical
    /\ \A i \in DOMAIN results : results[i].message = message

DispatchedInv == stage = "dispatch" => QueueInv /\ OutputsInv /\ CoverInv /\ HeadInv

(* Whatever is kept of an execution was made by this runtime.              *)
VersionInv ==
  /\ \A k \in DOMAIN cache : cache[k].context.versions = versions
  /\ phase = "finish" => try.context.versions = versions
  /\ \A i \in DOMAIN results : results[i].context.versions = versions
  /\ stage = "dispatch" =>
       \A i \in DOMAIN outputs : outputs[i].execution.context.versions = versions

RunsInv ==
  \A r \in runs :
    /\ \A i \in DOMAIN r.outputs :
         /\ r.outputs[i].execution.context.versions = r.manifest.version
         /\ r.outputs[i].execution.message \in MessagesIn(r.manifest.prefix)
    /\ \A i, j \in DOMAIN r.outputs :
         i < j => r.outputs[i].execution.message.seqNo <= r.outputs[j].execution.message.seqNo

-----------------------------------------------------------------------------
(* Messages that can be put in order: there are finitely many, and no two  *)
(* have the same sequence number.                                          *)
Sequenced(messages) ==
  /\ IsFiniteSet(messages)
  /\ \A m \in messages : m.seqNo \in Nat
  /\ \A m, n \in messages : m.seqNo = n.seqNo => m = n

Earlier(messages, m) == {n \in messages : n.seqNo < m.seqNo}

Place(messages, m) == Cardinality(Earlier(messages, m))

(* The place of a message is how many come before it; the places are the   *)
(* numbers from 0.                                                         *)
LEMMA PlaceFacts ==
  ASSUME NEW messages, Sequenced(messages)
  PROVE  /\ Cardinality(messages) \in Nat
         /\ \A m \in messages : Place(messages, m) \in 0..(Cardinality(messages) - 1)
         /\ \A m, n \in messages :
              m.seqNo < n.seqNo => Place(messages, m) < Place(messages, n)
<1>1. Cardinality(messages) \in Nat
  BY FS_CardinalityType DEF Sequenced
<1>2. ASSUME NEW m \in messages
      PROVE  IsFiniteSet(Earlier(messages, m)) /\ Place(messages, m) \in 0..(Cardinality(messages) - 1)
  <2>1. Earlier(messages, m) \in SUBSET (messages \ {m})
    BY DEF Earlier, Sequenced
  <2>2. IsFiniteSet(messages \ {m}) /\ Cardinality(messages \ {m}) = Cardinality(messages) - 1
    BY FS_RemoveElement DEF Sequenced
  <2>3. /\ IsFiniteSet(Earlier(messages, m))
        /\ Cardinality(Earlier(messages, m)) <= Cardinality(messages) - 1
    BY <2>1, <2>2, FS_Subset
  <2>4. Cardinality(Earlier(messages, m)) \in Nat
    BY <2>3, FS_CardinalityType
  <2> QED
    BY <1>1, <2>3, <2>4 DEF Place
<1>3. ASSUME NEW m \in messages, NEW n \in messages, m.seqNo < n.seqNo
      PROVE  Place(messages, m) < Place(messages, n)
  <2>1. m.seqNo \in Nat /\ n.seqNo \in Nat /\ \A x \in messages : x.seqNo \in Nat
    BY DEF Sequenced
  <2>2. Earlier(messages, m) \in SUBSET Earlier(messages, n)
    BY <1>3, <2>1 DEF Earlier
  <2>3. m \in Earlier(messages, n) /\ m \notin Earlier(messages, m)
    BY <1>3, <2>1 DEF Earlier
  <2>4. /\ Cardinality(Earlier(messages, m)) <= Cardinality(Earlier(messages, n))
        /\ Cardinality(Earlier(messages, m)) # Cardinality(Earlier(messages, n))
    BY <1>2, <2>2, <2>3, FS_Subset
  <2>5. Place(messages, m) \in Nat /\ Place(messages, n) \in Nat
    BY <1>1, <1>2
  <2> QED
    BY <2>4, <2>5 DEF Place
<1> QED
  BY <1>1, <1>2, <1>3

(* Every place is taken.                                                   *)
LEMMA PlacesTaken ==
  ASSUME NEW messages, Sequenced(messages), NEW i \in 1..Cardinality(messages)
  PROVE  \E m \in messages : Place(messages, m) = i - 1
<1> DEFINE N == Cardinality(messages)
           places == 0..(N - 1)
           place == [m \in messages |-> Place(messages, m)]
<1>1. N \in Nat /\ \A m \in messages : Place(messages, m) \in places
  BY PlaceFacts
<1>2. \A m, n \in messages : Place(messages, m) = Place(messages, n) => m = n
  <2> SUFFICES ASSUME NEW m \in messages, NEW n \in messages, m.seqNo # n.seqNo
               PROVE  Place(messages, m) # Place(messages, n)
    BY DEF Sequenced
  <2>1. m.seqNo < n.seqNo \/ n.seqNo < m.seqNo
    BY DEF Sequenced
  <2>2. Place(messages, m) < Place(messages, n) \/ Place(messages, n) < Place(messages, m)
    BY <2>1, PlaceFacts
  <2>3. Place(messages, m) \in Int /\ Place(messages, n) \in Int
    BY <1>1
  <2> QED
    BY <2>2, <2>3
<1>3. place \in Injection(messages, places)
  <2>1. place \in [messages -> places]
    BY <1>1
  <2>2. \A m, n \in messages : place[m] = place[n] => m = n
    BY <1>2
  <2> HIDE DEF place, places
  <2> QED
    BY <2>1, <2>2 DEF Injection, IsInjective
<1>4. IsFiniteSet(places) /\ Cardinality(places) = N
  <2>1. 0 \in Int /\ N - 1 \in Int
    BY <1>1
  <2>2. IsFiniteSet(0..(N - 1)) /\ Cardinality(0..(N - 1)) = IF 0 > N - 1 THEN 0 ELSE (N - 1) - 0 + 1
    BY <2>1, FS_Interval
  <2> QED
    BY <1>1, <2>2
<1>5. place \in Surjection(messages, places)
  <2> HIDE DEF place, places
  <2> QED
    BY <1>3, <1>4, FS_Injection
<1>6. i - 1 \in places
  BY <1>1
<1>7. PICK m \in messages : place[m] = i - 1
  <2> HIDE DEF place, places
  <2> QED
    BY <1>5, <1>6 DEF Surjection
<1>8. place[m] = Place(messages, m)
  OBVIOUS
<1> QED
  BY <1>7, <1>8

(* Sorting by the sequence number: all of the messages, in order.          *)
LEMMA OrderedFacts ==
  ASSUME NEW messages, Sequenced(messages)
  PROVE  /\ IsList(Ordered(messages))
         /\ \A i \in DOMAIN Ordered(messages) : Ordered(messages)[i] \in messages
         /\ \A m \in messages : \E i \in DOMAIN Ordered(messages) : Ordered(messages)[i] = m
         /\ \A i, j \in DOMAIN Ordered(messages) :
              i < j => Ordered(messages)[i].seqNo < Ordered(messages)[j].seqNo
<1> DEFINE N == Cardinality(messages)
           q == Ordered(messages)
           pick(i) == CHOOSE m \in messages : Cardinality({n \in messages : n.seqNo < m.seqNo}) = i - 1
<1>1. N \in Nat
  BY PlaceFacts
<1>2. DOMAIN q = 1..N /\ q = [i \in 1..N |-> q[i]]
  <2>1. q = [i \in 1..N |-> pick(i)]
    BY DEF Ordered
  <2> HIDE DEF pick, q, N
  <2> QED
    BY <2>1
<1>3. ASSUME NEW i \in 1..N
      PROVE  q[i] \in messages /\ Place(messages, q[i]) = i - 1
  <2>1. \E m \in messages : Place(messages, m) = i - 1
    BY PlacesTaken
  <2>2. q[i] = CHOOSE m \in messages : Place(messages, m) = i - 1
    BY DEF Ordered, Place, Earlier
  <2> HIDE DEF q
  <2> QED
    BY <2>1, <2>2
<1> HIDE DEF q
<1>4. IsList(q)
  BY <1>1, <1>2, FunctionIsList
<1>5. ASSUME NEW i \in 1..N, NEW j \in 1..N, i < j
      PROVE  q[i].seqNo < q[j].seqNo
  <2>1. q[i].seqNo \in Nat /\ q[j].seqNo \in Nat
    BY <1>3 DEF Sequenced
  <2>2. CASE q[i].seqNo = q[j].seqNo
    <3>1. q[i] = q[j]
      BY <1>3, <2>2 DEF Sequenced
    <3>2. i - 1 = j - 1
      BY <1>3, <3>1
    <3> QED
      BY <1>5, <3>2
  <2>3. CASE q[j].seqNo < q[i].seqNo
    <3>1. Place(messages, q[j]) < Place(messages, q[i])
      BY <1>3, <2>3, PlaceFacts
    <3> QED
      BY <1>3, <1>5, <3>1
  <2> QED
    BY <2>1, <2>2, <2>3
<1>6. ASSUME NEW m \in messages PROVE \E i \in 1..N : q[i] = m
  <2> DEFINE i == Place(messages, m) + 1
  <2>1. i \in 1..N /\ Place(messages, m) \in Int
    BY <1>1, PlaceFacts
  <2>2. q[i] \in messages /\ Place(messages, q[i]) = Place(messages, m)
    BY <1>3, <2>1
  <2>3. q[i].seqNo = m.seqNo
    <3>1. ~(q[i].seqNo < m.seqNo) /\ ~(m.seqNo < q[i].seqNo)
      BY <2>1, <2>2, PlaceFacts
    <3> QED
      BY <2>2, <3>1 DEF Sequenced
  <2>4. q[i] = m
    BY <2>2, <2>3 DEF Sequenced
  <2> QED
    BY <2>1, <2>4
<1> QED
  BY <1>2, <1>3, <1>4, <1>5, <1>6 DEF q

-----------------------------------------------------------------------------
(* The first of a list, and the others.                                    *)
LEMMA HeadAndTail ==
  ASSUME NEW s, IsList(s), s # << >>
  PROVE  /\ Head(s) = s[1] /\ 1 \in DOMAIN s /\ IsList(Tail(s))
         /\ DOMAIN Tail(s) = 1..(Len(s) - 1)
         /\ \A i \in 1..(Len(s) - 1) : Tail(s)[i] = s[i + 1]
         /\ Len(s) \in Nat \ {0} /\ DOMAIN s = 1..Len(s)
<1>1. PICK S : s \in Seq(S)
  BY DEF IsList
<1>2. Len(s) \in Nat \ {0} /\ DOMAIN s = 1..Len(s)
  BY <1>1
<1>3. Tail(s) \in Seq(S) /\ Len(Tail(s)) = Len(s) - 1
  BY <1>1
<1>4. \A i \in 1..(Len(s) - 1) : Tail(s)[i] = s[i + 1]
  BY <1>1
<1> QED
  BY <1>1, <1>2, <1>3, <1>4 DEF IsList

(* There are finitely many records in a log, and so finitely many messages. *)
LEMMA RecordsFinite ==
  ASSUME NEW txs \in Seq(Transaction)
  PROVE  /\ RecordsIn(txs) \subseteq Record
         /\ IsFiniteSet(RecordsIn(txs)) /\ IsFiniteSet(MessagesIn(txs))
<1> DEFINE held == [i \in DOMAIN txs |-> {txs[i].records[j] : j \in DOMAIN txs[i].records}]
           T == {held[i] : i \in DOMAIN txs}
           body == [r \in RecordsIn(txs) |-> r.body]
<1>1. RecordsIn(txs) = UNION T
  BY DEF RecordsIn
<1>2. \A i \in DOMAIN txs : txs[i].records \in Seq(Record)
  <2> SUFFICES ASSUME NEW i \in DOMAIN txs PROVE txs[i].records \in Seq(Record)
    OBVIOUS
  <2>1. txs[i] \in Transaction
    OBVIOUS
  <2> QED
    BY <2>1 DEF Transaction, Batch
<1>3. \A i \in DOMAIN txs : held[i] \subseteq Record
  BY <1>2
<1>4. ASSUME NEW i \in DOMAIN txs PROVE IsFiniteSet(held[i])
  <2>1. DOMAIN txs[i].records = 1..Len(txs[i].records) /\ Len(txs[i].records) \in Nat
    BY <1>2
  <2>2. IsFiniteSet(DOMAIN txs[i].records)
    <3>1. 1 \in Int /\ Len(txs[i].records) \in Int
      BY <2>1
    <3> QED
      BY <2>1, <3>1, FS_Interval
  <2>3. IsFiniteSet({txs[i].records[j] : j \in DOMAIN txs[i].records})
    BY <2>2, ImageIsFinite
  <2>4. held[i] = {txs[i].records[j] : j \in DOMAIN txs[i].records}
    OBVIOUS
  <2> QED
    BY <2>3, <2>4
<1>5. IsFiniteSet(DOMAIN txs)
  <2>1. DOMAIN txs = 1..Len(txs) /\ 1 \in Int /\ Len(txs) \in Int
    OBVIOUS
  <2> QED
    BY <2>1, FS_Interval
<1> HIDE DEF held
<1>6. IsFiniteSet(T)
  BY <1>5, ImageIsFinite
<1>7. IsFiniteSet(UNION T)
  <2>1. \A U \in T : IsFiniteSet(U)
    BY <1>4
  <2> HIDE DEF T
  <2> QED
    BY <1>6, <2>1, FS_UNION
<1>8. IsFiniteSet({body[r] : r \in RecordsIn(txs)})
  <2> HIDE DEF body
  <2> QED
    BY <1>1, <1>7, ImageIsFinite
<1>9. {body[r] : r \in RecordsIn(txs)} = MessagesIn(txs)
  BY DEF MessagesIn
<1> QED
  BY <1>1, <1>3, <1>7, <1>8, <1>9

(* Logs that begin alike have the same watermarks.                         *)
LEMMA WatermarkOfPrefix ==
  ASSUME NEW txs, NEW others, NEW n \in Nat, \A i \in 1..n : txs[i] = others[i]
  PROVE  WatermarkAt(txs, n) = WatermarkAt(others, n)
<1>1. CASE n = 0
  BY <1>1 DEF WatermarkAt
<1>2. CASE n # 0
  <2>1. n \in 1..n
    BY <1>2
  <2>2. \A s : PlacesOf(s, txs, n) = PlacesOf(s, others, n)
    BY DEF PlacesOf
  <2>3. LocalSeqAt(txs, n) = LocalSeqAt(others, n)
    BY <2>2 DEF LocalSeqAt
  <2> QED
    BY <1>2, <2>1, <2>3 DEF WatermarkAt
<1> QED
  BY <1>1, <1>2

(* A prefix is the beginning of a log, and stays so while the log grows.   *)
LEMMA PrefixFacts ==
  ASSUME NEW txs \in Seq(Transaction), NEW n \in 0..Len(txs)
  PROVE  /\ SubSeq(txs, 1, n) \in Seq(Transaction) /\ Len(SubSeq(txs, 1, n)) = n
         /\ \A i \in 1..n : SubSeq(txs, 1, n)[i] = txs[i]
         /\ WatermarkAt(SubSeq(txs, 1, n), n) = WatermarkAt(txs, n)
         /\ \A tx \in Transaction :
              /\ SubSeq(Append(txs, tx), 1, n) = SubSeq(txs, 1, n)
              /\ WatermarkAt(Append(txs, tx), n) = WatermarkAt(txs, n)
<1>0. IsList(txs) /\ Len(txs) \in Nat /\ n \in Nat
  BY DEF IsList
<1>1. /\ IsList(SubSeq(txs, 1, n)) /\ Len(SubSeq(txs, 1, n)) = n
      /\ \A i \in 1..n : SubSeq(txs, 1, n)[i] = txs[i]
  BY <1>0, FirstFacts
<1>2. SubSeq(txs, 1, n) \in Seq(Transaction)
  OBVIOUS
<1>3. WatermarkAt(SubSeq(txs, 1, n), n) = WatermarkAt(txs, n)
  BY <1>0, <1>1, WatermarkOfPrefix
<1>4. ASSUME NEW tx \in Transaction
      PROVE  /\ SubSeq(Append(txs, tx), 1, n) = SubSeq(txs, 1, n)
             /\ WatermarkAt(Append(txs, tx), n) = WatermarkAt(txs, n)
  <2>1. /\ IsList(Append(txs, tx)) /\ Len(Append(txs, tx)) = Len(txs) + 1
        /\ \A i \in 1..Len(txs) : Append(txs, tx)[i] = txs[i]
    BY <1>0, AppendFacts
  <2>2. /\ n \in 0..Len(Append(txs, tx))
        /\ \A i \in 1..n : Append(txs, tx)[i] = txs[i]
    BY <1>0, <2>1
  <2>3. /\ IsList(SubSeq(Append(txs, tx), 1, n)) /\ Len(SubSeq(Append(txs, tx), 1, n)) = n
        /\ \A i \in 1..n : SubSeq(Append(txs, tx), 1, n)[i] = Append(txs, tx)[i]
    BY <2>1, <2>2, FirstFacts
  <2>4. SubSeq(Append(txs, tx), 1, n) = SubSeq(txs, 1, n)
    BY <1>1, <2>2, <2>3, ListsEqual
  <2> QED
    BY <1>0, <2>2, <2>4, WatermarkOfPrefix
<1> QED
  BY <1>1, <1>2, <1>3, <1>4

-----------------------------------------------------------------------------
(* What is appended to the input log is a transaction.                     *)
LEMMA FedIsTransaction ==
  ASSUME NEW feed \in Feed, ValidBatch(feed.records), NEW n \in Nat
  PROVE  CommittedTransaction(n, feed.records, feed.key, feed.at) \in Transaction
<1>1. feed.records \in Seq(Record) /\ feed.key \in Key /\ feed.at \in Time
  BY FeedAssumption DEF Batch
<1>2. feed.records # << >>
  BY DEF ValidBatch
<1>3. feed.records[1] \in Record
  BY <1>1, <1>2
<1> QED
  BY <1>1, <1>3 DEF CommittedTransaction, Transaction, Batch

(* The input log grows: what was read of it is still true.                 *)
LEMMA InputCommitIsSafe ==
  ASSUME InputInv, StageInv, NEW feed \in Feed, InputCommit(feed)
  PROVE  InputInv' /\ StageInv'
<1> DEFINE tx == CommittedTransaction(Len(input) + 1, feed.records, feed.key, feed.at)
<1>1. /\ input' = Append(input, tx) /\ UNCHANGED <<source, building, manifests>>
      /\ UNCHANGED <<versions, phase, stage, replayed, queue, outputs>>
  BY DEF InputCommit, runtime, vars, process, run
<1>2. input \in Seq(Transaction) /\ Len(input) \in Nat /\ tx \in Transaction
  BY FedIsTransaction DEF InputCommit, InputInv
<1> HIDE DEF tx
<1>3. input' \in Seq(Transaction) /\ Len(input') = Len(input) + 1
  BY <1>1, <1>2
<1>4. \A n \in 0..Len(input) : /\ n \in 0..Len(input')
                               /\ SubSeq(input', 1, n) = SubSeq(input, 1, n)
                               /\ WatermarkAt(input', n) = WatermarkAt(input, n)
  BY <1>1, <1>2, <1>3, PrefixFacts
<1>5. InputInv'
  BY <1>1, <1>3, <1>4 DEF InputInv
<1>6. stage \in {"fingerprint", "decode"} => replayed.through \in 0..Len(input)
  BY <1>2 DEF StageInv, InputInv, GoodManifest
<1>7. StageInv'
  BY <1>1, <1>2, <1>3, <1>4, <1>6 DEF StageInv, Prefix
<1> QED
  BY <1>5, <1>7

(* An older log is only loaded while nobody is reading.                    *)
LEMMA InputReloadIsSafe ==
  ASSUME InputInv, StageInv, NEW n \in 0..Len(input), InputReload(n)
  PROVE  InputInv' /\ StageInv'
<1>1. /\ input' = SubSeq(input, 1, n) /\ UNCHANGED <<source, building, manifests>>
      /\ UNCHANGED <<versions, phase, stage, replayed, queue, outputs>>
      /\ stage = "idle" /\ building = NoBuild
  BY DEF InputReload, runtime, vars, process, run
<1>2. input' \in Seq(Transaction)
  BY <1>1 DEF InputInv
<1> QED
  BY <1>1, <1>2 DEF InputInv, StageInv

(* A manifest is made in three steps.                                      *)
LEMMA BuildingIsSafe ==
  ASSUME InputInv, StageInv,
         \/ \E n \in 0..Len(input) : BeginManifest(n)
         \/ ReadWatermark
         \/ \E logical \in Logical, v \in Version, schemaVersion \in SchemaVersion :
              EndManifest(logical, v, schemaVersion)
  PROVE  InputInv' /\ StageInv'
<1>1. UNCHANGED <<input, source, versions, phase, stage, replayed, queue, outputs>>
  BY DEF BeginManifest, ReadWatermark, EndManifest, runtime, vars, process, run
<1>2. ASSUME NEW n \in 0..Len(input), BeginManifest(n) PROVE InputInv' /\ StageInv'
  <2>1. building' = [through |-> n, watermark |-> NoBuild] /\ UNCHANGED manifests
    BY <1>2 DEF BeginManifest
  <2>2. /\ DOMAIN building' = {"through", "watermark"} /\ building'.through = n
        /\ building'.watermark = NoBuild
    BY <2>1
  <2> QED
    BY <1>1, <2>1, <2>2 DEF InputInv, StageInv, Prefix
<1>3. ASSUME ReadWatermark PROVE InputInv' /\ StageInv'
  <2>1. /\ building # NoBuild /\ UNCHANGED manifests
        /\ building' = [building EXCEPT !.watermark = WatermarkAt(input, building.through)]
    BY <1>3 DEF ReadWatermark
  <2>2. /\ DOMAIN building' = {"through", "watermark"} /\ building'.through = building.through
        /\ building'.watermark = WatermarkAt(input, building.through)
        /\ building.through \in 0..Len(input)
    BY <2>1 DEF InputInv
  <2> QED
    BY <1>1, <2>1, <2>2 DEF InputInv, StageInv, Prefix
<1>4. ASSUME NEW logical \in Logical, NEW v \in Version, NEW schemaVersion \in SchemaVersion,
             EndManifest(logical, v, schemaVersion)
      PROVE  InputInv' /\ StageInv'
  <2> DEFINE m == [watermark |-> building.watermark, through |-> building.through,
                   prefix |-> Fingerprint, version |-> v, schemaVersion |-> schemaVersion,
                   logical |-> logical]
  <2>1. /\ building # NoBuild /\ building.watermark # NoBuild /\ building' = NoBuild
        /\ manifests' = manifests \cup {m}
    BY <1>4 DEF EndManifest
  <2>2. /\ building.through \in 0..Len(input) /\ input \in Seq(Transaction)
        /\ building.watermark = WatermarkAt(input, building.through)
    BY <2>1 DEF InputInv
  <2>3. /\ Fingerprint \in Seq(Transaction) /\ Len(Fingerprint) = building.through
        /\ WatermarkAt(Fingerprint, building.through) = WatermarkAt(input, building.through)
    BY <2>2, PrefixFacts DEF Fingerprint, Prefix
  <2>4. GoodManifest(m)
    BY <2>2, <2>3, LogicalAssumption DEF GoodManifest
  <2> HIDE DEF m
  <2> QED
    BY <1>1, <2>1, <2>4 DEF InputInv, StageInv, Prefix
<1> QED
  BY <1>2, <1>3, <1>4

(* Who neither reads nor writes the input log or a manifest keeps them     *)
(* true; so does an edit of the source, and a new runtime.                 *)
LEMMA InputStays ==
  ASSUME InputInv, UNCHANGED <<input, manifests>>, source' \in Version,
         building' \in {building, NoBuild}
  PROVE  InputInv'
BY DEF InputInv

(* run goes from one check to the next, or raises.                         *)
LEMMA VerifyingIsSafe ==
  ASSUME InputInv, StageInv,
         \/ \E m \in manifests : StartReplay(m)
         \/ VerifyWatermark \/ VerifyFingerprint \/ Decode \/ EndReplay
         \/ \E v \in Version : EditSource(v)
  PROVE  InputInv' /\ StageInv'
<1>1. UNCHANGED <<input, building, manifests, versions, phase>>
  BY DEF StartReplay, VerifyWatermark, VerifyFingerprint, Decode, EndReplay, EditSource,
     runtime, vars, process, inputs
<1>2. source' \in Version
  BY DEF StartReplay, VerifyWatermark, VerifyFingerprint, Decode, EndReplay, EditSource,
     inputs, InputInv
<1>3. InputInv'
  BY <1>1, <1>2, InputStays
<1>4. CASE Abandon /\ phase = "idle"
  BY <1>1, <1>3, <1>4 DEF Abandon, StageInv
<1>5. ASSUME NEW m \in manifests, StartReplay(m) PROVE StageInv'
  BY <1>1, <1>5 DEF StartReplay, VersionsMatch, StageInv
<1>6. CASE VerifyWatermark
  BY <1>1, <1>3, <1>4, <1>6 DEF VerifyWatermark, StageInv
<1>7. CASE VerifyFingerprint
  BY <1>1, <1>3, <1>4, <1>7 DEF VerifyFingerprint, FingerprintMatches, StageInv, Prefix
<1>8. CASE Decode
  BY <1>1, <1>3, <1>4, <1>8 DEF Decode, StageInv
<1>9. CASE EndReplay
  BY <1>1, <1>4, <1>9 DEF EndReplay
<1>10. ASSUME NEW v \in Version, EditSource(v) PROVE StageInv'
  BY <1>1, <1>10 DEF EditSource, run, StageInv, Prefix
<1> QED
  BY <1>3, <1>5, <1>6, <1>7, <1>8, <1>9, <1>10

-----------------------------------------------------------------------------
(* What the dispatch of a replay does not touch it does not disturb.       *)
LEMMA RunStays ==
  ASSUME DispatchedInv, VersionInv, RunsInv,
         UNCHANGED <<stage, replayed, queue, outputs, phase, message, manifest, results,
                     registered, cache, versions, try, runs>>
  PROVE  DispatchedInv' /\ VersionInv' /\ RunsInv'
<1>1. \A m : HandlersFor(m)' = HandlersFor(m)
  BY DEF HandlersFor
<1>2. DispatchedInv'
  BY <1>1 DEF DispatchedInv, QueueInv, OutputsInv, CoverInv, HeadInv, Messages, Outcome
<1> QED
  BY <1>2 DEF VersionInv, RunsInv

(* A run that is not dispatching has nothing to lose.                      *)
LEMMA OutsideDispatch ==
  ASSUME VersionInv, RunsInv, stage' # "dispatch", UNCHANGED runs,
         \/ UNCHANGED <<cache, versions, phase, try, results>>
         \/ /\ phase' = "idle" /\ results' = << >>
            /\ (UNCHANGED <<cache, versions>> \/ DOMAIN cache' = {})
  PROVE  DispatchedInv' /\ VersionInv' /\ RunsInv'
<1>1. DOMAIN << >> = {}
  OBVIOUS
<1> QED
  BY <1>1 DEF DispatchedInv, VersionInv, RunsInv

(* The messages of a prefix that can be decoded can be put in order.       *)
LEMMA DecodedMessages ==
  ASSUME NEW txs \in Seq(Transaction), NEW schemaVersion,
         \A r \in RecordsIn(txs) : Decodable(r, schemaVersion), Unique(RecordsIn(txs))
  PROVE  Sequenced(MessagesIn(txs)) /\ MessagesIn(txs) \subseteq Message
<1>1. IsFiniteSet(MessagesIn(txs))
  BY RecordsFinite
<1>2. \A m \in MessagesIn(txs) : \E r \in RecordsIn(txs) : m = r.body
  BY DEF MessagesIn
<1>3. MessagesIn(txs) \subseteq Message
  BY <1>2 DEF Decodable
<1>4. \A m \in MessagesIn(txs) : m.seqNo \in Nat
  BY <1>3, MessageAssumption
<1>5. \A m, n \in MessagesIn(txs) : m.seqNo = n.seqNo => m = n
  BY <1>2 DEF Unique
<1> QED
  BY <1>1, <1>3, <1>4, <1>5 DEF Sequenced

(* What is dispatched is all of the prefix, in order.                      *)
LEMMA DecodeIsSafe ==
  ASSUME InputInv, StageInv, VersionInv, RunsInv, Decode
  PROVE  DispatchedInv' /\ VersionInv' /\ RunsInv'
<1>1. UNCHANGED <<cache, versions, try, runs, phase, results, registered>> /\ stage = "decode"
      /\ phase = "idle"
  BY DEF Decode, runtime, vars, process, progress, StageInv
<1>2. CASE Abandon
  BY <1>1, <1>2, OutsideDispatch DEF Abandon
<1>3. CASE ~Abandon
  <2>1. /\ \A r \in RecordsIn(ReadInput) : Decodable(r, replayed.schemaVersion)
        /\ Unique(RecordsIn(ReadInput))
        /\ stage' = "dispatch" /\ queue' = Ordered(MessagesIn(ReadInput))
        /\ UNCHANGED <<replayed, outputs>>
    BY <1>3 DEF Decode
  <2>2. /\ ReadInput = replayed.prefix /\ replayed.prefix \in Seq(Transaction)
        /\ outputs = << >>
    BY <1>1 DEF ReadInput, StageInv, InputInv, GoodManifest
  <2>3. Sequenced(Messages) /\ Messages \subseteq Message
    BY <2>1, <2>2, DecodedMessages DEF Messages
  <2>4. queue' = Ordered(Messages) /\ Messages' = Messages
    BY <2>1, <2>2 DEF Messages
  <2>5. QueueInv'
    BY <2>3, <2>4, OrderedFacts DEF QueueInv
  <2>6. OutputsInv'
    BY <2>1, <2>2, EmptyList DEF OutputsInv
  <2>7. CoverInv'
    BY <2>3, <2>4, OrderedFacts DEF CoverInv
  <2>8. DispatchedInv'
    BY <1>1, <2>5, <2>6, <2>7 DEF DispatchedInv, HeadInv
  <2> QED
    BY <1>1, <2>1, <2>2, <2>8 DEF VersionInv, RunsInv
<1> QED
  BY <1>2, <1>3

(* What a run returns is what its manifest declares.                       *)
LEMMA EndReplayIsSafe ==
  ASSUME StageInv, DispatchedInv, VersionInv, RunsInv, EndReplay
  PROVE  DispatchedInv' /\ VersionInv' /\ RunsInv'
<1> DEFINE r == [manifest |-> replayed, outputs |-> outputs, code |-> code,
                 alone |-> tenants = {replayed}]
<1>1. /\ UNCHANGED <<cache, versions, try, phase, results>> /\ stage = "dispatch"
      /\ runs' = runs \cup {r} /\ stage' = "idle"
  BY DEF EndReplay, runtime, vars, process, progress, Abandon
<1>2. r.manifest = replayed /\ r.outputs = outputs
  OBVIOUS
<1>3. OutputsInv /\ versions = replayed.version
  BY <1>1 DEF DispatchedInv, StageInv
<1> HIDE DEF r
<1>4. RunsInv'
  BY <1>1, <1>2, <1>3 DEF RunsInv, VersionInv, OutputsInv, Outcome, Messages
<1> QED
  BY <1>1, <1>4 DEF DispatchedInv, VersionInv

-----------------------------------------------------------------------------
(* A dispatch of the replay begins.                                        *)
LEMMA DispatchNextIsSafe ==
  ASSUME InputInv, StageInv, DispatchedInv, VersionInv, RunsInv, DispatchNext
  PROVE  /\ [Next]_vars
         /\ StageInv' /\ DispatchedInv' /\ VersionInv' /\ RunsInv'
<1>1. /\ stage = "dispatch" /\ phase = "idle" /\ queue # << >>
      /\ UNCHANGED <<input, manifests, runs>>
      /\ QueueInv /\ OutputsInv /\ CoverInv
  BY DEF DispatchNext, inputs, history, DispatchedInv
<1>2. /\ Head(queue) = queue[1] /\ Head(queue) \in Message
      /\ replayed.logical \in Manifest
  <2>1. Head(queue) = queue[1] /\ 1 \in DOMAIN queue
    BY <1>1, HeadAndTail DEF QueueInv
  <2> QED
    BY <1>1, <2>1 DEF QueueInv, StageInv, InputInv, GoodManifest
<1>3. CASE Dispatch(Head(queue), replayed.logical) /\ UNCHANGED run
  <2>1. /\ message' = queue[1] /\ manifest' = replayed.logical /\ results' = << >>
        /\ phase' = "select"
        /\ UNCHANGED <<versions, registered, cache, try, stage, replayed, queue, outputs>>
    BY <1>2, <1>3 DEF Dispatch, process, progress, run
  <2>2. [Next]_vars
    BY <1>2, <1>3 DEF Next
  <2>3. StageInv'
    BY <1>1, <2>1 DEF StageInv
  <2>4. HeadInv'
    BY <1>1, <2>1 DEF HeadInv
  <2>5. (QueueInv /\ OutputsInv /\ CoverInv)'
    BY <1>1, <2>1 DEF QueueInv, OutputsInv, CoverInv, Messages, Outcome, HandlersFor
  <2> QED
    BY <1>1, <2>1, <2>2, <2>3, <2>4, <2>5 DEF DispatchedInv, VersionInv, RunsInv
<1>4. CASE Abandon /\ UNCHANGED runtime
  <2>1. UNCHANGED <<cache, versions, phase, try, results>> /\ stage' = "idle" /\ UNCHANGED vars
    BY <1>4 DEF runtime, vars, process, progress, Abandon
  <2>2. StageInv'
    BY <1>1, <1>4, <2>1 DEF Abandon, StageInv
  <2> QED
    BY <1>1, <2>1, <2>2, OutsideDispatch
<1> QED
  BY <1>3, <1>4 DEF DispatchNext

(* Putting a value into a dict leaves its other values alone.              *)
LEMMA PutFacts ==
  ASSUME NEW d, NEW key, NEW value
  PROVE  \A k \in DOMAIN Put(d, key, value) :
           \/ Put(d, key, value)[k] = value
           \/ k \in DOMAIN d /\ Put(d, key, value)[k] = d[k]
BY DEF Put

(* What a step of a handler adds to what the runtime keeps.                *)
LEMMA HandleAdds ==
  ASSUME ShapeInv, VersionInv, Handle
  PROVE  /\ phase # "idle" /\ phase' # "idle"
         /\ UNCHANGED <<message, manifest, registered, versions>>
         /\ \/ UNCHANGED results
            \/ \E result : /\ results' = Append(results, result)
                           /\ result.message = message /\ result.context.versions = versions
         /\ \A k \in DOMAIN cache' : cache'[k].context.versions = versions
         /\ phase' = "finish" => try'.context.versions = versions
<1>1. /\ phase # "idle" /\ phase' # "idle" /\ UNCHANGED <<message, manifest, registered, versions>>
  BY DEF Handle, ReturnCached, Begin, RaiseRetryable, RaiseOther, ReturnOutput, Succeed, Advance,
     process, request
<1>2. CASE ReturnCached
  <2> DEFINE result == Result(cache[CacheKey].context, cache[CacheKey].commit)
  <2>1. /\ CacheKey \in DOMAIN cache /\ UNCHANGED cache /\ phase' = "select"
        /\ results' = Append(results, result)
    BY <1>2 DEF ReturnCached, Advance
  <2>2. result.message = message /\ result.context = cache[CacheKey].context
    BY DEF Result
  <2> HIDE DEF result
  <2>3. result.context.versions = versions
    BY <2>1, <2>2 DEF VersionInv
  <2> QED
    BY <1>1, <2>1, <2>2, <2>3 DEF VersionInv
<1>3. CASE Succeed
  <2> DEFINE result == Result(try.context, try.commit)
             entry == [message |-> message, context |-> try.context, commit |-> try.commit]
  <2>1. /\ phase = "finish" /\ phase' = "select" /\ results' = Append(results, result)
        /\ cache' = Put(cache, CacheKey, entry)
    BY <1>3 DEF Succeed, Advance, Remember
  <2>2. result.message = message /\ result.context = try.context /\ entry.context = try.context
    BY DEF Result
  <2>3. try.context.versions = versions
    BY <2>1 DEF VersionInv
  <2> HIDE DEF result, entry
  <2>4. \A k \in DOMAIN cache' : cache'[k] = entry \/ (k \in DOMAIN cache /\ cache'[k] = cache[k])
    BY <2>1, PutFacts
  <2>5. \A k \in DOMAIN cache' : cache'[k].context.versions = versions
    BY <2>2, <2>3, <2>4 DEF VersionInv
  <2> QED
    BY <1>1, <2>1, <2>2, <2>3, <2>5
<1>4. CASE ReturnOutput
  <2>1. UNCHANGED <<cache, results>> /\ Context.versions = versions
    BY <1>4 DEF ReturnOutput, process, Context
  <2>2. phase' = "finish" => try'.context = Context
    <3> DEFINE c == Context
    <3> HIDE DEF c
    <3>1. phase' = "finish" => \E commit : try' = [context |-> c, commit |-> commit]
      BY <1>4 DEF ReturnOutput, c
    <3>2. phase' = "finish" => try'.context = c
      BY <3>1
    <3> QED
      BY <3>2 DEF c
  <2> QED
    BY <1>1, <2>1, <2>2 DEF VersionInv
<1>5. CASE Begin \/ RaiseRetryable \/ RaiseOther
  <2>1. UNCHANGED <<cache, results>> /\ phase' # "finish"
    BY <1>5 DEF Begin, RaiseRetryable, RaiseOther, process
  <2> QED
    BY <1>1, <2>1 DEF VersionInv
<1> QED
  BY <1>2, <1>3, <1>4, <1>5 DEF Handle

(* The handlers of the dispatched message run.                             *)
LEMMA HandleIsSafe ==
  ASSUME ShapeInv, StageInv, DispatchedInv, VersionInv, RunsInv, Handle
  PROVE  StageInv' /\ DispatchedInv' /\ VersionInv' /\ RunsInv'
<1>1. /\ stage = "dispatch"
      /\ UNCHANGED <<input, manifests, stage, replayed, queue, outputs, runs>>
      /\ QueueInv /\ OutputsInv /\ CoverInv /\ HeadInv
  BY DEF Handle, inputs, run, history, DispatchedInv
<1>2. /\ phase # "idle" /\ phase' # "idle"
      /\ UNCHANGED <<message, manifest, registered, versions>>
      /\ \A k \in DOMAIN cache' : cache'[k].context.versions = versions
      /\ phase' = "finish" => try'.context.versions = versions
  BY HandleAdds
<1>3. \A i \in DOMAIN results' :
        results'[i].message = message /\ results'[i].context.versions = versions
  <2>1. \A i \in DOMAIN results :
          results[i].message = message /\ results[i].context.versions = versions
    BY <1>1, <1>2 DEF HeadInv, VersionInv
  <2>2. ASSUME NEW result, results' = Append(results, result), result.message = message,
               result.context.versions = versions
        PROVE  \A i \in DOMAIN results' :
                 results'[i].message = message /\ results'[i].context.versions = versions
    <3>1. IsList(results)
      BY DEF ShapeInv, RecordsInv, IsList
    <3>2. /\ DOMAIN results' = 1..(Len(results) + 1) /\ Len(results) \in Nat
          /\ DOMAIN results = 1..Len(results)
          /\ \A i \in 1..Len(results) : results'[i] = results[i]
          /\ results'[Len(results) + 1] = result
      BY <2>2, <3>1, AppendFacts, ListFacts
    <3> QED
      BY <2>1, <2>2, <3>2
  <2> QED
    BY <2>1, <2>2, HandleAdds
<1>4. StageInv'
  BY <1>1, <1>2 DEF StageInv
<1>5. HeadInv'
  BY <1>1, <1>2, <1>3 DEF HeadInv
<1>6. (QueueInv /\ OutputsInv /\ CoverInv)'
  BY <1>1, <1>2 DEF QueueInv, OutputsInv, CoverInv, Messages, Outcome, HandlersFor
<1>7. VersionInv'
  BY <1>1, <1>2, <1>3 DEF VersionInv
<1> QED
  BY <1>1, <1>4, <1>5, <1>6, <1>7 DEF DispatchedInv, RunsInv

(* A dispatch raises: the run is over.                                     *)
LEMMA HandlerRaisesIsSafe ==
  ASSUME StageInv, VersionInv, RunsInv, HandlerRaises
  PROVE  StageInv' /\ DispatchedInv' /\ VersionInv' /\ RunsInv'
<1>1. /\ phase' = "idle" /\ results' = << >> /\ UNCHANGED <<cache, versions, runs>>
      /\ stage' = "idle" /\ Abandon
  BY DEF HandlerRaises, Fail, RefuseReusedKey, End, process, history, Abandon
<1>2. StageInv'
  BY <1>1 DEF Abandon, StageInv
<1> QED
  BY <1>1, <1>2, OutsideDispatch

(* What is returned follows what was returned before, in the order of the  *)
(* handlers.                                                               *)
LEMMA ReturnedList ==
  ASSUME ShapeInv, IsList(outputs),
         outputs' = outputs \o [i \in DOMAIN results |-> Recorded(results[i])]
  PROVE  /\ IsList(outputs') /\ Len(outputs) \in Nat /\ DOMAIN outputs = 1..Len(outputs)
         /\ Len(results) \in Nat /\ DOMAIN results = 1..Len(results)
         /\ DOMAIN outputs' = 1..(Len(outputs) + Len(results))
         /\ \A i \in DOMAIN outputs : outputs'[i] = outputs[i]
         /\ \A k \in DOMAIN results : outputs'[Len(outputs) + k] = Recorded(results[k])
<1> DEFINE add == [i \in DOMAIN results |-> Recorded(results[i])]
           n == Len(outputs)
<1>1. IsList(results) /\ Len(results) \in Nat /\ DOMAIN results = 1..Len(results)
  BY ListFacts DEF ShapeInv, RecordsInv, IsList
<1>2. DOMAIN add = 1..Len(results) /\ \A k \in DOMAIN results : add[k] = Recorded(results[k])
  BY <1>1
<1>3. add = [i \in 1..Len(results) |-> add[i]]
  BY <1>1
<1> HIDE DEF add
<1>4. IsList(add) /\ Len(add) = Len(results)
  BY <1>1, <1>2, <1>3, FunctionIsList
<1>5. IsList(outputs) /\ n \in Nat /\ DOMAIN outputs = 1..n
  BY ListFacts
<1>6. outputs' = outputs \o add
  BY DEF add
<1>7. /\ IsList(outputs') /\ DOMAIN outputs' = 1..(n + Len(results))
      /\ \A i \in 1..n : outputs'[i] = outputs[i]
      /\ \A k \in 1..Len(results) : outputs'[n + k] = add[k]
  <2>1. /\ IsList(outputs \o add) /\ DOMAIN (outputs \o add) = 1..(Len(outputs) + Len(add))
        /\ \A i \in 1..Len(outputs) : (outputs \o add)[i] = outputs[i]
        /\ \A k \in 1..Len(add) : (outputs \o add)[Len(outputs) + k] = add[k]
    BY <1>4, <1>5, ConcatFacts
  <2> QED
    BY <1>4, <1>6, <2>1
<1> QED
  BY <1>1, <1>2, <1>5, <1>7

(* All of it is about the message that was dispatched.                     *)
LEMMA ReturnedOutputs ==
  ASSUME ShapeInv, QueueInv, OutputsInv, HeadInv, phase # "idle",
         outputs' = outputs \o [i \in DOMAIN results |-> Recorded(results[i])]
  PROVE  /\ IsList(outputs') /\ Len(outputs) \in Nat /\ DOMAIN outputs = 1..Len(outputs)
         /\ \A i \in DOMAIN outputs : i \in DOMAIN outputs' /\ outputs'[i] = outputs[i]
         /\ \A i \in DOMAIN outputs' :
              \/ i \in DOMAIN outputs
              \/ /\ i > Len(outputs) /\ Outcome(i)' = message
                 /\ \E k \in DOMAIN results : outputs'[i].execution = results[k]
         /\ results # << >> => \E i \in DOMAIN outputs' : Outcome(i)' = message
<1> DEFINE n == Len(outputs)
<1>1. /\ IsList(outputs') /\ n \in Nat /\ DOMAIN outputs = 1..n
      /\ Len(results) \in Nat /\ DOMAIN results = 1..Len(results)
      /\ DOMAIN outputs' = 1..(n + Len(results))
      /\ \A i \in DOMAIN outputs : outputs'[i] = outputs[i]
      /\ \A k \in DOMAIN results : outputs'[n + k] = Recorded(results[k])
  BY ReturnedList DEF OutputsInv
<1>2. \A k \in DOMAIN results :
        Recorded(results[k]).execution = results[k] /\ results[k].message = message
  BY DEF Recorded, HeadInv
<1> HIDE DEF n
<1>3. ASSUME NEW i \in DOMAIN outputs', i \notin DOMAIN outputs
      PROVE  /\ i > n /\ Outcome(i)' = message
             /\ \E k \in DOMAIN results : outputs'[i].execution = results[k]
  <2>1. PICK k \in DOMAIN results : i = n + k /\ i > n
    <3>1. i - n \in DOMAIN results /\ i = n + (i - n) /\ i > n
      BY <1>1, <1>3
    <3> QED
      BY <3>1
  <2>2. outputs'[i].execution = results[k] /\ results[k].message = message
    BY <1>1, <1>2, <2>1
  <2> QED
    BY <2>1, <2>2 DEF Outcome
<1>4. ASSUME results # << >> PROVE \E i \in DOMAIN outputs' : Outcome(i)' = message
  <2>1. 1 \in DOMAIN results
    BY <1>1, <1>4, EmptyList DEF ShapeInv, RecordsInv
  <2>2. n + 1 \in DOMAIN outputs' /\ outputs'[n + 1].execution.message = message
    BY <1>1, <1>2, <2>1
  <2> QED
    BY <2>2 DEF Outcome
<1>5. \A i \in DOMAIN outputs : i \in DOMAIN outputs' /\ outputs'[i] = outputs[i]
  BY <1>1
<1> QED
  BY <1>1, <1>3, <1>4, <1>5 DEF n

(* A message whose dispatch returns nothing has no handler.                *)
LEMMA NothingLeftOut ==
  ASSUME FanOutInOrder, phase # "idle", todo = {}, results = << >>
  PROVE  HandlersFor(message) = {}
<1>1. {results[i].handler : i \in DOMAIN results} = {} /\ {r.name : r \in todo} = {}
  OBVIOUS
<1>2. {r.name : r \in HandlersFor(message)} = {}
  BY <1>1 DEF FanOutInOrder
<1> QED
  BY <1>2

(* The dispatch of the first message has returned: the next one's turn.    *)
LEMMA HandlersReturnIsSafe ==
  ASSUME ShapeInv, FanOutInOrder, StageInv, DispatchedInv, VersionInv, RunsInv, HandlersReturn
  PROVE  StageInv' /\ DispatchedInv' /\ VersionInv' /\ RunsInv'
<1>1. /\ stage = "dispatch" /\ phase = "select" /\ todo = {}
      /\ phase' = "idle" /\ results' = << >>
      /\ UNCHANGED <<input, manifests, stage, replayed, runs, cache, versions, registered>>
      /\ queue' = Tail(queue)
      /\ outputs' = outputs \o [i \in DOMAIN results |-> Recorded(results[i])]
      /\ QueueInv /\ OutputsInv /\ CoverInv /\ HeadInv
  BY DEF HandlersReturn, Return, End, inputs, history, process, DispatchedInv
<1>2. Messages' = Messages
  BY <1>1 DEF Messages
<1>3. /\ message = queue[1] /\ IsList(queue') /\ DOMAIN queue' = 1..(Len(queue) - 1)
      /\ \A i \in 1..(Len(queue) - 1) : queue'[i] = queue[i + 1]
      /\ Len(queue) \in Nat \ {0} /\ DOMAIN queue = 1..Len(queue)
  <2>1. message = queue[1] /\ queue # << >> /\ IsList(queue)
    BY <1>1 DEF HeadInv, QueueInv
  <2> QED
    BY <1>1, <2>1, HeadAndTail
<1>4. \A i \in DOMAIN queue' : i + 1 \in DOMAIN queue /\ queue'[i] = queue[i + 1] /\ i \in Nat
                               /\ i + 1 > 1
  BY <1>3
<1>5. QueueInv'
  <2>1. \A i, j \in DOMAIN queue' : i < j => queue'[i].seqNo < queue'[j].seqNo
    BY <1>1, <1>4 DEF QueueInv
  <2> QED
    BY <1>1, <1>2, <1>3, <1>4, <2>1 DEF QueueInv
<1>6. /\ IsList(outputs') /\ Len(outputs) \in Nat /\ DOMAIN outputs = 1..Len(outputs)
      /\ \A i \in DOMAIN outputs : i \in DOMAIN outputs' /\ Outcome(i)' = Outcome(i)
      /\ \A i \in DOMAIN outputs' :
           i \in DOMAIN outputs \/ (i > Len(outputs) /\ Outcome(i)' = message)
      /\ results # << >> => \E i \in DOMAIN outputs' : Outcome(i)' = message
  BY <1>1, ReturnedOutputs DEF Outcome
<1>7. message \in Messages /\ message.seqNo \in Nat
  BY <1>1, <1>3, MessageAssumption DEF QueueInv
<1>8. \A j \in DOMAIN queue' : message.seqNo < queue'[j].seqNo /\ queue'[j].seqNo \in Nat
  BY <1>1, <1>3, <1>4, MessageAssumption DEF QueueInv
<1>9. \A i \in DOMAIN outputs : Outcome(i).seqNo < message.seqNo /\ Outcome(i).seqNo \in Nat
                                /\ Outcome(i) \in Messages
  <2> SUFFICES ASSUME NEW i \in DOMAIN outputs
               PROVE  /\ Outcome(i).seqNo < message.seqNo /\ Outcome(i).seqNo \in Nat
                      /\ Outcome(i) \in Messages
    OBVIOUS
  <2>1. Outcome(i) \in Messages /\ Messages \subseteq Message
    BY <1>1 DEF OutputsInv, QueueInv
  <2>2. Outcome(i).seqNo < queue[1].seqNo
    BY <1>1, <1>3 DEF OutputsInv
  <2> QED
    BY <1>3, <2>1, <2>2, MessageAssumption
<1>10. OutputsInv'
  <2>1. \A i \in DOMAIN outputs' :
          /\ Outcome(i)' \in Messages
          /\ \A j \in DOMAIN queue' : Outcome(i)'.seqNo < queue'[j].seqNo
    BY <1>6, <1>7, <1>8, <1>9
  <2>2. ASSUME NEW i \in DOMAIN outputs', NEW j \in DOMAIN outputs', i < j
        PROVE  Outcome(i)'.seqNo <= Outcome(j)'.seqNo
    <3>1. CASE i \in DOMAIN outputs /\ j \in DOMAIN outputs
      BY <1>1, <1>6, <2>2, <3>1 DEF OutputsInv
    <3>2. CASE i \in DOMAIN outputs /\ j \notin DOMAIN outputs
      BY <1>6, <1>7, <1>9, <3>2
    <3>3. CASE i \notin DOMAIN outputs
      <4>1. j \notin DOMAIN outputs
        BY <1>6, <2>2, <3>3
      <4> QED
        BY <1>6, <1>7, <3>3, <4>1
    <3> QED
      BY <3>1, <3>2, <3>3
  <2> QED
    BY <1>2, <1>6, <2>1, <2>2 DEF OutputsInv
<1>11. CoverInv'
  <2> SUFFICES ASSUME NEW m \in Messages
               PROVE  \/ \E i \in DOMAIN queue' : queue'[i] = m
                      \/ \E i \in DOMAIN outputs' : Outcome(i)' = m
                      \/ HandlersFor(m) = {}
    BY <1>1, <1>2 DEF CoverInv, HandlersFor
  <2>1. CASE m = message
    BY <1>1, <1>6, <2>1, NothingLeftOut
  <2>2. ASSUME NEW i \in DOMAIN queue, queue[i] = m, m # message
        PROVE  \E j \in DOMAIN queue' : queue'[j] = m
    <3>1. i # 1 /\ i - 1 \in 1..(Len(queue) - 1) /\ (i - 1) + 1 = i
      BY <1>3, <2>2
    <3> QED
      BY <1>3, <2>2, <3>1
  <2>3. CASE \E i \in DOMAIN outputs : Outcome(i) = m
    BY <1>6, <2>3
  <2> QED
    BY <1>1, <2>1, <2>2, <2>3 DEF CoverInv
<1>12. StageInv'
  BY <1>1 DEF StageInv
<1>13. VersionInv'
  <2>1. \A i \in DOMAIN outputs' : outputs'[i].execution.context.versions = versions
    <3> SUFFICES ASSUME NEW i \in DOMAIN outputs'
                 PROVE  outputs'[i].execution.context.versions = versions
      OBVIOUS
    <3>1. CASE i \in DOMAIN outputs
      <4>1. outputs'[i] = outputs[i]
        BY <1>1, <3>1, ReturnedOutputs
      <4> QED
        BY <1>1, <3>1, <4>1 DEF VersionInv
    <3>2. CASE i \notin DOMAIN outputs
      <4>1. PICK k \in DOMAIN results : outputs'[i].execution = results[k]
        BY <1>1, <3>2, ReturnedOutputs
      <4> QED
        BY <4>1 DEF VersionInv
    <3> QED
      BY <3>1, <3>2
  <2>2. DOMAIN results' = {} /\ phase' # "finish"
    BY <1>1
  <2>3. \A k \in DOMAIN cache' : cache'[k].context.versions = versions'
    BY <1>1 DEF VersionInv
  <2>4. \A i \in DOMAIN outputs' : outputs'[i].execution.context.versions = versions'
    BY <1>1, <2>1
  <2> QED
    BY <2>2, <2>3, <2>4 DEF VersionInv
<1> QED
  BY <1>1, <1>5, <1>10, <1>11, <1>12, <1>13 DEF DispatchedInv, HeadInv, RunsInv

-----------------------------------------------------------------------------
(* The host sets the runtime up, dumps the output log or deletes the dump. *)
LEMMA HostIsSafe ==
  ASSUME InputInv, StageInv, DispatchedInv, VersionInv, RunsInv,
         (\E r \in Registration : Setup(r)) \/ SaveOutput \/ DeleteDump
  PROVE  InputInv' /\ StageInv' /\ DispatchedInv' /\ VersionInv' /\ RunsInv'
<1>1. /\ UNCHANGED <<input, source, building, manifests, stage, replayed, queue, outputs, runs>>
      /\ UNCHANGED <<cache, versions, phase, try, results>> /\ stage = "idle"
  BY DEF Setup, Register, SaveOutput, Dump, DeleteDump, inputs, run, history, process, progress
<1>2. InputInv' /\ StageInv'
  BY <1>1 DEF InputInv, StageInv
<1> QED
  BY <1>1, <1>2, OutsideDispatch

(* A new runtime begins with nothing, in the same process or another.      *)
LEMMA NewRuntimeIsSafe ==
  ASSUME InputInv, StageInv, VersionInv, RunsInv, NewRuntimeHere \/ NewProcess
  PROVE  InputInv' /\ StageInv' /\ DispatchedInv' /\ VersionInv' /\ RunsInv'
<1>1. /\ UNCHANGED <<input, source, manifests, runs>> /\ building' = NoBuild
      /\ phase' = "idle" /\ results' = << >> /\ cache' = EmptyDict
      /\ stage' = "idle" /\ queue' = << >> /\ outputs' = << >>
  BY DEF NewRuntimeHere, NewProcess, NewRuntime, Restart, End, Abandon
<1>2. InputInv' /\ StageInv'
  BY <1>1 DEF InputInv, StageInv
<1>3. DOMAIN cache' = {}
  BY <1>1 DEF EmptyDict
<1> QED
  BY <1>1, <1>2, <1>3, OutsideDispatch

(* The runtime takes one of its own steps, or none, or its dump is gone.   *)
LEMMA RuntimeMoves ==
  ASSUME InputInv, StageInv, DispatchedInv, VersionInv, RunsInv, [ReplayNext]_replayVars
  PROVE  [Next]_vars \/ DeleteDump
<1> USE DEF Next, Step
<1>1. CASE DispatchNext
  BY <1>1, DispatchNextIsSafe
<1>2. CASE Handle \/ HandlerRaises \/ HandlersReturn
  BY <1>2 DEF Handle, HandlerRaises, HandlersReturn
<1>3. CASE (\E r \in Registration : Setup(r)) \/ SaveOutput
  BY <1>3 DEF Setup, SaveOutput
<1>4. CASE NewRuntimeHere \/ NewProcess
  BY <1>4 DEF NewRuntimeHere, NewProcess, NewRuntime
<1>5. CASE UNCHANGED vars
  BY <1>5
<1>6. ASSUME \/ \E feed \in Feed : InputCommit(feed)
             \/ \E n \in 0..Len(input) : InputReload(n) \/ BeginManifest(n)
             \/ ReadWatermark
             \/ \E logical \in Logical, v \in Version, schemaVersion \in SchemaVersion :
                  EndManifest(logical, v, schemaVersion)
             \/ \E v \in Version : EditSource(v)
             \/ \E m \in manifests : StartReplay(m)
             \/ VerifyWatermark \/ VerifyFingerprint \/ Decode \/ EndReplay
             \/ UNCHANGED replayVars
      PROVE  UNCHANGED vars
  BY <1>6 DEF InputCommit, InputReload, BeginManifest, ReadWatermark, EndManifest, EditSource,
     StartReplay, VerifyWatermark, VerifyFingerprint, Decode, EndReplay, replayVars, runtime
<1> QED
  BY <1>1, <1>2, <1>3, <1>4, <1>5, <1>6 DEF ReplayNext, Run

(* The runtime keeps its shape and the order of its handlers.              *)
LEMMA RuntimeIsSafe ==
  ASSUME ShapeInv, FanOutInOrder, [Next]_vars \/ DeleteDump
  PROVE  ShapeInv' /\ FanOutInOrder'
<1>1. CASE DeleteDump
  <2> USE DEF DeleteDump, process, request, progress
  <2>1. TypeOK'
    BY <1>1 DEF ShapeInv, TypeOK
  <2>2. RecordsInv' /\ DispatchInv'
    BY <1>1, CurrentStays DEF ShapeInv, RecordsInv, DispatchInv, HandlersFor
  <2> QED
    BY <1>1, <2>1, <2>2 DEF ShapeInv, FanOutInOrder
<1>2. CASE [Next]_vars
  BY <1>2, ShapeStep, FanOutStep
<1> QED
  BY <1>1, <1>2

(* What is true of the input log, the manifests, the run in progress and   *)
(* those that have returned.                                               *)
ReplayInv ==
  /\ ShapeInv /\ FanOutInOrder
  /\ InputInv /\ StageInv /\ DispatchedInv /\ VersionInv /\ RunsInv

(* The initial states satisfy the invariant.                               *)
LEMMA ReplayInitInv == ReplayInit => ReplayInv
<1> SUFFICES ASSUME ReplayInit PROVE ReplayInv
  OBVIOUS
<1>1. ShapeInv
  BY InitShape DEF ReplayInit
<1>2. FanOutInOrder
  BY DEF ReplayInit, Init, FanOutInOrder
<1>3. InputInv /\ StageInv /\ DispatchedInv
  BY DEF ReplayInit, Init, InputInv, StageInv, DispatchedInv
<1>4. VersionInv /\ RunsInv
  BY DEF ReplayInit, Init, VersionInv, RunsInv, EmptyDict
<1> QED
  BY <1>1, <1>2, <1>3, <1>4 DEF ReplayInv

(* Every step keeps the invariant: the steps of the runtime by the lemmas  *)
(* of RuntimeProofs, those of the replay by the lemmas above.              *)
LEMMA ReplayStep ==
  ASSUME ReplayInv, [ReplayNext]_replayVars
  PROVE  ReplayInv'
<1> USE DEF ReplayInv
<1>1. ShapeInv' /\ FanOutInOrder'
  BY RuntimeMoves, RuntimeIsSafe
<1>2. CASE DispatchNext \/ Handle \/ HandlerRaises \/ HandlersReturn
  <2>1. StageInv' /\ DispatchedInv' /\ VersionInv' /\ RunsInv'
    BY <1>2, DispatchNextIsSafe, HandleIsSafe, HandlerRaisesIsSafe, HandlersReturnIsSafe
  <2>2. UNCHANGED <<input, source, building, manifests>>
    BY <1>2 DEF DispatchNext, Handle, HandlerRaises, HandlersReturn, inputs
  <2>3. InputInv'
    BY <2>2 DEF InputInv
  <2> QED
    BY <1>1, <2>1, <2>3
<1>3. CASE (\E r \in Registration : Setup(r)) \/ SaveOutput \/ DeleteDump
  BY <1>1, <1>3, HostIsSafe
<1>4. CASE NewRuntimeHere \/ NewProcess
  BY <1>1, <1>4, NewRuntimeIsSafe
<1>5. CASE Decode
  BY <1>1, <1>5, VerifyingIsSafe, DecodeIsSafe
<1>6. CASE EndReplay
  BY <1>1, <1>6, VerifyingIsSafe, EndReplayIsSafe
<1>7. CASE (\E m \in manifests : StartReplay(m)) \/ VerifyWatermark \/ VerifyFingerprint
  <2>1. InputInv' /\ StageInv'
    BY <1>7, VerifyingIsSafe
  <2>2. /\ UNCHANGED <<runs, cache, versions, phase, try, results>>
        /\ stage' # "dispatch"
    BY <1>7 DEF StartReplay, VerifyWatermark, VerifyFingerprint, Abandon, history, runtime, vars,
       process, progress
  <2> QED
    BY <1>1, <2>1, <2>2, OutsideDispatch
<1>8. ASSUME \/ \E feed \in Feed : InputCommit(feed)
             \/ \E n \in 0..Len(input) : InputReload(n) \/ BeginManifest(n)
             \/ ReadWatermark
             \/ \E logical \in Logical, v \in Version, schemaVersion \in SchemaVersion :
                  EndManifest(logical, v, schemaVersion)
             \/ \E v \in Version : EditSource(v)
      PROVE  ReplayInv'
  <2>1. InputInv' /\ StageInv'
    BY <1>8, InputCommitIsSafe, InputReloadIsSafe, BuildingIsSafe, VerifyingIsSafe
  <2>2. UNCHANGED <<stage, replayed, queue, outputs, phase, message, manifest, results,
                    registered, cache, versions, try, runs>>
    BY <1>8 DEF InputCommit, InputReload, BeginManifest, ReadWatermark, EndManifest, EditSource,
       runtime, vars, process, request, progress, run, history
  <2> QED
    BY <1>1, <2>1, <2>2, RunStays
<1>9. CASE UNCHANGED replayVars
  <2>1. /\ UNCHANGED <<input, source, building, manifests>>
        /\ UNCHANGED <<stage, replayed, queue, outputs, phase, message, manifest, results,
                       registered, cache, versions, try, runs>>
    BY <1>9 DEF replayVars, inputs, runtime, vars, process, request, progress, run, history
  <2>2. InputInv' /\ StageInv'
    BY <2>1 DEF InputInv, StageInv, Prefix
  <2> QED
    BY <1>1, <2>1, <2>2, RunStays
<1> QED
  BY <1>2, <1>3, <1>4, <1>5, <1>6, <1>7, <1>8, <1>9 DEF ReplayNext, Run

(* The invariant of the replay.                                            *)
THEOREM ReplayInvariance == ReplaySpec => []ReplayInv
BY ReplayInitInv, ReplayStep, PTL DEF ReplaySpec

(* A manifest speaks of one log, whatever was committed, or loaded, while  *)
(* it was being made.                                                      *)
THEOREM ManifestsAreSound == ReplaySpec => []ManifestIsOnePrefix
<1>1. ReplayInv => ManifestIsOnePrefix
  BY DEF ReplayInv, InputInv, GoodManifest, ManifestIsOnePrefix
<1> QED
  BY <1>1, ReplayInvariance, PTL

(* What is dispatched is the prefix of the manifest, none of it left out   *)
(* and in the order of the sequence numbers.                               *)
THEOREM PrefixIsReplayed == ReplaySpec => []ReplaysThePrefix
<1>1. ReplayInv => ReplaysThePrefix
  BY DEF ReplayInv, DispatchedInv, QueueInv, CoverInv, RunsInv, Messages, Outcome,
     ReplaysThePrefix
<1> QED
  BY <1>1, ReplayInvariance, PTL

(* Handlers see the version the manifest declares.                         *)
THEOREM VersionIsReplayed == ReplaySpec => []ReplaysTheVersion
<1>1. ReplayInv => ReplaysTheVersion
  BY DEF ReplayInv, RunsInv, ReplaysTheVersion
<1> QED
  BY <1>1, ReplayInvariance, PTL

-----------------------------------------------------------------------------
(* Determinism.  An output log that serves one manifest holds nothing but  *)
(* outputs of its tasks, in the order of the tasks, and two such logs that *)
(* are complete differ in nothing but the attempts.                        *)

(* A task of a manifest: one of its messages and a handler registered for  *)
(* it.                                                                     *)
TasksOf(m) ==
  {p \in [message : MessagesIn(m.prefix), handler : Name] :
     \E r \in Registration :
       r.kind = p.message.kind /\ r.on = p.message.name /\ r.name = p.handler}

TaskOf(e) == [message |-> e.message, handler |-> e.handler]

(* The order in which a run comes to its tasks.                            *)
Precedes(p, q) ==
  \/ p.message.seqNo < q.message.seqNo
  \/ p.message = q.message /\ Rank[p.handler] < Rank[q.handler]

(* What a handler sees in the nth attempt at a task, ...                   *)
ContextOf(m, p, n) ==
  [handler |-> p.handler, message |-> p.message, attempt |-> n,
   versions |-> m.version, now |-> m.logical.at, seed |-> m.logical.seed]

(* ... and the key its output is committed under.                          *)
HandlerKey(p) == <<"handler">> \o p.handler \o p.message.key

KeyOf(p) == <<p.message.household, HandlerKey(p)>>

Produces(m, p) == \E n \in Nat : Records(ContextOf(m, p, n)) # << >>

(* Whether a handler has an output does not depend on how often it was     *)
(* tried before.                                                           *)
SilenceIsNoAccident ==
  \A c \in Contexts, n \in Nat :
    (Records([c EXCEPT !.attempt = n]) = << >>) <=> (Records(c) = << >>)

(* A transaction was written in one of the attempts at a task, when all    *)
(* tasks before it that have an output had theirs in the log.              *)
WrittenFor(m, p, txs, k) ==
  /\ \E n \in Nat :
       /\ Records(ContextOf(m, p, n)) # << >>
       /\ txs[k] = CommittedTransaction(k, Records(ContextOf(m, p, n)), HandlerKey(p), m.logical.at)
  /\ ScopedKey(txs[k]) = KeyOf(p)
  /\ \A q \in TasksOf(m) :
       Precedes(q, p) /\ Produces(m, q) => \E j \in 1..(k - 1) : ScopedKey(txs[j]) = KeyOf(q)

Explained(m, txs) == \A k \in DOMAIN txs : \E p \in TasksOf(m) : WrittenFor(m, p, txs, k)

(* An execution has its output in the log.                                 *)
Settled(m, e, txs) ==
  /\ e \in Results
  /\ e.context = ContextOf(m, TaskOf(e), e.context.attempt)
  /\ IF Records(e.context) = << >> THEN e.commit = NoCommit
     ELSE /\ e.commit.seq \in DOMAIN txs /\ txs[e.commit.seq] = e.commit
          /\ e.commit.records = Records(e.context)
          /\ ScopedKey(e.commit) = KeyOf(TaskOf(e))

Noted(e, txs) ==
  [execution |-> e,
   watermark |-> IF e.commit = NoCommit THEN NoWatermark ELSE WatermarkAt(txs, e.commit.seq)]

(* What was returned so far: settled, in the order of the tasks, each with *)
(* the watermark of its commit.                                            *)
Enumerates(m, outs, txs) ==
  /\ IsList(outs)
  /\ \A i \in DOMAIN outs :
       /\ Settled(m, outs[i].execution, txs)
       /\ outs[i] = Noted(outs[i].execution, txs)

Returned(outs, p) == \E i \in DOMAIN outs : TaskOf(outs[i].execution) = p

InTaskOrder(outs) ==
  \A i, j \in DOMAIN outs :
    i < j => Precedes(TaskOf(outs[i].execution), TaskOf(outs[j].execution))

(* The tasks of the run in progress.                                       *)
TasksInv ==
  /\ stage # "idle" => registered = Registration
  /\ stage = "dispatch" =>
       /\ replayed \in tenants
       /\ InTaskOrder(outputs)
       /\ \A i \in DOMAIN outputs : TaskOf(outputs[i].execution) \in TasksOf(replayed)
       /\ \A p \in TasksOf(replayed) :
            (\E i \in DOMAIN queue : queue[i] = p.message) \/ Returned(outputs, p)

Remembered(k) ==
  [handler |-> k[2], message |-> cache[k].message,
   context |-> cache[k].context, commit |-> cache[k].commit]

(* The runtime knows and the output log holds nothing but what one         *)
(* manifest explains.                                                      *)
SettledFor(m) ==
  /\ Explained(m, log)
  /\ disk # NoDump => Explained(m, disk)
  /\ \A k \in DOMAIN cache : Settled(m, Remembered(k), log)
  /\ phase = "finish" => Settled(m, Result(try.context, try.commit), log)
  /\ \A i \in DOMAIN results : Settled(m, results[i], log)
  /\ stage = "dispatch" => Enumerates(m, outputs, log)

SettledInv == \A m : tenants \subseteq {m} => SettledFor(m)

(* A run that was alone has done all tasks, over one log.                  *)
Completed(m, outs, txs) ==
  /\ IsList(txs) /\ Numbered(txs) /\ Explained(m, txs)
  /\ Enumerates(m, outs, txs) /\ InTaskOrder(outs)
  /\ \A i \in DOMAIN outs : TaskOf(outs[i].execution) \in TasksOf(m)
  /\ \A p \in TasksOf(m) : Returned(outs, p)

AloneInv == \A r \in runs : r.alone => \E txs : Completed(r.manifest, r.outputs, txs)

(* Two tasks cannot each precede the other.                                *)
LEMMA PrecedesOnce ==
  ASSUME NEW p \in [message : Message, handler : Name],
         NEW q \in [message : Message, handler : Name],
         Precedes(p, q)
  PROVE  ~Precedes(q, p) /\ p # q
<1>1. p.message.seqNo \in Nat /\ q.message.seqNo \in Nat
  BY MessageAssumption
<1>2. Rank[p.handler] \in Nat /\ Rank[q.handler] \in Nat
  BY NameAssumption
<1> QED
  BY <1>1, <1>2 DEF Precedes

(* Two lists of the same length that are in the order of their tasks and   *)
(* return each other's tasks are of the same tasks.                        *)
LEMMA OneOrder ==
  ASSUME NEW m, NEW n, NEW txs, NEW others, NEW outs, NEW outs2,
         Enumerates(m, outs, txs), Enumerates(n, outs2, others),
         InTaskOrder(outs), InTaskOrder(outs2), DOMAIN outs = DOMAIN outs2,
         \A i \in DOMAIN outs : Returned(outs2, TaskOf(outs[i].execution)),
         \A i \in DOMAIN outs2 : Returned(outs, TaskOf(outs2[i].execution))
  PROVE  \A i \in DOMAIN outs : TaskOf(outs[i].execution) = TaskOf(outs2[i].execution)
<1> DEFINE a(i) == TaskOf(outs[i].execution)
           b(i) == TaskOf(outs2[i].execution)
           W == {i \in DOMAIN outs : a(i) = b(i)}
<1>1. DOMAIN outs = 1..Len(outs) /\ Len(outs) \in Nat
  BY ListFacts DEF Enumerates
<1>2. \A i \in DOMAIN outs : /\ a(i) \in [message : Message, handler : Name]
                             /\ b(i) \in [message : Message, handler : Name]
  <2> SUFFICES ASSUME NEW i \in DOMAIN outs
               PROVE  /\ a(i) \in [message : Message, handler : Name]
                      /\ b(i) \in [message : Message, handler : Name]
    OBVIOUS
  <2>1. outs[i].execution \in Results /\ outs2[i].execution \in Results
    BY DEF Enumerates, Settled
  <2> QED
    BY <2>1 DEF TaskOf, Results
<1>3. ASSUME NEW i \in DOMAIN outs
      PROVE  /\ \E j \in DOMAIN outs : b(j) = a(i)
             /\ \E j \in DOMAIN outs : a(j) = b(i)
  BY DEF Returned
<1>4. \A i, j \in DOMAIN outs : i < j => Precedes(a(i), a(j)) /\ Precedes(b(i), b(j))
  BY DEF InTaskOrder
<1> HIDE DEF a, b
<1>5. ASSUME NEW i \in 1..Len(outs), 1..(i - 1) \subseteq W
      PROVE  i \in W
  <2>1. PICK j \in DOMAIN outs : b(j) = a(i)
    BY <1>1, <1>3
  <2>2. PICK k \in DOMAIN outs : a(k) = b(i)
    BY <1>1, <1>3
  <2>3. ~(j < i)
    <3> SUFFICES ASSUME j < i PROVE FALSE
      OBVIOUS
    <3>1. j \in 1..(i - 1)
      BY <1>1
    <3>2. a(j) = b(j)
      BY <1>5, <3>1
    <3>3. Precedes(a(j), a(i))
      BY <1>1, <1>4
    <3> QED
      BY <1>1, <1>2, <2>1, <3>2, <3>3, PrecedesOnce
  <2>4. ~(k < i)
    <3> SUFFICES ASSUME k < i PROVE FALSE
      OBVIOUS
    <3>1. k \in 1..(i - 1)
      BY <1>1
    <3>2. a(k) = b(k)
      BY <1>5, <3>1
    <3>3. Precedes(b(k), b(i))
      BY <1>1, <1>4
    <3> QED
      BY <1>1, <1>2, <2>2, <3>2, <3>3, PrecedesOnce
  <2>5. CASE j = i \/ k = i
    BY <1>1, <2>1, <2>2, <2>5
  <2>6. CASE i < j /\ i < k
    <3>1. Precedes(b(i), b(j)) /\ Precedes(a(i), a(k))
      BY <1>1, <1>4, <2>6
    <3> QED
      BY <1>1, <1>2, <2>1, <2>2, <3>1, PrecedesOnce
  <2> QED
    BY <1>1, <2>3, <2>4, <2>5, <2>6
<1>6. 1..Len(outs) \subseteq W
  <2> HIDE DEF W
  <2> QED
    BY <1>1, <1>5, CourseOfValues
<1> QED
  BY <1>1, <1>6 DEF a, b

(* A handler that has an output in one attempt has it in the log.          *)
LEMMA ProducedIsInLog ==
  ASSUME SilenceIsNoAccident, NEW m, NEW e, NEW txs, Settled(m, e, txs), Produces(m, TaskOf(e))
  PROVE  /\ Records(e.context) # << >>
         /\ e.commit.seq \in DOMAIN txs /\ txs[e.commit.seq] = e.commit
         /\ e.commit.records = Records(e.context)
         /\ ScopedKey(e.commit) = KeyOf(TaskOf(e))
<1>1. PICK n \in Nat : Records(ContextOf(m, TaskOf(e), n)) # << >>
  BY DEF Produces
<1>2. e.context \in Contexts /\ e.context = ContextOf(m, TaskOf(e), e.context.attempt)
  BY DEF Settled, Results
<1>3. [e.context EXCEPT !.attempt = n] = ContextOf(m, TaskOf(e), n)
  BY <1>2 DEF ContextOf
<1>4. Records(e.context) # << >>
  BY <1>1, <1>2, <1>3 DEF SilenceIsNoAccident
<1> QED
  BY <1>4 DEF Settled

(* What stands in the log for a task is what its execution returned.       *)
LEMMA CommitOfTask ==
  ASSUME SilenceIsNoAccident, NEW m, NEW outs, NEW txs, Completed(m, outs, txs),
         NEW k \in DOMAIN txs, NEW p \in TasksOf(m), WrittenFor(m, p, txs, k)
  PROVE  \E i \in DOMAIN outs :
           /\ TaskOf(outs[i].execution) = p
           /\ txs[k] = CommittedTransaction(k, Records(outs[i].execution.context),
                                            HandlerKey(p), m.logical.at)
<1>1. PICK i \in DOMAIN outs : TaskOf(outs[i].execution) = p
  BY DEF Completed, Returned
<1> DEFINE e == outs[i].execution
<1>2. PICK n \in Nat :
        /\ Records(ContextOf(m, p, n)) # << >>
        /\ txs[k] = CommittedTransaction(k, Records(ContextOf(m, p, n)), HandlerKey(p), m.logical.at)
  BY DEF WrittenFor
<1>3. Settled(m, e, txs) /\ Produces(m, TaskOf(e))
  BY <1>1, <1>2 DEF Completed, Enumerates, Produces
<1> HIDE DEF e
<1>4. /\ e.commit.seq \in DOMAIN txs /\ txs[e.commit.seq] = e.commit
      /\ e.commit.records = Records(e.context)
      /\ ScopedKey(e.commit) = KeyOf(TaskOf(e))
  BY <1>3, ProducedIsInLog
<1>5. ScopedKey(txs[e.commit.seq]) = ScopedKey(txs[k])
  BY <1>1, <1>4 DEF WrittenFor, e
<1>6. e.commit.seq = k
  BY <1>4, <1>5 DEF Completed, Numbered
<1>7. txs[k].records = Records(ContextOf(m, p, n))
  BY <1>2 DEF CommittedTransaction
<1>8. Records(e.context) = Records(ContextOf(m, p, n))
  BY <1>4, <1>6, <1>7
<1> QED
  BY <1>1, <1>2, <1>8 DEF e

(* A log begins with another.                                              *)
Extends(more, txs) ==
  /\ IsList(txs) /\ \A k \in DOMAIN txs : k \in DOMAIN more /\ more[k] = txs[k]

(* Two logs that one manifest explains and that were completed by          *)
(* executions with the same contexts are the same.                         *)
LEMMA LogsAgree ==
  ASSUME SilenceIsNoAccident, NEW m, NEW outs, NEW outs2, NEW txs, NEW others,
         Completed(m, outs, txs), Completed(m, outs2, others), DOMAIN outs = DOMAIN outs2,
         \A i \in DOMAIN outs :
           /\ TaskOf(outs[i].execution) = TaskOf(outs2[i].execution)
           /\ outs[i].execution.context = outs2[i].execution.context
  PROVE  Extends(others, txs)
<1> DEFINE W == {k \in DOMAIN txs : k \in DOMAIN others /\ txs[k] = others[k]}
<1>1. /\ DOMAIN txs = 1..Len(txs) /\ Len(txs) \in Nat
      /\ DOMAIN others = 1..Len(others) /\ Len(others) \in Nat
  BY ListFacts DEF Completed
<1>2. ASSUME NEW k \in 1..Len(txs), 1..(k - 1) \subseteq W
      PROVE  k \in W
  <2>1. \A j \in 1..(k - 1) : txs[j] = others[j]
    BY <1>2
  <2>2. PICK p \in TasksOf(m) : WrittenFor(m, p, txs, k)
    BY <1>1 DEF Completed, Explained
  <2>3. PICK i \in DOMAIN outs :
          /\ TaskOf(outs[i].execution) = p
          /\ txs[k] = CommittedTransaction(k, Records(outs[i].execution.context),
                                           HandlerKey(p), m.logical.at)
    BY <1>1, <2>2, CommitOfTask
  <2>4. Produces(m, p) /\ ScopedKey(txs[k]) = KeyOf(p)
    BY <2>2 DEF WrittenFor, Produces
  <2>5. PICK j \in DOMAIN others : ScopedKey(others[j]) = KeyOf(p)
    <3>1. Settled(m, outs2[i].execution, others) /\ TaskOf(outs2[i].execution) = p
      BY <2>3 DEF Completed, Enumerates
    <3> QED
      BY <2>4, <3>1, ProducedIsInLog
  <2>6. ~(j \in 1..(k - 1))
    <3> SUFFICES ASSUME j \in 1..(k - 1) PROVE FALSE
      OBVIOUS
    <3>1. j \in DOMAIN txs /\ k \in DOMAIN txs /\ j # k
      BY <1>1
    <3>2. ScopedKey(txs[j]) = ScopedKey(txs[k])
      BY <2>1, <2>4, <2>5
    <3> QED
      BY <3>1, <3>2 DEF Completed, Numbered
  <2>7. k \in DOMAIN others
    BY <1>1, <2>5, <2>6
  <2>8. PICK q \in TasksOf(m) : WrittenFor(m, q, others, k)
    BY <2>7 DEF Completed, Explained
  <2>9. PICK l \in DOMAIN outs2 :
          /\ TaskOf(outs2[l].execution) = q
          /\ others[k] = CommittedTransaction(k, Records(outs2[l].execution.context),
                                              HandlerKey(q), m.logical.at)
    BY <2>7, <2>8, CommitOfTask
  <2>10. Produces(m, q) /\ ScopedKey(others[k]) = KeyOf(q)
    BY <2>8 DEF WrittenFor, Produces
  <2>11. ~Precedes(p, q)
    <3> SUFFICES ASSUME Precedes(p, q) PROVE FALSE
      OBVIOUS
    <3>1. PICK h \in 1..(k - 1) : ScopedKey(others[h]) = KeyOf(p)
      BY <2>4, <2>8 DEF WrittenFor
    <3>2. h \in DOMAIN txs /\ k \in DOMAIN txs /\ h # k
      BY <1>1
    <3>3. ScopedKey(txs[h]) = ScopedKey(txs[k])
      BY <2>1, <2>4, <3>1
    <3> QED
      BY <3>2, <3>3 DEF Completed, Numbered
  <2>12. ~Precedes(q, p)
    <3> SUFFICES ASSUME Precedes(q, p) PROVE FALSE
      OBVIOUS
    <3>1. PICK h \in 1..(k - 1) : ScopedKey(txs[h]) = KeyOf(q)
      BY <2>2, <2>10 DEF WrittenFor
    <3>2. h \in DOMAIN others /\ k \in DOMAIN others /\ h # k
      BY <1>1, <2>7
    <3>3. ScopedKey(others[h]) = ScopedKey(others[k])
      BY <2>1, <2>10, <3>1
    <3> QED
      BY <3>2, <3>3 DEF Completed, Numbered
  <2>13. l = i
    <3>1. TaskOf(outs[l].execution) = q /\ l \in DOMAIN outs
      BY <2>9
    <3>2. DOMAIN outs = 1..Len(outs) /\ Len(outs) \in Nat
      BY ListFacts DEF Completed, Enumerates
    <3>3. i < l => Precedes(p, q)
      BY <2>3, <3>1 DEF Completed, InTaskOrder
    <3>4. l < i => Precedes(q, p)
      BY <2>3, <3>1 DEF Completed, InTaskOrder
    <3> QED
      BY <2>11, <2>12, <3>1, <3>2, <3>3, <3>4
  <2>14. outs[i].execution.context = outs2[l].execution.context /\ p = q
    BY <2>3, <2>9, <2>13
  <2>15. txs[k] = others[k]
    BY <2>3, <2>9, <2>14
  <2> QED
    BY <1>1, <2>7, <2>15
<1>3. 1..Len(txs) \subseteq W
  <2> HIDE DEF W
  <2> QED
    BY <1>1, <1>2, CourseOfValues
<1> QED
  BY <1>1, <1>3 DEF Extends, Completed

(* Executions of one task in one context have one commit and one           *)
(* watermark, if their logs agree.                                         *)
LEMMA OutputsAgree ==
  ASSUME NEW m, NEW e, NEW f, NEW txs, NEW others, Extends(others, txs), Numbered(others),
         Settled(m, e, txs), Settled(m, f, others),
         TaskOf(e) = TaskOf(f), e.context = f.context
  PROVE  Noted(e, txs) = Noted(f, others)
<1>1. e.commit = f.commit
  <2>1. CASE Records(e.context) = << >>
    BY <2>1 DEF Settled
  <2>2. CASE Records(e.context) # << >>
    <3>1. /\ e.commit.seq \in DOMAIN others /\ others[e.commit.seq] = e.commit
          /\ f.commit.seq \in DOMAIN others /\ others[f.commit.seq] = f.commit
          /\ ScopedKey(e.commit) = ScopedKey(f.commit)
      BY <2>2 DEF Settled, Extends
    <3>2. e.commit.seq = f.commit.seq
      BY <3>1 DEF Numbered
    <3> QED
      BY <3>1, <3>2
  <2> QED
    BY <2>1, <2>2
<1>2. e = f
  BY <1>1 DEF Settled, Results, TaskOf
<1>3. e.commit # NoCommit => WatermarkAt(txs, e.commit.seq) = WatermarkAt(others, e.commit.seq)
  <2> SUFFICES ASSUME e.commit # NoCommit
               PROVE  WatermarkAt(txs, e.commit.seq) = WatermarkAt(others, e.commit.seq)
    OBVIOUS
  <2>1. e.commit.seq \in DOMAIN txs /\ DOMAIN txs = 1..Len(txs) /\ Len(txs) \in Nat
    BY ListFacts DEF Settled, Extends
  <2>2. e.commit.seq \in Nat /\ \A i \in 1..e.commit.seq : txs[i] = others[i]
    BY <2>1 DEF Extends
  <2> QED
    BY <2>2, WatermarkOfPrefix
<1> QED
  BY <1>2, <1>3 DEF Noted

(* Two completed replays of one manifest, with the same attempts, return   *)
(* the same.                                                               *)
LEMMA CompletedAgree ==
  ASSUME SilenceIsNoAccident, NEW m, NEW outs, NEW outs2, NEW txs, NEW others,
         Completed(m, outs, txs), Completed(m, outs2, others),
         [i \in DOMAIN outs |-> outs[i].execution.context.attempt]
           = [i \in DOMAIN outs2 |-> outs2[i].execution.context.attempt]
  PROVE  outs = outs2
<1>1. /\ DOMAIN outs = DOMAIN outs2
      /\ \A i \in DOMAIN outs :
           outs[i].execution.context.attempt = outs2[i].execution.context.attempt
  <2> DEFINE f == [i \in DOMAIN outs |-> outs[i].execution.context.attempt]
             g == [i \in DOMAIN outs2 |-> outs2[i].execution.context.attempt]
  <2>1. DOMAIN f = DOMAIN outs /\ DOMAIN g = DOMAIN outs2
    OBVIOUS
  <2>2. \A i \in DOMAIN outs : f[i] = outs[i].execution.context.attempt
    OBVIOUS
  <2>3. \A i \in DOMAIN outs2 : g[i] = outs2[i].execution.context.attempt
    OBVIOUS
  <2>4. f = g
    OBVIOUS
  <2> HIDE DEF f, g
  <2> QED
    BY <2>1, <2>2, <2>3, <2>4
<1>2. /\ Enumerates(m, outs, txs) /\ Enumerates(m, outs2, others)
      /\ InTaskOrder(outs) /\ InTaskOrder(outs2)
      /\ IsList(txs) /\ Numbered(others)
  BY DEF Completed
<1>3. \A i \in DOMAIN outs : TaskOf(outs[i].execution) = TaskOf(outs2[i].execution)
  <2>1. \A i \in DOMAIN outs : Returned(outs2, TaskOf(outs[i].execution))
    BY DEF Completed
  <2>2. \A i \in DOMAIN outs2 : Returned(outs, TaskOf(outs2[i].execution))
    BY DEF Completed
  <2> QED
    BY <1>1, <1>2, <2>1, <2>2, OneOrder
<1>4. ASSUME NEW i \in DOMAIN outs
      PROVE  outs[i].execution.context = outs2[i].execution.context
  <2>1. /\ outs[i].execution.context
             = ContextOf(m, TaskOf(outs[i].execution), outs[i].execution.context.attempt)
        /\ outs2[i].execution.context
             = ContextOf(m, TaskOf(outs2[i].execution), outs2[i].execution.context.attempt)
    BY <1>1, <1>2 DEF Enumerates, Settled
  <2> QED
    BY <1>1, <1>3, <2>1
<1>5. Extends(others, txs)
  BY <1>1, <1>3, <1>4, LogsAgree
<1>6. ASSUME NEW i \in DOMAIN outs PROVE outs[i] = outs2[i]
  <2> DEFINE e == outs[i].execution
             f == outs2[i].execution
  <2>1. Settled(m, e, txs) /\ Settled(m, f, others)
    BY <1>1, <1>2 DEF Enumerates
  <2>2. outs[i] = Noted(e, txs) /\ outs2[i] = Noted(f, others)
    BY <1>1, <1>2 DEF Enumerates
  <2>3. TaskOf(e) = TaskOf(f) /\ e.context = f.context
    BY <1>3, <1>4
  <2>4. Extends(others, txs) /\ Numbered(others)
    BY <1>2, <1>5
  <2> HIDE DEF e, f
  <2>5. Noted(e, txs) = Noted(f, others)
    BY <2>1, <2>3, <2>4, OutputsAgree
  <2> QED
    BY <2>2, <2>5
<1>7. Len(outs) = Len(outs2)
  <2>1. Len(outs) \in Nat /\ DOMAIN outs = 1..Len(outs)
    BY <1>2, ListFacts DEF Enumerates
  <2>2. Len(outs2) \in Nat /\ DOMAIN outs2 = 1..Len(outs2)
    BY <1>2, ListFacts DEF Enumerates
  <2>3. DOMAIN outs = DOMAIN outs2
    BY <1>1
  <2>4. 1..Len(outs) = 1..Len(outs2)
    BY <2>1, <2>2, <2>3, Zenon
  <2> QED
    BY <2>1, <2>2, <2>4, SameInterval, Zenon
<1>8. \A i \in 1..Len(outs) : outs[i] = outs2[i]
  <2>1. DOMAIN outs = 1..Len(outs)
    BY <1>2, ListFacts DEF Enumerates
  <2> QED
    BY <1>6, <2>1
<1> QED
  BY <1>2, <1>7, <1>8, ListsEqual DEF Enumerates

-----------------------------------------------------------------------------
(* What is settled stays so when the log grows.                            *)
LEMMA SettledGrows ==
  ASSUME NEW m, NEW e, NEW txs, NEW more, Extends(more, txs), Settled(m, e, txs)
  PROVE  Settled(m, e, more) /\ Noted(e, more) = Noted(e, txs)
<1>1. Settled(m, e, more)
  BY DEF Settled, Extends
<1>2. CASE e.commit = NoCommit
  BY <1>1, <1>2 DEF Noted
<1>3. CASE e.commit # NoCommit
  <2>1. e.commit.seq \in DOMAIN txs /\ DOMAIN txs = 1..Len(txs) /\ Len(txs) \in Nat
    BY <1>3, ListFacts DEF Settled, Extends
  <2>2. e.commit.seq \in Nat /\ \A i \in 1..e.commit.seq : more[i] = txs[i]
    BY <2>1 DEF Extends
  <2>3. WatermarkAt(more, e.commit.seq) = WatermarkAt(txs, e.commit.seq)
    BY <2>2, WatermarkOfPrefix
  <2> QED
    BY <1>1, <2>3 DEF Noted
<1> QED
  BY <1>2, <1>3

(* So is a list of outputs, with its watermarks.                           *)
LEMMA EnumeratesGrows ==
  ASSUME NEW m, NEW outs, NEW txs, NEW more, Extends(more, txs), Enumerates(m, outs, txs)
  PROVE  Enumerates(m, outs, more)
<1>1. ASSUME NEW i \in DOMAIN outs
      PROVE  Settled(m, outs[i].execution, more) /\ outs[i] = Noted(outs[i].execution, more)
  <2>1. Settled(m, outs[i].execution, txs) /\ outs[i] = Noted(outs[i].execution, txs)
    BY DEF Enumerates
  <2>2. Settled(m, outs[i].execution, more)
    BY <2>1, SettledGrows
  <2>3. Noted(outs[i].execution, more) = Noted(outs[i].execution, txs)
    BY <2>1, SettledGrows
  <2> QED
    BY <2>1, <2>2, <2>3
<1> QED
  BY <1>1 DEF Enumerates

(* A log stays explained when an explained transaction is appended.        *)
LEMMA ExplainedGrows ==
  ASSUME NEW m, NEW txs, IsList(txs), NEW tx, Explained(m, txs),
         NEW p \in TasksOf(m), WrittenFor(m, p, Append(txs, tx), Len(txs) + 1)
  PROVE  Explained(m, Append(txs, tx)) /\ Extends(Append(txs, tx), txs)
<1> DEFINE more == Append(txs, tx)
<1>1. /\ Len(txs) \in Nat /\ DOMAIN txs = 1..Len(txs)
      /\ DOMAIN more = 1..(Len(txs) + 1) /\ \A k \in 1..Len(txs) : more[k] = txs[k]
  BY AppendFacts, ListFacts
<1> HIDE DEF more
<1>2. ASSUME NEW k \in DOMAIN txs, NEW q \in TasksOf(m), WrittenFor(m, q, txs, k)
      PROVE  WrittenFor(m, q, more, k)
  <2>1. \A j \in 1..(k - 1) : j \in DOMAIN txs /\ more[j] = txs[j]
    BY <1>1
  <2>2. more[k] = txs[k]
    BY <1>1
  <2> QED
    BY <1>2, <2>1, <2>2 DEF WrittenFor
<1>3. ASSUME NEW k \in DOMAIN more
      PROVE  \E q \in TasksOf(m) : WrittenFor(m, q, more, k)
  <2>1. CASE k \in DOMAIN txs
    BY <1>2, <2>1 DEF Explained
  <2>2. CASE k = Len(txs) + 1
    BY <2>2 DEF more
  <2> QED
    BY <1>1, <2>1, <2>2
<1>4. Explained(m, more)
  BY <1>3 DEF Explained
<1>5. Extends(more, txs)
  BY <1>1 DEF Extends
<1> QED
  BY <1>4, <1>5 DEF more

-----------------------------------------------------------------------------
CurrentTask == [message |-> message, handler |-> Current.name]

(* The runtime works on a task of the manifest, as the manifest says.      *)
LEMMA CurrentTaskFacts ==
  ASSUME ShapeInv, InputInv, StageInv, DispatchedInv, TasksInv,
         stage = "dispatch", phase # "idle", todo # {}
  PROVE  /\ CurrentTask \in TasksOf(replayed)
         /\ Context = ContextOf(replayed, CurrentTask, attempt)
         /\ LogKey = HandlerKey(CurrentTask)
         /\ <<message.household, LogKey>> = KeyOf(CurrentTask)
         /\ CommitTimes = {replayed.logical.at}
<1>1. /\ message \in Messages /\ manifest = replayed.logical /\ manifest # NoManifest
      /\ versions = replayed.version
  <2>1. /\ queue # << >> /\ message = queue[1] /\ manifest = replayed.logical
        /\ IsList(queue) /\ \A i \in DOMAIN queue : queue[i] \in Messages
    BY DEF DispatchedInv, HeadInv, QueueInv
  <2>2. 1 \in DOMAIN queue
    BY <2>1, HeadAndTail
  <2>3. replayed \in manifests /\ versions = replayed.version
    BY DEF StageInv
  <2>4. manifest \in Manifest
    BY <2>1, <2>3 DEF InputInv, GoodManifest
  <2> QED
    BY <2>1, <2>2, <2>3, <2>4, ManifestAssumption
<1>2. /\ Current \in HandlersFor(message) /\ Current.name \in Name /\ Current \in Registration
  BY CurrentFacts DEF ShapeInv, DispatchInv
<1>3. CurrentTask.message = message /\ CurrentTask.handler = Current.name
  BY DEF CurrentTask
<1>4. CurrentTask \in [message : MessagesIn(replayed.prefix), handler : Name]
  BY <1>1, <1>2 DEF CurrentTask, Messages
<1>5. CurrentTask \in TasksOf(replayed)
  BY <1>2, <1>3, <1>4 DEF TasksOf, HandlersFor
<1>6. Context = ContextOf(replayed, CurrentTask, attempt)
  BY <1>1, <1>3 DEF Context, ContextOf, LogicalNow, Seed
<1>7. LogKey = HandlerKey(CurrentTask)
  BY <1>3 DEF LogKey, HandlerKey
<1>8. <<message.household, LogKey>> = KeyOf(CurrentTask)
  BY <1>3, <1>7 DEF KeyOf
<1>9. CommitTimes = {replayed.logical.at}
  BY <1>1 DEF CommitTimes
<1> QED
  BY <1>5, <1>6, <1>7, <1>8, <1>9

(* The names of the handlers of a message are those of its tasks.          *)
LEMMA TaskHandlers ==
  ASSUME TasksInv, stage = "dispatch"
  PROVE  \A p \in TasksOf(replayed) : p.handler \in {r.name : r \in HandlersFor(p.message)}
BY DEF TasksInv, TasksOf, HandlersFor

(* Every task before the one in progress has been done, and if it had an   *)
(* output this is in the log.                                              *)
LEMMA ProducersBefore ==
  ASSUME SilenceIsNoAccident, ShapeInv, FanOutInOrder, DispatchedInv, TasksInv,
         SettledFor(replayed), stage = "dispatch", phase # "idle", todo # {},
         NEW q \in TasksOf(replayed), Precedes(q, CurrentTask), Produces(replayed, q)
  PROVE  \E j \in DOMAIN log : ScopedKey(log[j]) = KeyOf(q)
<1>1. ASSUME NEW e, Settled(replayed, e, log), TaskOf(e) = q
      PROVE  \E j \in DOMAIN log : ScopedKey(log[j]) = KeyOf(q)
  BY <1>1, ProducedIsInLog
<1>2. /\ message = queue[1] /\ queue # << >> /\ IsList(queue)
      /\ \A i \in DOMAIN results : results[i].message = message
      /\ \A i \in DOMAIN queue : queue[i] \in Message
      /\ \A i, j \in DOMAIN queue : i < j => queue[i].seqNo < queue[j].seqNo
  BY DEF DispatchedInv, HeadInv, QueueInv
<1>3. DOMAIN queue = 1..Len(queue) /\ 1 \in DOMAIN queue /\ Len(queue) \in Nat
  BY <1>2, HeadAndTail
<1>4. CASE Returned(outputs, q)
  <2>1. PICK i \in DOMAIN outputs : TaskOf(outputs[i].execution) = q
    BY <1>4 DEF Returned
  <2>2. Settled(replayed, outputs[i].execution, log)
    BY DEF SettledFor, Enumerates
  <2> QED
    BY <1>1, <2>1, <2>2
<1>5. ASSUME NEW i \in DOMAIN queue, queue[i] = q.message
      PROVE  \E j \in DOMAIN log : ScopedKey(log[j]) = KeyOf(q)
  <2>1. ~(q.message.seqNo < message.seqNo)
    <3>1. q.message.seqNo \in Nat /\ message.seqNo \in Nat
      BY <1>2, <1>3, <1>5, MessageAssumption
    <3>2. CASE i = 1
      BY <1>2, <1>5, <3>1, <3>2
    <3>3. CASE 1 < i
      <4>1. queue[1].seqNo < queue[i].seqNo
        BY <1>2, <1>3, <3>3
      <4> QED
        BY <1>2, <1>5, <3>1, <4>1
    <3> QED
      BY <1>3, <3>2, <3>3
  <2>2. q.message = message /\ Rank[q.handler] < Rank[Current.name]
    BY <2>1 DEF Precedes, CurrentTask
  <2>3. q.handler \in {results[k].handler : k \in DOMAIN results} \cup {r.name : r \in todo}
    BY <2>2, TaskHandlers DEF FanOutInOrder
  <2>4. q.handler \notin {r.name : r \in todo}
    <3> SUFFICES ASSUME NEW r \in todo, r.name = q.handler PROVE FALSE
      OBVIOUS
    <3>1. todo \subseteq Registration
      BY DEF ShapeInv, TypeOK
    <3>2. /\ Rank[Current.name] <= Rank[r.name]
          /\ Rank[Current.name] \in Nat /\ Rank[r.name] \in Nat
      BY <3>1, CurrentIsLeast, NameAssumption, RegistrationAssumption
    <3> QED
      BY <2>2, <3>2
  <2>5. PICK k \in DOMAIN results : results[k].handler = q.handler
    BY <2>3, <2>4
  <2>6. TaskOf(results[k]) = q
    <3>1. q = [message |-> q.message, handler |-> q.handler]
      BY DEF TasksOf
    <3> QED
      BY <1>2, <2>2, <2>5, <3>1 DEF TaskOf
  <2>7. Settled(replayed, results[k], log)
    BY DEF SettledFor
  <2> QED
    BY <1>1, <2>6, <2>7
<1>6. (\E i \in DOMAIN queue : queue[i] = q.message) \/ Returned(outputs, q)
  BY DEF TasksInv
<1> QED
  BY <1>4, <1>5, <1>6

(* What a callback returned is settled, whether it was committed now,      *)
(* before, or nothing had to be.                                           *)
LEMMA ReturnOutputSettles ==
  ASSUME SilenceIsNoAccident, ShapeInv, ShapeInv', LogInv, FanOutInOrder, InputInv, StageInv,
         DispatchedInv, TasksInv, SettledFor(replayed), stage = "dispatch", ReturnOutput
  PROVE  /\ Explained(replayed, log') /\ Extends(log', log)
         /\ phase' = "finish" => Settled(replayed, Result(try.context, try.commit)', log')
<1> DEFINE batch == Records(Context)
           tx(at) == CommittedTransaction(Len(log) + 1, batch, LogKey, at)
           p == CurrentTask
           e == Result(try.context, try.commit)'
<1>1. /\ phase = "attempt" /\ phase # "idle" /\ todo # {}
      /\ UNCHANGED <<message, Current>>
  BY CurrentStays DEF ReturnOutput, request, ShapeInv, TypeOK
<1>2. /\ p \in TasksOf(replayed) /\ Context = ContextOf(replayed, p, attempt)
      /\ LogKey = HandlerKey(p) /\ <<message.household, LogKey>> = KeyOf(p)
      /\ CommitTimes = {replayed.logical.at}
  BY <1>1, CurrentTaskFacts
<1>3. /\ log \in Seq(Transaction) /\ IsList(log) /\ Len(log) \in Nat /\ DOMAIN log = 1..Len(log)
      /\ attempt \in Nat
  BY ListFacts DEF ShapeInv, TypeOK, IsList
<1>4. /\ e.handler = Current.name /\ e.message = message
      /\ e.context = try'.context /\ e.commit = try'.commit
  BY <1>1 DEF Result
<1>5. TaskOf(e) = p
  BY <1>4 DEF TaskOf, CurrentTask
<1>6. phase' = "finish" => e \in Results
  <2> SUFFICES ASSUME phase' = "finish" PROVE e \in Results
    OBVIOUS
  <2>1. try' \in [context : Contexts, commit : Commits]
    BY DEF ShapeInv, RecordsInv
  <2>2. Current.name \in Name /\ message \in Message
    BY <1>1, CurrentFacts
  <2> QED
    BY <1>1, <2>1, <2>2 DEF Result, Results
<1> HIDE DEF e, p
<1>7. ASSUME phase' = "finish", try'.context = Context,
             IF batch = << >> THEN try'.commit = NoCommit
             ELSE /\ try'.commit.seq \in DOMAIN log' /\ log'[try'.commit.seq] = try'.commit
                  /\ try'.commit.records = batch
                  /\ ScopedKey(try'.commit) = KeyOf(p)
      PROVE  Settled(replayed, e, log')
  <2>1. e \in Results
    BY <1>6, <1>7
  <2>2. e.context = ContextOf(replayed, TaskOf(e), attempt) /\ e.context = Context
    BY <1>2, <1>4, <1>5, <1>7
  <2>3. e.context.attempt = attempt
    BY <2>2 DEF ContextOf
  <2>4. IF Records(e.context) = << >> THEN e.commit = NoCommit
        ELSE /\ e.commit.seq \in DOMAIN log' /\ log'[e.commit.seq] = e.commit
             /\ e.commit.records = Records(e.context)
             /\ ScopedKey(e.commit) = KeyOf(TaskOf(e))
    BY <1>4, <1>5, <1>7, <2>2
  <2> QED
    BY <2>1, <2>2, <2>3, <2>4 DEF Settled
<1>8. UNCHANGED log => Explained(replayed, log') /\ Extends(log', log)
  BY <1>3 DEF SettledFor, Extends
<1>9. ASSUME UNCHANGED log, batch = << >>, try' = [context |-> Context, commit |-> NoCommit]
      PROVE  /\ Explained(replayed, log') /\ Extends(log', log)
             /\ phase' = "finish" => Settled(replayed, e, log')
  BY <1>7, <1>8, <1>9
<1>10. ASSUME UNCHANGED log, batch # << >>, AppendReplays(batch),
              \E i \in Committed : try' = [context |-> Context, commit |-> log[i]]
       PROVE  /\ Explained(replayed, log') /\ Extends(log', log)
              /\ phase' = "finish" => Settled(replayed, e, log')
  <2>1. PICK i \in Committed : try' = [context |-> Context, commit |-> log[i]]
    BY <1>10
  <2>2. PICK j \in Committed : log[j].records = batch
    BY <1>10 DEF AppendReplays
  <2>3. i = j
    BY <2>1, <2>2 DEF Committed, LogInv, Numbered
  <2>4. i \in DOMAIN log /\ log[i].seq = i /\ ScopedKey(log[i]) = KeyOf(p)
    BY <1>2, <2>1 DEF Committed, LogInv, Numbered
  <2>5. try'.context = Context /\ try'.commit = log[i]
    BY <2>1
  <2>6. log[i].records = batch
    BY <2>2, <2>3
  <2>7. phase' = "finish" => Settled(replayed, e, log')
    BY <1>7, <1>10, <2>4, <2>5, <2>6
  <2> QED
    BY <1>8, <1>10, <2>7
<1>11. ASSUME batch # << >>, ValidOutput(batch), AppendCommits(batch),
              NEW at \in CommitTimes, log' = Append(log, tx(at)),
              try' = [context |-> Context, commit |-> tx(at)]
       PROVE  /\ Explained(replayed, log') /\ Extends(log', log)
              /\ phase' = "finish" => Settled(replayed, e, log')
  <2>1. at = replayed.logical.at
    BY <1>2, <1>11
  <2>2. ScopedKey(tx(at)) = KeyOf(p)
    BY <1>1, <1>2, <1>11, OutputFacts
  <2>3. tx(at).seq = Len(log) + 1 /\ tx(at).records = batch
    BY DEF CommittedTransaction
  <2> DEFINE t == tx(at)
             k == Len(log) + 1
  <2>4. t = CommittedTransaction(k, Records(ContextOf(replayed, p, attempt)), HandlerKey(p),
                                 replayed.logical.at)
        /\ Records(ContextOf(replayed, p, attempt)) # << >>
    BY <1>2, <1>11, <2>1
  <2>5. t.seq = k /\ t.records = batch /\ ScopedKey(t) = KeyOf(p)
        /\ log' = Append(log, t) /\ try' = [context |-> Context, commit |-> t]
    BY <1>11, <2>2, <2>3
  <2> HIDE DEF t
  <2>6. /\ DOMAIN log' = 1..k /\ k \in 1..k /\ log'[k] = t
        /\ \A j \in DOMAIN log : j \in 1..(k - 1) /\ log'[j] = log[j]
    BY <1>3, <2>5, AppendFacts
  <2>7. ASSUME NEW q \in TasksOf(replayed), Precedes(q, p), Produces(replayed, q)
        PROVE  \E j \in 1..(k - 1) : ScopedKey(log'[j]) = KeyOf(q)
    <3>1. PICK j \in DOMAIN log : ScopedKey(log[j]) = KeyOf(q)
      BY <1>1, <2>7, ProducersBefore DEF p
    <3>2. j \in 1..(k - 1) /\ log'[j] = log[j]
      BY <2>6, <3>1
    <3> QED
      BY <3>1, <3>2
  <2>8. WrittenFor(replayed, p, log', k)
    <3>1. \E n \in Nat :
            /\ Records(ContextOf(replayed, p, n)) # << >>
            /\ log'[k] = CommittedTransaction(k, Records(ContextOf(replayed, p, n)),
                                              HandlerKey(p), replayed.logical.at)
      BY <1>3, <2>4, <2>6
    <3>2. ScopedKey(log'[k]) = KeyOf(p)
      BY <2>5, <2>6
    <3> HIDE DEF k
    <3> QED
      BY <2>7, <3>1, <3>2 DEF WrittenFor
  <2>9. Explained(replayed, log') /\ Extends(log', log)
    <3>1. Explained(replayed, log) /\ WrittenFor(replayed, p, Append(log, t), Len(log) + 1)
      BY <2>5, <2>8 DEF SettledFor
    <3>2. Explained(replayed, Append(log, t)) /\ Extends(Append(log, t), log)
      BY <1>2, <1>3, <3>1, ExplainedGrows
    <3> QED
      BY <2>5, <3>2
  <2>10. try'.context = Context /\ try'.commit = t
    BY <2>5
  <2>11. phase' = "finish" => Settled(replayed, e, log')
    BY <1>7, <1>11, <2>5, <2>6, <2>10
  <2> QED
    BY <2>9, <2>11
<1>12. ASSUME UNCHANGED log, phase' = "fail"
       PROVE  /\ Explained(replayed, log') /\ Extends(log', log)
              /\ phase' = "finish" => Settled(replayed, e, log')
  BY <1>8, <1>12
<1> QED
  BY <1>9, <1>10, <1>11, <1>12 DEF ReturnOutput, e

(* The tasks are not disturbed by what happens outside the dispatch.       *)
LEMMA TasksOutside ==
  ASSUME TasksInv, stage' # "dispatch",
         stage' # "idle" => (registered' = Registration \/ (stage # "idle" /\ UNCHANGED registered))
  PROVE  TasksInv'
BY DEF TasksInv

(* A runtime that does not work keeps what is settled, whatever is dumped. *)
LEMMA SettledOutside ==
  ASSUME SettledInv, stage' # "dispatch", UNCHANGED <<log, cache, tenants>>,
         disk' \in {disk, log, NoDump},
         \/ UNCHANGED <<phase, try, results, message, todo>>
         \/ phase' = "idle" /\ results' = << >>
  PROVE  SettledInv'
<1> SUFFICES ASSUME NEW m, tenants \subseteq {m} PROVE SettledFor(m)'
  BY DEF SettledInv
<1>1. SettledFor(m)
  BY DEF SettledInv
<1>2. \A k \in DOMAIN cache' : Settled(m, Remembered(k)', log')
  BY <1>1 DEF SettledFor, Remembered
<1>3. Explained(m, log') /\ (disk' # NoDump => Explained(m, disk'))
  BY <1>1 DEF SettledFor
<1>4. CASE UNCHANGED <<phase, try, results, message, todo>>
  <2>1. Result(try.context, try.commit)' = Result(try.context, try.commit)
    BY <1>4, CurrentStays DEF Result
  <2> QED
    BY <1>1, <1>2, <1>3, <1>4, <2>1 DEF SettledFor
<1>5. CASE phase' = "idle" /\ results' = << >>
  BY <1>2, <1>3, <1>5 DEF SettledFor
<1> QED
  BY <1>4, <1>5

(* What touches neither the run nor the runtime disturbs nothing.          *)
LEMMA NothingMoves ==
  ASSUME TasksInv, SettledInv, AloneInv,
         UNCHANGED <<stage, registered, replayed, tenants, queue, outputs, runs>>,
         UNCHANGED <<log, disk, cache, phase, try, results, message, todo>>
  PROVE  TasksInv' /\ SettledInv' /\ AloneInv'
<1>1. TasksInv'
  BY DEF TasksInv
<1>2. ASSUME NEW m, tenants \subseteq {m} PROVE SettledFor(m)'
  <2>1. SettledFor(m)
    BY <1>2 DEF SettledInv
  <2>2. Result(try.context, try.commit)' = Result(try.context, try.commit)
    BY CurrentStays DEF Result
  <2>3. \A k : Remembered(k)' = Remembered(k)
    BY DEF Remembered
  <2> QED
    BY <2>1, <2>2, <2>3 DEF SettledFor
<1>3. SettledInv'
  BY <1>2 DEF SettledInv
<1>4. AloneInv'
  BY DEF AloneInv
<1> QED
  BY <1>1, <1>3, <1>4

(* A step of a handler settles what it adds.                               *)
LEMMA HandleSettles ==
  ASSUME SilenceIsNoAccident, ShapeInv, ShapeInv', LogInv, FanOutInOrder, InputInv, StageInv,
         DispatchedInv, TasksInv, SettledInv, AloneInv, Handle
  PROVE  TasksInv' /\ SettledInv' /\ AloneInv'
<1>1. /\ stage = "dispatch" /\ phase # "idle"
      /\ UNCHANGED <<stage, replayed, queue, outputs, tenants, runs, disk, message, registered>>
  BY DEF Handle, run, history, ReturnCached, Begin, RaiseRetryable, RaiseOther, ReturnOutput,
     Succeed, Advance, durable, process, request
<1>2. TasksInv'
  BY <1>1 DEF TasksInv
<1>3. AloneInv'
  BY <1>1 DEF AloneInv
<1>4. ASSUME NEW m, tenants \subseteq {m} PROVE SettledFor(m)'
  <2>1. SettledFor(m) /\ m = replayed /\ SettledFor(replayed)
    BY <1>1, <1>4 DEF SettledInv, TasksInv
  <2>2. CASE Begin \/ RaiseRetryable \/ RaiseOther
    <3>1. UNCHANGED <<log, cache, results>> /\ phase' # "finish"
      BY <2>2 DEF Begin, RaiseRetryable, RaiseOther, process
    <3>2. \A k : Remembered(k)' = Remembered(k)
      BY <3>1 DEF Remembered
    <3> QED
      BY <1>1, <2>1, <3>1, <3>2 DEF SettledFor
  <2>3. CASE ReturnOutput
    <3>1. /\ Explained(m, log') /\ Extends(log', log)
          /\ phase' = "finish" => Settled(m, Result(try.context, try.commit)', log')
      BY <1>1, <2>1, <2>3, ReturnOutputSettles
    <3>2. UNCHANGED <<cache, results>>
      BY <2>3 DEF ReturnOutput, process
    <3>3. ASSUME NEW k \in DOMAIN cache PROVE Settled(m, Remembered(k)', log')
      <4>1. Remembered(k)' = Remembered(k) /\ Settled(m, Remembered(k), log)
        BY <2>1, <3>2 DEF Remembered, SettledFor
      <4> QED
        BY <3>1, <4>1, SettledGrows
    <3>4. ASSUME NEW i \in DOMAIN results PROVE Settled(m, results[i], log')
      <4>1. Settled(m, results[i], log)
        BY <2>1 DEF SettledFor
      <4> QED
        BY <3>1, <4>1, SettledGrows
    <3>5. Enumerates(m, outputs, log')
      <4>1. Enumerates(m, outputs, log)
        BY <1>1, <2>1 DEF SettledFor
      <4> QED
        BY <3>1, <4>1, EnumeratesGrows
    <3>6. disk' # NoDump => Explained(m, disk')
      BY <1>1, <2>1 DEF SettledFor
    <3> QED
      BY <1>1, <3>1, <3>2, <3>3, <3>4, <3>5, <3>6 DEF SettledFor
  <2>4. ASSUME NEW e, results' = Append(results, e), Settled(m, e, log), UNCHANGED log
        PROVE  \A i \in DOMAIN results' : Settled(m, results'[i], log')
    <3>1. IsList(results)
      BY DEF ShapeInv, RecordsInv, IsList
    <3>2. /\ DOMAIN results' = 1..(Len(results) + 1) /\ Len(results) \in Nat
          /\ DOMAIN results = 1..Len(results)
          /\ \A i \in 1..Len(results) : results'[i] = results[i]
          /\ results'[Len(results) + 1] = e
      BY <2>4, <3>1, AppendFacts, ListFacts
    <3>3. \A i \in DOMAIN results : Settled(m, results[i], log)
      BY <2>1 DEF SettledFor
    <3> QED
      BY <2>4, <3>2, <3>3
  <2>5. CASE ReturnCached
    <3> DEFINE e == Result(cache[CacheKey].context, cache[CacheKey].commit)
    <3>1. /\ CacheKey \in DOMAIN cache /\ cache[CacheKey].message = message
          /\ UNCHANGED <<log, cache>> /\ phase' = "select" /\ results' = Append(results, e)
      BY <2>5 DEF ReturnCached, Advance
    <3>2. e = Remembered(CacheKey)
      BY <3>1 DEF Result, Remembered, CacheKey
    <3>3. Settled(m, e, log)
      BY <2>1, <3>1, <3>2 DEF SettledFor
    <3> HIDE DEF e
    <3>4. \A k : Remembered(k)' = Remembered(k)
      BY <3>1 DEF Remembered
    <3>5. \A i \in DOMAIN results' : Settled(m, results'[i], log')
      BY <2>4, <3>1, <3>3
    <3> QED
      BY <1>1, <2>1, <3>1, <3>4, <3>5 DEF SettledFor
  <2>6. CASE Succeed
    <3> DEFINE e == Result(try.context, try.commit)
               entry == [message |-> message, context |-> try.context, commit |-> try.commit]
    <3>1. /\ phase = "finish" /\ phase' = "select" /\ UNCHANGED log
          /\ results' = Append(results, e) /\ cache' = Put(cache, CacheKey, entry)
      BY <2>6 DEF Succeed, Advance, Remember
    <3>2. Settled(m, e, log)
      BY <2>1, <3>1 DEF SettledFor
    <3>3. \A k \in DOMAIN cache' :
            (k = CacheKey /\ cache'[k] = entry) \/ (k \in DOMAIN cache /\ cache'[k] = cache[k])
      BY <3>1 DEF Put
    <3>4. ASSUME NEW k \in DOMAIN cache' PROVE Settled(m, Remembered(k)', log')
      <4>1. CASE k = CacheKey /\ cache'[k] = entry
        <5>1. Remembered(k)' = e
          BY <4>1 DEF Remembered, Result, CacheKey
        <5> QED
          BY <3>1, <3>2, <5>1
      <4>2. CASE k \in DOMAIN cache /\ cache'[k] = cache[k]
        <5>1. Remembered(k)' = Remembered(k) /\ Settled(m, Remembered(k), log)
          BY <2>1, <4>2 DEF Remembered, SettledFor
        <5> QED
          BY <3>1, <5>1
      <4> QED
        BY <3>3, <4>1, <4>2
    <3> HIDE DEF e, entry
    <3>5. \A i \in DOMAIN results' : Settled(m, results'[i], log')
      BY <2>4, <3>1, <3>2
    <3> QED
      BY <1>1, <2>1, <3>1, <3>4, <3>5 DEF SettledFor
  <2> QED
    BY <2>2, <2>3, <2>5, <2>6 DEF Handle
<1>5. SettledInv'
  BY <1>1, <1>4 DEF SettledInv
<1> QED
  BY <1>2, <1>3, <1>5

(* The handlers of a message have returned: its tasks are done, in order.  *)
LEMMA HandlersReturnSettles ==
  ASSUME ShapeInv, FanOutInOrder, DispatchedInv, TasksInv, SettledInv, AloneInv, HandlersReturn
  PROVE  TasksInv' /\ SettledInv' /\ AloneInv'
<1>1. /\ stage = "dispatch" /\ phase = "select" /\ todo = {}
      /\ phase' = "idle" /\ results' = << >>
      /\ UNCHANGED <<stage, replayed, tenants, runs, registered, cache, log, disk>>
      /\ queue' = Tail(queue)
      /\ outputs' = outputs \o [i \in DOMAIN results |-> Recorded(results[i])]
  BY DEF HandlersReturn, Return, End, history, process, durable
<1>2. /\ message = queue[1] /\ queue # << >> /\ IsList(queue) /\ IsList(outputs)
      /\ \A i \in DOMAIN results : results[i].message = message
      /\ \A i \in DOMAIN queue : queue[i] \in Messages
      /\ \A i \in DOMAIN outputs : \A j \in DOMAIN queue : Outcome(i).seqNo < queue[j].seqNo
  BY <1>1 DEF DispatchedInv, HeadInv, QueueInv, OutputsInv
<1>3. /\ DOMAIN queue' = 1..(Len(queue) - 1)
      /\ \A i \in 1..(Len(queue) - 1) : queue'[i] = queue[i + 1]
      /\ Len(queue) \in Nat /\ DOMAIN queue = 1..Len(queue) /\ 1 \in DOMAIN queue
  BY <1>1, <1>2, HeadAndTail
<1> DEFINE n == Len(outputs)
<1>4. /\ IsList(outputs') /\ n \in Nat /\ DOMAIN outputs = 1..n
      /\ Len(results) \in Nat /\ DOMAIN results = 1..Len(results)
      /\ DOMAIN outputs' = 1..(n + Len(results))
      /\ \A i \in DOMAIN outputs : outputs'[i] = outputs[i]
      /\ \A k \in DOMAIN results : outputs'[n + k] = Recorded(results[k])
  BY <1>1, <1>2, ReturnedList
<1>5. \A k \in DOMAIN results : outputs'[n + k].execution = results[k]
  <2>1. \A k \in DOMAIN results : Recorded(results[k]).execution = results[k]
    BY DEF Recorded
  <2> QED
    BY <1>4, <2>1
<1>6. ASSUME NEW i \in DOMAIN outputs'
      PROVE  i \in DOMAIN outputs \/ \E k \in DOMAIN results : i = n + k
  <2>1. i \notin DOMAIN outputs => i - n \in DOMAIN results /\ i = n + (i - n)
    BY <1>4
  <2> QED
    BY <2>1
<1>7. ASSUME NEW k \in DOMAIN results
      PROVE  /\ TaskOf(results[k]) \in TasksOf(replayed)
             /\ TaskOf(results[k]) = [message |-> message, handler |-> results[k].handler]
  <2>1. TaskOf(results[k]) = [message |-> message, handler |-> results[k].handler]
    BY <1>2 DEF TaskOf
  <2>2. results[k] \in Results
    BY <1>4 DEF ShapeInv, RecordsInv
  <2>3. results[k].handler \in {r.name : r \in HandlersFor(message)}
    BY <1>1 DEF FanOutInOrder
  <2>4. message \in MessagesIn(replayed.prefix) /\ results[k].handler \in Name
    BY <1>2, <1>3, <2>2 DEF Messages, Results
  <2>5. PICK r \in HandlersFor(message) : r.name = results[k].handler
    BY <2>3
  <2>6. r \in Registration /\ r.kind = message.kind /\ r.on = message.name
    BY <1>1 DEF TasksInv, HandlersFor
  <2> DEFINE p == [message |-> message, handler |-> results[k].handler]
  <2>7. /\ p \in [message : MessagesIn(replayed.prefix), handler : Name]
        /\ p.message = message /\ p.handler = results[k].handler
    BY <2>4
  <2> HIDE DEF p
  <2>8. p \in TasksOf(replayed)
    BY <2>5, <2>6, <2>7 DEF TasksOf
  <2> QED
    BY <2>1, <2>8 DEF p
<1>8. ASSUME NEW i \in DOMAIN outputs'
      PROVE  TaskOf(outputs'[i].execution) \in TasksOf(replayed)
  <2>1. CASE i \in DOMAIN outputs
    BY <1>1, <1>4, <2>1 DEF TasksInv
  <2>2. ASSUME NEW k \in DOMAIN results, i = n + k
        PROVE  TaskOf(outputs'[i].execution) \in TasksOf(replayed)
    BY <1>5, <1>7, <2>2
  <2> QED
    BY <1>6, <2>1, <2>2
<1>9. ASSUME NEW i \in DOMAIN outputs', NEW j \in DOMAIN outputs', i < j
      PROVE  Precedes(TaskOf(outputs'[i].execution), TaskOf(outputs'[j].execution))
  <2>1. CASE j \in DOMAIN outputs
    <3>1. i \in DOMAIN outputs
      BY <1>4, <1>9, <2>1
    <3> QED
      BY <1>1, <1>4, <1>9, <2>1, <3>1 DEF TasksInv, InTaskOrder
  <2>2. ASSUME i \in DOMAIN outputs, NEW l \in DOMAIN results, j = n + l
        PROVE  Precedes(TaskOf(outputs'[i].execution), TaskOf(outputs'[j].execution))
    <3>1. TaskOf(outputs'[i].execution).message.seqNo < message.seqNo
      BY <1>2, <1>3, <1>4, <2>2 DEF Outcome, TaskOf
    <3>2. TaskOf(outputs'[j].execution).message = message
      BY <1>5, <1>7, <2>2
    <3> QED
      BY <3>1, <3>2 DEF Precedes
  <2>3. ASSUME NEW k \in DOMAIN results, i = n + k, NEW l \in DOMAIN results, j = n + l
        PROVE  Precedes(TaskOf(outputs'[i].execution), TaskOf(outputs'[j].execution))
    <3>1. k \in 1..(l - 1)
      BY <1>4, <1>9, <2>3
    <3>2. Rank[results[k].handler] < Rank[results[l].handler]
      BY <1>1, <3>1 DEF FanOutInOrder
    <3>3. /\ TaskOf(outputs'[i].execution) = [message |-> message, handler |-> results[k].handler]
          /\ TaskOf(outputs'[j].execution) = [message |-> message, handler |-> results[l].handler]
      BY <1>5, <1>7, <2>3
    <3> QED
      BY <3>2, <3>3 DEF Precedes
  <2> QED
    BY <1>6, <2>1, <2>2, <2>3
<1>10. ASSUME NEW p \in TasksOf(replayed)
       PROVE  (\E i \in DOMAIN queue' : queue'[i] = p.message) \/ Returned(outputs', p)
  <2>1. CASE Returned(outputs, p)
    <3>1. PICK i \in DOMAIN outputs : TaskOf(outputs[i].execution) = p
      BY <2>1 DEF Returned
    <3>2. i \in DOMAIN outputs' /\ outputs'[i] = outputs[i]
      BY <1>4
    <3> QED
      BY <3>1, <3>2 DEF Returned
  <2>2. ASSUME NEW i \in DOMAIN queue, queue[i] = p.message, i # 1
        PROVE  \E j \in DOMAIN queue' : queue'[j] = p.message
    <3>1. i - 1 \in 1..(Len(queue) - 1) /\ (i - 1) + 1 = i
      BY <1>3, <2>2
    <3> QED
      BY <1>3, <2>2, <3>1
  <2>3. CASE p.message = message
    <3>1. p.handler \in {r.name : r \in HandlersFor(message)}
      BY <1>1, <2>3, TaskHandlers
    <3>2. PICK k \in DOMAIN results : results[k].handler = p.handler
      BY <1>1, <3>1 DEF FanOutInOrder
    <3>3. p = [message |-> p.message, handler |-> p.handler]
      BY DEF TasksOf
    <3>4. TaskOf(outputs'[n + k].execution) = p /\ n + k \in DOMAIN outputs'
      BY <1>4, <1>5, <1>7, <2>3, <3>2, <3>3
    <3> QED
      BY <3>4 DEF Returned
  <2>4. (\E i \in DOMAIN queue : queue[i] = p.message) \/ Returned(outputs, p)
    BY <1>1 DEF TasksInv
  <2> QED
    BY <1>2, <2>1, <2>2, <2>3, <2>4
<1>11. TasksInv'
  BY <1>1, <1>8, <1>9, <1>10 DEF TasksInv, InTaskOrder
<1>12. ASSUME NEW m, tenants \subseteq {m} PROVE SettledFor(m)'
  <2>1. SettledFor(m)
    BY <1>12 DEF SettledInv
  <2>2. ASSUME NEW i \in DOMAIN outputs'
        PROVE  /\ Settled(m, outputs'[i].execution, log)
               /\ outputs'[i] = Noted(outputs'[i].execution, log)
    <3>1. CASE i \in DOMAIN outputs
      BY <1>1, <1>4, <2>1, <3>1 DEF SettledFor, Enumerates
    <3>2. ASSUME NEW k \in DOMAIN results, i = n + k
          PROVE  /\ Settled(m, outputs'[i].execution, log)
                 /\ outputs'[i] = Noted(outputs'[i].execution, log)
      <4>1. Settled(m, results[k], log)
        BY <2>1 DEF SettledFor
      <4>2. Recorded(results[k]) = Noted(results[k], log)
        BY DEF Recorded, Noted
      <4> QED
        BY <1>4, <1>5, <3>2, <4>1, <4>2
    <3> QED
      BY <1>6, <3>1, <3>2
  <2>3. Enumerates(m, outputs', log)
    BY <1>4, <2>2 DEF Enumerates
  <2>4. \A k : Remembered(k)' = Remembered(k)
    BY <1>1 DEF Remembered
  <2> QED
    BY <1>1, <2>1, <2>3, <2>4 DEF SettledFor
<1>13. SettledInv'
  BY <1>1, <1>12 DEF SettledInv
<1>14. AloneInv'
  BY <1>1 DEF AloneInv
<1> QED
  BY <1>11, <1>13, <1>14

(* A run that dispatches is a tenant of the output log from the start.     *)
LEMMA DecodeSettles ==
  ASSUME InputInv, StageInv, VersionInv, RunsInv, TasksInv, SettledInv, AloneInv, Decode
  PROVE  TasksInv' /\ SettledInv' /\ AloneInv'
<1>1. /\ stage = "decode" /\ phase = "idle" /\ outputs = << >>
      /\ UNCHANGED <<log, disk, cache, phase, try, results, message, todo, registered, runs>>
  BY DEF Decode, runtime, vars, process, progress, durable, request, StageInv
<1>2. AloneInv'
  BY <1>1 DEF AloneInv
<1>3. CASE Abandon /\ UNCHANGED tenants
  <2>1. stage' = "idle"
    BY <1>3 DEF Abandon
  <2> QED
    BY <1>1, <1>2, <1>3, <2>1, TasksOutside, SettledOutside
<1>4. CASE /\ stage' = "dispatch" /\ tenants' = tenants \cup {replayed}
           /\ UNCHANGED <<replayed, outputs>>
  <2>1. CoverInv'
    BY <1>4, DecodeIsSafe DEF DispatchedInv
  <2>2. DOMAIN outputs' = {}
    BY <1>1, <1>4
  <2>3. ASSUME NEW p \in TasksOf(replayed) PROVE \E i \in DOMAIN queue' : queue'[i] = p.message
    <3>1. p.message \in Messages' /\ HandlersFor(p.message)' # {}
      BY <1>1, <1>4 DEF TasksInv, TasksOf, HandlersFor, Messages
    <3> QED
      BY <2>1, <2>2, <3>1 DEF CoverInv
  <2>4. TasksInv'
    BY <1>1, <1>4, <2>2, <2>3 DEF TasksInv, InTaskOrder
  <2>5. ASSUME NEW m, tenants' \subseteq {m} PROVE SettledFor(m)'
    <3>1. SettledFor(m)
      BY <1>4, <2>5 DEF SettledInv
    <3>2. Enumerates(m, outputs', log')
      BY <1>1, <1>4, <2>2, EmptyList DEF Enumerates
    <3>3. \A k : Remembered(k)' = Remembered(k)
      BY <1>1 DEF Remembered
    <3> QED
      BY <1>1, <3>1, <3>2, <3>3 DEF SettledFor
  <2>6. SettledInv'
    BY <2>5 DEF SettledInv
  <2> QED
    BY <1>2, <2>4, <2>6
<1> QED
  BY <1>3, <1>4 DEF Decode

(* A run that returns has done all of its tasks.                           *)
LEMMA EndReplaySettles ==
  ASSUME ShapeInv, LogInv, TasksInv, SettledInv, AloneInv, EndReplay
  PROVE  TasksInv' /\ SettledInv' /\ AloneInv'
<1> DEFINE r == [manifest |-> replayed, outputs |-> outputs, code |-> code,
                 alone |-> tenants = {replayed}]
<1>1. /\ stage = "dispatch" /\ queue = << >> /\ stage' = "idle" /\ runs' = runs \cup {r}
      /\ UNCHANGED <<log, disk, cache, phase, try, results, message, todo, tenants>>
  BY DEF EndReplay, runtime, vars, process, progress, durable, request, Abandon
<1>2. r.manifest = replayed /\ r.outputs = outputs /\ (r.alone => tenants \subseteq {replayed})
  OBVIOUS
<1> HIDE DEF r
<1>3. ASSUME r.alone PROVE Completed(replayed, outputs, log)
  <2>1. SettledFor(replayed)
    BY <1>2, <1>3 DEF SettledInv
  <2>2. IsList(log) /\ Numbered(log)
    BY DEF ShapeInv, TypeOK, LogInv, IsList
  <2>3. \A p \in TasksOf(replayed) : Returned(outputs, p)
    BY <1>1 DEF TasksInv
  <2> QED
    BY <1>1, <2>1, <2>2, <2>3 DEF Completed, SettledFor, TasksInv
<1>4. AloneInv'
  BY <1>1, <1>2, <1>3 DEF AloneInv
<1> QED
  BY <1>1, <1>4, TasksOutside, SettledOutside

(* A new runtime has the dump for its log, or an empty log and no tenants. *)
LEMMA NewRuntimeSettles ==
  ASSUME SettledInv, AloneInv, NewRuntimeHere \/ NewProcess
  PROVE  TasksInv' /\ SettledInv' /\ AloneInv'
<1>1. /\ UNCHANGED <<disk, runs>> /\ stage' = "idle" /\ phase' = "idle" /\ results' = << >>
      /\ DOMAIN cache' = {}
      /\ log' = (IF disk = NoDump THEN << >> ELSE disk)
      /\ tenants' = (IF disk = NoDump THEN {} ELSE tenants)
  BY DEF NewRuntimeHere, NewProcess, NewRuntime, Restart, End, Abandon, EmptyDict
<1>2. ASSUME NEW m, tenants' \subseteq {m} PROVE SettledFor(m)'
  <2>1. CASE disk = NoDump
    <3>1. log' = << >> /\ DOMAIN log' = {}
      BY <1>1, <2>1
    <3> QED
      BY <1>1, <2>1, <3>1 DEF SettledFor, Explained
  <2>2. CASE disk # NoDump
    <3>1. SettledFor(m)
      BY <1>1, <1>2, <2>2 DEF SettledInv
    <3> QED
      BY <1>1, <2>2, <3>1 DEF SettledFor
  <2> QED
    BY <2>1, <2>2
<1>3. SettledInv'
  BY <1>2 DEF SettledInv
<1> QED
  BY <1>1, <1>3 DEF TasksInv, AloneInv

(* A dispatch begins, or cannot.                                           *)
LEMMA DispatchNextSettles ==
  ASSUME TasksInv, SettledInv, AloneInv, DispatchNext
  PROVE  TasksInv' /\ SettledInv' /\ AloneInv'
<1>1. stage = "dispatch" /\ phase = "idle" /\ UNCHANGED <<tenants, runs>>
  BY DEF DispatchNext, history
<1>2. AloneInv'
  BY <1>1 DEF AloneInv
<1>3. CASE Dispatch(Head(queue), replayed.logical) /\ UNCHANGED run
  <2>1. /\ results' = << >> /\ phase' = "select"
        /\ UNCHANGED <<log, disk, registered, cache, try, stage, replayed, queue, outputs>>
    BY <1>3 DEF Dispatch, durable, process, progress, run
  <2>2. TasksInv'
    BY <1>1, <2>1 DEF TasksInv
  <2>3. ASSUME NEW m, tenants \subseteq {m} PROVE SettledFor(m)'
    <3>1. SettledFor(m)
      BY <2>3 DEF SettledInv
    <3>2. \A k : Remembered(k)' = Remembered(k)
      BY <2>1 DEF Remembered
    <3> QED
      BY <1>1, <2>1, <3>1, <3>2 DEF SettledFor
  <2>4. SettledInv'
    BY <1>1, <2>3 DEF SettledInv
  <2> QED
    BY <1>2, <2>2, <2>4
<1>4. CASE Abandon /\ UNCHANGED runtime
  <2>1. /\ stage' = "idle"
        /\ UNCHANGED <<log, disk, cache, phase, try, results, message, todo>>
    BY <1>4 DEF Abandon, runtime, vars, durable, process, progress, request
  <2> QED
    BY <1>1, <1>2, <2>1, TasksOutside, SettledOutside
<1> QED
  BY <1>3, <1>4 DEF DispatchNext

-----------------------------------------------------------------------------
(* The log keeps its numbers in a replay.                                  *)
LEMMA ReplayLogStep ==
  ASSUME ReplayInv, LogInv, [ReplayNext]_replayVars
  PROVE  LogInv'
<1>1. [Next]_vars \/ DeleteDump
  BY RuntimeMoves DEF ReplayInv
<1>2. CASE DeleteDump
  BY <1>2 DEF DeleteDump, LogInv
<1> QED
  BY <1>1, <1>2, LogStep DEF ReplayInv

(* The invariant under which replay is deterministic.                      *)
DeterminismInv == ReplayInv /\ LogInv /\ TasksInv /\ SettledInv /\ AloneInv

(* The initial states satisfy it.                                          *)
LEMMA DeterminismInit == ReplayInit => DeterminismInv
<1> SUFFICES ASSUME ReplayInit PROVE DeterminismInv
  OBVIOUS
<1>1. ReplayInv
  BY ReplayInitInv
<1>2. /\ log = << >> /\ disk = NoDump /\ DOMAIN cache = {} /\ phase = "idle" /\ results = << >>
      /\ stage = "idle" /\ runs = {}
  BY DEF ReplayInit, Init, EmptyDict
<1>3. LogInv /\ TasksInv /\ AloneInv
  BY <1>2 DEF LogInv, Numbered, TasksInv, AloneInv
<1>4. SettledInv
  BY <1>2 DEF SettledInv, SettledFor, Explained
<1> QED
  BY <1>1, <1>3, <1>4 DEF DeterminismInv

(* Every step keeps it.                                                    *)
LEMMA DeterminismStep ==
  ASSUME SilenceIsNoAccident, DeterminismInv, [ReplayNext]_replayVars
  PROVE  DeterminismInv'
<1> USE DEF DeterminismInv
<1>1. ReplayInv' /\ LogInv'
  BY ReplayStep, ReplayLogStep
<1>2. /\ ShapeInv /\ ShapeInv' /\ FanOutInOrder /\ InputInv /\ StageInv /\ DispatchedInv
      /\ VersionInv /\ RunsInv
  BY <1>1 DEF ReplayInv
<1>3. CASE Handle
  BY <1>1, <1>2, <1>3, HandleSettles
<1>4. CASE HandlersReturn
  BY <1>1, <1>2, <1>4, HandlersReturnSettles
<1>5. CASE Decode
  BY <1>1, <1>2, <1>5, DecodeSettles
<1>6. CASE EndReplay
  BY <1>1, <1>2, <1>6, EndReplaySettles
<1>7. CASE NewRuntimeHere \/ NewProcess
  BY <1>1, <1>7, NewRuntimeSettles
<1>8. CASE DispatchNext
  BY <1>1, <1>8, DispatchNextSettles
<1>9. CASE HandlerRaises
  <2>1. /\ phase' = "idle" /\ results' = << >> /\ stage' = "idle"
        /\ UNCHANGED <<log, disk, cache, tenants, runs>>
    BY <1>9 DEF HandlerRaises, Fail, RefuseReusedKey, End, durable, process, history, Abandon
  <2> QED
    BY <1>1, <2>1, TasksOutside, SettledOutside DEF AloneInv
<1>10. CASE \/ \E r \in Registration : Setup(r)
            \/ SaveOutput \/ DeleteDump
  <2>1. /\ stage = "idle" /\ UNCHANGED <<stage, log, cache, phase, try, results, message, todo>>
        /\ UNCHANGED <<tenants, runs>> /\ disk' \in {disk, log, NoDump}
    BY <1>10 DEF Setup, Register, SaveOutput, Dump, DeleteDump, durable, process, progress,
       request, run, history
  <2> QED
    BY <1>1, <2>1, TasksOutside, SettledOutside DEF AloneInv
<1>11. CASE (\E m \in manifests : StartReplay(m)) \/ VerifyWatermark \/ VerifyFingerprint
  <2>1. /\ UNCHANGED <<log, disk, cache, phase, try, results, message, todo, registered>>
        /\ UNCHANGED <<tenants, runs>> /\ stage' # "dispatch"
        /\ stage' # "idle" => (registered' = Registration \/ stage # "idle")
    BY <1>11 DEF StartReplay, VerifyWatermark, VerifyFingerprint, Abandon, runtime, vars, durable,
       process, progress, request, history
  <2> QED
    BY <1>1, <2>1, TasksOutside, SettledOutside DEF AloneInv
<1>12. ASSUME \/ \E feed \in Feed : InputCommit(feed)
              \/ \E n \in 0..Len(input) : InputReload(n) \/ BeginManifest(n)
              \/ ReadWatermark
              \/ \E logical \in Logical, v \in Version, schemaVersion \in SchemaVersion :
                   EndManifest(logical, v, schemaVersion)
              \/ \E v \in Version : EditSource(v)
              \/ UNCHANGED replayVars
       PROVE  DeterminismInv'
  <2>1. /\ UNCHANGED <<stage, registered, replayed, tenants, queue, outputs, runs>>
        /\ UNCHANGED <<log, disk, cache, phase, try, results, message, todo>>
    BY <1>12 DEF InputCommit, InputReload, BeginManifest, ReadWatermark, EndManifest, EditSource,
       replayVars, runtime, vars, durable, process, progress, request, run, history
  <2> QED
    BY <1>1, <2>1, NothingMoves
<1> QED
  BY <1>3, <1>4, <1>5, <1>6, <1>7, <1>8, <1>9, <1>10, <1>11, <1>12 DEF ReplayNext, Run

(* Replay is deterministic: two runs of one manifest, each over an output  *)
(* log that served no other, return the same executions, commits and       *)
(* watermarks if their handlers needed the same attempts, whatever failed, *)
(* was restarted or was committed to the input log meanwhile; provided     *)
(* that it does not depend on the attempt whether a handler has an output. *)
THEOREM ReplayDeterminism ==
  ASSUME SilenceIsNoAccident
  PROVE  ReplaySpec => []RunsAgree
<1>1. AloneInv => RunsAgree
  <2> SUFFICES ASSUME AloneInv, NEW r \in runs, NEW s \in runs, r.manifest = s.manifest,
                      r.alone, s.alone, Attempts(r) = Attempts(s)
               PROVE  r.outputs = s.outputs
    BY DEF RunsAgree
  <2>1. PICK txs : Completed(r.manifest, r.outputs, txs)
    BY DEF AloneInv
  <2>2. PICK others : Completed(r.manifest, s.outputs, others)
    BY DEF AloneInv
  <2> QED
    BY <2>1, <2>2, CompletedAgree DEF Attempts
<1>2. DeterminismInv => AloneInv
  BY DEF DeterminismInv
<1> QED
  BY <1>1, <1>2, DeterminismInit, DeterminismStep, PTL DEF ReplaySpec
=============================================================================
