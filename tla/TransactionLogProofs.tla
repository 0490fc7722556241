------------------------ MODULE TransactionLogProofs ------------------------
(***************************************************************************)
(* Proofs about AppendOnlyTransactionLog: the five properties that TLC     *)
(* checks on a small instance, for every set of threads, records, keys,    *)
(* times and appends; and before them what they need of LogContracts:      *)
(* local sequences count finitely many records, they grow by the records   *)
(* of one transaction, and they depend on nothing but the transactions     *)
(* they count.                                                             *)
(***************************************************************************)
EXTENDS TransactionLog, FiniteSetTheorems, FunctionTheorems, SequenceTheorems, TLAPS

-----------------------------------------------------------------------------
(* The records of a committed transaction are a batch.                     *)
LEMMA RecordsOf ==
  ASSUME NEW txs \in Seq(Transaction), NEW i \in 1..Len(txs)
  PROVE  txs[i].records \in Batch
<1>1. txs[i] \in Transaction
  BY ElementOfSeq
<1> QED
  BY <1>1 DEF Transaction

(* A batch holds finitely many records of a schema ...                     *)
LEMMA BatchFinite ==
  ASSUME NEW batch \in Batch, NEW s
  PROVE  IsFiniteSet({j \in DOMAIN batch : batch[j].schema = s})
<1>1. Len(batch) \in Nat /\ DOMAIN batch = 1..Len(batch)
  BY LenProperties DEF Batch
<1>2. IsFiniteSet(1..Len(batch))
  BY <1>1, FS_Interval
<1> QED
  BY <1>1, <1>2, FS_Subset

(* ... and so does a log.                                                  *)
LEMMA PlacesFinite ==
  ASSUME NEW s, NEW txs \in Seq(Transaction), NEW n \in 0..Len(txs)
  PROVE  IsFiniteSet(PlacesOf(s, txs, n))
<1> DEFINE places(i) == {i} \X {j \in DOMAIN txs[i].records : txs[i].records[j].schema = s}
           f == [i \in 1..n |-> places(i)]
           S == {places(i) : i \in 1..n}
<1>1. \A i \in 1..n : IsFiniteSet(places(i))
  <2> SUFFICES ASSUME NEW i \in 1..n PROVE IsFiniteSet(places(i))
    OBVIOUS
  <2>1. Len(txs) \in Nat
    BY LenProperties
  <2>2. txs[i].records \in Batch
    BY <2>1, RecordsOf
  <2>3. IsFiniteSet({j \in DOMAIN txs[i].records : txs[i].records[j].schema = s})
    BY <2>2, BatchFinite
  <2> QED
    BY <2>3, FS_Singleton, FS_Product
<1>2. f \in Surjection(1..n, S)
  BY DEF Surjection
<1>3. IsFiniteSet(S)
  BY <1>2, FS_Interval, FS_Surjection
<1> QED
  BY <1>1, <1>3, FS_UNION DEF PlacesOf

(* The local sequence is a count for every schema.                         *)
LEMMA LocalSeqType ==
  ASSUME NEW txs \in Seq(Transaction), NEW n \in 0..Len(txs)
  PROVE  LocalSeqAt(txs, n) \in [Schema -> Nat]
BY PlacesFinite, FS_CardinalityType DEF LocalSeqAt

(* An empty log counts no record.                                          *)
LEMMA LocalSeqEmpty ==
  ASSUME NEW txs
  PROVE  LocalSeqAt(txs, 0) = NoRecords
<1>1. \A s : PlacesOf(s, txs, 0) = {}
  BY DEF PlacesOf
<1> QED
  BY <1>1, FS_EmptySet DEF LocalSeqAt, NoRecords

(* Adding one transaction adds its records, schema by schema.              *)
LEMMA LocalSeqStep ==
  ASSUME NEW txs \in Seq(Transaction), NEW n \in 1..Len(txs)
  PROVE  LocalSeqAt(txs, n) = CountSchemas(LocalSeqAt(txs, n-1), txs[n].records)
<1> SUFFICES ASSUME NEW s \in Schema
             PROVE  Cardinality(PlacesOf(s, txs, n))
                      = Cardinality(PlacesOf(s, txs, n-1))
                        + Cardinality({j \in DOMAIN txs[n].records : txs[n].records[j].schema = s})
  BY DEF LocalSeqAt, CountSchemas
<1> DEFINE J == {j \in DOMAIN txs[n].records : txs[n].records[j].schema = s}
           added == {n} \X J
           old == PlacesOf(s, txs, n-1)
<1>1. PlacesOf(s, txs, n) = old \cup added
  <2>1. 1..n = (1..(n-1)) \cup {n}
    OBVIOUS
  <2> QED
    BY <2>1 DEF PlacesOf
<1>2. old \cap added = {}
  BY DEF PlacesOf
<1>3. IsFiniteSet(old)
  BY PlacesFinite
<1>4. IsFiniteSet(J)
  BY RecordsOf, BatchFinite
<1>5. IsFiniteSet(added) /\ Cardinality(added) = Cardinality(J)
  <2>1. Cardinality({n}) = 1 /\ IsFiniteSet({n})
    BY FS_Singleton
  <2>2. Cardinality(J) \in Nat
    BY <1>4, FS_CardinalityType
  <2>3. IsFiniteSet(added) /\ Cardinality(added) = Cardinality({n}) * Cardinality(J)
    BY <1>4, <2>1, FS_Product
  <2> QED
    BY <2>1, <2>2, <2>3
<1>6. Cardinality(old \cup added)
        = Cardinality(old) + Cardinality(added) - Cardinality(old \cap added)
  BY <1>3, <1>5, FS_Union
<1>7. Cardinality(old) \in Nat /\ Cardinality(J) \in Nat
  BY <1>3, <1>4, FS_CardinalityType
<1> HIDE DEF J, added, old
<1>8. Cardinality(old \cap added) = 0
  BY <1>2, FS_EmptySet, Zenon
<1>9. Cardinality(PlacesOf(s, txs, n)) = Cardinality(old \cup added)
  BY <1>1, Zenon
<1>10. Cardinality(PlacesOf(s, txs, n)) = Cardinality(old) + Cardinality(J)
  BY <1>5, <1>6, <1>7, <1>8, <1>9
<1> QED
  BY <1>10 DEF J, old

(* Logs that agree on their first n transactions have the same counts.     *)
LEMMA LocalSeqOfPrefix ==
  ASSUME NEW txs, NEW others, NEW n \in Nat, \A i \in 1..n : txs[i] = others[i]
  PROVE  LocalSeqAt(txs, n) = LocalSeqAt(others, n)
<1>1. \A s : PlacesOf(s, txs, n) = PlacesOf(s, others, n)
  BY DEF PlacesOf
<1> QED
  BY <1>1 DEF LocalSeqAt

(* What append builds from a batch it has validated is a transaction.      *)
LEMMA CommittedType ==
  ASSUME NEW seq \in Nat, NEW batch \in Batch, ValidBatch(batch),
         NEW key \in Key, NEW at \in Time
  PROVE  CommittedTransaction(seq, batch, key, at) \in Transaction
<1>1. 1 \in DOMAIN batch /\ batch[1] \in Record
  BY DEF Batch, ValidBatch
<1> QED
  BY <1>1 DEF CommittedTransaction, Transaction

(* A log that load accepts, with one more transaction whose key and        *)
(* records are new, is a log that load accepts.                            *)
LEMMA ValidDumpAppend ==
  ASSUME NEW txs \in Seq(Transaction), ValidDump(txs),
         NEW batch \in Batch, ValidBatch(batch), NEW key \in Key, NEW at \in Time,
         NEW tx, tx = CommittedTransaction(Len(txs) + 1, batch, key, at),
         \A i \in DOMAIN txs : /\ ScopedKey(txs[i]) # ScopedKey(tx)
                               /\ RecordIds(txs[i].records) \cap RecordIds(batch) = {}
  PROVE  ValidDump(Append(txs, tx))
<1> DEFINE new == Append(txs, tx)
           m == Len(txs)
<1>1. tx \in Transaction
  BY CommittedType
<1>2. /\ m \in Nat
      /\ DOMAIN txs = 1..m
      /\ new \in Seq(Transaction)
      /\ DOMAIN new = 1..(m+1)
      /\ \A i \in 1..m : new[i] = txs[i]
      /\ new[m+1] = tx
  BY <1>1
<1>3. tx.seq = m+1 /\ tx.records = batch /\ tx.household = batch[1].household
  BY DEF CommittedTransaction
<1> HIDE DEF new, m
<1>4. \A i \in DOMAIN new : new[i].seq = i /\ new[i].records # << >>
  BY <1>2, <1>3 DEF ValidDump, ValidBatch
<1>5. \A i, j \in DOMAIN new : ScopedKey(new[i]) = ScopedKey(new[j]) => i = j
  BY <1>2 DEF ValidDump
<1>6. \A i, j \in DOMAIN new :
         RecordIds(new[i].records) \cap RecordIds(new[j].records) # {} => i = j
  <2>1. \A i, j \in 1..m :
          RecordIds(txs[i].records) \cap RecordIds(txs[j].records) # {} => i = j
    BY <1>2 DEF ValidDump
  <2>2. \A i \in 1..m : RecordIds(new[i].records) \cap RecordIds(new[m+1].records) = {}
    BY <1>2, <1>3
  <2> SUFFICES ASSUME NEW i \in 1..(m+1), NEW j \in 1..(m+1),
                      RecordIds(new[i].records) \cap RecordIds(new[j].records) # {}
               PROVE  i = j
    BY <1>2
  <2>3. CASE i = m+1 /\ j \in 1..m
    BY <2>2, <2>3
  <2>4. CASE j = m+1 /\ i \in 1..m
    BY <2>2, <2>4
  <2>5. CASE i \in 1..m /\ j \in 1..m
    BY <1>2, <2>1, <2>5
  <2> QED
    BY <1>2, <2>3, <2>4, <2>5
<1>7. \A i \in DOMAIN new : \A j, k \in DOMAIN new[i].records :
         /\ new[i].records[j].id = new[i].records[k].id => j = k
         /\ new[i].records[j].household = new[i].household
  <2>1. 1 \in DOMAIN batch
    BY DEF Batch, ValidBatch
  <2> QED
    BY <1>2, <1>3, <2>1 DEF ValidDump, ValidBatch
<1> QED
  BY <1>4, <1>5, <1>6, <1>7 DEF ValidDump, new

-----------------------------------------------------------------------------
(* Inside append a thread has a batch that passed the checks; only the     *)
(* thread that holds the lock has pushed, and what it pushed is there.     *)
LockInv ==
  /\ NoThread \notin Thread
  /\ \A t \in Thread : pc[t] # "idle" =>
       call[t] \in Request /\ ValidBatch(call[t].records)
  /\ \A t \in Thread : pc[t] = "pushed" <=> lock = t
  /\ lock # NoThread => transactions # << >>

(* A process that is down has nothing in memory.                           *)
DownInv == ~running => transactions = << >> /\ lock = NoThread

(* The copy a dump has taken is a prefix of the log.                       *)
SnapshotInv ==
  snapshot # NoDump =>
    \E n \in 0..Len(transactions) : snapshot = SubSeq(transactions, 1, n)

(* A caller was told the watermark that load would compute.                *)
HeldInv ==
  held # NoAck =>
    /\ held.log # << >>
    /\ held.watermark = WatermarkFor(held.log[Len(held.log)],
                                     LocalSeqAt(held.log, Len(held.log)))

IInv ==
  /\ TypeOK
  /\ LockInv
  /\ DownInv
  /\ EveryCopyLoads
  /\ IndexesMatchLog
  /\ SnapshotInv
  /\ HeldInv

-----------------------------------------------------------------------------
(* A new process starts in a consistent state.                             *)
LEMMA InitIInv == Init => IInv
<1> SUFFICES ASSUME Init PROVE IInv
  OBVIOUS
<1> USE DEF Init, EmptyDict
<1>1. TypeOK
  BY DEF TypeOK, NoRecords
<1>2. LockInv
  BY ThreadAssumption DEF LockInv
<1>3. EveryCopyLoads
  BY DEF EveryCopyLoads, ValidDump
<1>4. IndexesMatchLog
  BY LocalSeqEmpty DEF IndexesMatchLog, IndexesCover
<1> QED
  BY <1>1, <1>2, <1>3, <1>4 DEF IInv, DownInv, SnapshotInv, HeldInv

(* What a request in append is made of.                                    *)
LEMMA RequestFacts ==
  ASSUME NEW request \in Request, ValidBatch(request.records)
  PROVE  /\ request.records \in Batch
         /\ request.key \in Key
         /\ CommitTimes(request) \subseteq Time
         /\ \A seq, at :
              ScopedKey(CommittedTransaction(seq, request.records, request.key, at))
                = RequestKey(request)
<1>1. request \in [records : Batch, key : Key, at : RequestTime]
  BY RequestAssumption
<1>2. CommitTimes(request) \subseteq Time
  BY <1>1 DEF CommitTimes, RequestTime
<1>3. \A seq, at : ScopedKey(CommittedTransaction(seq, request.records, request.key, at))
                     = RequestKey(request)
  BY DEF ScopedKey, CommittedTransaction, RequestKey
<1> QED
  BY <1>1, <1>2, <1>3

(* The indexes of a log that was extended still cover what they covered.   *)
LEMMA CoverOfPrefix ==
  ASSUME NEW n \in Nat, IndexesCover(n), UNCHANGED indexes,
         \A i \in 1..n : transactions'[i] = transactions[i]
  PROVE  IndexesCover(n)'
<1>1. \A i \in 0..n : LocalSeqAt(transactions', i) = LocalSeqAt(transactions, i)
  BY LocalSeqOfPrefix
<1>2. \A i \in 1..n : LocalSeqAt(transactions', i) = LocalSeqAt(transactions, i)
  BY <1>1
<1>3. LocalSeqAt(transactions', n) = LocalSeqAt(transactions, n)
  BY <1>1
<1> QED
  BY <1>2, <1>3 DEF IndexesCover, indexes

-----------------------------------------------------------------------------
(* Calling append touches nothing but the thread.                          *)
LEMMA CallStep ==
  ASSUME IInv, NEW t \in Thread, NEW request \in Request, Call(t, request)
  PROVE  IInv'
<1> USE DEF Call, IInv
<1>1. TypeOK'
  BY DEF TypeOK, indexes, disk
<1>2. LockInv'
  BY DEF LockInv, TypeOK, indexes, disk
<1>3. UNCHANGED <<running, transactions, indexes, lock, disk, held>>
  OBVIOUS
<1> QED
  BY <1>1, <1>2, <1>3 DEF DownInv, EveryCopyLoads, IndexesMatchLog, IndexesCover,
     SnapshotInv, HeldInv, indexes, disk

(* An append that raises under the lock leaves the log as it was.          *)
LEMMA RefuseStep ==
  ASSUME IInv, NEW t \in Thread, Refuse(t)
  PROVE  IInv'
<1> USE DEF Refuse, Return, IInv
<1>1. TypeOK'
  BY DEF TypeOK, indexes, disk
<1>2. LockInv'
  BY DEF LockInv, TypeOK, indexes, disk
<1>3. UNCHANGED <<running, transactions, indexes, lock, disk, held>>
  OBVIOUS
<1> QED
  BY <1>1, <1>2, <1>3 DEF DownInv, EveryCopyLoads, IndexesMatchLog, IndexesCover,
     SnapshotInv, HeldInv, indexes, disk

(* An idempotent replay hands out the watermark of the original commit.    *)
LEMMA ReplayStep ==
  ASSUME IInv, NEW t \in Thread, Replay(t)
  PROVE  IInv'
<1> DEFINE key == RequestKey(call[t])
           previous == idempotency[key]
           answer == [log |-> SubSeq(transactions, 1, previous.seq),
                      watermark |-> watermarks[TransactionId(previous)]]
<1>0. /\ running /\ pc[t] = "called" /\ lock = NoThread
      /\ key \in DOMAIN idempotency
      /\ Return(t)
      /\ held' \in {held, answer}
      /\ UNCHANGED <<running, transactions, indexes, disk>>
  BY DEF Replay, Acknowledge, SeenBefore
<1>1. PICK i \in 1..Len(transactions) : previous = transactions[i]
  <2>1. IndexesCover(Len(transactions))
    BY <1>0, LenProperties DEF IInv, IndexesMatchLog, TypeOK
  <2> QED
    BY <1>0, <2>1 DEF IndexesCover
<1>2. previous.seq = i
  BY <1>1 DEF IInv, EveryCopyLoads, ValidDump, TypeOK
<1>3. watermarks[TransactionId(previous)]
        = WatermarkFor(transactions[i], LocalSeqAt(transactions, i))
  BY <1>0, <1>1 DEF IInv, IndexesMatchLog, IndexesCover, TypeOK
<1>4. /\ answer.log \in Seq(Transaction)
      /\ Len(answer.log) = i
      /\ \A j \in 1..i : answer.log[j] = transactions[j]
  BY <1>1, <1>2, SubSeqProperties DEF IInv, TypeOK
<1>5. LocalSeqAt(answer.log, i) = LocalSeqAt(transactions, i)
  <2>1. i \in Nat
    OBVIOUS
  <2> HIDE DEF answer
  <2> QED
    BY <1>4, <2>1, LocalSeqOfPrefix
<1>6. /\ answer.log # << >>
      /\ answer.watermark = WatermarkFor(answer.log[i], LocalSeqAt(answer.log, i))
  BY <1>3, <1>4, <1>5
<1>7. answer.watermark \in Watermark
  <2>1. LocalSeqAt(transactions, i) \in [Schema -> Nat]
    BY LocalSeqType DEF IInv, TypeOK
  <2>2. transactions[i] \in Transaction
    BY DEF IInv, TypeOK
  <2> QED
    BY <1>3, <2>1, <2>2 DEF WatermarkFor, Watermark, Transaction, TransactionId
<1> HIDE DEF answer, previous, key
<1>8. TypeOK'
  <2>1. held' \in [log : Seq(Transaction), watermark : Watermark] \cup {NoAck}
    <3>1. answer = [log |-> answer.log, watermark |-> answer.watermark]
      BY DEF answer
    <3> QED
      BY <1>0, <1>4, <1>7, <3>1 DEF IInv, TypeOK
  <2> QED
    BY <1>0, <2>1 DEF IInv, TypeOK, indexes, disk, Return
<1>9. LockInv'
  BY <1>0 DEF IInv, LockInv, TypeOK, indexes, disk, Return
<1>10. HeldInv'
  BY <1>0, <1>4, <1>6 DEF IInv, HeldInv
<1>11. lock' = lock
  BY <1>0 DEF Return
<1> QED
  BY <1>0, <1>8, <1>9, <1>10, <1>11 DEF IInv, DownInv, EveryCopyLoads, IndexesMatchLog,
     IndexesCover, SnapshotInv, indexes, disk

(* The append to the list keeps the log loadable and the indexes one       *)
(* transaction behind it.                                                  *)
LEMMA PushStep ==
  ASSUME IInv, NEW t \in Thread, Push(t)
  PROVE  IInv'
<1> DEFINE request == call[t]
           m == Len(transactions)
<1>1. /\ running /\ pc[t] = "called" /\ lock = NoThread
      /\ IsNew(request)
      /\ lock' = t
      /\ pc' = [pc EXCEPT ![t] = "pushed"]
      /\ UNCHANGED <<running, indexes, call, disk, held>>
  BY DEF Push
<1>2. request \in Request /\ ValidBatch(request.records)
  BY <1>1 DEF IInv, LockInv
<1>3. PICK at \in CommitTimes(request) :
        transactions' = Append(transactions,
          CommittedTransaction(m + 1, request.records, request.key, at))
  BY DEF Push
<1> DEFINE tx == CommittedTransaction(m + 1, request.records, request.key, at)
<1>4. transactions \in Seq(Transaction) /\ m \in Nat
  BY DEF IInv, TypeOK
<1>5. /\ request.records \in Batch
      /\ request.key \in Key
      /\ at \in Time
      /\ ScopedKey(tx) = RequestKey(request)
  BY <1>2, RequestFacts
<1>6. tx \in Transaction
  BY <1>2, <1>4, <1>5, CommittedType
<1>7. /\ transactions' \in Seq(Transaction)
      /\ Len(transactions') = m + 1
      /\ \A i \in 1..m : transactions'[i] = transactions[i]
  <2> HIDE DEF tx
  <2> QED
    BY <1>3, <1>4, <1>6, AppendProperties DEF tx
<1>8. \A i \in DOMAIN transactions :
         /\ ScopedKey(transactions[i]) # ScopedKey(tx)
         /\ RecordIds(transactions[i].records) \cap RecordIds(request.records) = {}
  <2>1. IndexesCover(m) /\ DOMAIN transactions = 1..m
    BY <1>1, <1>4 DEF IInv, IndexesMatchLog
  <2> QED
    BY <1>1, <1>5, <2>1 DEF IsNew, SeenBefore, IndexesCover
<1>9. ValidDump(transactions')
  BY <1>2, <1>3, <1>4, <1>5, <1>8, ValidDumpAppend DEF IInv, EveryCopyLoads
<1> HIDE DEF tx
<1>10. TypeOK'
  BY <1>1, <1>7 DEF IInv, TypeOK, indexes, disk
<1>11. LockInv'
  BY <1>1, <1>4, <1>7 DEF IInv, LockInv, TypeOK, indexes, disk
<1>12. EveryCopyLoads'
  BY <1>1, <1>9 DEF IInv, EveryCopyLoads, disk
<1>13. IndexesMatchLog'
  <2>1. PICK n \in Nat : n = m
    BY <1>4
  <2>2. IndexesCover(n)
    BY <1>1, <1>4, <2>1 DEF IInv, IndexesMatchLog
  <2>3. \A i \in 1..n : transactions'[i] = transactions[i]
    BY <1>7, <2>1
  <2>4. IndexesCover(n)'
    BY <1>1, <2>2, <2>3, CoverOfPrefix
  <2>5. Len(transactions') - (IF lock' = NoThread THEN 0 ELSE 1) = n
    BY <1>1, <1>4, <1>7, <2>1, ThreadAssumption
  <2> QED
    BY <2>4, <2>5 DEF IndexesMatchLog
<1>14. SnapshotInv'
  <2> SUFFICES ASSUME snapshot # NoDump
               PROVE  \E n \in 0..Len(transactions') : snapshot = SubSeq(transactions', 1, n)
    BY <1>1 DEF SnapshotInv, disk
  <2>1. PICK n \in 0..m : snapshot = SubSeq(transactions, 1, n)
    BY DEF IInv, SnapshotInv
  <2>2. SubSeq(transactions', 1, n) = SubSeq(transactions, 1, n)
    BY <1>4, <1>7, <2>1
  <2> QED
    BY <1>4, <1>7, <2>1, <2>2
<1> QED
  BY <1>1, <1>10, <1>11, <1>12, <1>13, <1>14 DEF IInv, DownInv, HeldInv

(* The remaining mutations bring the indexes up to the list.               *)
LEMMA IndexStep ==
  ASSUME IInv, NEW t \in Thread, Index(t)
  PROVE  IInv'
<1>1. PICK m \in Nat \ {0} : m = Len(transactions)
  <2>1. transactions \in Seq(Transaction) /\ transactions # << >>
    BY DEF Index, IInv, TypeOK, LockInv
  <2> QED
    BY <2>1, EmptySeq
<1> DEFINE tx == transactions[m]
           local == CountSchemas(sourceLocalSeq, tx.records)
           watermark == WatermarkFor(tx, local)
<1>2. /\ lock = t
      /\ lock' = NoThread
      /\ idempotency' = Put(idempotency, ScopedKey(tx), tx)
      /\ recordIds' = recordIds \cup RecordIds(tx.records)
      /\ sourceLocalSeq' = local
      /\ watermarks' = Put(watermarks, TransactionId(tx), watermark)
      /\ held' \in {held, [log |-> SubSeq(transactions, 1, tx.seq), watermark |-> watermark]}
      /\ Return(t)
      /\ UNCHANGED <<running, transactions, disk>>
  BY <1>1 DEF Index, Acknowledge, Return, IInv, LockInv
<1>3. /\ transactions \in Seq(Transaction)
      /\ DOMAIN transactions = 1..m
      /\ tx \in Transaction
      /\ ValidDump(transactions)
  BY <1>1 DEF IInv, TypeOK, EveryCopyLoads
<1>4. IndexesCover(m-1)
  BY <1>1, <1>2, ThreadAssumption DEF IInv, IndexesMatchLog
<1>5. local = LocalSeqAt(transactions, m)
  BY <1>1, <1>3, <1>4, LocalSeqStep DEF IndexesCover
<1>6. local \in [Schema -> Nat]
  BY <1>1, <1>3, <1>5, LocalSeqType
<1>7. watermark \in Watermark
  BY <1>3, <1>6 DEF WatermarkFor, Watermark, Transaction, TransactionId
<1>8. \A i \in 1..(m-1) : /\ ScopedKey(transactions[i]) # ScopedKey(tx)
                          /\ TransactionId(transactions[i]) # TransactionId(tx)
  <2> SUFFICES ASSUME NEW i \in 1..(m-1)
               PROVE  /\ ScopedKey(transactions[i]) # ScopedKey(tx)
                      /\ transactions[i].records # tx.records
    BY DEF TransactionId
  <2>1. ScopedKey(transactions[i]) # ScopedKey(tx)
    BY <1>3 DEF ValidDump
  <2>2. RecordIds(transactions[i].records) \cap RecordIds(tx.records) = {}
    BY <1>3 DEF ValidDump
  <2>3. RecordIds(tx.records) # {}
    <3>1. tx.records \in Batch /\ tx.records # << >>
      BY <1>3 DEF ValidDump, Transaction
    <3>2. 1 \in DOMAIN tx.records
      BY <3>1 DEF Batch
    <3> QED
      BY <3>2 DEF RecordIds
  <2> QED
    BY <2>1, <2>2, <2>3
<1>9. 1..m = (1..(m-1)) \cup {m}
  BY <1>1
<1> HIDE DEF local, watermark
<1> DEFINE key == ScopedKey(tx)
           id == TransactionId(tx)
<1>a. /\ DOMAIN idempotency' = DOMAIN idempotency \cup {key}
      /\ idempotency'[key] = tx
      /\ \A k \in DOMAIN idempotency : k # key => idempotency'[k] = idempotency[k]
  BY <1>2 DEF Put
<1>b. /\ DOMAIN watermarks' = DOMAIN watermarks \cup {id}
      /\ watermarks'[id] = watermark
      /\ \A w \in DOMAIN watermarks : w # id => watermarks'[w] = watermarks[w]
  BY <1>2 DEF Put
<1>10. IndexesCover(m)'
  <2>1. DOMAIN idempotency' = {ScopedKey(transactions[i]) : i \in 1..m}
    BY <1>4, <1>9, <1>a, <1>b DEF IndexesCover
  <2>2. recordIds' = UNION {RecordIds(transactions[i].records) : i \in 1..m}
    BY <1>2, <1>4, <1>9 DEF IndexesCover
  <2>3. DOMAIN watermarks' = {TransactionId(transactions[i]) : i \in 1..m}
    BY <1>4, <1>9, <1>a, <1>b DEF IndexesCover
  <2>4. \A i \in 1..(m-1) :
          /\ idempotency'[ScopedKey(transactions[i])] = transactions[i]
          /\ watermarks'[TransactionId(transactions[i])]
               = WatermarkFor(transactions[i], LocalSeqAt(transactions, i))
    <3> SUFFICES ASSUME NEW i \in 1..(m-1)
                 PROVE  /\ idempotency'[ScopedKey(transactions[i])] = transactions[i]
                        /\ watermarks'[TransactionId(transactions[i])]
                             = WatermarkFor(transactions[i], LocalSeqAt(transactions, i))
      OBVIOUS
    <3>1. /\ ScopedKey(transactions[i]) \in DOMAIN idempotency
          /\ TransactionId(transactions[i]) \in DOMAIN watermarks
          /\ idempotency[ScopedKey(transactions[i])] = transactions[i]
          /\ watermarks[TransactionId(transactions[i])]
               = WatermarkFor(transactions[i], LocalSeqAt(transactions, i))
      BY <1>4 DEF IndexesCover
    <3>2. idempotency'[ScopedKey(transactions[i])] = idempotency[ScopedKey(transactions[i])]
      BY <1>8, <1>a, <1>b, <3>1
    <3>3. watermarks'[TransactionId(transactions[i])] = watermarks[TransactionId(transactions[i])]
      BY <1>8, <1>a, <1>b, <3>1
    <3> QED
      BY <3>1, <3>2, <3>3
  <2>5. /\ idempotency'[ScopedKey(transactions[m])] = transactions[m]
        /\ watermarks'[TransactionId(transactions[m])]
             = WatermarkFor(transactions[m], LocalSeqAt(transactions, m))
    BY <1>5, <1>a, <1>b DEF watermark
  <2>6. UNCHANGED transactions /\ sourceLocalSeq' = LocalSeqAt(transactions, m)
    BY <1>2, <1>5
  <2> QED
    BY <1>9, <2>1, <2>2, <2>3, <2>4, <2>5, <2>6 DEF IndexesCover
<1>11. IndexesMatchLog'
  BY <1>1, <1>2, <1>10 DEF IndexesMatchLog
<1>12. tx.seq = m
  BY <1>1, <1>3 DEF ValidDump
<1> DEFINE answer == [log |-> SubSeq(transactions, 1, m), watermark |-> watermark]
<1>13. answer.log = transactions
  BY <1>1, <1>3, SubSeqFull
<1>14. TypeOK'
  <2>1. held' \in [log : Seq(Transaction), watermark : Watermark] \cup {NoAck}
    BY <1>2, <1>3, <1>7, <1>12, <1>13 DEF IInv, TypeOK
  <2>2. ScopedKey(tx) \in {r.household : r \in Record} \X Key
    BY <1>3 DEF Transaction, ScopedKey
  <2>3. /\ DOMAIN idempotency' \subseteq {r.household : r \in Record} \X Key
        /\ \A k \in DOMAIN idempotency' : idempotency'[k] \in Transaction
    BY <1>3, <1>a, <2>2 DEF IInv, TypeOK
  <2>4. TransactionId(tx) \in Batch
    BY <1>3 DEF Transaction, TransactionId
  <2>5. /\ DOMAIN watermarks' \subseteq Batch
        /\ \A w \in DOMAIN watermarks' : watermarks'[w] \in Watermark
    BY <1>7, <1>b, <2>4 DEF IInv, TypeOK
  <2>6. RecordIds(tx.records) \subseteq {r.id : r \in Record}
    BY <1>3 DEF Transaction, Batch, RecordIds
  <2> QED
    BY <1>2, <1>6, <2>1, <2>3, <2>5, <2>6 DEF IInv, TypeOK, Return, disk
<1>15. LockInv'
  BY <1>2 DEF IInv, LockInv, TypeOK, Return
<1>16. HeldInv'
  BY <1>1, <1>2, <1>3, <1>5, <1>12, <1>13 DEF IInv, HeldInv, watermark
<1> QED
  BY <1>2, <1>11, <1>14, <1>15, <1>16
     DEF IInv, DownInv, EveryCopyLoads, SnapshotInv, disk, Index

-----------------------------------------------------------------------------
(* The copy a dump takes is the whole list of that moment.                 *)
LEMMA DumpBeginStep == ASSUME IInv, DumpBegin PROVE IInv'
<1> USE DEF DumpBegin, IInv, threads
<1>1. SnapshotInv'
  <2>1. Len(transactions) \in 0..Len(transactions)
    BY DEF TypeOK
  <2>2. transactions = SubSeq(transactions, 1, Len(transactions))
    BY SubSeqFull DEF TypeOK
  <2> QED
    BY <2>1, <2>2 DEF SnapshotInv
<1>2. TypeOK' /\ LockInv' /\ EveryCopyLoads'
  BY DEF TypeOK, LockInv, EveryCopyLoads, indexes
<1>3. DownInv'
  BY DEF DownInv, indexes
<1>4. HeldInv'
  BY DEF HeldInv, indexes
<1>5. IndexesMatchLog'
  BY DEF IndexesMatchLog, IndexesCover, indexes
<1> HIDE DEF DumpBegin, threads
<1> QED
  BY <1>1, <1>2, <1>3, <1>4, <1>5, Zenon

(* What a dump writes was a valid log when it was copied.                  *)
LEMMA DumpEndStep == ASSUME IInv, DumpEnd PROVE IInv'
<1> USE DEF DumpEnd, IInv, threads
<1>1. TypeOK' /\ LockInv'
  BY DEF TypeOK, LockInv, indexes
<1>2. EveryCopyLoads'
  BY DEF EveryCopyLoads
<1> QED
  BY <1>1, <1>2 DEF DownInv, IndexesMatchLog, IndexesCover, SnapshotInv, HeldInv, indexes

(* An empty memory is consistent.                                          *)
LEMMA CrashStep == ASSUME IInv, Crash PROVE IInv'
<1> USE DEF Crash, EmptyIndexes, EmptyDict
<1>1. TypeOK'
  <2>1. transactions' \in Seq(Transaction) /\ sourceLocalSeq' \in [Schema -> Nat]
    BY DEF NoRecords
  <2>2. DOMAIN idempotency' = {} /\ DOMAIN watermarks' = {} /\ recordIds' = {}
    OBVIOUS
  <2>3. /\ pc' \in [Thread -> {"idle", "called", "pushed"}]
        /\ call' \in [Thread -> Request \cup {NoCall}]
    OBVIOUS
  <2> QED
    BY <2>1, <2>2, <2>3 DEF IInv, TypeOK
<1>2. LockInv'
  BY ThreadAssumption DEF LockInv
<1>3. EveryCopyLoads'
  <2>1. ValidDump(<< >>)
    BY DEF ValidDump
  <2> QED
    BY <2>1 DEF IInv, EveryCopyLoads
<1>4. IndexesMatchLog'
  BY LocalSeqEmpty DEF IndexesMatchLog, IndexesCover
<1> QED
  BY <1>1, <1>2, <1>3, <1>4 DEF IInv, DownInv, SnapshotInv, HeldInv

(* A start without a dump changes nothing but the flag.                    *)
LEMMA StartEmptyStep == ASSUME IInv, StartEmpty PROVE IInv'
BY DEF StartEmpty, IInv, TypeOK, LockInv, DownInv, EveryCopyLoads, IndexesMatchLog,
   IndexesCover, SnapshotInv, HeldInv, indexes, threads, disk

(* load rebuilds exactly the indexes append had maintained.                *)
LEMMA LoadStep == ASSUME IInv, Load PROVE IInv'
<1>1. /\ ~running
      /\ file \in Seq(Transaction)
      /\ ValidDump(file)
      /\ running' = TRUE
      /\ transactions' = file
      /\ recordIds' = UNION {RecordIds(file[i].records) : i \in DOMAIN file}
      /\ sourceLocalSeq' = LocalSeqAt(file, Len(file))
      /\ UNCHANGED <<lock, pc, call, file, snapshot, held>>
      /\ lock = NoThread
  BY DEF Load, IInv, TypeOK, DownInv, threads, disk
<1>2. PICK m \in Nat : m = Len(file) /\ DOMAIN file = 1..m
  BY <1>1, LenProperties
<1>3. \A i \in 1..m : file[i] \in Transaction
  BY <1>1, <1>2
<1>4. \A i, j \in 1..m : ScopedKey(file[i]) = ScopedKey(file[j]) => i = j
  BY <1>1, <1>2 DEF ValidDump
<1>5. \A i, j \in 1..m : TransactionId(file[i]) = TransactionId(file[j]) => i = j
  <2> SUFFICES ASSUME NEW i \in 1..m, NEW j \in 1..m, file[i].records = file[j].records
               PROVE  i = j
    BY DEF TransactionId
  <2>1. file[i].records \in Batch /\ file[i].records # << >>
    BY <1>1, <1>2, <1>3 DEF ValidDump, Transaction
  <2>2. 1 \in DOMAIN file[i].records
    BY <2>1 DEF Batch
  <2>3. RecordIds(file[i].records) \cap RecordIds(file[j].records) # {}
    BY <2>2 DEF RecordIds
  <2> QED
    BY <1>1, <1>2, <2>3 DEF ValidDump
<1>6. /\ DOMAIN idempotency' = {ScopedKey(file[i]) : i \in 1..m}
      /\ \A i \in 1..m : idempotency'[ScopedKey(file[i])] = file[i]
  BY <1>2, <1>4 DEF Load
<1>7. /\ DOMAIN watermarks' = {TransactionId(file[i]) : i \in 1..m}
      /\ \A i \in 1..m : watermarks'[TransactionId(file[i])]
                           = WatermarkFor(file[i], LocalSeqAt(file, i))
  BY <1>2, <1>5 DEF Load, RebuiltWatermark
<1>8. IndexesMatchLog'
  <2>1. IndexesCover(m)'
    BY <1>1, <1>2, <1>6, <1>7 DEF IndexesCover
  <2> QED
    BY <1>1, <1>2, <2>1 DEF IndexesMatchLog
<1>9. TypeOK'
  <2>1. /\ DOMAIN idempotency' \subseteq {r.household : r \in Record} \X Key
        /\ \A k \in DOMAIN idempotency' : idempotency'[k] \in Transaction
    <3>1. \A i \in 1..m : ScopedKey(file[i]) \in {r.household : r \in Record} \X Key
      BY <1>3 DEF Transaction, ScopedKey
    <3> QED
      BY <1>3, <1>6, <3>1
  <2>2. /\ DOMAIN watermarks' \subseteq Batch
        /\ \A id \in DOMAIN watermarks' : watermarks'[id] \in Watermark
    <3>1. \A i \in 1..m : TransactionId(file[i]) \in Batch
      BY <1>3 DEF Transaction, TransactionId
    <3>2. \A i \in 1..m : LocalSeqAt(file, i) \in [Schema -> Nat]
      BY <1>1, <1>2, LocalSeqType
    <3>3. \A i \in 1..m : WatermarkFor(file[i], LocalSeqAt(file, i)) \in Watermark
      BY <1>3, <3>2 DEF WatermarkFor, Watermark, Transaction, TransactionId
    <3> QED
      BY <1>7, <3>1, <3>3
  <2>3. recordIds' \subseteq {r.id : r \in Record}
    BY <1>1, <1>2, <1>3 DEF Transaction, Batch, RecordIds
  <2>4. sourceLocalSeq' \in [Schema -> Nat]
    BY <1>1, <1>2, LocalSeqType
  <2> QED
    BY <1>1, <2>1, <2>2, <2>3, <2>4 DEF IInv, TypeOK
<1>10. LockInv'
  BY <1>1 DEF IInv, LockInv
<1>11. EveryCopyLoads'
  BY <1>1 DEF IInv, EveryCopyLoads
<1>12. SnapshotInv'
  <2>1. snapshot # NoDump => snapshot = << >>
    <3> HAVE snapshot # NoDump
    <3>1. PICK n \in 0..Len(transactions) : snapshot = SubSeq(transactions, 1, n)
      BY DEF IInv, SnapshotInv
    <3> QED
      BY <1>1, <3>1 DEF IInv, DownInv
  <2>2. << >> = SubSeq(file, 1, 0) /\ 0 \in 0..Len(file)
    BY <1>2
  <2> QED
    BY <1>1, <2>1, <2>2 DEF SnapshotInv
<1> QED
  BY <1>1, <1>8, <1>9, <1>10, <1>11, <1>12 DEF IInv, DownInv, HeldInv

-----------------------------------------------------------------------------
(* The inductive invariant: holds at the start and is kept by every step   *)
(* of append, dump, load and crash.                                        *)
THEOREM Invariance == Spec => []IInv
<1>1. Init => IInv
  BY InitIInv
<1>2. IInv /\ [Next]_vars => IInv'
  <2> SUFFICES ASSUME IInv, [Next]_vars PROVE IInv'
    OBVIOUS
  <2>1. ASSUME NEW t \in Thread, NEW request \in Request, Call(t, request) PROVE IInv'
    BY <2>1, CallStep
  <2>2. ASSUME NEW t \in Thread, Replay(t) PROVE IInv'
    BY <2>2, ReplayStep
  <2>3. ASSUME NEW t \in Thread, Refuse(t) PROVE IInv'
    BY <2>3, RefuseStep
  <2>4. ASSUME NEW t \in Thread, Push(t) PROVE IInv'
    BY <2>4, PushStep
  <2>5. ASSUME NEW t \in Thread, Index(t) PROVE IInv'
    BY <2>5, IndexStep
  <2>6. ASSUME DumpBegin \/ DumpEnd \/ Crash \/ StartEmpty \/ Load PROVE IInv'
    BY <2>6, DumpBeginStep, DumpEndStep, CrashStep, StartEmptyStep, LoadStep
  <2>7. CASE UNCHANGED vars
    <3> USE DEF vars, indexes, threads, disk
    <3>1. TypeOK' /\ LockInv' /\ DownInv' /\ HeldInv'
      BY <2>7 DEF IInv, TypeOK, LockInv, DownInv, HeldInv
    <3>2. EveryCopyLoads' /\ SnapshotInv'
      BY <2>7 DEF IInv, EveryCopyLoads, SnapshotInv
    <3>3. IndexesMatchLog'
      BY <2>7 DEF IInv, IndexesMatchLog, IndexesCover
    <3> QED
      BY <3>1, <3>2, <3>3 DEF IInv
  <2> QED
    BY <2>1, <2>2, <2>3, <2>4, <2>5, <2>6, <2>7 DEF Next
<1> QED
  BY <1>1, <1>2, PTL DEF Spec

(* Every structure keeps the shape the code declares for it.               *)
THEOREM TypeCorrectness == Spec => []TypeOK
BY Invariance, PTL DEF IInv

(* Whatever threads, requests, dumps and restarts do, the indexes are      *)
(* those load would build.                                                 *)
THEOREM IndexConsistency == Spec => []IndexesMatchLog
BY Invariance, PTL DEF IInv

(* A dump taken at any moment, without the lock, can be loaded.            *)
THEOREM DumpSafety == Spec => []EveryCopyLoads
BY Invariance, PTL DEF IInv

(* A watermark a caller was given never changes its meaning.               *)
THEOREM WatermarkStability == Spec => []HeldWatermarkStays
<1>1. IInv => HeldWatermarkStays
  <2> SUFFICES ASSUME IInv, held # NoAck, lock = NoThread,
                      Len(held.log) <= Len(transactions),
                      SubSeq(transactions, 1, Len(held.log)) = held.log
               PROVE  watermarks[TransactionId(held.log[Len(held.log)])] = held.watermark
    BY DEF HeldWatermarkStays
  <2>1. held.log \in Seq(Transaction) /\ held.log # << >> /\ transactions \in Seq(Transaction)
    BY DEF IInv, TypeOK, HeldInv
  <2>2. PICK n \in Nat \ {0} : n = Len(held.log)
    BY <2>1, EmptySeq
  <2>3. n \in 1..Len(transactions) /\ Len(transactions) \in Nat
    BY <2>1, <2>2
  <2>4. \A i \in 1..n : held.log[i] = transactions[i]
    BY <2>1, <2>2, <2>3
  <2>5. watermarks[TransactionId(transactions[n])]
          = WatermarkFor(transactions[n], LocalSeqAt(transactions, n))
    BY <2>3 DEF IInv, IndexesMatchLog, IndexesCover
  <2>6. LocalSeqAt(held.log, n) = LocalSeqAt(transactions, n)
    BY <2>4, LocalSeqOfPrefix
  <2> QED
    BY <2>2, <2>4, <2>5, <2>6 DEF IInv, HeldInv
<1> QED
  BY <1>1, Invariance, PTL

-----------------------------------------------------------------------------
(* The log, with its lock, its indexes and its unlocked dump, implements   *)
(* the ledger: every step is a step of CommitLedger or changes nothing     *)
(* there.                                                                  *)
THEOREM Refinement == Spec => ImplementsLedger
<1>1. Init => Ledger!Init
  BY DumpAssumption DEF Init, Ledger!Init
<1>2. IInv /\ IInv' /\ [Next]_vars => [Ledger!Next]_(Ledger!ledgerVars)
  <2> SUFFICES ASSUME IInv, IInv', [Next]_vars
               PROVE  Ledger!Next \/ UNCHANGED Ledger!ledgerVars
    OBVIOUS
  <2> USE DEF Ledger!ledgerVars, indexes, threads, disk
  <2>1. ASSUME NEW t \in Thread, NEW request \in Request, Call(t, request)
        PROVE  UNCHANGED Ledger!ledgerVars
    BY <2>1 DEF Call
  <2>2. ASSUME NEW t \in Thread, Replay(t) \/ Refuse(t) \/ Index(t)
        PROVE  UNCHANGED Ledger!ledgerVars
    BY <2>2 DEF Replay, Refuse, Index
  <2>3. ASSUME NEW t \in Thread, Push(t) PROVE Ledger!Commit
    <3> DEFINE request == call[t]
               m == Len(transactions)
    <3>1. request \in Request /\ ValidBatch(request.records)
      BY <2>3 DEF Push, IInv, LockInv
    <3>2. PICK at \in CommitTimes(request) :
            transactions' = Append(transactions,
              CommittedTransaction(m + 1, request.records, request.key, at))
      BY <2>3 DEF Push
    <3> DEFINE tx == CommittedTransaction(m + 1, request.records, request.key, at)
    <3>3. /\ transactions \in Seq(Transaction) /\ m \in Nat
          /\ transactions' = Append(transactions, tx)
      BY <3>2 DEF IInv, TypeOK
    <3>4. Len(transactions') = m + 1 /\ transactions'[m + 1] = tx
      BY <3>3
    <3>5. tx.seq = m + 1 /\ tx.records = request.records
      BY DEF CommittedTransaction
    <3>6. \A i \in DOMAIN transactions' : \A j \in DOMAIN transactions' :
            /\ ScopedKey(transactions'[i]) = ScopedKey(transactions'[j]) => i = j
            /\ RecordIds(transactions'[i].records) \cap RecordIds(transactions'[j].records) # {}
                 => i = j
      BY DEF IInv, EveryCopyLoads, ValidDump
    <3> HIDE DEF tx
    <3>7. /\ DOMAIN transactions = 1..m /\ DOMAIN transactions' = 1..(m + 1)
          /\ \A i \in 1..m : transactions'[i] = transactions[i]
      BY <3>3
    <3>8. \A i \in 1..m : /\ ScopedKey(transactions[i]) # ScopedKey(tx)
                          /\ RecordIds(transactions[i].records) \cap RecordIds(tx.records) = {}
      <4> SUFFICES ASSUME NEW i \in 1..m
                   PROVE  /\ ScopedKey(transactions[i]) # ScopedKey(tx)
                          /\ RecordIds(transactions[i].records) \cap RecordIds(tx.records) = {}
        OBVIOUS
      <4>1. i \in DOMAIN transactions' /\ m + 1 \in DOMAIN transactions' /\ i # m + 1
        BY <3>3, <3>7
      <4> QED
        BY <3>4, <3>6, <3>7, <4>1
    <3>9. UNCHANGED file
      BY <2>3 DEF Push
    <3>10. ValidBatch(request.records) <=> Ledger!ValidBatch(request.records)
      BY DEF ValidBatch, Ledger!ValidBatch
    <3>11. \A i \in DOMAIN transactions :
             /\ Ledger!ScopedKey(transactions[i]) # Ledger!ScopedKey(tx)
             /\ Ledger!RecordIds(transactions[i].records) \cap Ledger!RecordIds(tx.records) = {}
      BY <3>7, <3>8 DEF ScopedKey, RecordIds, Ledger!ScopedKey, Ledger!RecordIds
    <3> QED
      BY <3>1, <3>3, <3>4, <3>5, <3>9, <3>10, <3>11 DEF Ledger!Commit
  <2>4. ASSUME DumpBegin PROVE Ledger!Tear
    BY <2>4 DEF DumpBegin, Ledger!Tear
  <2>5. ASSUME DumpEnd PROVE \E n \in 0..Len(transactions) : Ledger!Persist(n)
    <3>1. PICK n \in 0..Len(transactions) : snapshot = SubSeq(transactions, 1, n)
      BY <2>5 DEF DumpEnd, IInv, SnapshotInv
    <3>2. snapshot # Torn
      BY <2>5, DumpAssumption DEF DumpEnd, IInv, TypeOK
    <3> QED
      BY <2>5, <3>1, <3>2 DEF DumpEnd, Ledger!Persist
  <2>6. ASSUME Crash PROVE Ledger!Lose
    BY <2>6 DEF Crash, Ledger!Lose
  <2>7. ASSUME StartEmpty PROVE UNCHANGED Ledger!ledgerVars
    BY <2>7 DEF StartEmpty
  <2>8. ASSUME Load PROVE Ledger!Recover
    BY <2>8 DEF Load, IInv, DownInv, Ledger!Recover
  <2>9. CASE UNCHANGED vars
    BY <2>9 DEF vars
  <2> QED
    BY <2>1, <2>2, <2>3, <2>4, <2>5, <2>6, <2>7, <2>8, <2>9 DEF Next, Ledger!Next
<1> QED
  BY <1>1, <1>2, Invariance, PTL DEF Spec, ImplementsLedger, Ledger!Spec
=============================================================================
