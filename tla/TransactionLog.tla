--------------------------- MODULE TransactionLog ---------------------------
(***************************************************************************)
(* AppendOnlyTransactionLog: threads that append under the log's RLock, a  *)
(* dump that reads the list of transactions without taking it, and a       *)
(* process that may die at any point and load the dump.                    *)
(*                                                                         *)
(* append is three steps: the checks before the lock (Call), everything    *)
(* under the lock up to the first mutation (Replay, Refuse or Push), and   *)
(* the remaining mutations with the release (Index).  The split inside the *)
(* lock is the one that can be seen: dump reads _transactions and nothing  *)
(* else.  Operators named Fault... are wrong variants of the definition    *)
(* that follows each; no specification uses them.                          *)
(***************************************************************************)
EXTENDS LogContracts

CONSTANTS
  Thread,
  Request,   \* the appends callers ask for: [records, key, at]
  NoThread, NoCall, NoDump, Torn, NoAck

RequestTime == Time \cup {NoTime}

ASSUME ThreadAssumption == NoThread \notin Thread

ASSUME RequestAssumption ==
  /\ Request \subseteq [records : Batch, key : Key, at : RequestTime]
  /\ NoCall \notin Request

ASSUME DumpAssumption == {NoDump, Torn} \cap Seq(Transaction) = {}

VARIABLES
  running,        \* the process is up
  transactions, idempotency, watermarks, recordIds, sourceLocalSeq,
  lock,           \* the thread that holds _lock
  pc,             \* where each thread is in append
  call,           \* the arguments of its append
  file,           \* the dump file: NoDump, Torn or a sequence of transactions
  snapshot,       \* what the dump in progress is about to write
  held            \* history: a commit result some caller was given, or NoAck

indexes == <<idempotency, watermarks, recordIds, sourceLocalSeq>>
threads == <<lock, pc, call>>
disk    == <<file, snapshot>>
vars    == <<running, transactions, indexes, threads, disk, held>>

EmptyIndexes ==
  /\ idempotency' = EmptyDict
  /\ watermarks' = EmptyDict
  /\ recordIds' = {}
  /\ sourceLocalSeq' = NoRecords

Init ==
  /\ running = TRUE
  /\ transactions = << >>
  /\ idempotency = EmptyDict
  /\ watermarks = EmptyDict
  /\ recordIds = {}
  /\ sourceLocalSeq = NoRecords
  /\ lock = NoThread
  /\ pc = [t \in Thread |-> "idle"]
  /\ call = [t \in Thread |-> NoCall]
  /\ file = NoDump
  /\ snapshot = NoDump
  /\ held = NoAck

(* append is called; a batch the contracts refuse raises before the lock.  *)
Call(t, request) ==
  /\ running /\ pc[t] = "idle"
  /\ ValidBatch(request.records)
  /\ pc' = [pc EXCEPT ![t] = "called"]
  /\ call' = [call EXCEPT ![t] = request]
  /\ UNCHANGED <<running, transactions, indexes, lock, disk, held>>

RequestKey(request) == <<request.records[1].household, request.key>>

SeenBefore(request) == RequestKey(request) \in DOMAIN idempotency

FaultOnlyKeyIsNew(request) == ~SeenBefore(request)

FaultOnlyRecordsAreNew(request) == RecordIds(request.records) \cap recordIds = {}

(* Neither the key nor a record of the batch was committed before.         *)
IsNew(request) ==
  /\ ~SeenBefore(request)
  /\ RecordIds(request.records) \cap recordIds = {}

FaultTimeNotFilledIn(request) == {request.at}

(* committed_at or utc_now()                                               *)
CommitTimes(request) == IF request.at = NoTime THEN Time ELSE {request.at}

(* The earlier commit under the same key is the same request.              *)
SameRequest(request) ==
  LET previous == idempotency[RequestKey(request)]
  IN  /\ previous.records = request.records
      /\ request.at # NoTime => previous.at = request.at

FaultLockKept(t) ==
  /\ pc' = [pc EXCEPT ![t] = "idle"]
  /\ call' = [call EXCEPT ![t] = NoCall]
  /\ lock' = lock

Return(t) ==
  /\ pc' = [pc EXCEPT ![t] = "idle"]
  /\ call' = [call EXCEPT ![t] = NoCall]
  /\ lock' = NoThread

(* The caller gets a CommitResult, which it may keep.                      *)
Acknowledge(tx, watermark) ==
  held' \in {held, [log |-> SubSeq(transactions, 1, tx.seq), watermark |-> watermark]}

(* The critical section ends without a mutation: the original commit is    *)
(* returned again, ...                                                     *)
Replay(t) ==
  LET previous == idempotency[RequestKey(call[t])]
  IN  /\ running /\ pc[t] = "called" /\ lock = NoThread
      /\ SeenBefore(call[t]) /\ SameRequest(call[t])
      /\ Return(t)
      /\ Acknowledge(previous, watermarks[TransactionId(previous)])
      /\ UNCHANGED <<running, transactions, indexes, disk>>

(* ... or IdempotencyConflictError or RecordAlreadyCommittedError is raised. *)
Refuse(t) ==
  /\ running /\ pc[t] = "called" /\ lock = NoThread
  /\ ~IsNew(call[t])
  /\ SeenBefore(call[t]) => ~SameRequest(call[t])
  /\ Return(t)
  /\ UNCHANGED <<running, transactions, indexes, disk, held>>

(* The transaction is built and _transactions.append is executed.          *)
Push(t) ==
  LET request == call[t]
  IN  /\ running /\ pc[t] = "called" /\ lock = NoThread
      /\ IsNew(request)
      /\ \E at \in CommitTimes(request) :
           transactions' = Append(transactions,
             CommittedTransaction(Len(transactions) + 1, request.records, request.key, at))
      /\ lock' = t
      /\ pc' = [pc EXCEPT ![t] = "pushed"]
      /\ UNCHANGED <<running, indexes, call, disk, held>>

(* The other structures follow, the watermark is taken, the lock released. *)
Index(t) ==
  LET tx        == transactions[Len(transactions)]
      local     == CountSchemas(sourceLocalSeq, tx.records)
      watermark == WatermarkFor(tx, local)
  IN  /\ running /\ pc[t] = "pushed"
      /\ idempotency' = Put(idempotency, ScopedKey(tx), tx)
      /\ recordIds' = recordIds \cup RecordIds(tx.records)
      /\ sourceLocalSeq' = local
      /\ watermarks' = Put(watermarks, TransactionId(tx), watermark)
      /\ Acknowledge(tx, watermark)
      /\ Return(t)
      /\ UNCHANGED <<running, transactions, disk>>

(* dump copies the list without the lock, validates the copy, opens the    *)
(* file (which truncates it) and writes.                                   *)
DumpBegin ==
  /\ running /\ snapshot = NoDump
  /\ ValidDump(transactions)
  /\ snapshot' = transactions
  /\ file' = Torn
  /\ UNCHANGED <<running, transactions, indexes, threads, held>>

DumpEnd ==
  /\ running /\ snapshot # NoDump
  /\ file' = snapshot
  /\ snapshot' = NoDump
  /\ UNCHANGED <<running, transactions, indexes, threads, held>>

(* The process dies: nothing that was only in memory is left.              *)
Crash ==
  /\ running
  /\ running' = FALSE
  /\ transactions' = << >>
  /\ EmptyIndexes
  /\ lock' = NoThread
  /\ pc' = [t \in Thread |-> "idle"]
  /\ call' = [t \in Thread |-> NoCall]
  /\ snapshot' = NoDump
  /\ UNCHANGED <<file, held>>

(* A new process starts with an empty log when there is no dump to load    *)
(* (a torn one does not parse), ...                                        *)
StartEmpty ==
  /\ ~running
  /\ file \in {NoDump, Torn}
  /\ running' = TRUE
  /\ UNCHANGED <<transactions, indexes, threads, disk, held>>

FaultFinalCounts(txs, i) == WatermarkFor(txs[i], LocalSeqAt(txs, Len(txs)))

(* The watermark load takes after the i-th transaction of the dump.        *)
RebuiltWatermark(txs, i) == WatermarkFor(txs[i], LocalSeqAt(txs, i))

(* ... and otherwise rebuilds every structure from the dump.               *)
Load ==
  /\ ~running
  /\ file \notin {NoDump, Torn}
  /\ ValidDump(file)
  /\ running' = TRUE
  /\ transactions' = file
  /\ idempotency' = [k \in {ScopedKey(file[i]) : i \in DOMAIN file} |->
                       file[CHOOSE i \in DOMAIN file : ScopedKey(file[i]) = k]]
  /\ recordIds' = UNION {RecordIds(file[i].records) : i \in DOMAIN file}
  /\ sourceLocalSeq' = LocalSeqAt(file, Len(file))
  /\ watermarks' = [id \in {TransactionId(file[i]) : i \in DOMAIN file} |->
                      RebuiltWatermark(file,
                        CHOOSE i \in DOMAIN file : TransactionId(file[i]) = id)]
  /\ UNCHANGED <<threads, disk, held>>

Next ==
  \/ \E t \in Thread :
       \/ \E request \in Request : Call(t, request)
       \/ Replay(t)
       \/ Refuse(t)
       \/ Push(t)
       \/ Index(t)
  \/ DumpBegin
  \/ DumpEnd
  \/ Crash
  \/ StartEmpty
  \/ Load

Spec == Init /\ [][Next]_vars

(***************************************************************************)
(* Scheduling: a thread inside append keeps running while the process is   *)
(* up.  RLock promises no order among the threads that wait for it, so     *)
(* nothing more is assumed of them than that some waiting thread is let in *)
(* when the lock stays free.                                               *)
(***************************************************************************)
Finish(t) == Replay(t) \/ Refuse(t) \/ Push(t) \/ Index(t)

FairSpec == Spec /\ WF_vars(\E t \in Thread : Finish(t))

-----------------------------------------------------------------------------
(* The shape of the state: what each structure holds.                      *)
TypeOK ==
  /\ running \in BOOLEAN
  /\ transactions \in Seq(Transaction)
  /\ DOMAIN idempotency \subseteq {r.household : r \in Record} \X Key
  /\ \A k \in DOMAIN idempotency : idempotency[k] \in Transaction
  /\ DOMAIN watermarks \subseteq Batch
  /\ \A id \in DOMAIN watermarks : watermarks[id] \in Watermark
  /\ recordIds \subseteq {r.id : r \in Record}
  /\ sourceLocalSeq \in [Schema -> Nat]
  /\ lock \in Thread \cup {NoThread}
  /\ pc \in [Thread -> {"idle", "called", "pushed"}]
  /\ call \in [Thread -> Request \cup {NoCall}]
  /\ file \in Seq(Transaction) \cup {NoDump, Torn}
  /\ snapshot \in Seq(Transaction) \cup {NoDump}
  /\ held \in [log : Seq(Transaction), watermark : Watermark] \cup {NoAck}

(* The indexes are exactly what load would build from the first n          *)
(* transactions.                                                           *)
IndexesCover(n) ==
  /\ DOMAIN idempotency = {ScopedKey(transactions[i]) : i \in 1..n}
  /\ recordIds = UNION {RecordIds(transactions[i].records) : i \in 1..n}
  /\ sourceLocalSeq = LocalSeqAt(transactions, n)
  /\ DOMAIN watermarks = {TransactionId(transactions[i]) : i \in 1..n}
  /\ \A i \in 1..n :
       /\ idempotency[ScopedKey(transactions[i])] = transactions[i]
       /\ watermarks[TransactionId(transactions[i])]
            = WatermarkFor(transactions[i], LocalSeqAt(transactions, i))

(* What append adds to the indexes step by step is what load rebuilds:     *)
(* nothing is forgotten, counted twice or lost by an overwritten           *)
(* watermark, and only the transaction of the thread that is inside the    *)
(* lock may be missing.                                                    *)
IndexesMatchLog ==
  IndexesCover(Len(transactions) - (IF lock = NoThread THEN 0 ELSE 1))

(* Whatever dump may copy, at any moment and in the middle of any append,  *)
(* is a log that load accepts: no household's key twice, no record twice,  *)
(* positions without a gap.                                                *)
EveryCopyLoads ==
  /\ ValidDump(transactions)
  /\ snapshot # NoDump => ValidDump(snapshot)
  /\ file \notin {NoDump, Torn} => ValidDump(file)

(* A commit result stays good: as long as the log still begins with the    *)
(* commits up to the one a caller was told about, also after any number of *)
(* restarts, that one is under the watermark the caller was given.         *)
HeldWatermarkStays ==
  held # NoAck /\ lock = NoThread =>
    LET n == Len(held.log)
    IN  n <= Len(transactions) /\ SubSeq(transactions, 1, n) = held.log =>
          watermarks[TransactionId(held.log[n])] = held.watermark

(* The log implements the ledger it promises; dump commits to nothing that *)
(* the ledger does not hold, and a crash leaves what the file holds.       *)
Ledger == INSTANCE CommitLedger WITH
            ledger  <- transactions,
            durable <- IF file = Torn THEN NoDump ELSE file

ImplementsLedger == Ledger!Spec

(* Once callers stop asking, every append that was called returns or       *)
(* raises: no path through append, and no crash, leaves the lock with a    *)
(* thread that will not release it while others wait for it.               *)
NoMoreCalls == <>[][\A t \in Thread : pc[t] = "idle" => pc'[t] = "idle"]_pc

AppendsReturn == NoMoreCalls => \A t \in Thread : pc[t] # "idle" ~> pc[t] = "idle"
=============================================================================
