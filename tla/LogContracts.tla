---------------------------- MODULE LogContracts ----------------------------
(***************************************************************************)
(* The contracts of the M03 transaction log: what a batch must satisfy     *)
(* before it may be committed, what a watermark says, and what a           *)
(* serialized log must satisfy before it may be loaded.                    *)
(*                                                                         *)
(* A record is a RecordEnvelope reduced to the fields the log looks at:    *)
(*   [id, household, trace, schema, body]                                  *)
(* and a batch is the sequence of records of one append.  SHA-256 digests  *)
(* are taken to be injective, so request_sha256 of a batch is the batch    *)
(* itself, and so is transaction_id, which is cut from that digest.        *)
(* A transaction is [seq, household, trace, key, records, at].             *)
(***************************************************************************)
EXTENDS Integers, Sequences, FiniteSets

CONSTANTS
  Record,   \* the record envelopes callers can produce
  Schema,   \* their schema names
  Key,      \* idempotency keys
  Time,     \* instants a commit can be stamped with
  NoTime    \* committed_at was not given by the caller

ASSUME NoTimeAssumption == NoTime \notin Time

Batch == Seq(Record)

Transaction == [seq : Nat, household : {r.household : r \in Record},
                trace : {r.trace : r \in Record}, key : Key,
                records : Batch, at : Time]

Watermark == [seq : Nat, txId : Batch, local : [Schema -> Nat], at : Time]

(* The key under which the log remembers a commit: per household.          *)
ScopedKey(tx) == <<tx.household, tx.key>>

TransactionId(tx) == tx.records

RecordIds(batch) == {batch[j].id : j \in DOMAIN batch}

(* The checks append makes before it takes the lock.                       *)
ValidBatch(batch) ==
  /\ batch # << >>
  /\ \A i, j \in DOMAIN batch :
       /\ batch[i].id = batch[j].id => i = j
       /\ batch[i].household = batch[j].household
       /\ batch[i].trace = batch[j].trace

CommittedTransaction(seq, batch, key, at) ==
  [seq |-> seq, household |-> batch[1].household, trace |-> batch[1].trace,
   key |-> key, records |-> batch, at |-> at]

(* _source_local_seq after the records of one more batch.                  *)
CountSchemas(local, batch) ==
  [s \in Schema |-> local[s] + Cardinality({j \in DOMAIN batch : batch[j].schema = s})]

NoRecords == [s \in Schema |-> 0]

(* Where the first n transactions of txs hold a record of schema s, ...    *)
PlacesOf(s, txs, n) ==
  UNION {{i} \X {j \in DOMAIN txs[i].records : txs[i].records[j].schema = s} : i \in 1..n}

(* ... and so the local sequence they leave.                               *)
LocalSeqAt(txs, n) == [s \in Schema |-> Cardinality(PlacesOf(s, txs, n))]

WatermarkFor(tx, local) ==
  [seq |-> tx.seq, txId |-> TransactionId(tx), local |-> local, at |-> tx.at]

(* TransactionLogDump and CommittedTransaction: what load accepts.         *)
ValidDump(txs) ==
  /\ \A i \in DOMAIN txs : txs[i].seq = i /\ txs[i].records # << >>
  /\ \A i, j \in DOMAIN txs : ScopedKey(txs[i]) = ScopedKey(txs[j]) => i = j
  /\ \A i, j \in DOMAIN txs :
       RecordIds(txs[i].records) \cap RecordIds(txs[j].records) # {} => i = j
  /\ \A i \in DOMAIN txs : \A j, k \in DOMAIN txs[i].records :
       /\ txs[i].records[j].id = txs[i].records[k].id => j = k
       /\ txs[i].records[j].household = txs[i].household

(* d[key] = value on a Python dict.                                        *)
Put(d, key, value) ==
  [x \in DOMAIN d \cup {key} |-> IF x = key THEN value ELSE d[x]]

EmptyDict == [x \in {} |-> x]
=============================================================================
