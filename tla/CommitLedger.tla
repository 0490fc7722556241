---------------------------- MODULE CommitLedger ----------------------------
(***************************************************************************)
(* What AppendOnlyTransactionLog promises its callers, without its indexes *)
(* and its lock: a ledger to which one transaction at a time is added,     *)
(* never twice under one household's idempotency key and never with a      *)
(* record that is already there, and a file that holds a prefix of it.     *)
(***************************************************************************)
EXTENDS LogContracts

CONSTANT NoDump  \* the file holds no complete dump

VARIABLES ledger, durable

ledgerVars == <<ledger, durable>>

Init == ledger = << >> /\ durable = NoDump

(* One transaction more: the sequence number is its position, the key and  *)
(* the records are new.                                                    *)
Commit ==
  /\ Len(ledger') = Len(ledger) + 1
  /\ LET tx == ledger'[Len(ledger')]
     IN  /\ ledger' = Append(ledger, tx)
         /\ tx.seq = Len(ledger')
         /\ ValidBatch(tx.records)
         /\ \A i \in DOMAIN ledger :
              /\ ScopedKey(ledger[i]) # ScopedKey(tx)
              /\ RecordIds(ledger[i].records) \cap RecordIds(tx.records) = {}
  /\ UNCHANGED durable

(* A completed dump holds the ledger as it was at some earlier moment.     *)
Persist(n) == durable' = SubSeq(ledger, 1, n) /\ UNCHANGED ledger

(* write_text truncates the file before it writes it.                      *)
Tear == durable' = NoDump /\ UNCHANGED ledger

Lose == ledger' = << >> /\ UNCHANGED durable

(* A new process loads the dump; what the old one held beside it is gone.  *)
Recover == durable # NoDump /\ ledger' = durable /\ UNCHANGED durable

Next ==
  \/ Commit
  \/ \E n \in 0..Len(ledger) : Persist(n)
  \/ Tear
  \/ Lose
  \/ Recover

Spec == Init /\ [][Next]_ledgerVars
=============================================================================
