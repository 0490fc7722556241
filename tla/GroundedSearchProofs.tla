------------------------ MODULE GroundedSearchProofs ------------------------
(***************************************************************************)
(* Proofs about grounded search: the closed loop, for any requests,        *)
(* providers, executors and foreign commits and any number of cycles, the  *)
(* beliefs that it commits, and its evidence modules, for any claims,      *)
(* views, anchors, frames and things.                                      *)
(***************************************************************************)
EXTENDS ClosedLoop, GroundedEvidence, DataLemmas

(* A sequence over a set is a sequence of anything.                        *)
LEMMA SequenceIsList ==
  ASSUME NEW s, IsSequence(s)
  PROVE  IsList(s) /\ Len(s) \in Nat /\ DOMAIN s = 1..Len(s)
<1> DEFINE S == {s[i] : i \in 1..Len(s)}
<1>1. s = [i \in 1..Len(s) |-> s[i]] /\ Len(s) \in Nat
  BY DEF IsSequence
<1>2. DOMAIN s = 1..Len(s) /\ s \in [1..Len(s) -> S]
  BY <1>1
<1>3. s \in Seq(S)
  BY <1>1, <1>2, SeqDef, Zenon
<1> QED
  BY <1>1, <1>2, <1>3 DEF IsList

-----------------------------------------------------------------------------
(* Whatever the numbers of the fusion, what it does is a forgery; when     *)
(* they are right, it is one that a check can notice.                      *)
LEMMA TamperingIsForgery ==
  Tampering \subseteq Forgery /\ (sound => Tampering \cap Unnoticed = {})
BY DEF Tampering

-----------------------------------------------------------------------------
(* A batch that is committed is in the log, under the number it is         *)
(* reported with, and everything else stays where it was.                  *)
LEMMA CommitHolds ==
  ASSUME IsList(ledger), NEW key, NEW batch, Accepts(key, batch), Appended(key, batch)
  PROVE  /\ IsList(ledger')
         /\ \A i \in DOMAIN ledger : i \in DOMAIN ledger' /\ ledger'[i] = ledger[i]
         /\ SequenceOf(key, batch) \in DOMAIN ledger'
         /\ ledger'[SequenceOf(key, batch)].records = batch
<1> DEFINE tx == CommittedTransaction(Len(ledger) + 1, batch, key, NoTime)
           at == SequenceOf(key, batch)
<1>1. Len(ledger) \in Nat /\ DOMAIN ledger = 1..Len(ledger)
  BY ListFacts
<1>2. CASE IsNewBatch(key, batch)
  <2>1. ledger' = Append(ledger, tx)
    BY <1>2 DEF Appended
  <2>2. at = Len(ledger) + 1
    BY <1>2 DEF IsNewBatch, SequenceOf
  <2>3. tx.records = batch
    BY DEF CommittedTransaction
  <2> HIDE DEF tx
  <2> QED
    BY <1>1, <2>1, <2>2, <2>3, AppendFacts
<1>3. CASE ~IsNewBatch(key, batch)
  <2>1. ledger' = ledger /\ at <= Len(ledger) /\ ledger[at].records = batch
    BY <1>3 DEF Appended, Accepts
  <2>2. \E i \in DOMAIN ledger : ScopedKey(ledger[i]) = <<batch[1].household, key>>
    BY <1>1, <2>1 DEF SequenceOf
  <2>3. at \in DOMAIN ledger
    BY <2>2 DEF SequenceOf
  <2> QED
    BY <2>1, <2>3
<1> QED
  BY <1>2, <1>3

(* What others commit leaves everything where it was.                      *)
LEMMA OthersKeep ==
  ASSUME IsList(ledger), Others
  PROVE  /\ IsList(ledger')
         /\ \A i \in DOMAIN ledger : i \in DOMAIN ledger' /\ ledger'[i] = ledger[i]
<1>1. PICK key \in DOMAIN Foreign :
        IsNewBatch(key, Foreign[key]) /\ Appended(key, Foreign[key])
  BY DEF Others
<1>2. ledger' = Append(ledger, CommittedTransaction(Len(ledger) + 1, Foreign[key], key, NoTime))
  BY <1>1 DEF Appended
<1> QED
  BY <1>2, ListFacts, AppendFacts

(* One transaction more, by the rules of the ledger, or none.              *)
LEMMA CommitIsALedgerStep ==
  ASSUME IsList(ledger), NEW key, NEW batch, ValidBatch(batch), Appended(key, batch)
  PROVE  IsList(ledger') /\ [Ledger!Next]_(Ledger!ledgerVars)
<1> DEFINE tx == CommittedTransaction(Len(ledger) + 1, batch, key, NoTime)
<1>1. CASE IsNewBatch(key, batch)
  <2>1. ledger' = Append(ledger, tx)
    BY <1>1 DEF Appended
  <2>2. tx.seq = Len(ledger) + 1 /\ tx.records = batch
        /\ ScopedKey(tx) = <<batch[1].household, key>>
    BY DEF CommittedTransaction, ScopedKey
  <2>3. \A i \in DOMAIN ledger :
          /\ Ledger!ScopedKey(ledger[i]) # Ledger!ScopedKey(tx)
          /\ Ledger!RecordIds(ledger[i].records) \cap Ledger!RecordIds(tx.records) = {}
    BY <1>1, <2>2 DEF IsNewBatch, ScopedKey, RecordIds, Ledger!ScopedKey, Ledger!RecordIds
  <2>4. Ledger!ValidBatch(tx.records)
    BY <2>2 DEF ValidBatch, Ledger!ValidBatch
  <2> HIDE DEF tx
  <2>5. /\ IsList(ledger') /\ Len(ledger') = Len(ledger) + 1 /\ ledger'[Len(ledger')] = tx
    BY <2>1, AppendFacts, ListFacts
  <2>6. Ledger!Commit
    BY <2>1, <2>2, <2>3, <2>4, <2>5 DEF Ledger!Commit
  <2> QED
    BY <2>5, <2>6 DEF Ledger!Next
<1>2. CASE ~IsNewBatch(key, batch)
  BY <1>2 DEF Appended, Ledger!ledgerVars
<1> QED
  BY <1>1, <1>2

(* Every step of the loop commits a record that the ledger allows next, or *)
(* leaves the ledger alone.                                                *)
LEMMA LoopStepIsALedgerStep ==
  ASSUME IsList(ledger), [LoopNext]_loopVars
  PROVE  IsList(ledger') /\ [Ledger!Next]_(Ledger!ledgerVars)
<1>1. CASE CommitObservation
  <2>1. \/ UNCHANGED ledger
        \/ \E key, batch : Accepts(key, batch) /\ Appended(key, batch)
    BY <1>1, Zenon DEF CommitObservation
  <2> QED
    BY <2>1, CommitIsALedgerStep DEF Accepts, Ledger!ledgerVars
<1>2. CASE CommitExecution
  <2>1. \/ UNCHANGED ledger
        \/ \E key, batch : Accepts(key, batch) /\ Appended(key, batch)
    BY <1>2, Zenon DEF CommitExecution
  <2> QED
    BY <2>1, CommitIsALedgerStep DEF Accepts, Ledger!ledgerVars
<1>3. CASE Others
  <2>1. PICK key \in DOMAIN Foreign : Appended(key, Foreign[key])
    BY <1>3 DEF Others
  <2> QED
    BY <2>1, ForeignAssumption, CommitIsALedgerStep
<1>4. CASE UNCHANGED ledger
  BY <1>4 DEF Ledger!ledgerVars
<1>5. ASSUME \/ \E f \in Tampering : Decide(f)
             \/ GiveUp
             \/ \E p \in Proposal : Plan(p)
             \/ \E o \in Observation, f \in Tampering : Observe(o, f)
             \/ Mark
             \/ NothingToActOn
             \/ \E x \in Execution : Act(x)
             \/ \E m \in Model, f \in Tampering : Learn(m, f)
             \/ ProviderRaises
             \/ \E r \in Request : Start(r)
             \/ UNCHANGED loopVars
      PROVE  UNCHANGED ledger
  <2>1. ASSUME NEW f \in Tampering, Decide(f) PROVE UNCHANGED ledger
    BY <2>1 DEF Decide, outside
  <2>2. CASE GiveUp \/ Mark \/ NothingToActOn \/ ProviderRaises \/ UNCHANGED loopVars
    BY <2>2 DEF GiveUp, Mark, NothingToActOn, ProviderRaises, outside, loopVars
  <2>3. ASSUME NEW p \in Proposal, Plan(p) PROVE UNCHANGED ledger
    <3>1. UNCHANGED outside
      BY <2>3, Zenon DEF Plan
    <3> QED
      BY <3>1 DEF outside
  <2>4. ASSUME NEW o \in Observation, NEW f \in Tampering, Observe(o, f) PROVE UNCHANGED ledger
    BY <2>4, Zenon DEF Observe
  <2>5. ASSUME NEW x \in Execution, Act(x) PROVE UNCHANGED ledger
    BY <2>5 DEF Act
  <2>6. ASSUME NEW m \in Model, NEW f \in Tampering, Learn(m, f) PROVE UNCHANGED ledger
    <3>1. UNCHANGED outside
      BY <2>6, Zenon DEF Learn
    <3> QED
      BY <3>1 DEF outside
  <2>7. ASSUME NEW r \in Request, Start(r) PROVE UNCHANGED ledger
    BY <2>7 DEF Start
  <2> QED
    BY <1>5, <2>1, <2>2, <2>3, <2>4, <2>5, <2>6, <2>7
<1> QED
  BY <1>1, <1>2, <1>3, <1>4, <1>5 DEF LoopNext, Run

(* What a run does to the log, through its cycles, its exceptions and what *)
(* others commit meanwhile, is what the ledger allows.                     *)
THEOREM LoopRefinement == LoopSpec => UsesLedger
<1>1. LoopInit => IsList(ledger) /\ Ledger!Init
  <2>1. << >> \in Seq({})
    OBVIOUS
  <2> QED
    BY <2>1 DEF LoopInit, Ledger!Init, IsList
<1>2. IsList(ledger) /\ [LoopNext]_loopVars => IsList(ledger)' /\ [Ledger!Next]_(Ledger!ledgerVars)
  BY LoopStepIsALedgerStep DEF IsList
<1> QED
  BY <1>1, <1>2, PTL DEF LoopSpec, UsesLedger, Ledger!Spec

-----------------------------------------------------------------------------
Ongoing == pc \notin {"idle", "ended"}

IdsOf(execution) == {RecordsOf(execution)[i].id : i \in DOMAIN RecordsOf(execution)}

ListsInv ==
  /\ IsList(ledger) /\ IsList(performed)
  /\ IsList(observed) /\ IsList(observedAt) /\ Len(observed) = Len(observedAt)
  /\ IsList(fed) /\ IsList(fedAt) /\ Len(fed) = Len(fedAt)

(* What the run looked at is in used when its evidence is committed; the   *)
(* action that is carried out is not one of these.                         *)
LookedInv ==
  /\ \A i \in DOMAIN performed :
       performed[i].what[1] = "observation" /\ reason # "raised" =>
         \/ performed[i].what[2] \in used
         \/ i = Len(performed) /\ pc = "commit_observation"
  /\ pc \in {"observe", "commit_observation"} => chosen.id \notin used

(* What is pending is what the robot did last.                             *)
PendingInv ==
  /\ pc = "commit_observation" =>
       /\ Len(performed) > 0
       /\ performed[Len(performed)].what = <<"observation", chosen.id>>
       /\ performed[Len(performed)].records = {pending.record.id}
  /\ pc \in {"learn", "commit_execution"} =>
       /\ Len(performed) > 0
       /\ performed[Len(performed)].what[1] = "execution"
       /\ performed[Len(performed)].records = IdsOf(pending.execution)
       /\ DOMAIN pending = {"execution", "learned", "next", "result"}
       /\ IsList(pending.execution.opportunities) /\ IsList(pending.execution.feedback)
       /\ IsList(pending.learned)
       /\ Len(pending.learned) <= Len(pending.execution.feedback)
       /\ pc = "learn" => Len(pending.learned) < Len(pending.execution.feedback)
       /\ \A i \in DOMAIN pending.learned :
            pending.learned[i].record = pending.execution.feedback[i]

RecordInv ==
  /\ ListsInv /\ LookedInv /\ PendingInv /\ ActsAreOnRecord
  /\ Ongoing => reason # "raised"

(* What is logged stays logged.                                            *)
LEMMA LogGrows ==
  ASSUME \A i \in DOMAIN ledger : i \in DOMAIN ledger' /\ ledger'[i] = ledger[i]
  PROVE  LoggedIds \subseteq LoggedIds'
BY DEF LoggedIds

(* An exception clears what the run would have reported.                   *)
LEMMA RaisingIsSafe ==
  ASSUME Raise, IsList(ledger'), IsList(performed'), NoObservationTwice',
         \A i \in DOMAIN performed' :
           performed'[i].records \subseteq LoggedIds' \/ i = Len(performed')
  PROVE  RecordInv'
<1>1. pc' = "ended" /\ reason' = "raised"
  BY DEF Raise
<1>2. observed' = << >> /\ observedAt' = << >> /\ fed' = << >> /\ fedAt' = << >>
  BY DEF Raise, Fresh
<1>3. << >> \in Seq({}) /\ Len(<< >>) = 0 /\ DOMAIN << >> = {}
  OBVIOUS
<1>4. ListsInv'
  BY <1>2, <1>3 DEF ListsInv, IsList
<1>5. LookedInv' /\ PendingInv' /\ (Ongoing => reason # "raised")'
  BY <1>1 DEF LookedInv, PendingInv, Ongoing
<1>6. ReportedCommitsHold'
  BY <1>2, <1>3 DEF ReportedCommitsHold
<1>7. OnlyTheLastActIsLost'
  BY <1>1 DEF OnlyTheLastActIsLost
<1> QED
  BY <1>4, <1>5, <1>6, <1>7 DEF RecordInv, ActsAreOnRecord

(* A provider raises, or something does not fit, before the next act.      *)
LEMMA RaisingBetweenIsSafe ==
  ASSUME RecordInv, Raise, UNCHANGED <<ledger, performed>>
  PROVE  RecordInv'
<1>1. /\ IsList(ledger') /\ IsList(performed') /\ NoObservationTwice'
      /\ LoggedIds' = LoggedIds
  BY DEF RecordInv, ListsInv, ActsAreOnRecord, NoObservationTwice, LoggedIds
<1>2. \A i \in DOMAIN performed : performed[i].records \subseteq LoggedIds \/ i = Len(performed)
  <2>1. CASE pc \in {"commit_observation", "learn", "commit_execution"} \/ reason = "raised"
    BY DEF RecordInv, ActsAreOnRecord, OnlyTheLastActIsLost
  <2> QED
    BY DEF RecordInv, ActsAreOnRecord, OnlyTheLastActIsLost
<1> QED
  BY <1>1, <1>2, RaisingIsSafe

(* The steps between two acts, which commit nothing.                       *)
LEMMA DecidingIsSafe ==
  ASSUME RecordInv,
         UNCHANGED <<ledger, performed, observed, observedAt, fed, fedAt, used>>,
         pc \notin {"commit_observation", "learn", "commit_execution"}, Ongoing,
         pc' \in {"decide", "plan", "observe", "act", "ended"},
         reason' # "raised",
         pc' = "observe" => chosen'.id \notin used
  PROVE  RecordInv'
<1>1. ListsInv'
  BY DEF RecordInv, ListsInv
<1>2. LookedInv' /\ PendingInv' /\ (Ongoing => reason # "raised")'
  BY DEF RecordInv, LookedInv, PendingInv, Ongoing
<1>3. ActsAreOnRecord'
  BY DEF RecordInv, ActsAreOnRecord, ReportedCommitsHold, NoObservationTwice, OnlyTheLastActIsLost,
     LoggedIds, Ongoing
<1> QED
  BY <1>1, <1>2, <1>3 DEF RecordInv

(* Starting an episode keeps the invariant.                                *)
LEMMA StartIsSafe ==
  ASSUME RecordInv, NEW r \in Request, Start(r)
  PROVE  RecordInv'
<1>1. performed' = << >> /\ ledger' = ledger
      /\ observed' = << >> /\ observedAt' = << >> /\ fed' = << >> /\ fedAt' = << >>
  BY DEF Start, Raise, Fresh
<1>2. << >> \in Seq({}) /\ Len(<< >>) = 0 /\ DOMAIN << >> = {}
  OBVIOUS
<1>3. \/ pc' = "decide" /\ reason' = "none"
      \/ pc' = "ended" /\ reason' = "raised"
  BY DEF Start, Raise
<1>4. ListsInv'
  BY <1>1, <1>2 DEF RecordInv, ListsInv, IsList
<1>5. LookedInv' /\ PendingInv' /\ (Ongoing => reason # "raised")'
  BY <1>1, <1>2, <1>3 DEF LookedInv, PendingInv, Ongoing
<1>6. ActsAreOnRecord'
  BY <1>1, <1>2 DEF ActsAreOnRecord, ReportedCommitsHold, NoObservationTwice, OnlyTheLastActIsLost
<1> QED
  BY <1>4, <1>5, <1>6 DEF RecordInv

(* An act is made when the one before it is on record.                     *)
LEMMA ActingIsSafe ==
  ASSUME RecordInv, pc \in {"observe", "act"},
         NEW what, NEW records, Perform(what, records),
         UNCHANGED ledger,
         what[1] = "observation" => what[2] \notin used
  PROVE  /\ IsList(performed') /\ Len(performed') = Len(performed) + 1
         /\ DOMAIN performed' = 1..(Len(performed) + 1) /\ Len(performed) \in Nat
         /\ DOMAIN performed = 1..Len(performed)
         /\ performed'[Len(performed')].what = what /\ performed'[Len(performed')].records = records
         /\ \A i \in DOMAIN performed :
              /\ performed'[i] = performed[i] /\ performed[i].records \subseteq LoggedIds
              /\ performed[i].what[1] = "observation" => performed[i].what[2] \in used
         /\ NoObservationTwice' /\ LoggedIds' = LoggedIds
<1> DEFINE act == [what |-> what, records |-> records]
<1>1. performed' = Append(performed, act) /\ act.what = what /\ act.records = records
  BY DEF Perform
<1> HIDE DEF act
<1>2. /\ IsList(performed') /\ Len(performed') = Len(performed) + 1 /\ Len(performed) \in Nat
      /\ DOMAIN performed' = 1..(Len(performed) + 1) /\ DOMAIN performed = 1..Len(performed)
      /\ performed'[Len(performed')] = act
      /\ \A i \in DOMAIN performed : performed'[i] = performed[i]
  BY <1>1, AppendFacts, ListFacts DEF RecordInv, ListsInv
<1>3. reason # "raised"
  BY DEF RecordInv, Ongoing
<1>4. \A i \in DOMAIN performed :
        /\ performed[i].records \subseteq LoggedIds
        /\ performed[i].what[1] = "observation" => performed[i].what[2] \in used
  BY <1>3 DEF RecordInv, ActsAreOnRecord, OnlyTheLastActIsLost, LookedInv
<1>5. NoObservationTwice'
  <2> SUFFICES ASSUME NEW i \in DOMAIN performed', NEW j \in DOMAIN performed',
                      performed'[i].what = performed'[j].what, performed'[i].what[1] = "observation"
               PROVE  i = j
    BY DEF NoObservationTwice
  <2>1. \A k \in DOMAIN performed' : k \in DOMAIN performed \/ (k = Len(performed') /\ performed'[k].what = what)
    BY <1>1, <1>2
  <2>2. CASE i \in DOMAIN performed /\ j \in DOMAIN performed
    BY <1>2, <2>2 DEF RecordInv, ActsAreOnRecord, NoObservationTwice
  <2> QED
    BY <1>2, <1>4, <2>1, <2>2
<1> QED
  BY <1>1, <1>2, <1>4, <1>5 DEF LoggedIds

(* Observing keeps the invariant.                                          *)
LEMMA ObserveIsSafe ==
  ASSUME RecordInv, NEW o \in Observation, NEW f \in Forgery, Observe(o, f)
  PROVE  RecordInv'
<1>1. pc = "observe" /\ Perform(<<"observation", chosen.id>>, {o.id}) /\ ledger' = ledger
  BY DEF Observe
<1>2. chosen.id \notin used
  BY <1>1 DEF RecordInv, LookedInv
<1> DEFINE what == <<"observation", chosen.id>>
<1>3. what[1] = "observation" /\ what[2] = chosen.id
  OBVIOUS
<1>4. /\ IsList(performed') /\ Len(performed') = Len(performed) + 1
      /\ DOMAIN performed' = 1..(Len(performed) + 1) /\ Len(performed) \in Nat
      /\ DOMAIN performed = 1..Len(performed)
      /\ performed'[Len(performed')].what = what /\ performed'[Len(performed')].records = {o.id}
      /\ \A i \in DOMAIN performed :
           /\ performed'[i] = performed[i] /\ performed[i].records \subseteq LoggedIds
           /\ performed[i].what[1] = "observation" => performed[i].what[2] \in used
      /\ NoObservationTwice' /\ LoggedIds' = LoggedIds
  <2> HIDE DEF what
  <2> QED
    BY <1>1, <1>2, <1>3, ActingIsSafe DEF what
<1>5. CASE Raise
  BY <1>1, <1>4, <1>5, RaisingIsSafe DEF RecordInv, ListsInv
<1>6. CASE ~Raise
  <2>1. /\ pc' = "commit_observation" /\ pending'.record = o
        /\ UNCHANGED <<reason, chosen, used, observed, observedAt, fed, fedAt>>
    BY <1>6 DEF Observe
  <2>2. ListsInv'
    BY <1>1, <1>4, <2>1 DEF RecordInv, ListsInv
  <2>3. LookedInv'
    BY <1>2, <1>4, <2>1 DEF RecordInv, LookedInv
  <2>4. PendingInv'
    BY <1>4, <2>1 DEF PendingInv
  <2>5. ReportedCommitsHold'
    BY <1>1, <2>1 DEF RecordInv, ActsAreOnRecord, ReportedCommitsHold
  <2>6. OnlyTheLastActIsLost'
    BY <1>4, <2>1 DEF OnlyTheLastActIsLost
  <2>7. (Ongoing => reason # "raised")'
    BY <1>1, <2>1 DEF RecordInv, Ongoing
  <2> QED
    BY <1>4, <2>2, <2>3, <2>4, <2>5, <2>6, <2>7 DEF RecordInv, ActsAreOnRecord
<1> QED
  BY <1>5, <1>6

(* Acting keeps the invariant.                                             *)
LEMMA ActIsSafe ==
  ASSUME RecordInv, NEW x \in Execution, Act(x)
  PROVE  RecordInv'
<1> DEFINE what == <<"execution", x.id>>
<1>1. pc = "act" /\ Perform(what, IdsOf(x)) /\ ledger' = ledger
  BY DEF Act, IdsOf
<1>2. what[1] = "execution"
  OBVIOUS
<1>3. /\ IsList(performed') /\ Len(performed') = Len(performed) + 1
      /\ DOMAIN performed' = 1..(Len(performed) + 1) /\ Len(performed) \in Nat
      /\ DOMAIN performed = 1..Len(performed)
      /\ performed'[Len(performed')].what = what /\ performed'[Len(performed')].records = IdsOf(x)
      /\ \A i \in DOMAIN performed :
           /\ performed'[i] = performed[i] /\ performed[i].records \subseteq LoggedIds
           /\ performed[i].what[1] = "observation" => performed[i].what[2] \in used
      /\ NoObservationTwice' /\ LoggedIds' = LoggedIds
  <2> HIDE DEF what
  <2> QED
    BY <1>1, <1>2, ActingIsSafe
<1>4. CASE Raise
  BY <1>1, <1>3, <1>4, RaisingIsSafe DEF RecordInv, ListsInv
<1>5. CASE ~Raise
  <2>1. /\ pc' = "learn"
        /\ pending' = [execution |-> x, learned |-> << >>, next |-> request, result |-> result]
        /\ UNCHANGED <<reason, chosen, used, observed, observedAt, fed, fedAt>>
        /\ ConsistentExecution(x)
    BY <1>5 DEF Act
  <2>2. ListsInv'
    BY <1>1, <1>3, <2>1 DEF RecordInv, ListsInv
  <2>3. LookedInv'
    BY <1>2, <1>3, <2>1 DEF RecordInv, LookedInv
  <2>4. PendingInv'
    <3>1. /\ IsList(x.opportunities) /\ IsList(x.feedback)
          /\ Len(x.feedback) \in Nat /\ DOMAIN x.feedback = 1..Len(x.feedback)
      BY ExecutionAssumption, SequenceIsList
    <3>2. x.feedback # << >>
      BY <2>1 DEF ConsistentExecution
    <3>3. Len(x.feedback) > 0
      BY <3>1, <3>2 DEF IsList
    <3>4. << >> \in Seq({}) /\ Len(<< >>) = 0 /\ DOMAIN << >> = {}
      OBVIOUS
    <3>5. /\ pending'.execution = x /\ pending'.learned = << >>
          /\ DOMAIN pending' = {"execution", "learned", "next", "result"}
      BY <2>1
    <3> QED
      BY <1>2, <1>3, <2>1, <3>1, <3>3, <3>4, <3>5 DEF PendingInv, IsList
  <2>5. ReportedCommitsHold'
    BY <1>1, <2>1 DEF RecordInv, ActsAreOnRecord, ReportedCommitsHold
  <2>6. OnlyTheLastActIsLost'
    BY <1>3, <2>1 DEF OnlyTheLastActIsLost
  <2>7. (Ongoing => reason # "raised")'
    BY <1>1, <2>1 DEF RecordInv, Ongoing
  <2> QED
    BY <1>3, <2>2, <2>3, <2>4, <2>5, <2>6, <2>7 DEF RecordInv, ActsAreOnRecord
<1> QED
  BY <1>4, <1>5

(* A provider's mark ends a cycle.                                         *)
LEMMA MarkIsSafe ==
  ASSUME RecordInv, Mark
  PROVE  RecordInv'
BY DecidingIsSafe, SMTT(30) DEF Mark, Ongoing, RecordInv

(* One feedback more is learned from, of those that are pending.           *)
LEMMA LearnIsSafe ==
  ASSUME RecordInv, NEW m \in Model, NEW f \in Forgery, Learn(m, f)
  PROVE  RecordInv'
<1>1. pc = "learn" /\ UNCHANGED <<ledger, performed>>
  BY DEF Learn, outside
<1>2. CASE Raise
  BY <1>1, <1>2, RaisingBetweenIsSafe
<1>3. CASE ~Raise
  <2> DEFINE at == Len(pending.learned) + 1
             feedback == pending.execution.feedback[at]
             item == [record |-> feedback, model |-> m]
  <2>1. PICK next, res :
          /\ pending' = [pending EXCEPT !.learned = Append(@, item), !.next = next, !.result = res]
          /\ pc' = IF at = Len(pending.execution.feedback) THEN "commit_execution" ELSE "learn"
          /\ UNCHANGED <<reason, used, observed, observedAt, fed, fedAt>>
    BY <1>3 DEF Learn
  <2>2. item.record = feedback
    OBVIOUS
  <2> HIDE DEF item
  <2>3. /\ DOMAIN pending = {"execution", "learned", "next", "result"}
        /\ IsList(pending.learned) /\ Len(pending.learned) < Len(pending.execution.feedback)
        /\ IsList(pending.execution.feedback) /\ IsList(pending.execution.opportunities)
    BY <1>1 DEF RecordInv, PendingInv
  <2>4. /\ DOMAIN pending' = DOMAIN pending
        /\ pending'.execution = pending.execution
        /\ pending'.learned = Append(pending.learned, item)
    BY <2>1, <2>3
  <2>5. /\ IsList(pending'.learned) /\ Len(pending'.learned) = at
        /\ DOMAIN pending'.learned = 1..at /\ Len(pending.learned) \in Nat
        /\ DOMAIN pending.learned = 1..Len(pending.learned)
        /\ Len(pending.execution.feedback) \in Nat
        /\ \A i \in 1..Len(pending.learned) : pending'.learned[i] = pending.learned[i]
        /\ pending'.learned[at] = item
    BY <2>3, <2>4, AppendFacts, ListFacts
  <2>6. PendingInv'
    <3>1. \A i \in DOMAIN pending'.learned :
            pending'.learned[i].record = pending'.execution.feedback[i]
      BY <1>1, <2>2, <2>4, <2>5 DEF RecordInv, PendingInv
    <3>2. IdsOf(pending'.execution) = IdsOf(pending.execution)
      BY <2>4
    <3>3. pc' \in {"learn", "commit_execution"} /\ (pc' = "learn" => at # Len(pending.execution.feedback))
      BY <2>1
    <3> QED
      BY <1>1, <2>3, <2>4, <2>5, <3>1, <3>2, <3>3, SMTT(30) DEF RecordInv, PendingInv
  <2>7. pc' \in {"learn", "commit_execution"}
    BY <2>1
  <2>8. ListsInv' /\ LookedInv'
    BY <1>1, <2>1, <2>7 DEF RecordInv, ListsInv, LookedInv
  <2>9. (Ongoing => reason # "raised")'
    BY <1>1, <2>1 DEF RecordInv, Ongoing
  <2>10. OnlyTheLastActIsLost'
    <3>1. UNCHANGED <<performed, ledger, reason>>
      BY <1>1, <2>1
    <3>2. OnlyTheLastActIsLost
      BY <1>1 DEF RecordInv, ActsAreOnRecord
    <3> QED
      BY <2>7, <3>1, <3>2 DEF OnlyTheLastActIsLost, LoggedIds
  <2>11. ReportedCommitsHold' /\ NoObservationTwice'
    <3>1. UNCHANGED <<performed, ledger, observed, observedAt, fed, fedAt>>
      BY <1>1, <2>1
    <3>2. ReportedCommitsHold /\ NoObservationTwice
      BY <1>1 DEF RecordInv, ActsAreOnRecord
    <3> QED
      BY <3>1, <3>2, Zenon DEF ReportedCommitsHold, NoObservationTwice
  <2> QED
    BY <2>6, <2>8, <2>9, <2>10, <2>11, SMTT(30) DEF RecordInv, ActsAreOnRecord
<1> QED
  BY <1>2, <1>3

(* Nothing else happens when others commit.                                *)
LEMMA OthersAreSafe ==
  ASSUME RecordInv, Others
  PROVE  RecordInv'
<1>1. /\ IsList(ledger')
      /\ \A i \in DOMAIN ledger : i \in DOMAIN ledger' /\ ledger'[i] = ledger[i]
  BY OthersKeep DEF RecordInv, ListsInv
<1>2. UNCHANGED <<pc, reason, chosen, pending, used, observed, observedAt, fed, fedAt, performed>>
  BY DEF Others, locals
<1>3. LoggedIds \subseteq LoggedIds'
  BY <1>1, LogGrows
<1>4. ListsInv'
  BY <1>1, <1>2 DEF RecordInv, ListsInv
<1>5. LookedInv' /\ PendingInv' /\ (Ongoing => reason # "raised")'
  BY <1>2 DEF RecordInv, LookedInv, PendingInv, Ongoing
<1>6. ReportedCommitsHold' /\ NoObservationTwice'
  BY <1>1, <1>2 DEF RecordInv, ActsAreOnRecord, ReportedCommitsHold, NoObservationTwice
<1>7. OnlyTheLastActIsLost'
  BY <1>2, <1>3 DEF RecordInv, ActsAreOnRecord, OnlyTheLastActIsLost
<1> QED
  BY <1>4, <1>5, <1>6, <1>7 DEF RecordInv, ActsAreOnRecord

(* Committing the observation keeps the invariant.                         *)
LEMMA CommitObservationIsSafe ==
  ASSUME RecordInv, CommitObservation
  PROVE  RecordInv'
<1> DEFINE o == pending.record
           key == <<"observation", o.id>>
           batch == <<Envelope(o)>>
           at == SequenceOf(key, batch)
<1>1. pc = "commit_observation" /\ UNCHANGED performed
  BY DEF CommitObservation
<1>2. CASE Raise /\ UNCHANGED ledger
  BY <1>1, <1>2, RaisingBetweenIsSafe
<1>3. CASE ~(Raise /\ UNCHANGED ledger)
  <2>1. /\ Accepts(key, batch) /\ Appended(key, batch)
        /\ observed' = Append(observed, o) /\ observedAt' = Append(observedAt, at)
        /\ used' = used \cup {chosen.id} /\ pc' = "mark"
        /\ UNCHANGED <<reason, fed, fedAt>>
    BY <1>3 DEF CommitObservation
  <2>2. RecordIds(batch) = {o.id}
    BY DEF RecordIds, Envelope
  <2> HIDE DEF o, key, batch
  <2>3. /\ IsList(ledger')
        /\ \A i \in DOMAIN ledger : i \in DOMAIN ledger' /\ ledger'[i] = ledger[i]
        /\ at \in DOMAIN ledger' /\ ledger'[at].records = batch
    BY <2>1, CommitHolds DEF RecordInv, ListsInv
  <2> HIDE DEF at
  <2>4. LoggedIds \subseteq LoggedIds' /\ o.id \in LoggedIds'
    BY <2>2, <2>3, LogGrows DEF LoggedIds
  <2>5. /\ IsList(observed') /\ IsList(observedAt') /\ Len(observed) \in Nat
        /\ Len(observed') = Len(observed) + 1 /\ Len(observedAt') = Len(observed) + 1
        /\ DOMAIN observedAt' = 1..(Len(observed) + 1) /\ DOMAIN observedAt = 1..Len(observed)
        /\ \A i \in 1..Len(observed) : observed'[i] = observed[i] /\ observedAt'[i] = observedAt[i]
        /\ observed'[Len(observed) + 1] = o /\ observedAt'[Len(observed) + 1] = at
    BY <2>1, AppendFacts, ListFacts DEF RecordInv, ListsInv
  <2>6. ListsInv'
    BY <1>1, <2>1, <2>3, <2>5 DEF RecordInv, ListsInv
  <2>7. LookedInv' /\ PendingInv'
    BY <1>1, <2>1 DEF RecordInv, LookedInv, PendingInv
  <2>8. ReportedCommitsHold'
    <3>1. \A i \in DOMAIN observedAt' :
            observedAt'[i] \in DOMAIN ledger' /\ observed'[i].id \in RecordIds(ledger'[observedAt'[i]].records)
      BY <2>2, <2>3, <2>5 DEF RecordInv, ActsAreOnRecord, ReportedCommitsHold
    <3> QED
      BY <2>1, <2>3, <3>1 DEF RecordInv, ActsAreOnRecord, ReportedCommitsHold
  <2>9. OnlyTheLastActIsLost'
    <3>1. performed[Len(performed)].records = {o.id} /\ reason # "raised"
      BY <1>1 DEF RecordInv, PendingInv, Ongoing, o
    <3> QED
      BY <1>1, <2>4, <3>1 DEF RecordInv, ActsAreOnRecord, OnlyTheLastActIsLost
  <2>10. NoObservationTwice' /\ (Ongoing => reason # "raised")'
    BY <1>1, <2>1 DEF RecordInv, ActsAreOnRecord, NoObservationTwice, Ongoing
  <2> QED
    BY <2>6, <2>7, <2>8, <2>9, <2>10 DEF RecordInv, ActsAreOnRecord
<1> QED
  BY <1>2, <1>3

(* Committing the execution keeps the invariant.                           *)
LEMMA CommitExecutionIsSafe ==
  ASSUME RecordInv, CommitExecution
  PROVE  RecordInv'
<1> DEFINE execution == pending.execution
           learned == pending.learned
           key == <<"execution", execution.id>>
           batch == [i \in DOMAIN RecordsOf(execution) |-> Envelope(RecordsOf(execution)[i])]
           at == SequenceOf(key, batch)
           stamps == [i \in DOMAIN learned |-> at]
<1>1. pc = "commit_execution" /\ UNCHANGED performed
  BY DEF CommitExecution
<1>2. CASE Raise /\ UNCHANGED ledger
  BY <1>1, <1>2, RaisingBetweenIsSafe
<1>3. CASE ~(Raise /\ UNCHANGED ledger)
  <2>1. /\ Accepts(key, batch) /\ Appended(key, batch)
        /\ fed' = fed \o learned /\ fedAt' = fedAt \o stamps
        /\ UNCHANGED <<used, observed, observedAt>>
    BY <1>3 DEF CommitExecution
  <2>2. /\ pc' \in {"ended", "decide"} /\ (pc' = "decide" => reason' = reason)
        /\ reason' # "raised"
    <3>1. reason # "raised"
      BY <1>1 DEF RecordInv, Ongoing
    <3> QED
      BY <1>3, <3>1 DEF CommitExecution
  <2>3. /\ IsList(learned) /\ IsList(execution.feedback) /\ IsList(execution.opportunities)
        /\ Len(learned) <= Len(execution.feedback)
        /\ \A i \in DOMAIN learned : learned[i].record = execution.feedback[i]
        /\ performed[Len(performed)].records = IdsOf(execution)
    BY <1>1 DEF RecordInv, PendingInv
  <2>4. RecordIds(batch) = IdsOf(execution)
    BY DEF RecordIds, IdsOf, Envelope
  <2>5. \A i \in DOMAIN learned : learned[i].record.id \in IdsOf(execution)
    <3> DEFINE first == execution.opportunities
               second == execution.feedback
    <3>1. RecordsOf(execution) = first \o second
      BY DEF RecordsOf
    <3>2. IsList(first) /\ IsList(second)
      BY <2>3
    <3> HIDE DEF first, second
    <3>3. /\ DOMAIN (first \o second) = 1..(Len(first) + Len(second))
          /\ Len(first) \in Nat /\ Len(second) \in Nat
          /\ \A i \in 1..Len(second) : (first \o second)[Len(first) + i] = second[i]
      BY <3>2, ConcatFacts, ListFacts
    <3> SUFFICES ASSUME NEW i \in DOMAIN learned PROVE learned[i].record.id \in IdsOf(execution)
      OBVIOUS
    <3>4. i \in 1..Len(second) /\ learned[i].record = second[i]
      BY <2>3, <3>3, ListFacts DEF second
    <3>5. (first \o second)[Len(first) + i].id = learned[i].record.id
          /\ Len(first) + i \in DOMAIN (first \o second)
      BY <3>3, <3>4
    <3> QED
      BY <3>1, <3>5 DEF IdsOf
  <2>6. IsList(stamps) /\ Len(stamps) = Len(learned) /\ \A i \in 1..Len(learned) : stamps[i] = at
    <3>1. Len(learned) \in Nat /\ DOMAIN learned = 1..Len(learned)
      BY <2>3, ListFacts
    <3>2. stamps \in Seq({at}) /\ Len(stamps) = Len(learned)
      BY <3>1
    <3> QED
      BY <3>1, <3>2 DEF IsList
  <2> HIDE DEF execution, learned, key, batch, stamps
  <2>7. /\ IsList(ledger')
        /\ \A i \in DOMAIN ledger : i \in DOMAIN ledger' /\ ledger'[i] = ledger[i]
        /\ at \in DOMAIN ledger' /\ ledger'[at].records = batch
    BY <2>1, CommitHolds DEF RecordInv, ListsInv
  <2> HIDE DEF at
  <2>8. LoggedIds \subseteq LoggedIds' /\ IdsOf(execution) \subseteq LoggedIds'
    BY <2>4, <2>7, LogGrows DEF LoggedIds
  <2>9. /\ IsList(fed') /\ IsList(fedAt') /\ Len(fed) \in Nat /\ Len(learned) \in Nat
        /\ Len(fed') = Len(fed) + Len(learned) /\ Len(fedAt') = Len(fed) + Len(learned)
        /\ DOMAIN fedAt' = 1..(Len(fed) + Len(learned)) /\ DOMAIN fedAt = 1..Len(fed)
        /\ DOMAIN learned = 1..Len(learned)
        /\ \A i \in 1..Len(fed) : fed'[i] = fed[i] /\ fedAt'[i] = fedAt[i]
        /\ \A i \in 1..Len(learned) : fed'[Len(fed) + i] = learned[i] /\ fedAt'[Len(fed) + i] = at
    <3>1. /\ IsList(fed) /\ IsList(fedAt) /\ Len(fedAt) = Len(fed)
          /\ IsList(learned) /\ IsList(stamps) /\ Len(stamps) = Len(learned)
      BY <2>3, <2>6 DEF RecordInv, ListsInv
    <3>2. /\ Len(fed) \in Nat /\ Len(learned) \in Nat
          /\ DOMAIN fedAt = 1..Len(fed) /\ DOMAIN learned = 1..Len(learned)
      BY <3>1, ListFacts
    <3>3. /\ IsList(fed \o learned) /\ Len(fed \o learned) = Len(fed) + Len(learned)
          /\ \A i \in 1..Len(fed) : (fed \o learned)[i] = fed[i]
          /\ \A i \in 1..Len(learned) : (fed \o learned)[Len(fed) + i] = learned[i]
      BY <3>1, ConcatFacts
    <3>4. /\ IsList(fedAt \o stamps) /\ Len(fedAt \o stamps) = Len(fed) + Len(learned)
          /\ DOMAIN (fedAt \o stamps) = 1..(Len(fed) + Len(learned))
          /\ \A i \in 1..Len(fed) : (fedAt \o stamps)[i] = fedAt[i]
          /\ \A i \in 1..Len(learned) : (fedAt \o stamps)[Len(fed) + i] = stamps[i]
      BY <3>1, ConcatFacts
    <3> QED
      BY <2>1, <2>6, <3>2, <3>3, <3>4
  <2>10. ListsInv'
    BY <1>1, <2>1, <2>7, <2>9 DEF RecordInv, ListsInv
  <2>11. LookedInv' /\ PendingInv'
    <3>1. LookedInv /\ reason # "raised" /\ used' = used
      BY <1>1, <2>1 DEF RecordInv, Ongoing
    <3>2. LookedInv'
      BY <1>1, <2>2, <3>1 DEF LookedInv
    <3>3. PendingInv'
      BY <2>2 DEF PendingInv
    <3> QED
      BY <3>2, <3>3
  <2>12. ReportedCommitsHold'
    <3>1. \A i \in 1..Len(fed) :
            fedAt'[i] \in DOMAIN ledger' /\ fed'[i].record.id \in RecordIds(ledger'[fedAt'[i]].records)
      BY <2>7, <2>9 DEF RecordInv, ActsAreOnRecord, ReportedCommitsHold
    <3>2. \A i \in 1..Len(learned) :
            /\ fedAt'[Len(fed) + i] \in DOMAIN ledger'
            /\ fed'[Len(fed) + i].record.id \in RecordIds(ledger'[fedAt'[Len(fed) + i]].records)
      BY <2>4, <2>5, <2>7, <2>9
    <3>3. \A i \in DOMAIN fedAt' : i \in 1..Len(fed) \/ \E k \in 1..Len(learned) : i = Len(fed) + k
      <4> SUFFICES ASSUME NEW i \in DOMAIN fedAt', i \notin 1..Len(fed)
                   PROVE  \E k \in 1..Len(learned) : i = Len(fed) + k
        OBVIOUS
      <4>1. i - Len(fed) \in 1..Len(learned) /\ i = Len(fed) + (i - Len(fed))
        BY <2>9
      <4> QED
        BY <4>1
    <3> QED
      BY <2>1, <2>7, <3>1, <3>2, <3>3 DEF RecordInv, ActsAreOnRecord, ReportedCommitsHold
  <2>13. OnlyTheLastActIsLost'
    BY <1>1, <2>3, <2>8 DEF RecordInv, ActsAreOnRecord, OnlyTheLastActIsLost, Ongoing
  <2>14. NoObservationTwice' /\ (Ongoing => reason # "raised")'
    BY <1>1, <2>2 DEF RecordInv, ActsAreOnRecord, NoObservationTwice
  <2> QED
    BY <2>10, <2>11, <2>12, <2>13, <2>14 DEF RecordInv, ActsAreOnRecord
<1> QED
  BY <1>2, <1>3

(* The records are right when no run has been started.                     *)
LEMMA RecordInit ==
  ASSUME LoopInit PROVE RecordInv
<1>1. << >> \in Seq({}) /\ Len(<< >>) = 0 /\ DOMAIN << >> = {}
  OBVIOUS
<1> QED
  BY <1>1 DEF LoopInit, RecordInv, ListsInv, LookedInv, PendingInv, ActsAreOnRecord, IsList,
     OnlyTheLastActIsLost, ReportedCommitsHold, NoObservationTwice, Ongoing

(* Every step keeps the records right.                                     *)
LEMMA RecordStep ==
  ASSUME RecordInv, [LoopNext]_loopVars PROVE RecordInv'
<1>1. ASSUME NEW f \in Forgery, Decide(f) PROVE RecordInv'
  <2>1. UNCHANGED <<ledger, performed>> /\ pc = "decide"
    BY <1>1 DEF Decide, outside
  <2>2. CASE Raise
    BY <2>1, <2>2, RaisingBetweenIsSafe
  <2>3. CASE ~Raise
    <3>1. /\ UNCHANGED <<observed, observedAt, fed, fedAt, used>>
          /\ \/ pc' \in {"plan", "act"} /\ reason' = reason
             \/ pc' = "ended" /\ reason' # "raised"
      <4>1. PICK res :
              /\ res # NoResult
              /\ IF res.policy \in {"ask_user", "abstain"}
                 THEN Return(res.policy) /\ target' = NoResult
                 ELSE /\ pc' = IF res.policy = "active_verify" THEN "plan" ELSE "act"
                      /\ UNCHANGED <<reason, used, observed, observedAt, fed, fedAt>>
        BY <1>1, <2>3 DEF Decide
      <4> QED
        BY <4>1 DEF Return
    <3> QED
      BY <2>1, <3>1, DecidingIsSafe DEF RecordInv, Ongoing
  <2> QED
    BY <2>2, <2>3
<1>2. ASSUME GiveUp PROVE RecordInv'
  BY <1>2, DecidingIsSafe DEF GiveUp, Return, outside, Ongoing
<1>3. ASSUME NEW p \in Proposal, Plan(p) PROVE RecordInv'
  <2>1. UNCHANGED <<ledger, performed>> /\ pc = "plan"
    BY <1>3 DEF Plan, outside
  <2>2. CASE Raise
    BY <2>1, <2>2, RaisingBetweenIsSafe
  <2>3. CASE ~Raise
    <3>1. \/ Return("stopped")
          \/ \E a \in Selectable(result.posterior, Unused(Offered(p))) :
               /\ pc' = "observe" /\ chosen' = a
               /\ UNCHANGED <<reason, used, observed, observedAt, fed, fedAt>>
      BY <1>3, <2>3 DEF Plan
    <3>2. \A a \in Selectable(result.posterior, Unused(Offered(p))) : a.id \notin used
      BY DEF Selectable, Unused
    <3> QED
      BY <2>1, <3>1, <3>2, DecidingIsSafe DEF RecordInv, Ongoing, Return
  <2> QED
    BY <2>2, <2>3
<1>4. ASSUME ProviderRaises \/ NothingToActOn PROVE RecordInv'
  BY <1>4, RaisingBetweenIsSafe DEF ProviderRaises, NothingToActOn, outside
<1>5. CASE UNCHANGED loopVars
  BY <1>5 DEF loopVars, locals, outside, RecordInv, ListsInv, LookedInv, PendingInv, ActsAreOnRecord,
     OnlyTheLastActIsLost, ReportedCommitsHold, NoObservationTwice, Ongoing, LoggedIds
<1> QED
  BY <1>1, <1>2, <1>3, <1>4, <1>5, TamperingIsForgery, StartIsSafe, ObserveIsSafe, CommitObservationIsSafe, MarkIsSafe,
     ActIsSafe, LearnIsSafe, CommitExecutionIsSafe, OthersAreSafe DEF LoopNext, Run

(* What the robot did is in the log before it does the next thing, what a  *)
(* run reports is in the commits it reports it for, and no observation is  *)
(* made twice, however often runs are started and however they end.        *)
THEOREM RecordSafety == LoopSpec => []ActsAreOnRecord
<1>1. LoopInit => RecordInv
  BY RecordInit
<1>2. RecordInv /\ [LoopNext]_loopVars => RecordInv'
  BY RecordStep
<1>3. RecordInv => ActsAreOnRecord
  BY DEF RecordInv
<1> QED
  BY <1>1, <1>2, <1>3, PTL DEF LoopSpec

-----------------------------------------------------------------------------
Divides(d, n) == \E q \in Nat : n = d * q

CommonDivisors(a, b) == {d \in Nat : Divides(d, a) /\ Divides(d, b)}

(* The common divisor that all of them divide.                             *)
Greatest(S) == CHOOSE d \in S : \A c \in S : Divides(c, d)

(* Two numbers that divide each other are equal.                           *)
LEMMA DividesBoth ==
  ASSUME NEW a \in Nat, NEW b \in Nat, Divides(a, b), Divides(b, a)
  PROVE  a = b
<1>1. PICK p \in Nat : b = a * p
  BY DEF Divides
<1>2. PICK q \in Nat : a = b * q
  BY DEF Divides
<1>3. CASE p = 0 \/ q = 0
  BY <1>1, <1>2, <1>3
<1>4. CASE p > 0 /\ q > 0
  <2>1. a * p >= a /\ b * q >= b
    BY <1>4
  <2> QED
    BY <1>1, <1>2, <2>1
<1> QED
  BY <1>3, <1>4

(* The remainder has the same common divisors.                             *)
LEMMA SameDivisors ==
  ASSUME NEW a \in Nat, NEW b \in Nat \ {0}
  PROVE  CommonDivisors(a, b) = CommonDivisors(b, a % b)
<1> DEFINE r == a % b
           k == a \div b
<1>1. r \in Nat /\ r < b /\ k \in Nat /\ a = b * k + r
  BY DivisionFacts
<1> HIDE DEF r, k
<1>2. ASSUME NEW d \in Nat, Divides(d, b)
      PROVE  Divides(d, a) <=> Divides(d, r)
  <2>1. PICK p \in Nat : b = d * p
    BY <1>2 DEF Divides
  <2>2. d > 0
    BY <2>1
  <2>3. ASSUME Divides(d, r) PROVE Divides(d, a)
    <3>1. PICK q \in Nat : r = d * q
      BY <2>3 DEF Divides
    <3>2. a = d * (p * k + q) /\ p * k + q \in Nat
      <4>1. p * k \in Nat
        BY <1>1
      <4>2. d * (p * k + q) = d * (p * k) + d * q
        BY <4>1
      <4>3. d * (p * k) = (d * p) * k
        BY <1>1
      <4> QED
        BY <1>1, <2>1, <3>1, <4>1, <4>2, <4>3
    <3> QED
      BY <3>2 DEF Divides
  <2>4. ASSUME Divides(d, a) PROVE Divides(d, r)
    <3>1. PICK q \in Nat : a = d * q
      BY <2>4 DEF Divides
    <3> DEFINE m == p * k
    <3>2. m \in Nat /\ b * k = d * m
      <4>1. d * (p * k) = (d * p) * k
        BY <1>1
      <4> QED
        BY <1>1, <2>1, <4>1
    <3> HIDE DEF m
    <3>3. r = d * q - d * m
      BY <1>1, <3>1, <3>2
    <3>4. m <= q
      <4> SUFFICES ASSUME q + 1 <= m PROVE FALSE
        BY <3>2
      <4>1. d * (q + 1) <= d * m
        BY <2>2, <3>2
      <4>2. d * (q + 1) = d * q + d
        OBVIOUS
      <4> QED
        BY <1>1, <2>2, <3>2, <3>3, <4>1, <4>2
    <3>5. q - m \in Nat /\ d * (q - m) = d * q - d * m
      BY <3>2, <3>4
    <3> QED
      BY <3>3, <3>5 DEF Divides
  <2> QED
    BY <2>3, <2>4
<1> QED
  BY <1>2 DEF CommonDivisors, r

(* Gcd computes by Euclid's algorithm.                                     *)
LEMMA GcdStep ==
  ASSUME NEW a \in Nat, NEW b \in Nat
  PROVE  Gcd[<<a, b>>] = IF b = 0 THEN a ELSE Gcd[<<b, a % b>>]
<1> DEFINE g == [p \in Nat \X Nat |-> Greatest(CommonDivisors(p[1], p[2]))]
<1>1. ASSUME NEW p \in Nat \X Nat
      PROVE  g[p] = IF p[2] = 0 THEN p[1] ELSE g[<<p[2], p[1] % p[2]>>]
  <2>0. p[1] \in Nat /\ p[2] \in Nat
    OBVIOUS
  <2>1. CASE p[2] = 0
    <3> DEFINE S == CommonDivisors(p[1], 0)
    <3>1. p[1] \in S
      <4>1. p[1] = p[1] * 1 /\ 0 = p[1] * 0
        BY <2>0
      <4> QED
        BY <2>0, <4>1 DEF CommonDivisors, Divides
    <3>2. \A c \in S : c \in Nat /\ Divides(c, p[1])
      BY DEF CommonDivisors
    <3> HIDE DEF S
    <3>3. Greatest(S) \in S /\ \A c \in S : Divides(c, Greatest(S))
      BY <3>1, <3>2 DEF Greatest
    <3>4. Greatest(S) = p[1]
      BY <2>0, <3>1, <3>2, <3>3, DividesBoth
    <3>5. g[p] = Greatest(S)
      BY <2>1 DEF S
    <3> QED
      BY <2>1, <3>4, <3>5
  <2>2. CASE p[2] # 0
    <3>1. p[1] % p[2] \in Nat
      BY <2>0, <2>2, DivisionFacts
    <3>2. CommonDivisors(p[1], p[2]) = CommonDivisors(p[2], p[1] % p[2])
      BY <2>0, <2>2, SameDivisors
    <3>3. g[<<p[2], p[1] % p[2]>>] = Greatest(CommonDivisors(p[2], p[1] % p[2]))
      BY <2>0, <3>1
    <3> QED
      BY <2>2, <3>2, <3>3
  <2> QED
    BY <2>1, <2>2
<1>2. g = [p \in Nat \X Nat |-> IF p[2] = 0 THEN p[1] ELSE g[<<p[2], p[1] % p[2]>>]]
  BY <1>1
<1>3. Gcd = [p \in Nat \X Nat |-> IF p[2] = 0 THEN p[1] ELSE Gcd[<<p[2], p[1] % p[2]>>]]
  <2> HIDE DEF g
  <2> QED
    BY <1>2 DEF Gcd
<1>4. <<a, b>> \in Nat \X Nat /\ <<a, b>>[1] = a /\ <<a, b>>[2] = b
  OBVIOUS
<1> QED
  BY <1>3, <1>4, Zenon

(* What Gcd computes is a number that divides both.                        *)
LEMMA GcdDivides ==
  ASSUME NEW a \in Nat, NEW b \in Nat
  PROVE  /\ Gcd[<<a, b>>] \in Nat
         /\ Divides(Gcd[<<a, b>>], a) /\ Divides(Gcd[<<a, b>>], b)
<1> DEFINE Good(c, d) == Gcd[<<c, d>>] \in CommonDivisors(c, d)
           W == {n \in Nat : \A d \in 0..n : \A c \in Nat : Good(c, d)}
<1>1. ASSUME NEW c \in Nat PROVE Good(c, 0)
  <2>1. Gcd[<<c, 0>>] = c
    BY GcdStep
  <2>2. c = c * 1 /\ 0 = c * 0 /\ 1 \in Nat /\ 0 \in Nat
    OBVIOUS
  <2>3. Divides(c, c) /\ Divides(c, 0)
    BY <2>2, Zenon DEF Divides
  <2> QED
    BY <2>1, <2>3 DEF CommonDivisors
<1>2. 0 \in W
  BY <1>1
<1>3. ASSUME NEW n \in Nat, n \in W PROVE n + 1 \in W
  <2>1. ASSUME NEW c \in Nat PROVE Good(c, n + 1)
    <3>1. c % (n + 1) \in 0..n
      BY DivisionFacts
    <3>2. Good(n + 1, c % (n + 1))
      <4>1. \A d \in 0..n : \A e \in Nat : Good(e, d)
        BY <1>3
      <4>2. n + 1 \in Nat
        OBVIOUS
      <4> HIDE DEF Good
      <4> QED
        BY <3>1, <4>1, <4>2
    <3>3. CommonDivisors(c, n + 1) = CommonDivisors(n + 1, c % (n + 1))
      BY SameDivisors
    <3>4. Gcd[<<c, n + 1>>] = Gcd[<<n + 1, c % (n + 1)>>]
      BY GcdStep
    <3> QED
      BY <3>2, <3>3, <3>4
  <2>2. ASSUME NEW d \in 0..(n + 1), NEW c \in Nat PROVE Good(c, d)
    <3>1. d \in 0..n \/ d = n + 1
      OBVIOUS
    <3> QED
      BY <1>3, <2>1, <3>1
  <2> HIDE DEF Good
  <2> QED
    BY <2>2
<1>4. b \in W
  <2> HIDE DEF W
  <2> QED
    BY <1>2, <1>3, NatSetInduction
<1>5. Good(a, b)
  <2> HIDE DEF Good
  <2> QED
    BY <1>4
<1> QED
  BY <1>5 DEF CommonDivisors

(* Numbers that are k times as large have a Gcd that is.                   *)
LEMMA GcdScales ==
  ASSUME NEW k \in Nat \ {0}, NEW a \in Nat, NEW b \in Nat
  PROVE  Gcd[<<k * a, k * b>>] = k * Gcd[<<a, b>>]
<1> DEFINE Good(c, d) == Gcd[<<k * c, k * d>>] = k * Gcd[<<c, d>>]
           W == {n \in Nat : \A d \in 0..n : \A c \in Nat : Good(c, d)}
<1>1. ASSUME NEW c \in Nat PROVE Good(c, 0)
  <2>1. k * 0 = 0 /\ k * c \in Nat
    OBVIOUS
  <2> QED
    BY <2>1, GcdStep
<1>2. 0 \in W
  BY <1>1
<1>3. ASSUME NEW n \in Nat, n \in W PROVE n + 1 \in W
  <2>1. ASSUME NEW c \in Nat PROVE Good(c, n + 1)
    <3> DEFINE r == c % (n + 1)
               q == c \div (n + 1)
    <3>1. r \in Nat /\ r \in 0..n /\ q \in Nat /\ c = (n + 1) * q + r
      <4>1. n + 1 \in Nat \ {0}
        OBVIOUS
      <4>2. r \in Nat /\ r < n + 1 /\ q \in Nat /\ c = (n + 1) * q + r
        BY <4>1, DivisionFacts
      <4> HIDE DEF r, q
      <4> QED
        BY <4>2
    <3> HIDE DEF r, q
    <3>2. k * c = (k * (n + 1)) * q + k * r
      <4>1. k * ((n + 1) * q + r) = k * ((n + 1) * q) + k * r
        BY <3>1
      <4>2. k * ((n + 1) * q) = (k * (n + 1)) * q
        BY <3>1
      <4> QED
        BY <3>1, <4>1, <4>2
    <3>3. k * r < k * (n + 1) /\ k * (n + 1) \in Nat \ {0} /\ k * c \in Nat /\ k * r \in Nat
      BY <3>1
    <3>4. (k * c) % (k * (n + 1)) = k * r
      BY <3>1, <3>2, <3>3, DivisionIsUnique
    <3>5. Gcd[<<k * c, k * (n + 1)>>] = Gcd[<<k * (n + 1), k * r>>]
      BY <3>3, <3>4, GcdStep
    <3>6. Gcd[<<k * (n + 1), k * r>>] = k * Gcd[<<n + 1, r>>]
      BY <1>3, <3>1
    <3>7. Gcd[<<c, n + 1>>] = Gcd[<<n + 1, r>>]
      <4> DEFINE m == n + 1
      <4>1. m \in Nat /\ m # 0 /\ r = c % m
        BY DEF r
      <4> HIDE DEF m
      <4>2. Gcd[<<c, m>>] = Gcd[<<m, r>>]
        BY <4>1, GcdStep
      <4> QED
        BY <4>2 DEF m
    <3> QED
      BY <3>5, <3>6, <3>7
  <2>2. ASSUME NEW d \in 0..(n + 1), NEW c \in Nat PROVE Good(c, d)
    <3>1. d \in 0..n \/ d = n + 1
      OBVIOUS
    <3> HIDE DEF Good
    <3> QED
      BY <1>3, <2>1, <3>1
  <2> HIDE DEF Good
  <2> QED
    BY <2>2
<1>4. b \in W
  <2> HIDE DEF W
  <2> QED
    BY <1>2, <1>3, NatSetInduction
<1> QED
  BY <1>4

-----------------------------------------------------------------------------
GcdOf(weights) == Fold(Gcd, 0, weights, DOMAIN weights)

(* The Gcd of all weights divides each of them.                            *)
LEMMA GcdDividesAll ==
  ASSUME NEW w, IsWeighing(w)
  PROVE  GcdOf(w) \in Nat /\ \A id \in DOMAIN w : Divides(GcdOf(w), w[id])
<1> DEFINE S == DOMAIN w
           F(T) == Fold(Gcd, 0, w, T)
           W == {T \in SUBSET S : F(T) \in Nat /\ \A id \in T : Divides(F(T), w[id])}
<1>0. IsFiniteSet(S) /\ \A id \in S : w[id] \in Nat
  BY DEF IsWeighing
<1>1. ASSUME NEW T \in SUBSET S, \A U \in SUBSET T : U # T => U \in W
      PROVE  T \in W
  <2>1. F(T) = IF T = {} THEN 0 ELSE Gcd[<<w[OneOf(T)], F(T \ {OneOf(T)})>>]
    BY <1>0, FS_Subset, FoldStep
  <2>2. CASE T = {}
    BY <2>1, <2>2
  <2>3. CASE T # {}
    <3> DEFINE x == OneOf(T)
               U == T \ {x}
    <3>1. x \in T /\ U \in SUBSET T /\ U # T
      BY <2>3, OneOfIsIn
    <3>2. F(U) \in Nat /\ \A id \in U : Divides(F(U), w[id])
      BY <1>1, <3>1
    <3>3. w[x] \in Nat
      BY <1>0, <3>1
    <3>4. F(T) = Gcd[<<w[x], F(U)>>]
      BY <2>1, <2>3
    <3> HIDE DEF F, x, U
    <3>5. F(T) \in Nat /\ Divides(F(T), w[x]) /\ Divides(F(T), F(U))
      BY <3>2, <3>3, <3>4, GcdDivides
    <3>6. ASSUME NEW id \in U PROVE Divides(F(T), w[id])
      <4>1. PICK p \in Nat : F(U) = F(T) * p
        BY <3>5 DEF Divides
      <4>2. PICK q \in Nat : w[id] = F(U) * q
        BY <3>2 DEF Divides
      <4>3. w[id] = F(T) * (p * q) /\ p * q \in Nat
        <5>1. (F(T) * p) * q = F(T) * (p * q)
          BY <3>5
        <5> QED
          BY <4>1, <4>2, <5>1
      <4> QED
        BY <4>3 DEF Divides
    <3>7. T = U \cup {x}
      BY <3>1 DEF U
    <3> QED
      BY <3>5, <3>6, <3>7
  <2> QED
    BY <2>2, <2>3
<1>2. S \in W
  <2> HIDE DEF W, S
  <2> QED
    BY <1>0, <1>1, SubsetInduction
<1> QED
  BY <1>2 DEF GcdOf

Proportional(v, w) ==
  /\ DOMAIN v = DOMAIN w
  /\ \E k \in Nat \ {0} : \A id \in DOMAIN w : v[id] = k * w[id]

(* The Gcd of weights k times as large is k times as large.                *)
LEMMA GcdOfScaled ==
  ASSUME NEW w, IsWeighing(w), NEW k \in Nat \ {0}, NEW v,
         DOMAIN v = DOMAIN w, \A id \in DOMAIN w : v[id] = k * w[id]
  PROVE  GcdOf(v) = k * GcdOf(w)
<1> DEFINE S == DOMAIN w
           F(T) == Fold(Gcd, 0, w, T)
           G(T) == Fold(Gcd, 0, v, T)
           W == {T \in SUBSET S : F(T) \in Nat /\ G(T) = k * F(T)}
<1>0. IsFiniteSet(S) /\ \A id \in S : w[id] \in Nat
  BY DEF IsWeighing
<1>1. ASSUME NEW T \in SUBSET S, \A U \in SUBSET T : U # T => U \in W
      PROVE  T \in W
  <2>1. F(T) = IF T = {} THEN 0 ELSE Gcd[<<w[OneOf(T)], F(T \ {OneOf(T)})>>]
    BY <1>0, FS_Subset, FoldStep
  <2>2. G(T) = IF T = {} THEN 0 ELSE Gcd[<<v[OneOf(T)], G(T \ {OneOf(T)})>>]
    BY <1>0, FS_Subset, FoldStep
  <2>3. CASE T = {}
    BY <2>1, <2>2, <2>3
  <2>4. CASE T # {}
    <3> DEFINE x == OneOf(T)
               U == T \ {x}
    <3>1. x \in T /\ U \in SUBSET T /\ U # T
      BY <2>4, OneOfIsIn
    <3>2. F(U) \in Nat /\ G(U) = k * F(U)
      BY <1>1, <3>1
    <3>3. w[x] \in Nat /\ v[x] = k * w[x]
      BY <1>0, <3>1
    <3>4. F(T) = Gcd[<<w[x], F(U)>>] /\ G(T) = Gcd[<<v[x], G(U)>>]
      BY <2>1, <2>2, <2>4
    <3> HIDE DEF F, G, x, U
    <3>5. F(T) \in Nat
      BY <3>2, <3>3, <3>4, GcdDivides
    <3>6. Gcd[<<k * w[x], k * F(U)>>] = k * Gcd[<<w[x], F(U)>>]
      BY <3>2, <3>3, GcdScales
    <3> QED
      BY <3>2, <3>3, <3>4, <3>5, <3>6
  <2> QED
    BY <2>3, <2>4
<1>2. S \in W
  <2> HIDE DEF W, S
  <2> QED
    BY <1>0, <1>1, SubsetInduction
<1> QED
  BY <1>2 DEF GcdOf

(* LowestTerms divides every weight by their Gcd.                          *)
LEMMA LowestTermsIs ==
  ASSUME NEW w
  PROVE  LowestTerms(w) = [id \in DOMAIN w |-> w[id] \div GcdOf(w)]
<1>1. FoldFunction(LAMBDA a, b : Gcd[<<a, b>>], 0, w) = GcdOf(w)
  BY Zenon DEF FoldFunction, FoldFunctionOnSet, MapThenFoldSet, GcdOf, Fold, FoldedTo, OneOf
<1> QED
  BY <1>1, Zenon DEF LowestTerms

(* In lowest terms, the weights are what they were, divided by a common    *)
(* divisor.                                                                *)
LEMMA InLowestTerms ==
  ASSUME NEW w, IsWeighing(w), \E id \in DOMAIN w : w[id] > 0
  PROVE  IsWeighing(LowestTerms(w)) /\ Proportional(w, LowestTerms(w))
<1> DEFINE d == GcdOf(w)
           t == LowestTerms(w)
<1>1. t = [id \in DOMAIN w |-> w[id] \div d]
  BY LowestTermsIs
<1>2. d \in Nat /\ \A id \in DOMAIN w : Divides(d, w[id])
  BY GcdDividesAll
<1> HIDE DEF d, t
<1>3. d > 0
  <2>1. PICK id \in DOMAIN w : w[id] > 0
    OBVIOUS
  <2>2. PICK q \in Nat : w[id] = d * q
    BY <1>2 DEF Divides
  <2> QED
    BY <1>2, <2>1, <2>2
<1>4. ASSUME NEW id \in DOMAIN w PROVE t[id] \in Nat /\ w[id] = d * t[id]
  <2>1. PICK q \in Nat : w[id] = d * q
    BY <1>2 DEF Divides
  <2>2. w[id] = d * q + 0 /\ w[id] \in Nat
    BY <1>2, <2>1
  <2>3. w[id] \div d = q
    BY <1>2, <1>3, <2>2, DivisionIsUnique
  <2> QED
    BY <1>1, <2>1, <2>3
<1>5. IsWeighing(t)
  BY <1>1, <1>4 DEF IsWeighing
<1> QED
  BY <1>1, <1>2, <1>3, <1>4, <1>5 DEF Proportional, t

(* Lowest terms do not depend on the scale.                                *)
LEMMA SameLowestTerms ==
  ASSUME NEW w, IsWeighing(w), \E id \in DOMAIN w : w[id] > 0, NEW v, Proportional(v, w)
  PROVE  LowestTerms(v) = LowestTerms(w)
<1>1. PICK k \in Nat \ {0} : \A id \in DOMAIN w : v[id] = k * w[id]
  BY DEF Proportional
<1>2. DOMAIN v = DOMAIN w /\ GcdOf(v) = k * GcdOf(w)
  BY <1>1, GcdOfScaled DEF Proportional
<1> DEFINE d == GcdOf(w)
           e == GcdOf(v)
<1>3. d \in Nat /\ \A id \in DOMAIN w : Divides(d, w[id])
  BY GcdDividesAll
<1>4. LowestTerms(v) = [id \in DOMAIN v |-> v[id] \div e] /\ LowestTerms(w) = [id \in DOMAIN w |-> w[id] \div d]
  BY LowestTermsIs
<1>5. e = k * d
  BY <1>2
<1> HIDE DEF d, e
<1>6. d > 0
  <2>1. PICK id \in DOMAIN w : w[id] > 0
    OBVIOUS
  <2>2. PICK q \in Nat : w[id] = d * q
    BY <1>3 DEF Divides
  <2> QED
    BY <1>3, <2>1, <2>2
<1>7. ASSUME NEW id \in DOMAIN w PROVE v[id] \div e = w[id] \div d
  <2>1. PICK q \in Nat : w[id] = d * q
    BY <1>3 DEF Divides
  <2>2. w[id] = d * q + 0 /\ w[id] \in Nat
    BY <1>3, <2>1
  <2>3. w[id] \div d = q
    BY <1>3, <1>6, <2>2, DivisionIsUnique
  <2>4. k * (d * q) = (k * d) * q
    BY <1>3
  <2>5. v[id] = e * q + 0 /\ e \in Nat \ {0} /\ v[id] \in Nat
    BY <1>1, <1>3, <1>5, <1>6, <2>1, <2>4
  <2>6. v[id] \div e = q
    BY <2>5, DivisionIsUnique
  <2> QED
    BY <2>3, <2>6
<1> QED
  BY <1>2, <1>4, <1>7

-----------------------------------------------------------------------------
(* The factors are numbers, one for each member of a finite set.           *)
LEMMA ProductFacts ==
  ASSUME NEW f, IsWeighing(f)
  PROVE  /\ ProductOf(f) = Fold(Multiplication, 1, f, DOMAIN f)
         /\ ProductOf(f) \in Nat
<1> DEFINE S == DOMAIN f
<1>1. IsFiniteSet(S) /\ \A x \in S : f[x] \in Nat
  BY DEF IsWeighing
<1>2. ProductOf(f) = ProductOver(f, S)
  BY DEF ProductOf, FoldFunction, ProductOver
<1> HIDE DEF S
<1>3. ProductOver(f, S) = Fold(Multiplication, 1, f, S)
  BY <1>1, ProductIsFold
<1>4. Fold(Multiplication, 1, f, S) \in Nat
  BY <1>1, FoldInV, MultiplicationMonoid
<1> QED
  BY <1>2, <1>3, <1>4 DEF S

(* Positive factors have a positive product.                               *)
LEMMA ProductPositive ==
  ASSUME NEW f, IsWeighing(f), \A x \in DOMAIN f : f[x] > 0
  PROVE  ProductOf(f) > 0
<1> DEFINE S == DOMAIN f
           F(T) == Fold(Multiplication, 1, f, T)
           W == {T \in SUBSET S : F(T) \in Nat /\ F(T) > 0}
<1>1. IsFiniteSet(S) /\ \A x \in S : f[x] \in Nat /\ f[x] > 0
  BY DEF IsWeighing
<1>2. {} \in W
  BY FoldEmpty
<1>3. ASSUME NEW T \in SUBSET S, NEW x \in S \ T, T \in W PROVE T \cup {x} \in W
  <2>1. F(T \cup {x}) = Multiplication[<<f[x], F(T)>>]
    BY <1>1, FoldAdd, MultiplicationMonoid
  <2>2. F(T) \in Nat /\ F(T) > 0 /\ f[x] \in Nat /\ f[x] > 0
    BY <1>1, <1>3
  <2> HIDE DEF F
  <2>3. F(T \cup {x}) = f[x] * F(T)
    BY <2>1, <2>2 DEF Multiplication
  <2>4. f[x] * F(T) \in Nat /\ f[x] * F(T) > 0
    BY <2>2
  <2> QED
    BY <2>3, <2>4
<1>4. S \in W
  <2> HIDE DEF W, S
  <2> QED
    BY <1>1, <1>2, <1>3, SetInduction
<1> QED
  BY <1>4, ProductFacts

(* One factor, if all others are 1.                                        *)
LEMMA OneFactor ==
  ASSUME NEW f, IsWeighing(f), NEW c \in DOMAIN f, \A x \in DOMAIN f : x # c => f[x] = 1
  PROVE  ProductOf(f) = f[c]
<1> DEFINE S == DOMAIN f
           F(T) == Fold(Multiplication, 1, f, T)
           W == {T \in SUBSET S : c \notin T => F(T) = 1}
<1>1. IsFiniteSet(S) /\ \A x \in S : f[x] \in Nat
  BY DEF IsWeighing
<1>2. {} \in W
  BY FoldEmpty
<1>3. ASSUME NEW T \in SUBSET S, NEW x \in S \ T, T \in W PROVE T \cup {x} \in W
  <2> SUFFICES ASSUME c \notin T \cup {x} PROVE F(T \cup {x}) = 1
    OBVIOUS
  <2>1. F(T \cup {x}) = Multiplication[<<f[x], F(T)>>]
    BY <1>1, FoldAdd, MultiplicationMonoid
  <2>2. F(T) = 1 /\ f[x] = 1
    BY <1>3
  <2> HIDE DEF F
  <2> QED
    BY <2>1, <2>2 DEF Multiplication
<1>4. S \in W /\ SUBSET S \subseteq W
  <2> HIDE DEF W, S
  <2> QED
    BY <1>1, <1>2, <1>3, SetInduction
<1>5. F(S \ {c}) = 1
  BY <1>4
<1>6. F(S) = Multiplication[<<f[c], F(S \ {c})>>]
  BY <1>1, FoldAny, MultiplicationMonoid
<1>7. f[c] \in Nat
  BY <1>1
<1>8. F(S) = f[c]
  <2> HIDE DEF F, S
  <2>1. F(S) = Multiplication[<<f[c], 1>>]
    BY <1>5, <1>6
  <2> QED
    BY <1>7, <2>1 DEF Multiplication
<1> QED
  BY <1>8, ProductFacts

(* Nothing but ones.                                                       *)
LEMMA ProductOfOnes ==
  ASSUME NEW f, IsWeighing(f), \A x \in DOMAIN f : f[x] = 1
  PROVE  ProductOf(f) = 1
<1>1. CASE DOMAIN f = {}
  <2>1. Fold(Multiplication, 1, f, {}) = 1
    BY FoldEmpty
  <2> QED
    BY <1>1, <2>1, ProductFacts
<1>2. CASE DOMAIN f # {}
  <2>1. PICK c \in DOMAIN f : f[c] = 1
    BY <1>2
  <2> QED
    BY <2>1, OneFactor
<1> QED
  BY <1>1, <1>2

(* Powers of a number.                                                     *)
LEMMA PowerFacts ==
  ASSUME NEW base \in Nat, NEW n \in Nat
  PROVE  /\ Power(base, n) \in Nat /\ (base > 0 => Power(base, n) > 0)
         /\ Power(base, 0) = 1 /\ Power(base, 1) = base
<1>1. ASSUME NEW m \in Nat PROVE IsWeighing([i \in 1..m |-> base])
  <2>0. [i \in 1..m |-> base] \in [1..m -> Nat] /\ DOMAIN [i \in 1..m |-> base] = 1..m
    OBVIOUS
  <2>1. IsFiniteSet(1..m)
    <3>1. 1 \in Int /\ m \in Int
      OBVIOUS
    <3> QED
      BY <3>1, FS_Interval
  <2> QED
    BY <2>0, <2>1 DEF IsWeighing
<1>2. Power(base, n) \in Nat /\ (base > 0 => Power(base, n) > 0)
  <2> DEFINE f == [i \in 1..n |-> base]
  <2>1. IsWeighing(f) /\ \A x \in DOMAIN f : f[x] = base
    BY <1>1
  <2>2. Power(base, n) = ProductOf(f)
    BY DEF Power
  <2> HIDE DEF f
  <2> QED
    BY <2>1, <2>2, ProductFacts, ProductPositive
<1>3. Power(base, 0) = 1
  <2> DEFINE f == [i \in 1..0 |-> base]
  <2>1. IsWeighing(f) /\ \A x \in DOMAIN f : f[x] = 1
    <3>1. IsWeighing(f)
      BY <1>1
    <3> QED
      BY <3>1
  <2>2. Power(base, 0) = ProductOf(f)
    BY DEF Power
  <2> HIDE DEF f
  <2> QED
    BY <2>1, <2>2, ProductOfOnes
<1>4. Power(base, 1) = base
  <2> DEFINE f == [i \in 1..1 |-> base]
  <2>1. IsWeighing(f) /\ 1 \in DOMAIN f /\ f[1] = base /\ \A x \in DOMAIN f : x = 1
    <3>1. IsWeighing(f)
      BY <1>1
    <3> QED
      BY <3>1
  <2>2. Power(base, 1) = ProductOf(f)
    BY DEF Power
  <2> HIDE DEF f
  <2> QED
    BY <2>1, <2>2, OneFactor
<1> QED
  BY <1>2, <1>3, <1>4

(* A product over a sequence that is longer by one factor.                 *)
LEMMA OneMoreFactor ==
  ASSUME NEW n \in Nat, NEW f, IsWeighing(f), DOMAIN f = 1..(n + 1),
         NEW g, DOMAIN g = 1..n, \A i \in 1..n : g[i] = f[i]
  PROVE  ProductOf(g) \in Nat /\ ProductOf(f) = f[n + 1] * ProductOf(g)
<1>1. \A i \in 1..(n + 1) : f[i] \in Nat
  BY DEF IsWeighing
<1> QED
  BY <1>1, ProductAppend DEF ProductOf

-----------------------------------------------------------------------------
Weights(r) ==
  [id \in Ids(r.candidates) |->
     LET candidate == CandidateOf(r.candidates, id)
     IN  IF Violated(candidate) THEN 0 ELSE Score(r.weights, candidate)]

(* The posterior is the weights in lowest terms.                           *)
LEMMA PosteriorIs == ASSUME NEW r PROVE Posterior(r) = LowestTerms(Weights(r))
BY Zenon DEF Posterior, Weights

(* Every channel has a weight.                                             *)
Weighting(w) == \A ch \in Channel : w[ch] \in Nat

(* What is not available counts with exponent zero.                        *)
LEMMA ExponentFacts ==
  ASSUME NEW w, Weighting(w), NEW c, TypedCandidate(c), NEW ch \in Channel
  PROVE  /\ EffectiveWeight(w, c, ch) \in Nat
         /\ c.channels[ch].available = 0 => EffectiveWeight(w, c, ch) = 0
         /\ c.channels[ch].available = 1 => EffectiveWeight(w, c, ch) = w[ch] * c.channels[ch].reliability
<1> DEFINE n == w[ch]
           m == c.channels[ch].reliability
           a == c.channels[ch].available
<1>1. n \in Nat /\ m \in Nat /\ a \in Nat
  BY DEF Weighting, TypedCandidate
<1>2. EffectiveWeight(w, c, ch) = n * m * a
  BY DEF EffectiveWeight
<1> HIDE DEF n, m, a
<1>3. n * m \in Nat
  BY <1>1
<1>4. n * m * a \in Nat /\ (a = 0 => n * m * a = 0) /\ (a = 1 => n * m * a = n * m)
  BY <1>1, <1>3
<1> QED
  BY <1>2, <1>4 DEF n, m, a

(* The score of a candidate whose evidence is well-typed.                  *)
LEMMA ScoreFacts ==
  ASSUME NEW w, Weighting(w), NEW c, TypedCandidate(c), ValidCandidate(c)
  PROVE  Score(w, c) \in Nat /\ Score(w, c) > 0
<1> DEFINE f == [ch \in Channel |-> Power(c.channels[ch].likelihood, EffectiveWeight(w, c, ch))]
<1>1. ASSUME NEW ch \in Channel
      PROVE  Power(c.channels[ch].likelihood, EffectiveWeight(w, c, ch)) \in Nat
             /\ Power(c.channels[ch].likelihood, EffectiveWeight(w, c, ch)) > 0
  <2>1. c.channels[ch].likelihood \in Nat /\ c.channels[ch].likelihood > 0
    BY DEF TypedCandidate, ValidCandidate
  <2> QED
    BY <2>1, ExponentFacts, PowerFacts
<1>2. IsWeighing(f) /\ \A ch \in DOMAIN f : f[ch] > 0
  BY <1>1, ChannelAssumption DEF IsWeighing
<1>3. Score(w, c) = c.prior * ProductOf(f)
  BY DEF Score
<1> HIDE DEF f
<1>4. ProductOf(f) \in Nat /\ ProductOf(f) > 0
  BY <1>2, ProductFacts, ProductPositive
<1>5. c.prior \in Nat /\ c.prior > 0
  BY DEF TypedCandidate, ValidCandidate
<1>6. c.prior * ProductOf(f) \in Nat /\ c.prior * ProductOf(f) > 0
  BY <1>4, <1>5
<1> QED
  BY <1>3, <1>6

(* Channels that are not available say nothing.                            *)
LEMMA SilentScore ==
  ASSUME NEW w, Weighting(w), NEW c, TypedCandidate(c), \A ch \in Channel : c.channels[ch].available = 0
  PROVE  Score(w, c) = c.prior
<1> DEFINE f == [ch \in Channel |-> Power(c.channels[ch].likelihood, EffectiveWeight(w, c, ch))]
<1>1. ASSUME NEW ch \in Channel PROVE Power(c.channels[ch].likelihood, EffectiveWeight(w, c, ch)) = 1
  <2>1. c.channels[ch].likelihood \in Nat
    BY DEF TypedCandidate
  <2>2. EffectiveWeight(w, c, ch) = 0
    BY ExponentFacts
  <2> QED
    BY <2>1, <2>2, PowerFacts
<1>2. IsWeighing(f) /\ \A ch \in DOMAIN f : f[ch] = 1
  BY <1>1, ChannelAssumption DEF IsWeighing
<1>3. Score(w, c) = c.prior * ProductOf(f)
  BY DEF Score
<1> HIDE DEF f
<1>4. ProductOf(f) = 1 /\ c.prior \in Nat
  BY <1>2, ProductOfOnes DEF TypedCandidate
<1> QED
  BY <1>3, <1>4

(* One channel speaks.                                                     *)
LEMMA OneChannelScore ==
  ASSUME NEW w, Weighting(w), NEW c, TypedCandidate(c), NEW ch \in Channel, c.channels[ch].available = 1,
         \A other \in Channel : other # ch => c.channels[other].available = 0
  PROVE  Score(w, c) = c.prior * Power(c.channels[ch].likelihood, w[ch] * c.channels[ch].reliability)
<1> DEFINE g(x) == Power(c.channels[x].likelihood, EffectiveWeight(w, c, x))
           f == [x \in Channel |-> g(x)]
<1>1. g(ch) = Power(c.channels[ch].likelihood, w[ch] * c.channels[ch].reliability)
  BY ExponentFacts
<1>2. ASSUME NEW x \in Channel PROVE g(x) \in Nat /\ (x # ch => g(x) = 1)
  <2>1. c.channels[x].likelihood \in Nat /\ EffectiveWeight(w, c, x) \in Nat
        /\ (x # ch => EffectiveWeight(w, c, x) = 0)
    BY ExponentFacts DEF TypedCandidate
  <2> QED
    BY <2>1, PowerFacts
<1>3. Score(w, c) = c.prior * ProductOf(f)
  BY DEF Score
<1> HIDE DEF g
<1>4. /\ IsWeighing(f) /\ ch \in DOMAIN f /\ f[ch] = g(ch)
      /\ \A other \in DOMAIN f : other # ch => f[other] = 1
  BY <1>2, ChannelAssumption DEF IsWeighing
<1> HIDE DEF f
<1>5. ProductOf(f) = g(ch)
  BY <1>4, OneFactor
<1> QED
  BY <1>1, <1>3, <1>5

(* An id stands for its candidate.                                         *)
LEMMA CandidateAt ==
  ASSUME NEW cs, UniqueIds(cs), NEW i \in DOMAIN cs
  PROVE  CandidateOf(cs, cs[i].id) = cs[i] /\ cs[i].id \in Ids(cs)
BY DEF UniqueIds, CandidateOf, Ids

(* Finitely many candidates have finitely many ids.                        *)
LEMMA IdsFinite ==
  ASSUME NEW cs, IsSequence(cs)
  PROVE  IsFiniteSet(Ids(cs)) /\ IsFiniteSet(DOMAIN cs) /\ DOMAIN cs \subseteq Nat
<1>1. Len(cs) \in Nat /\ DOMAIN cs = 1..Len(cs)
  BY DEF IsSequence
<1>2. IsFiniteSet(1..Len(cs))
  <2>1. 1 \in Int /\ Len(cs) \in Int
    BY <1>1
  <2> QED
    BY <2>1, FS_Interval
<1> DEFINE f == [i \in DOMAIN cs |-> cs[i].id]
<1>3. Ids(cs) = {f[i] : i \in DOMAIN cs}
  BY DEF Ids
<1> HIDE DEF f
<1>4. IsFiniteSet({f[i] : i \in DOMAIN cs})
  BY <1>1, <1>2, ImageIsFinite
<1> QED
  BY <1>1, <1>2, <1>3, <1>4

Poised(r) == TypedRequest(r) /\ ValidRequest(r)

(* Exactly one candidate is the unknown one.                               *)
LEMMA OneUnknown ==
  ASSUME NEW r, Poised(r)
  PROVE  \E u \in DOMAIN r.candidates :
           /\ ~ IsObject(r.candidates[u]) /\ UnknownId(r.candidates) = r.candidates[u].id
           /\ \A i \in DOMAIN r.candidates : ~ IsObject(r.candidates[i]) => i = u
<1> DEFINE cs == r.candidates
           K == {i \in DOMAIN cs : ~ IsObject(cs[i])}
<1>1. Cardinality(K) = 1
  BY DEF Poised, ValidRequest
<1>2. IsFiniteSet(DOMAIN cs) /\ K \subseteq DOMAIN cs
  BY IdsFinite DEF Poised, TypedRequest
<1>3. IsFiniteSet(K)
  BY <1>2, FS_Subset
<1>4. \E x : K = {x}
  <2> HIDE DEF K
  <2> QED
    BY <1>1, <1>3, FS_Singleton
<1>5. PICK u : K = {u}
  BY <1>4
<1>6. u \in DOMAIN cs /\ ~ IsObject(cs[u]) /\ \A i \in DOMAIN cs : ~ IsObject(cs[i]) => i = u
  BY <1>5
<1>7. (CHOOSE i \in DOMAIN cs : ~ IsObject(cs[i])) = u
  <2> HIDE DEF K, cs
  <2> QED
    BY <1>6
<1> QED
  BY <1>6, <1>7 DEF UnknownId

(* The posterior is in lowest terms; it leaves nothing to a candidate that *)
(* violates a constraint, and something to every other.                    *)
LEMMA PosteriorFacts ==
  ASSUME NEW r, Poised(r)
  PROVE  LET P == Posterior(r)
         IN  /\ IsWeighing(P) /\ DOMAIN P = Ids(r.candidates)
             /\ Proportional(Weights(r), P)
             /\ \A i \in DOMAIN r.candidates :
                  /\ Violated(r.candidates[i]) => P[r.candidates[i].id] = 0
                  /\ ~ Violated(r.candidates[i]) => P[r.candidates[i].id] > 0
             /\ UnknownId(r.candidates) \in DOMAIN P /\ P[UnknownId(r.candidates)] > 0
<1> DEFINE cs == r.candidates
           w == r.weights
           W == Weights(r)
           P == Posterior(r)
<1>0. UniqueIds(cs) /\ IsSequence(cs) /\ Weighting(w)
  BY DEF Poised, ValidRequest, TypedRequest, Weighting
<1>1. ASSUME NEW i \in DOMAIN cs
      PROVE  /\ cs[i].id \in Ids(cs)
             /\ W[cs[i].id] = IF Violated(cs[i]) THEN 0 ELSE Score(w, cs[i])
             /\ Score(w, cs[i]) \in Nat /\ Score(w, cs[i]) > 0
  <2>1. CandidateOf(cs, cs[i].id) = cs[i] /\ cs[i].id \in Ids(cs)
    BY <1>0, CandidateAt
  <2>2. TypedCandidate(cs[i]) /\ ValidCandidate(cs[i])
    BY DEF Poised, ValidRequest, TypedRequest
  <2>3. Score(w, cs[i]) \in Nat /\ Score(w, cs[i]) > 0
    BY <1>0, <2>2, ScoreFacts
  <2>4. ASSUME NEW id \in Ids(cs)
        PROVE  W[id] = IF Violated(CandidateOf(cs, id)) THEN 0 ELSE Score(w, CandidateOf(cs, id))
    BY DEF Weights
  <2> HIDE DEF cs, w, W
  <2> QED
    BY <2>1, <2>3, <2>4
<1>2. DOMAIN W = Ids(cs) /\ \A id \in Ids(cs) : \E i \in DOMAIN cs : id = cs[i].id
  BY DEF Weights, Ids
<1>3. W = [id \in Ids(cs) |-> W[id]]
  BY DEF Weights
<1> HIDE DEF cs, w, W, P
<1>4. \A id \in Ids(cs) : W[id] \in Nat
  BY <1>1, <1>2
<1>5. IsWeighing(W)
  BY <1>0, <1>2, <1>3, <1>4, IdsFinite DEF IsWeighing
<1>6. PICK u \in DOMAIN cs : ~ IsObject(cs[u]) /\ UnknownId(cs) = cs[u].id
  BY OneUnknown DEF cs
<1>7. cs[u].id \in DOMAIN W /\ W[cs[u].id] > 0
  BY <1>1, <1>2, <1>6 DEF Violated
<1>8. P = LowestTerms(W)
  BY PosteriorIs DEF P, W
<1>9. IsWeighing(P) /\ Proportional(W, P)
  BY <1>5, <1>7, <1>8, InLowestTerms
<1>10. PICK k \in Nat \ {0} : \A id \in DOMAIN P : W[id] = k * P[id]
  BY <1>9 DEF Proportional
<1>11. DOMAIN P = Ids(cs) /\ \A id \in DOMAIN P : P[id] \in Nat
  BY <1>2, <1>9 DEF Proportional, IsWeighing
<1>12. ASSUME NEW id \in DOMAIN P PROVE P[id] = 0 <=> W[id] = 0
  BY <1>10, <1>11
<1>13. ASSUME NEW i \in DOMAIN cs
       PROVE  (Violated(cs[i]) => P[cs[i].id] = 0) /\ (~ Violated(cs[i]) => P[cs[i].id] > 0)
  <2>1. cs[i].id \in DOMAIN P
    BY <1>1, <1>11
  <2> QED
    BY <1>1, <1>11, <1>12, <2>1
<1>14. UnknownId(cs) \in DOMAIN P /\ P[UnknownId(cs)] > 0
  BY <1>6, <1>1, <1>11, <1>13 DEF Violated
<1> QED
  BY <1>9, <1>11, <1>13, <1>14 DEF cs, W, P

(* Whatever is proportional to the posterior is the posterior, in lowest   *)
(* terms.                                                                  *)
LEMMA BackToPosterior ==
  ASSUME NEW r, Poised(r), NEW v, Proportional(v, Posterior(r))
  PROVE  LowestTerms(v) = Posterior(r)
<1> DEFINE P == Posterior(r)
           W == Weights(r)
<1>1. /\ IsWeighing(P) /\ Proportional(W, P)
      /\ UnknownId(r.candidates) \in DOMAIN P /\ P[UnknownId(r.candidates)] > 0
  BY PosteriorFacts
<1>2. P = LowestTerms(W)
  BY PosteriorIs
<1>3. Proportional(v, P)
  OBVIOUS
<1> HIDE DEF P, W
<1>4. \E id \in DOMAIN P : P[id] > 0
  BY <1>1
<1>5. LowestTerms(v) = LowestTerms(P) /\ LowestTerms(W) = LowestTerms(P)
  BY <1>1, <1>3, <1>4, SameLowestTerms
<1> QED
  BY <1>2, <1>5 DEF P

-----------------------------------------------------------------------------
(* Another request of the same query: only priors and channels differ.     *)
SameQuery(r, s) ==
  /\ DOMAIN r.candidates = DOMAIN s.candidates
  /\ \A i \in DOMAIN s.candidates :
       LET c == r.candidates[i]
           d == s.candidates[i]
       IN  c.id = d.id /\ c.kind = d.kind /\ c.place = d.place /\ c.constraints = d.constraints
  /\ r.resolution = s.resolution /\ r.weights = s.weights

(* The same query is about the same candidates.                            *)
LEMMA SameQueryIds ==
  ASSUME NEW r, NEW s, SameQuery(r, s)
  PROVE  Ids(r.candidates) = Ids(s.candidates)
BY DEF SameQuery, Ids

AfterView(c, res, o) ==
  [c EXCEPT !.prior = res.posterior[c.id],
            !.channels = [Silenced(@) EXCEPT ![o.channel] = ObservedEvidence(o, c.id)]]

AfterSearch(c, weights) ==
  [c EXCEPT !.prior = weights[c.id], !.channels = Silenced(@)]

Replaced(r, next) == [r EXCEPT !.candidates = [i \in DOMAIN r.candidates |-> next[i]]]

(* A request whose candidates were replaced, one for one, is typed and     *)
(* asks the same.                                                          *)
LEMMA ReplacedFacts ==
  ASSUME NEW r, TypedRequest(r), NEW next,
         \A i \in DOMAIN r.candidates :
           LET c == r.candidates[i]
           IN  /\ next[i].id = c.id /\ next[i].kind = c.kind
               /\ next[i].place = c.place /\ next[i].constraints = c.constraints
               /\ TypedCandidate(next[i])
  PROVE  /\ SameQuery(Replaced(r, next), r) /\ TypedRequest(Replaced(r, next))
         /\ \A i \in DOMAIN r.candidates : Replaced(r, next).candidates[i] = next[i]
<1> DEFINE s == [i \in DOMAIN r.candidates |-> next[i]]
           n == Len(r.candidates)
           q == Replaced(r, next)
<1>1. n \in Nat /\ DOMAIN r.candidates = 1..n /\ "candidates" \in DOMAIN r
  BY DEF TypedRequest, IsSequence
<1>2. DOMAIN s = 1..n /\ s = [i \in 1..n |-> s[i]] /\ \A i \in 1..n : s[i] = next[i]
  BY <1>1
<1>3. DOMAIN q = DOMAIN r /\ q.candidates = s /\ q.topK = r.topK /\ q.resolution = r.resolution
      /\ q.margin = r.margin /\ q.unknownMass = r.unknownMass /\ q.weights = r.weights
  BY <1>1 DEF Replaced
<1> HIDE DEF s, n, q
<1>4. Len(s) = n
  BY <1>1, <1>2, FunctionIsList
<1>5. IsSequence(s)
  BY <1>1, <1>2, <1>4 DEF IsSequence
<1>6. SameQuery(q, r)
  BY <1>1, <1>2, <1>3 DEF SameQuery
<1>7. TypedRequest(q)
  BY <1>1, <1>2, <1>3, <1>5 DEF TypedRequest
<1> QED
  BY <1>1, <1>2, <1>3, <1>6, <1>7 DEF q

(* A candidate whose channels were silenced keeps the rest.                *)
LEMMA SilencedFacts ==
  ASSUME NEW c, TypedCandidate(c)
  PROVE  LET s == Silenced(c.channels)
         IN  /\ DOMAIN s = Channel
             /\ \A ch \in Channel :
                  /\ {"likelihood", "reliability", "available"} \subseteq DOMAIN s[ch]
                  /\ s[ch].likelihood \in Nat /\ s[ch].reliability \in Nat /\ s[ch].available = 0
BY DEF Silenced, TypedCandidate

(* What an observation makes of a candidate.                               *)
LEMMA AfterViewFacts ==
  ASSUME NEW w, Weighting(w), NEW c, TypedCandidate(c), NEW res, res.posterior[c.id] \in Nat,
         NEW o, o.channel \in Channel, o.likelihoods[c.id] \in Nat, o.reliability \in Nat
  PROVE  LET d == AfterView(c, res, o)
         IN  /\ d.id = c.id /\ d.kind = c.kind /\ d.place = c.place /\ d.constraints = c.constraints
             /\ TypedCandidate(d)
             /\ d.prior = res.posterior[c.id]
             /\ Score(w, d) = d.prior * Power(o.likelihoods[c.id], w[o.channel] * o.reliability)
<1> DEFINE d == AfterView(c, res, o)
           s == Silenced(c.channels)
           v == ObservedEvidence(o, c.id)
<1>1. {"prior", "channels"} \subseteq DOMAIN c
  BY DEF TypedCandidate
<1>2. /\ DOMAIN d = DOMAIN c
      /\ d.id = c.id /\ d.kind = c.kind /\ d.place = c.place /\ d.constraints = c.constraints
      /\ d.prior = res.posterior[c.id]
      /\ d.channels = [s EXCEPT ![o.channel] = v]
  BY <1>1 DEF AfterView
<1>3. /\ DOMAIN s = Channel
      /\ \A ch \in Channel :
           /\ {"likelihood", "reliability", "available"} \subseteq DOMAIN s[ch]
           /\ s[ch].likelihood \in Nat /\ s[ch].reliability \in Nat /\ s[ch].available = 0
  BY SilencedFacts
<1>4. /\ v.likelihood = o.likelihoods[c.id] /\ v.reliability = o.reliability /\ v.available = 1
      /\ DOMAIN v = {"likelihood", "reliability", "available"}
  BY DEF ObservedEvidence
<1> HIDE DEF d, s, v
<1>5. d.channels[o.channel] = v /\ \A ch \in Channel : ch # o.channel => d.channels[ch] = s[ch]
  BY <1>2, <1>3
<1>6. TypedCandidate(d)
  <2>1. ASSUME NEW ch \in Channel
        PROVE  /\ {"likelihood", "reliability", "available"} \subseteq DOMAIN d.channels[ch]
               /\ d.channels[ch].likelihood \in Nat
               /\ d.channels[ch].reliability \in Nat /\ d.channels[ch].available \in Nat
    <3>1. CASE ch = o.channel
      BY <1>4, <1>5, <3>1
    <3>2. CASE ch # o.channel
      BY <1>3, <1>5, <3>2
    <3> QED
      BY <3>1, <3>2
  <2> QED
    BY <1>1, <1>2, <2>1 DEF TypedCandidate
<1>7. Score(w, d) = d.prior * Power(d.channels[o.channel].likelihood, w[o.channel] * d.channels[o.channel].reliability)
  BY <1>3, <1>4, <1>5, <1>6, OneChannelScore
<1> QED
  BY <1>2, <1>4, <1>5, <1>6, <1>7 DEF d

(* What a search result makes of a candidate.                              *)
LEMMA AfterSearchFacts ==
  ASSUME NEW w, Weighting(w), NEW c, TypedCandidate(c), NEW weights, weights[c.id] \in Nat
  PROVE  LET d == AfterSearch(c, weights)
         IN  /\ d.id = c.id /\ d.kind = c.kind /\ d.place = c.place /\ d.constraints = c.constraints
             /\ TypedCandidate(d)
             /\ d.prior = weights[c.id]
             /\ Score(w, d) = d.prior
<1> DEFINE d == AfterSearch(c, weights)
           s == Silenced(c.channels)
<1>1. {"prior", "channels"} \subseteq DOMAIN c
  BY DEF TypedCandidate
<1>2. /\ DOMAIN d = DOMAIN c
      /\ d.id = c.id /\ d.kind = c.kind /\ d.place = c.place /\ d.constraints = c.constraints
      /\ d.prior = weights[c.id] /\ d.channels = s
  BY <1>1 DEF AfterSearch
<1>3. \A ch \in Channel :
        /\ {"likelihood", "reliability", "available"} \subseteq DOMAIN s[ch]
        /\ s[ch].likelihood \in Nat /\ s[ch].reliability \in Nat /\ s[ch].available = 0
  BY SilencedFacts
<1> HIDE DEF d, s
<1>6. TypedCandidate(d)
  BY <1>1, <1>2, <1>3 DEF TypedCandidate
<1>7. Score(w, d) = d.prior
  BY <1>2, <1>3, <1>6, SilentScore
<1> QED
  BY <1>2, <1>6, <1>7 DEF d

(* A request whose scores are the weights has a posterior proportional to  *)
(* them, if it is valid at all: what is excluded has weight zero, and zero *)
(* is no valid prior.                                                      *)
LEMMA NextPosterior ==
  ASSUME NEW q, Poised(q), NEW w, DOMAIN w = Ids(q.candidates),
         \A i \in DOMAIN q.candidates :
           /\ ~ Violated(q.candidates[i])
           /\ Score(q.weights, q.candidates[i]) = w[q.candidates[i].id]
  PROVE  Proportional(w, Posterior(q))
<1> DEFINE cs == q.candidates
           P == Posterior(q)
           W == Weights(q)
<1>1. Proportional(W, P) /\ UniqueIds(cs)
  BY PosteriorFacts DEF Poised, ValidRequest
<1>2. ASSUME NEW id \in Ids(cs) PROVE W[id] = w[id]
  <2>1. PICK i \in DOMAIN cs : id = cs[i].id
    BY DEF Ids
  <2>2. CandidateOf(cs, id) = cs[i]
    BY <1>1, <2>1, CandidateAt
  <2>3. W[id] = Score(q.weights, cs[i])
    BY <2>2 DEF Weights
  <2> QED
    BY <2>1, <2>3
<1>3. DOMAIN P = Ids(cs)
  BY <1>1 DEF Proportional, Weights
<1> HIDE DEF cs, P, W
<1> QED
  BY <1>1, <1>2, <1>3 DEF Proportional, cs, P

-----------------------------------------------------------------------------
OrderOf(cs, P, I) == {p \in I \X I : Ahead(cs, P, p[1], p[2])}

(* Sorting by probability gives a sequence of all indexes; nobody is ahead *)
(* of the first.                                                           *)
LEMMA RankingFacts ==
  ASSUME NEW cs, NEW P, NEW I, IsFiniteSet(I), I \subseteq Nat,
         \A i \in I : P[cs[i].id] \in Nat
  PROVE  LET s == ByProbability(cs, P, I)
         IN  /\ IsList(s) /\ Len(s) = Cardinality(I) /\ Cardinality(I) \in Nat
             /\ \A k \in DOMAIN s : s[k] \in I
             /\ \A i \in I : \E k \in DOMAIN s : s[k] = i
             /\ \A i \in I : 1 \in DOMAIN s /\ (i = s[1] \/ Ahead(cs, P, s[1], i))
<1> DEFINE R == OrderOf(cs, P, I)
           N == Cardinality(I)
           s == ByProbability(cs, P, I)
<1>1. StrictOrder(R, I)
  <2>1. \A i \in I : <<i, i>> \notin R
    BY DEF OrderOf, Ahead
  <2>2. ASSUME NEW i \in I, NEW j \in I, i # j PROVE <<i, j>> \in R \/ <<j, i>> \in R
    <3>1. i \in Nat /\ j \in Nat /\ P[cs[i].id] \in Nat /\ P[cs[j].id] \in Nat
      OBVIOUS
    <3>2. Ahead(cs, P, i, j) \/ Ahead(cs, P, j, i)
      BY <2>2, <3>1 DEF Ahead
    <3> QED
      BY <3>2 DEF OrderOf
  <2>3. ASSUME NEW i \in I, NEW j \in I, NEW k \in I, <<i, j>> \in R, <<j, k>> \in R
        PROVE  <<i, k>> \in R
    <3>1. /\ i \in Nat /\ j \in Nat /\ k \in Nat
          /\ P[cs[i].id] \in Nat /\ P[cs[j].id] \in Nat /\ P[cs[k].id] \in Nat
      OBVIOUS
    <3>2. Ahead(cs, P, i, j) /\ Ahead(cs, P, j, k)
      BY <2>3 DEF OrderOf
    <3>3. Ahead(cs, P, i, k)
      BY <3>1, <3>2 DEF Ahead
    <3> QED
      BY <3>3 DEF OrderOf
  <2> HIDE DEF R
  <2> QED
    BY <2>1, <2>2, <2>3 DEF StrictOrder
<1>2. \A i \in I : {j \in I : Ahead(cs, P, j, i)} = BeforeIt(R, I, i)
  BY DEF BeforeIt, OrderOf
<1>3. \A i, j \in I : <<i, j>> \in R <=> Ahead(cs, P, i, j)
  BY DEF OrderOf
<1>4. /\ DOMAIN s = 1..N
      /\ \A k \in 1..N : s[k] = CHOOSE i \in I : Cardinality(BeforeIt(R, I, i)) = k - 1
  <2>1. ASSUME NEW k \in 1..N
        PROVE  s[k] = CHOOSE i \in I : Cardinality({j \in I : Ahead(cs, P, j, i)}) = k - 1
    BY DEF ByProbability
  <2>2. ASSUME NEW k \in 1..N
        PROVE  (CHOOSE i \in I : Cardinality({j \in I : Ahead(cs, P, j, i)}) = k - 1) =
               (CHOOSE i \in I : Cardinality(BeforeIt(R, I, i)) = k - 1)
    <3> HIDE DEF R
    <3> QED
      BY <1>2
  <2>3. DOMAIN s = 1..N
    BY DEF ByProbability
  <2> HIDE DEF s, R
  <2> QED
    BY <2>1, <2>2, <2>3
<1>5. s = [k \in 1..N |-> s[k]]
  <2> DEFINE pick(k) == CHOOSE i \in I : Cardinality({j \in I : Ahead(cs, P, j, i)}) = k - 1
  <2>1. s = [k \in 1..N |-> pick(k)]
    BY DEF ByProbability
  <2> HIDE DEF pick, s
  <2> QED
    BY <2>1
<1> HIDE DEF R, N, s
<1>6. /\ N \in Nat
      /\ \A i \in I : Cardinality(BeforeIt(R, I, i)) \in 0..(N - 1)
      /\ \A i, j \in I : <<i, j>> \in R =>
           Cardinality(BeforeIt(R, I, i)) < Cardinality(BeforeIt(R, I, j))
      /\ \A k \in 1..N : \E i \in I : Cardinality(BeforeIt(R, I, i)) = k - 1
  BY <1>1, PlacesInOrder DEF N
<1>7. \A k \in 1..N : s[k] \in I /\ Cardinality(BeforeIt(R, I, s[k])) = k - 1
  BY <1>4, <1>6
<1>8. IsList(s) /\ Len(s) = N
  BY <1>4, <1>5, <1>6, FunctionIsList
<1>9. ASSUME NEW i \in I PROVE \E k \in DOMAIN s : s[k] = i
  <2> DEFINE k == Cardinality(BeforeIt(R, I, i)) + 1
  <2>1. k \in 1..N /\ Cardinality(BeforeIt(R, I, i)) = k - 1
    BY <1>6
  <2> HIDE DEF k
  <2>2. s[k] \in I /\ Cardinality(BeforeIt(R, I, s[k])) = Cardinality(BeforeIt(R, I, i))
    BY <1>7, <2>1
  <2>3. /\ <<i, s[k]>> \in R => Cardinality(BeforeIt(R, I, i)) < Cardinality(BeforeIt(R, I, s[k]))
        /\ <<s[k], i>> \in R => Cardinality(BeforeIt(R, I, s[k])) < Cardinality(BeforeIt(R, I, i))
    BY <1>6, <2>2
  <2>0. Cardinality(BeforeIt(R, I, i)) \in Int
    <3>1. Cardinality(BeforeIt(R, I, i)) \in 0..(N - 1)
      BY <1>6
    <3> QED
      BY <1>6, <3>1
  <2>4. <<s[k], i>> \notin R /\ <<i, s[k]>> \notin R
    BY <2>0, <2>2, <2>3
  <2>5. s[k] = i
    BY <1>1, <2>2, <2>4 DEF StrictOrder
  <2> QED
    BY <1>4, <2>1, <2>5
<1>10. ASSUME NEW i \in I PROVE 1 \in DOMAIN s /\ (i = s[1] \/ Ahead(cs, P, s[1], i))
  <2>1. 1 \in 1..N
    <3>1. Cardinality(BeforeIt(R, I, i)) \in 0..(N - 1)
      BY <1>6
    <3> QED
      BY <1>6, <3>1
  <2>2. s[1] \in I /\ Cardinality(BeforeIt(R, I, s[1])) = 0
    BY <1>7, <2>1
  <2>3. <<i, s[1]>> \notin R
    <3>1. Cardinality(BeforeIt(R, I, i)) \in 0..(N - 1)
      BY <1>6
    <3>2. <<i, s[1]>> \in R => Cardinality(BeforeIt(R, I, i)) < 0
      BY <1>6, <2>2
    <3> QED
      BY <1>6, <3>1, <3>2
  <2>4. i = s[1] \/ <<s[1], i>> \in R
    BY <1>1, <2>2, <2>3 DEF StrictOrder
  <2> QED
    BY <1>3, <1>4, <2>1, <2>2, <2>4
<1> QED
  BY <1>4, <1>6, <1>7, <1>8, <1>9, <1>10 DEF s, N

-----------------------------------------------------------------------------
(* What a fusion that passes the checks of the pipeline has in common with *)
(* what fuse computes.                                                     *)
AnswerTo(r, res) ==
  LET P      == Posterior(r)
      ranked == RankedIndexes(r.candidates, P)
  IN  /\ FusionValid(r, res)
      /\ res.posterior = P
      /\ res.policy = PolicyFor(r, Status(r, P, ranked))
      /\ DOMAIN res.ranked = DOMAIN Fused(r, P, ranked).ranked
      /\ \A k \in DOMAIN res.ranked :
           res.ranked[k].id = Fused(r, P, ranked).ranked[k].id

(* The ranking lists the candidates that are not ruled out, and its first  *)
(* is ahead of all others.                                                 *)
LEMMA RankedFacts ==
  ASSUME NEW r, Poised(r)
  PROVE  LET cs == r.candidates
             P  == Posterior(r)
             s  == RankedIndexes(cs, P)
         IN  /\ IsList(s) /\ Len(s) > 0
             /\ \A k \in DOMAIN s : s[k] \in DOMAIN cs /\ ~ Violated(cs[s[k]])
             /\ \A i \in DOMAIN cs : ~ Violated(cs[i]) =>
                  (\E k \in DOMAIN s : s[k] = i) /\ (i = s[1] \/ Ahead(cs, P, s[1], i))
<1> DEFINE cs == r.candidates
           P  == Posterior(r)
           I  == {i \in DOMAIN cs : ~ Violated(cs[i])}
           s  == ByProbability(cs, P, I)
<1>1. IsFiniteSet(DOMAIN cs) /\ DOMAIN cs \subseteq Nat
  BY IdsFinite DEF Poised, TypedRequest
<1>2. IsFiniteSet(I) /\ I \subseteq Nat
  <2>1. I \subseteq DOMAIN cs
    OBVIOUS
  <2> QED
    BY <1>1, <2>1, FS_Subset
<1>3. IsWeighing(P) /\ DOMAIN P = Ids(cs)
  BY PosteriorFacts
<1>4. \A i \in I : P[cs[i].id] \in Nat
  <2>1. \A i \in I : cs[i].id \in Ids(cs)
    BY DEF Ids
  <2> HIDE DEF I, P, cs
  <2> QED
    BY <1>3, <2>1 DEF IsWeighing
<1>5. PICK u \in DOMAIN cs : ~ IsObject(cs[u])
  BY OneUnknown
<1>6. u \in I
  BY <1>5 DEF Violated
<1>7. \A i \in I : i \in DOMAIN cs /\ ~ Violated(cs[i])
  OBVIOUS
<1>8. \A i \in DOMAIN cs : ~ Violated(cs[i]) => i \in I
  OBVIOUS
<1>9. s = RankedIndexes(cs, P)
  BY DEF RankedIndexes
<1> HIDE DEF I, P, cs, s
<1>10. /\ IsList(s) /\ Len(s) = Cardinality(I) /\ Cardinality(I) \in Nat
       /\ \A k \in DOMAIN s : s[k] \in I
       /\ \A i \in I : \E k \in DOMAIN s : s[k] = i
       /\ \A i \in I : 1 \in DOMAIN s /\ (i = s[1] \/ Ahead(cs, P, s[1], i))
  BY <1>2, <1>4, RankingFacts DEF s
<1>11. Len(s) > 0
  BY <1>6, <1>10, ListFacts
<1> QED
  BY <1>7, <1>8, <1>9, <1>10, <1>11 DEF cs, P

(* The fusion answers with the posterior of its request, in rank order.    *)
LEMMA FusedFacts ==
  ASSUME NEW r, Poised(r)
  PROVE  LET cs  == r.candidates
             P   == Posterior(r)
             s   == RankedIndexes(cs, P)
             own == Fused(r, P, s)
         IN  /\ own.posterior = P
             /\ own.policy = PolicyFor(r, Status(r, P, s))
             /\ own.unknown = P[UnknownId(cs)]
             /\ \E n \in Nat : /\ 1 <= n /\ n <= Len(s)
                               /\ DOMAIN own.ranked = 1..n
                               /\ \A k \in 1..n : own.ranked[k].id = cs[s[k]].id
<1> DEFINE cs  == r.candidates
           P   == Posterior(r)
           s   == RankedIndexes(cs, P)
           own == Fused(r, P, s)
           n   == IF r.topK < Len(s) THEN r.topK ELSE Len(s)
           returned == SubSeq(s, 1, n)
           item(i)  == [id |-> cs[i].id, kind |-> cs[i].kind,
                        place |-> cs[i].place, probability |-> P[cs[i].id]]
<1>1. IsList(s) /\ Len(s) > 0 /\ Len(s) \in Nat
  BY RankedFacts, ListFacts
<1>2. n \in Nat /\ 1 <= n /\ n <= Len(s)
  <2>1. r.topK \in Nat \ {0}
    BY DEF Poised, TypedRequest
  <2> HIDE DEF s
  <2> QED
    BY <1>1, <2>1
<1>3. own.ranked = [k \in DOMAIN returned |-> item(returned[k])]
  BY DEF Fused
<1>4. own.posterior = P /\ own.policy = PolicyFor(r, Status(r, P, s)) /\ own.unknown = P[UnknownId(cs)]
  BY DEF Fused
<1>5. DOMAIN returned = 1..n /\ \A k \in 1..n : returned[k] = s[k]
  <2>1. PICK S : s \in Seq(S)
    BY <1>1 DEF IsList
  <2> HIDE DEF s, n
  <2> QED
    BY <1>1, <1>2, <2>1
<1>6. \A i : item(i).id = cs[i].id
  OBVIOUS
<1> HIDE DEF s, n, returned, item, own, cs, P
<1>7. DOMAIN own.ranked = 1..n /\ \A k \in 1..n : own.ranked[k].id = cs[s[k]].id
  BY <1>3, <1>5, <1>6
<1> QED
  BY <1>2, <1>4, <1>7 DEF s, own, cs, P

(* The least of some numbers is one of them.                               *)
LEMMA LeastOne ==
  ASSUME NEW S, S \subseteq Nat, S # {}
  PROVE  Min(S) \in S
<1> DEFINE Below(n) == \E k \in S : k <= n
           W == {n \in Nat : Below(n) => \E m \in S : \A k \in S : m <= k}
<1>1. 0 \in W
  <2> SUFFICES ASSUME NEW x \in S, x <= 0 PROVE \A k \in S : x <= k
    OBVIOUS
  <2> QED
    OBVIOUS
<1>2. ASSUME NEW n \in W PROVE n + 1 \in W
  <2>1. CASE Below(n)
    BY <1>2, <2>1
  <2>2. CASE ~ Below(n)
    <3> SUFFICES ASSUME NEW x \in S, x <= n + 1 PROVE \A k \in S : x <= k
      BY <1>2
    <3> QED
      BY <1>2, <2>2
  <2> QED
    BY <2>1, <2>2
<1>3. Nat \subseteq W
  <2> HIDE DEF W
  <2> QED
    BY <1>1, <1>2, NatSetInduction
<1>4. PICK x \in S : TRUE
  OBVIOUS
<1>5. \E m \in S : \A k \in S : m <= k
  BY <1>3, <1>4
<1> QED
  BY <1>5 DEF Min

(* A result that the pipeline takes for the answer to a request.           *)
BoundAnswer(r, res) == BoundResult(r, res) /\ DOMAIN res.ranked \subseteq Nat

(* Whatever a fusion does, a result that is taken belongs to a request     *)
(* that is valid.                                                          *)
LEMMA FuseIsBound ==
  ASSUME NEW r, NEW forgery \in Forgery,
         NEW res \in FuseValidated(r, forgery), res # NoResult
  PROVE  ValidRequest(r) /\ BoundAnswer(r, res)
<1> DEFINE own == Fused(r, Posterior(r), RankedIndexes(r.candidates, Posterior(r)))
<1>1. ValidRequest(r) /\ res = Forged(own, forgery) /\ FusionValid(r, res)
  <2>1. ValidRequest(r)
    BY DEF FuseValidated
  <2> QED
    BY <2>1, Zenon DEF FuseValidated, Fusions
<1>2. {"ranked", "posterior", "unknown", "query", "scope", "status", "policy"} \subseteq DOMAIN own
      /\ DOMAIN own.ranked \subseteq Nat
  BY DEF Fused
<1>3. forgery \in {"none", "moved", "dropped", "denied", "of_another_query", "of_another_scope",
                   "leveled", "insisted"}
  BY ForgeryAssumption
<1> HIDE DEF own
<1>4. DOMAIN res.ranked = DOMAIN own.ranked
  <2>1. CASE forgery = "none"
    BY <1>1, <1>2, <2>1, SMTT(30) DEF Forged
  <2>2. CASE forgery = "moved"
    <3>1. res = [own EXCEPT !.ranked[1].place = "elsewhere"]
      BY <1>1, <2>2 DEF Forged
    <3>2. res.ranked = [own.ranked EXCEPT ![1].place = "elsewhere"]
      BY <1>2, <3>1
    <3> QED
      BY <3>2
  <2>3. CASE forgery = "dropped"
    <3>1. res = [own EXCEPT !.posterior = [id \in DOMAIN @ \ {own.ranked[1].id} |-> @[id]]]
      BY <1>1, <2>3 DEF Forged
    <3> QED
      BY <1>2, <3>1
  <2>4. CASE forgery = "denied"
    <3>1. res = [own EXCEPT !.unknown = 0]
      BY <1>1, <2>4 DEF Forged
    <3> QED
      BY <1>2, <3>1
  <2>5. CASE forgery = "of_another_query"
    <3>1. res = [own EXCEPT !.query = "another"]
      BY <1>1, <2>5 DEF Forged
    <3> QED
      BY <1>2, <3>1
  <2>6. CASE forgery = "of_another_scope"
    <3>1. res = [own EXCEPT !.scope = "another"]
      BY <1>1, <2>6 DEF Forged
    <3> QED
      BY <1>2, <3>1
  <2>7. CASE forgery = "leveled"
    <3>1. res = [own EXCEPT !.posterior = [id \in DOMAIN @ |-> 1], !.unknown = 1,
                            !.ranked = [k \in DOMAIN @ |-> [@[k] EXCEPT !.probability = 1]]]
      BY <1>1, <2>7 DEF Forged
    <3>2. res.ranked = [k \in DOMAIN own.ranked |-> [own.ranked[k] EXCEPT !.probability = 1]]
      BY <1>2, <3>1
    <3> QED
      BY <3>2
  <2>8. CASE forgery = "insisted"
    <3>1. res = [own EXCEPT !.status = "resolved", !.policy = "return_top_k"]
      BY <1>1, <2>8 DEF Forged
    <3> QED
      BY <1>2, <3>1
  <2> QED
    BY <1>3, <2>1, <2>2, <2>3, <2>4, <2>5, <2>6, <2>7, <2>8
<1> QED
  BY <1>1, <1>2, <1>4 DEF FusionValid, BoundAnswer

(* A fusion either answers the request or raises, if it does nothing that  *)
(* cannot be noticed.                                                      *)
LEMMA FuseIsSound ==
  ASSUME NEW r, TypedRequest(r), NEW forgery \in Forgery, forgery \notin Unnoticed,
         NEW res \in FuseValidated(r, forgery), res # NoResult
  PROVE  Poised(r) /\ AnswerTo(r, res)
<1> DEFINE cs  == r.candidates
           P   == Posterior(r)
           s   == RankedIndexes(cs, P)
           own == Fused(r, P, s)
<1>1. Poised(r)
  BY DEF FuseValidated, Poised
<1>2. res = Forged(own, forgery) /\ FusionValid(r, res)
  BY <1>1, Zenon DEF FuseValidated, Fusions, Poised
<1>3. /\ own.posterior = P
      /\ own.policy = PolicyFor(r, Status(r, P, s))
      /\ own.unknown = P[UnknownId(cs)]
  BY <1>1, FusedFacts
<1>4. PICK n \in Nat : /\ 1 <= n /\ n <= Len(s)
                       /\ DOMAIN own.ranked = 1..n
                       /\ \A k \in 1..n : own.ranked[k].id = cs[s[k]].id
  BY <1>1, FusedFacts
<1>5. /\ IsWeighing(P) /\ DOMAIN P = Ids(cs) /\ P[UnknownId(cs)] > 0
  BY <1>1, PosteriorFacts
<1>6. s[1] \in DOMAIN cs
  BY <1>1, <1>4, RankedFacts, ListFacts
<1>7. own.ranked[1].id \in Ids(cs)
  BY <1>4, <1>6 DEF Ids
<1>8. {"ranked", "posterior", "unknown", "query", "scope"} \subseteq DOMAIN own
  BY DEF Fused
<1>9. forgery \in {"none", "moved", "dropped", "denied", "of_another_query", "of_another_scope"}
  BY ForgeryAssumption
<1>10. DOMAIN res.posterior = Ids(cs) /\ res.unknown = res.posterior[UnknownId(cs)]
  BY <1>2 DEF FusionValid, BoundResult
<1> HIDE DEF own, s, P, cs
<1>11. CASE forgery = "none"
  <2>1. res = own
    BY <1>2, <1>11, SMTT(30) DEF Forged
  <2> QED
    BY <1>1, <1>2, <1>3, <2>1 DEF AnswerTo, own, s, P, cs
<1>12. CASE forgery = "moved"
  <2>1. res = [own EXCEPT !.ranked[1].place = "elsewhere"]
    BY <1>2, <1>12 DEF Forged
  <2>2. res.posterior = own.posterior /\ res.policy = own.policy
        /\ res.ranked = [own.ranked EXCEPT ![1].place = "elsewhere"]
    BY <1>8, <2>1
  <2>3. /\ DOMAIN res.ranked = DOMAIN own.ranked
        /\ \A k \in DOMAIN own.ranked : res.ranked[k].id = own.ranked[k].id
    BY <2>2
  <2> QED
    BY <1>1, <1>2, <1>3, <2>2, <2>3 DEF AnswerTo, own, s, P, cs
<1>13. CASE forgery = "dropped"
  <2>1. res = [own EXCEPT !.posterior = [id \in DOMAIN @ \ {own.ranked[1].id} |-> @[id]]]
    BY <1>2, <1>13 DEF Forged
  <2>2. DOMAIN res.posterior = DOMAIN own.posterior \ {own.ranked[1].id}
    BY <1>8, <2>1
  <2> QED
    BY <1>3, <1>5, <1>7, <1>10, <2>2
<1>14. CASE forgery = "denied"
  <2>1. res = [own EXCEPT !.unknown = 0]
    BY <1>2, <1>14 DEF Forged
  <2>2. res.unknown = 0 /\ res.posterior = own.posterior
    BY <1>8, <2>1
  <2>3. own.posterior[UnknownId(cs)] = 0
    BY <1>10, <2>2
  <2>4. P[UnknownId(cs)] > 0 /\ own.posterior = P
    BY <1>3, <1>5
  <2> QED
    BY <2>3, <2>4
<1>15. CASE forgery \in {"of_another_query", "of_another_scope"}
  <2>1. \/ res = [own EXCEPT !.query = "another"]
        \/ res = [own EXCEPT !.scope = "another"]
    BY <1>2, <1>15 DEF Forged
  <2>2. res.posterior = own.posterior /\ res.policy = own.policy /\ res.ranked = own.ranked
    <3>1. CASE res = [own EXCEPT !.query = "another"]
      BY <3>1
    <3>2. CASE res = [own EXCEPT !.scope = "another"]
      BY <3>2
    <3> QED
      BY <2>1, <3>1, <3>2
  <2> QED
    BY <1>1, <1>2, <1>3, <2>2 DEF AnswerTo, own, s, P, cs
<1> QED
  BY <1>1, <1>9, <1>11, <1>12, <1>13, <1>14, <1>15

-----------------------------------------------------------------------------
(* What a resolved status says.                                            *)
LEMMA ResolvedMeans ==
  ASSUME NEW r, NEW P, NEW s, Status(r, P, s) = "resolved"
  PROVE  LET cs      == r.candidates
             objects == RankedObjects(cs, P, s)
             first   == IF 1 \in DOMAIN objects THEN P[cs[objects[1]].id] ELSE 0
         IN  /\ ~ (P[UnknownId(cs)] >= first)
             /\ "unknown" \notin Range(cs[objects[1]].constraints)
             /\ ~ (Scale * first < r.resolution * Total(P))
BY Zenon DEF Status

(* A status is one of three.                                               *)
LEMMA StatusIs ==
  ASSUME NEW r, NEW P, NEW s
  PROVE  Status(r, P, s) \in {"unknown", "ambiguous", "resolved"}
<1> DEFINE cs == r.candidates
           objects == RankedObjects(cs, P, s)
           unknown == P[UnknownId(cs)]
           first == IF 1 \in DOMAIN objects THEN P[cs[objects[1]].id] ELSE 0
           second == IF 2 \in DOMAIN objects THEN P[cs[objects[2]].id] ELSE 0
           a == Scale * unknown >= r.unknownMass * Total(P) \/ unknown >= first
           b == \/ "unknown" \in Range(cs[objects[1]].constraints)
                \/ Scale * first < r.resolution * Total(P)
                \/ Scale * (first - second) < r.margin * Total(P)
<1>1. Status(r, P, s) = CASE a -> "unknown" [] OTHER -> IF b THEN "ambiguous" ELSE "resolved"
  BY Zenon DEF Status
<1> HIDE DEF a, b
<1> QED
  BY <1>1

(* A request that is answered with its best candidates is settled: the     *)
(* best of all candidates is an object.                                    *)
LEMMA SettledAnswer ==
  ASSUME NEW r, Poised(r), NEW res, AnswerTo(r, res), res.policy = "return_top_k"
  PROVE  LET cs == r.candidates
             P  == Posterior(r)
             t  == TargetOf(res)
         IN  /\ \E i \in DOMAIN cs :
                  /\ t.id = cs[i].id /\ t.place = cs[i].place
                  /\ ~ Violated(cs[i]) /\ IsObject(cs[i])
                  /\ Range(cs[i].constraints) \subseteq {"satisfied"}
             /\ t.id \in DOMAIN P
             /\ Scale * P[t.id] >= r.resolution * Total(P)
             /\ \A id \in DOMAIN P : P[id] <= P[t.id]
<1> DEFINE cs == r.candidates
           P  == Posterior(r)
           s  == RankedIndexes(cs, P)
           O  == {i \in Range(s) : IsObject(cs[i])}
           objects == RankedObjects(cs, P, s)
           own == Fused(r, P, s)
           unknown == P[UnknownId(cs)]
           first == IF 1 \in DOMAIN objects THEN P[cs[objects[1]].id] ELSE 0
<1>1. res.policy = PolicyFor(r, Status(r, P, s)) /\ FusionValid(r, res)
      /\ DOMAIN res.ranked = DOMAIN own.ranked
      /\ \A k \in DOMAIN res.ranked : res.ranked[k].id = own.ranked[k].id
  BY DEF AnswerTo
<1>2. Status(r, P, s) = "resolved"
  <2>1. Status(r, P, s) \in {"unknown", "ambiguous", "resolved"}
    BY StatusIs
  <2>2. r.onAmbiguous \in {"active_verify", "ask_user"} /\ r.onUnknown \in {"active_verify", "abstain"}
    BY DEF Poised, ValidRequest
  <2> HIDE DEF P, s
  <2> QED
    BY <1>1, <2>1, <2>2 DEF PolicyFor
<1>3. /\ ~ (unknown >= first)
      /\ "unknown" \notin Range(cs[objects[1]].constraints)
      /\ ~ (Scale * first < r.resolution * Total(P))
  BY <1>2, ResolvedMeans
<1>4. /\ IsList(s) /\ Len(s) > 0
      /\ \A k \in DOMAIN s : s[k] \in DOMAIN cs /\ ~ Violated(cs[s[k]])
      /\ \A i \in DOMAIN cs : ~ Violated(cs[i]) =>
           (\E k \in DOMAIN s : s[k] = i) /\ (i = s[1] \/ Ahead(cs, P, s[1], i))
  BY RankedFacts
<1>5. /\ IsWeighing(P) /\ DOMAIN P = Ids(cs) /\ unknown > 0
      /\ \A i \in DOMAIN cs : Violated(cs[i]) => P[cs[i].id] = 0
  BY PosteriorFacts
<1>6. PICK u \in DOMAIN cs :
        /\ ~ IsObject(cs[u]) /\ unknown = P[cs[u].id]
        /\ \A i \in DOMAIN cs : ~ IsObject(cs[i]) => i = u
  BY OneUnknown
<1>7. /\ IsFiniteSet(DOMAIN cs) /\ DOMAIN cs \subseteq Nat
      /\ UniqueIds(cs) /\ \A i \in DOMAIN cs : TypedCandidate(cs[i])
  BY IdsFinite DEF Poised, TypedRequest, ValidRequest
<1>8. PICK n \in Nat : /\ 1 <= n /\ n <= Len(s)
                       /\ DOMAIN own.ranked = 1..n
                       /\ \A k \in 1..n : own.ranked[k].id = cs[s[k]].id
  BY FusedFacts
<1>9. objects = ByProbability(cs, P, O)
  BY DEF RankedObjects
<1>10. \A i \in O : i \in DOMAIN cs /\ ~ Violated(cs[i]) /\ IsObject(cs[i])
  <2> HIDE DEF s, cs
  <2> QED
    BY <1>4 DEF Range
<1>11. \A i \in DOMAIN cs : ~ Violated(cs[i]) /\ IsObject(cs[i]) => i \in O
  <2> HIDE DEF s, cs
  <2> QED
    BY <1>4 DEF Range
<1>12. \A i \in DOMAIN cs : cs[i].id \in Ids(cs)
  BY DEF Ids
<1> HIDE DEF cs, P, s, O, objects, own, unknown
<1>13. \A id \in Ids(cs) : P[id] \in Nat
  BY <1>5 DEF IsWeighing
<1>14. IsFiniteSet(O) /\ O \subseteq Nat /\ \A i \in O : P[cs[i].id] \in Nat
  <2>1. O \subseteq DOMAIN cs
    BY <1>10
  <2> QED
    BY <1>7, <1>12, <1>13, <2>1, FS_Subset
<1>15. /\ IsList(objects) /\ Len(objects) = Cardinality(O)
       /\ \A k \in DOMAIN objects : objects[k] \in O
       /\ \A i \in O : 1 \in DOMAIN objects /\ (i = objects[1] \/ Ahead(cs, P, objects[1], i))
  BY <1>9, <1>14, RankingFacts
<1>16. unknown \in Nat
  BY <1>6, <1>12, <1>13
<1>17. 1 \in DOMAIN objects /\ objects[1] \in O /\ first = P[cs[objects[1]].id] /\ first \in Nat
  <2>1. 1 \in DOMAIN objects
    BY <1>3, <1>5, <1>16
  <2>2. objects[1] \in O
    BY <1>15, <2>1
  <2>3. first = P[cs[objects[1]].id]
    BY <2>1
  <2> HIDE DEF first
  <2> QED
    BY <1>14, <2>1, <2>2, <2>3
<1> HIDE DEF first
<1>18. 1 \in DOMAIN s /\ s[1] \in DOMAIN cs /\ ~ Violated(cs[s[1]])
  BY <1>4, ListFacts
<1>19. s[1] \in Nat /\ objects[1] \in Nat /\ P[cs[s[1]].id] \in Nat /\ P[cs[objects[1]].id] \in Nat
       /\ objects[1] \in DOMAIN cs
  BY <1>7, <1>10, <1>12, <1>13, <1>17, <1>18
<1>20. objects[1] = s[1] \/ Ahead(cs, P, s[1], objects[1])
  BY <1>4, <1>10, <1>17
<1>21. IsObject(cs[s[1]])
  <2> SUFFICES ASSUME ~ IsObject(cs[s[1]]) PROVE FALSE
    OBVIOUS
  <2>1. s[1] = u
    BY <1>6, <1>18
  <2>2. P[cs[s[1]].id] >= P[cs[objects[1]].id]
    BY <1>19, <1>20 DEF Ahead
  <2> QED
    BY <1>3, <1>6, <1>16, <1>17, <2>1, <2>2
<1>22. s[1] = objects[1]
  <2>1. s[1] \in O
    BY <1>11, <1>18, <1>21
  <2>2. s[1] = objects[1] \/ Ahead(cs, P, objects[1], s[1])
    BY <1>15, <2>1
  <2> QED
    BY <1>19, <1>20, <2>2 DEF Ahead
<1>23. DOMAIN res.ranked = 1..n /\ res.ranked[1].id = cs[s[1]].id
  BY <1>1, <1>8
<1>24. CandidateOf(cs, cs[s[1]].id) = cs[s[1]]
  BY <1>7, <1>18, CandidateAt
<1>25. res.ranked[1].kind = cs[s[1]].kind /\ res.ranked[1].place = cs[s[1]].place
  <2>1. 1 \in DOMAIN res.ranked
    BY <1>8, <1>23
  <2>2. /\ res.ranked[1].kind = CandidateOf(cs, res.ranked[1].id).kind
        /\ res.ranked[1].place = CandidateOf(cs, res.ranked[1].id).place
    BY <1>1, <2>1 DEF FusionValid, BoundResult, cs
  <2> QED
    BY <1>23, <1>24, <2>2
<1>26. TargetOf(res) = res.ranked[1]
  <2> DEFINE K == ObjectsOf(res)
  <2>1. 1 \in K
    BY <1>8, <1>21, <1>23, <1>25 DEF IsObject, ObjectsOf
  <2>2. \A k \in K : k \in Nat /\ 1 <= k
    BY <1>23 DEF ObjectsOf
  <2>3. TargetOf(res) = res.ranked[Min(K)]
    BY DEF TargetOf
  <2> HIDE DEF K
  <2>4. Min(K) = 1
    BY <2>1, <2>2 DEF Min
  <2> QED
    BY <2>3, <2>4
<1>27. Range(cs[s[1]].constraints) \subseteq {"satisfied"}
  <2>1. Range(cs[s[1]].constraints) \subseteq {"satisfied", "violated", "unknown"}
    BY <1>7, <1>18 DEF TypedCandidate
  <2>2. "violated" \notin Range(cs[s[1]].constraints)
    BY <1>18, <1>21 DEF Violated
  <2>3. "unknown" \notin Range(cs[s[1]].constraints)
    BY <1>3, <1>22
  <2> QED
    BY <2>1, <2>2, <2>3
<1>28. TargetOf(res).id = cs[s[1]].id /\ TargetOf(res).place = cs[s[1]].place
  BY <1>23, <1>25, <1>26
<1>29. TargetOf(res).id \in DOMAIN P
  BY <1>5, <1>12, <1>18, <1>28
<1>30. Scale * P[TargetOf(res).id] >= r.resolution * Total(P)
  <2>1. first = P[TargetOf(res).id]
    BY <1>17, <1>22, <1>28
  <2>2. Scale * first \in Nat /\ r.resolution * Total(P) \in Nat
    <3>1. r.resolution \in Nat
      BY DEF Poised, TypedRequest
    <3>2. Total(P) \in Nat
      <4>1. \A x \in DOMAIN P : P[x] \in Nat
        BY <1>5, <1>13
      <4> QED
        BY <1>5, <4>1, SumStep DEF Total, SumFunction, IsWeighing, SumLaws
    <3> QED
      BY <1>17, <3>1, <3>2, ScaleAssumption
  <2> QED
    BY <1>3, <2>1, <2>2
<1>31. ASSUME NEW id \in DOMAIN P PROVE P[id] <= P[TargetOf(res).id]
  <2>1. PICK j \in DOMAIN cs : id = cs[j].id
    BY <1>5 DEF Ids
  <2>2. P[id] \in Nat
    BY <1>5, <1>13
  <2>3. CASE Violated(cs[j])
    BY <1>5, <1>19, <1>28, <2>1, <2>3
  <2>4. CASE ~ Violated(cs[j])
    <3>1. j = s[1] \/ Ahead(cs, P, s[1], j)
      BY <1>4, <2>4
    <3> QED
      BY <1>19, <1>28, <2>1, <2>2, <3>1 DEF Ahead
  <2> QED
    BY <2>3, <2>4
<1> QED
  BY <1>18, <1>21, <1>27, <1>28, <1>29, <1>30, <1>31 DEF cs, P

-----------------------------------------------------------------------------
(* Weights weighed by weights sum to a number.                             *)
LEMMA WeighedBy ==
  ASSUME NEW f, IsWeighing(f), NEW g, IsWeighing(g), DOMAIN f \subseteq DOMAIN g
  PROVE  SumFunction([x \in DOMAIN f |-> f[x] * g[x]]) \in Nat
<1> DEFINE h == [x \in DOMAIN f |-> f[x] * g[x]]
           S == DOMAIN f
<1>1. IsFiniteSet(S) /\ \A x \in S : h[x] \in Nat
  BY DEF IsWeighing
<1>2. SumFunction(h) = SumFunctionOnSet(h, S)
  BY DEF SumFunction
<1> HIDE DEF h, S
<1>3. SumFunctionOnSet(h, S) \in Nat
  BY <1>1, SumStep DEF SumLaws
<1> QED
  BY <1>2, <1>3 DEF h

(* No weight, and no two of them, exceed the total.                        *)
LEMMA TotalFacts ==
  ASSUME NEW w, IsWeighing(w)
  PROVE  /\ Total(w) \in Nat
         /\ \A x \in DOMAIN w : w[x] \in Nat /\ w[x] <= Total(w)
         /\ \A x, y \in DOMAIN w : x # y => w[x] + w[y] <= Total(w)
<1> DEFINE S == DOMAIN w
<1>1. IsFiniteSet(S) /\ \A x \in S : w[x] \in Nat
  BY DEF IsWeighing
<1>2. Total(w) = SumFunctionOnSet(w, S)
  BY DEF Total, SumFunction
<1> HIDE DEF S
<1>3. SumLaws(w, S)
  BY <1>1, SumStep
<1>4. Total(w) \in Nat
  BY <1>2, <1>3 DEF SumLaws
<1>5. ASSUME NEW x \in S PROVE w[x] <= Total(w)
  BY <1>1, <1>2, SumBound
<1>6. ASSUME NEW x \in S, NEW y \in S, x # y PROVE w[x] + w[y] <= Total(w)
  <2> DEFINE T == S \ {x}
  <2>1. T \in SUBSET S /\ x \in S \ T /\ T \cup {x} = S /\ y \in T
    BY <1>6
  <2>2. IsFiniteSet(T) /\ \A z \in T : w[z] \in Nat
    BY <1>1, <2>1, FS_Subset
  <2> HIDE DEF T
  <2>3. SumFunctionOnSet(w, T \cup {x}) = w[x] + SumFunctionOnSet(w, T)
        /\ SumFunctionOnSet(w, T) \in Nat
    BY <1>3, <2>1 DEF SumLaws
  <2>4. w[y] <= SumFunctionOnSet(w, T)
    BY <2>1, <2>2, SumBound
  <2>5. w[x] \in Nat /\ w[y] \in Nat
    BY <1>1
  <2>6. SumFunctionOnSet(w, S) = w[x] + SumFunctionOnSet(w, T)
    BY <2>1, <2>3
  <2> QED
    BY <1>2, <2>3, <2>4, <2>5, <2>6
<1> QED
  BY <1>1, <1>4, <1>5, <1>6 DEF S

(* The presence of the target is updated; where nothing is certain, by one *)
(* likelihood for the target and the other for everything else.            *)
LEMMA PresenceFacts ==
  ASSUME NEW w, IsWeighing(w), NEW sought \in DOMAIN w, NEW present \in Nat, NEW absent \in Nat,
         NEW unknown \in DOMAIN w, unknown # sought, w[unknown] > 0
  PROVE  LET v == PresenceUpdate(w, sought, present, absent)
         IN  /\ IsWeighing(v) /\ DOMAIN v = DOMAIN w /\ \E id \in DOMAIN v : v[id] > 0
             /\ (w[sought] > 0 /\ present > 0 /\ absent > 0) =>
                  \A id \in DOMAIN w :
                    v[id] = w[id] * (IF id = sought THEN present ELSE absent)
<1> DEFINE v == PresenceUpdate(w, sought, present, absent)
           rest  == Total(w) - w[sought]
           here  == w[sought] * present
           there == rest * absent
           S == DOMAIN w
           clamped == [id \in S |-> IF id = sought THEN 1 ELSE Huge * w[id]]
           clampedOther == [w EXCEPT ![sought] = Huge * rest]
           scaled == [id \in S |-> w[id] * (IF id = sought THEN present ELSE absent)]
<1>1. IsFiniteSet(S) /\ \A id \in S : w[id] \in Nat /\ w = [x \in S |-> w[x]]
  BY DEF IsWeighing
<1>2. Total(w) \in Nat /\ w[sought] + w[unknown] <= Total(w) /\ w[sought] \in Nat /\ w[unknown] \in Nat
  BY TotalFacts
<1>3. rest \in Nat /\ rest > 0
  BY <1>2
<1>4. here \in Nat /\ there \in Nat /\ Huge * rest \in Nat
  <2> HIDE DEF rest
  <2> QED
    BY <1>2, <1>3, ScaleAssumption
<1>5. v = CASE here = 0 /\ there = 0 -> w
            [] here = 0 /\ there # 0 -> clamped
            [] here # 0 /\ there = 0 -> clampedOther
            [] here # 0 /\ there # 0 -> scaled
  BY DEF PresenceUpdate
<1>6. \A id \in S : clamped[id] = (IF id = sought THEN 1 ELSE Huge * w[id]) /\ clamped[id] \in Nat
  <2>1. \A id \in S : Huge * w[id] \in Nat
    BY <1>1, ScaleAssumption
  <2> QED
    BY <2>1
<1>7. \A id \in S : clampedOther[id] = (IF id = sought THEN Huge * rest ELSE w[id]) /\ clampedOther[id] \in Nat
  <2> HIDE DEF rest
  <2> QED
    BY <1>1, <1>4
<1>8. \A id \in S : scaled[id] = w[id] * (IF id = sought THEN present ELSE absent) /\ scaled[id] \in Nat
  BY <1>1
<1>9. IsWeighing(w) /\ IsWeighing(clamped) /\ IsWeighing(clampedOther) /\ IsWeighing(scaled)
  <2>1. DOMAIN clamped = S /\ DOMAIN clampedOther = S /\ DOMAIN scaled = S
    OBVIOUS
  <2>2. clamped = [id \in S |-> clamped[id]] /\ scaled = [id \in S |-> scaled[id]]
        /\ clampedOther = [id \in S |-> clampedOther[id]]
    <3> HIDE DEF rest
    <3> QED
      BY <1>1
  <2> HIDE DEF clamped, clampedOther, scaled
  <2> QED
    BY <1>1, <1>6, <1>7, <1>8, <2>1, <2>2 DEF IsWeighing
<1>10. DOMAIN clamped = S /\ DOMAIN clampedOther = S /\ DOMAIN scaled = S
  OBVIOUS
<1>11. (w[sought] > 0 /\ present > 0 /\ absent > 0) => here > 0 /\ there > 0
  <2> HIDE DEF rest
  <2> QED
    BY <1>2, <1>3
<1>12. here > 0 => scaled[sought] > 0
  BY <1>8
<1> HIDE DEF v, here, there, clamped, clampedOther, scaled, rest
<1>13. CASE here = 0 /\ there = 0
  <2>1. v = w
    BY <1>5, <1>13
  <2>2. here = 0
    BY <1>4, <1>13
  <2> QED
    BY <1>4, <1>9, <1>11, <2>1, <2>2 DEF v
<1>14. CASE here = 0 /\ there # 0
  <2>1. v = clamped
    BY <1>5, <1>14
  <2>2. clamped[sought] > 0
    BY <1>6
  <2> QED
    BY <1>9, <1>10, <1>11, <1>14, <2>1, <2>2 DEF v
<1>15. CASE here # 0 /\ there = 0
  <2>1. v = clampedOther
    BY <1>5, <1>15
  <2>2. clampedOther[unknown] > 0
    BY <1>7
  <2> QED
    BY <1>9, <1>10, <1>11, <1>15, <2>1, <2>2 DEF v
<1>16. CASE here # 0 /\ there # 0
  <2>1. v = scaled
    BY <1>5, <1>16
  <2>2. scaled[sought] > 0
    BY <1>4, <1>12, <1>16
  <2> QED
    BY <1>8, <1>9, <1>10, <2>1, <2>2 DEF v
<1> QED
  BY <1>13, <1>14, <1>15, <1>16

(* What an observation says of a candidate counts with the weight of its   *)
(* channel and its reliability as exponent.                                *)
Spoken(w, o, id) == Power(o.likelihoods[id], w[o.channel] * o.reliability)

(* The request after an observation.                                       *)
LEMMA ObservedBelief ==
  ASSUME NEW r, Poised(r), NEW res, AnswerTo(r, res),
         NEW o \in Observation, DOMAIN o.likelihoods = DOMAIN res.posterior
  PROVE  LET P == Posterior(r)
             q == RequestAfterObservation(r, res, o)
         IN  /\ SameQuery(q, r) /\ TypedRequest(q)
             /\ Poised(q) =>
                  Proportional([id \in Ids(r.candidates) |-> P[id] * Spoken(r.weights, o, id)],
                               Posterior(q))
<1> DEFINE cs == r.candidates
           P == Posterior(r)
           q == RequestAfterObservation(r, res, o)
           next == [i \in DOMAIN cs |-> AfterView(cs[i], res, o)]
           w == [id \in Ids(cs) |-> P[id] * Spoken(r.weights, o, id)]
<1>1. o.channel \in Channel /\ IsWeighing(o.likelihoods) /\ o.reliability \in Nat /\ Weighting(r.weights)
  BY ObservationAssumption DEF Poised, TypedRequest, Weighting
<1>2. /\ IsWeighing(P) /\ DOMAIN P = Ids(cs)
      /\ \A i \in DOMAIN cs : Violated(cs[i]) => P[cs[i].id] = 0
  BY PosteriorFacts
<1>3. res.posterior = P
  BY DEF AnswerTo
<1>4. \A i \in DOMAIN cs : TypedCandidate(cs[i]) /\ cs[i].id \in Ids(cs)
  BY DEF Poised, TypedRequest, Ids
<1>5. q = Replaced(r, next)
  <2>1. q = [r EXCEPT !.candidates = [i \in DOMAIN cs |-> AfterView(cs[i], res, o)]]
    BY DEF RequestAfterObservation, AfterView
  <2> QED
    BY <2>1 DEF Replaced
<1>6. \A i \in DOMAIN cs : next[i] = AfterView(cs[i], res, o)
  OBVIOUS
<1> HIDE DEF cs, P, q, next, w
<1>7. \A id \in Ids(cs) : P[id] \in Nat /\ o.likelihoods[id] \in Nat
  BY <1>1, <1>2, <1>3 DEF IsWeighing
<1>8. ASSUME NEW i \in DOMAIN cs
      PROVE  /\ next[i].id = cs[i].id /\ next[i].kind = cs[i].kind
             /\ next[i].place = cs[i].place /\ next[i].constraints = cs[i].constraints
             /\ TypedCandidate(next[i])
             /\ next[i].prior = P[cs[i].id]
             /\ Score(r.weights, next[i]) = next[i].prior * Spoken(r.weights, o, cs[i].id)
  BY <1>1, <1>3, <1>4, <1>6, <1>7, AfterViewFacts DEF Spoken
<1>9. /\ SameQuery(q, r) /\ TypedRequest(q)
      /\ \A i \in DOMAIN cs : q.candidates[i] = next[i]
  <2>1. TypedRequest(r)
    BY DEF Poised
  <2> QED
    BY <1>5, <1>8, <2>1, ReplacedFacts DEF cs
<1>10. ASSUME Poised(q) PROVE Proportional(w, Posterior(q))
  <2>1. DOMAIN q.candidates = DOMAIN cs
    BY <1>9 DEF SameQuery, cs
  <2>2. Ids(q.candidates) = Ids(cs)
    BY <1>9, SameQueryIds DEF cs
  <2>3. ASSUME NEW i \in DOMAIN q.candidates
        PROVE  /\ ~ Violated(q.candidates[i])
               /\ Score(q.weights, q.candidates[i]) = w[q.candidates[i].id]
    <3>1. i \in DOMAIN cs /\ q.candidates[i] = next[i]
      BY <1>9, <2>1
    <3>2. ValidCandidate(next[i])
      BY <1>10, <3>1 DEF Poised, ValidRequest
    <3>3. next[i].prior > 0
      BY <3>2 DEF ValidCandidate
    <3>4. ~ Violated(cs[i])
      BY <1>2, <1>8, <3>1, <3>3
    <3>5. ~ Violated(next[i])
      BY <1>8, <3>1, <3>4 DEF Violated, IsObject
    <3>6. Score(r.weights, next[i]) = w[next[i].id]
      BY <1>4, <1>8, <3>1 DEF w
    <3>7. q.weights = r.weights
      BY <1>9 DEF SameQuery
    <3> QED
      BY <3>1, <3>5, <3>6, <3>7
  <2>4. DOMAIN w = Ids(q.candidates)
    BY <2>2 DEF w
  <2> QED
    BY <1>10, <2>3, <2>4, NextPosterior
<1> QED
  BY <1>9, <1>10 DEF q, w, P, cs

(* The request after the feedback of a search.                             *)
LEMMA SearchedBelief ==
  ASSUME NEW r, Poised(r), NEW res, AnswerTo(r, res),
         NEW sought, sought # UnknownId(r.candidates),
         \E i \in DOMAIN r.candidates :
           sought = r.candidates[i].id /\ ~ Violated(r.candidates[i]),
         NEW feedback, IsWeighing(feedback.outcomes),
         NEW model \in Model, DOMAIN feedback.outcomes \subseteq DOMAIN model.present,
         DOMAIN model.present = DOMAIN model.absent
  PROVE  LET P == Posterior(r)
             q == RequestAfterPresenceUpdate(r, res, sought, feedback, model)
             present == FeedbackLikelihood(feedback, model.present)
             absent == FeedbackLikelihood(feedback, model.absent)
         IN  /\ SameQuery(q, r) /\ TypedRequest(q) /\ present \in Nat /\ absent \in Nat
             /\ (Poised(q) /\ present # 0 /\ absent # 0) =>
                  Proportional([id \in Ids(r.candidates) |->
                                  P[id] * (IF id = sought THEN present ELSE absent)],
                               Posterior(q))
<1> DEFINE cs == r.candidates
           P == Posterior(r)
           q == RequestAfterPresenceUpdate(r, res, sought, feedback, model)
           present == FeedbackLikelihood(feedback, model.present)
           absent == FeedbackLikelihood(feedback, model.absent)
           v == PresenceUpdate(P, sought, present, absent)
           t == LowestTerms(v)
           next == [i \in DOMAIN cs |-> AfterSearch(cs[i], t)]
           w == [id \in Ids(cs) |-> P[id] * (IF id = sought THEN present ELSE absent)]
<1>0. Weighting(r.weights)
  BY DEF Poised, TypedRequest, Weighting
<1>1. present \in Nat /\ absent \in Nat
  <2>1. IsWeighing(model.present) /\ IsWeighing(model.absent)
    BY ModelAssumption
  <2> QED
    BY <2>1, WeighedBy DEF FeedbackLikelihood
<1>2. /\ IsWeighing(P) /\ DOMAIN P = Ids(cs)
      /\ \A i \in DOMAIN cs : Violated(cs[i]) => P[cs[i].id] = 0
      /\ UnknownId(cs) \in DOMAIN P /\ P[UnknownId(cs)] > 0
      /\ P[sought] > 0
  BY PosteriorFacts
<1>3. res.posterior = P
  BY DEF AnswerTo
<1>4. \A i \in DOMAIN cs : TypedCandidate(cs[i]) /\ cs[i].id \in Ids(cs)
  BY DEF Poised, TypedRequest, Ids
<1>5. q = Replaced(r, next)
  <2>1. q = [r EXCEPT !.candidates = [i \in DOMAIN cs |-> AfterSearch(cs[i], t)]]
    BY <1>3 DEF RequestAfterPresenceUpdate, AfterSearch
  <2> QED
    BY <2>1 DEF Replaced
<1>6. \A i \in DOMAIN cs : next[i] = AfterSearch(cs[i], t)
  OBVIOUS
<1>7. sought \in Ids(cs) /\ sought # UnknownId(cs)
  BY <1>4
<1>8. t = LowestTerms(v)
  OBVIOUS
<1>9. \A id \in Ids(cs) : w[id] = P[id] * (IF id = sought THEN present ELSE absent)
  OBVIOUS
<1>10. DOMAIN w = Ids(cs)
  OBVIOUS
<1> HIDE DEF cs, P, q, present, absent, next, w, t
<1>11. /\ IsWeighing(v) /\ DOMAIN v = DOMAIN P /\ \E id \in DOMAIN v : v[id] > 0
       /\ (P[sought] > 0 /\ present > 0 /\ absent > 0) =>
            \A id \in DOMAIN P : v[id] = P[id] * (IF id = sought THEN present ELSE absent)
  BY <1>1, <1>2, <1>7, PresenceFacts, SMTT(30)
<1> HIDE DEF v
<1>12. IsWeighing(t) /\ Proportional(v, t)
  BY <1>8, <1>11, InLowestTerms
<1>13. DOMAIN t = Ids(cs) /\ \A id \in Ids(cs) : t[id] \in Nat
  BY <1>2, <1>11, <1>12 DEF Proportional, IsWeighing
<1>14. ASSUME NEW i \in DOMAIN cs
      PROVE  /\ next[i].id = cs[i].id /\ next[i].kind = cs[i].kind
             /\ next[i].place = cs[i].place /\ next[i].constraints = cs[i].constraints
             /\ TypedCandidate(next[i])
             /\ next[i].prior = t[cs[i].id]
             /\ Score(r.weights, next[i]) = next[i].prior
  BY <1>0, <1>4, <1>6, <1>13, AfterSearchFacts
<1>15. /\ SameQuery(q, r) /\ TypedRequest(q)
       /\ \A i \in DOMAIN cs : q.candidates[i] = next[i]
  <2>1. TypedRequest(r)
    BY DEF Poised
  <2> QED
    BY <1>5, <1>14, <2>1, ReplacedFacts DEF cs
<1>16. ASSUME Poised(q), present # 0, absent # 0 PROVE Proportional(w, Posterior(q))
  <2>1. DOMAIN q.candidates = DOMAIN cs
    BY <1>15 DEF SameQuery, cs
  <2>2. Ids(q.candidates) = Ids(cs)
    BY <1>15, SameQueryIds DEF cs
  <2>3. ASSUME NEW i \in DOMAIN cs PROVE t[cs[i].id] > 0
    <3>1. q.candidates[i] = next[i] /\ i \in DOMAIN q.candidates
      BY <1>15, <2>1
    <3>2. ValidCandidate(next[i])
      BY <1>16, <3>1 DEF Poised, ValidRequest
    <3> QED
      BY <1>14, <3>2 DEF ValidCandidate
  <2>4. PICK k \in Nat \ {0} : \A id \in DOMAIN t : v[id] = k * t[id]
    BY <1>12 DEF Proportional
  <2>5. \A id \in Ids(cs) : v[id] = w[id]
    BY <1>1, <1>2, <1>9, <1>11, <1>16
  <2>6. ASSUME NEW i \in DOMAIN cs PROVE ~ Violated(next[i])
    <3>1. v[cs[i].id] = k * t[cs[i].id] /\ t[cs[i].id] > 0 /\ t[cs[i].id] \in Nat
      BY <1>4, <1>13, <2>3, <2>4
    <3>2. v[cs[i].id] > 0
      BY <3>1
    <3>3. P[cs[i].id] # 0
      <4> SUFFICES ASSUME P[cs[i].id] = 0 PROVE FALSE
        OBVIOUS
      <4>1. w[cs[i].id] = 0
        BY <1>1, <1>4, <1>9
      <4> QED
        BY <1>4, <2>5, <3>2, <4>1
    <3>4. ~ Violated(cs[i])
      BY <1>2, <3>3
    <3> QED
      BY <1>14, <3>4 DEF Violated, IsObject
  <2>7. ASSUME NEW i \in DOMAIN q.candidates
        PROVE  /\ ~ Violated(q.candidates[i])
               /\ Score(q.weights, q.candidates[i]) = t[q.candidates[i].id]
    <3>1. q.weights = r.weights
      BY <1>15 DEF SameQuery
    <3> QED
      BY <1>14, <1>15, <2>1, <2>6, <3>1
  <2>8. Proportional(t, Posterior(q))
    BY <1>13, <1>16, <2>2, <2>7, NextPosterior
  <2>9. PICK m \in Nat \ {0} : \A id \in DOMAIN Posterior(q) :
          t[id] = m * Posterior(q)[id]
    BY <2>8 DEF Proportional
  <2>10. /\ IsWeighing(Posterior(q))
         /\ DOMAIN Posterior(q) = Ids(cs)
    BY <1>16, <2>2, PosteriorFacts
  <2> DEFINE R == Posterior(q)
  <2> HIDE DEF R
  <2>11. ASSUME NEW id \in Ids(cs) PROVE w[id] = (k * m) * R[id]
    <3>1. t[id] = m * R[id] /\ v[id] = k * t[id] /\ R[id] \in Nat
      BY <1>13, <2>4, <2>9, <2>10 DEF R, IsWeighing
    <3>2. k * (m * R[id]) = (k * m) * R[id]
      BY <3>1
    <3> QED
      BY <2>5, <3>1, <3>2
  <2>12. k * m \in Nat \ {0}
    OBVIOUS
  <2> QED
    BY <1>10, <2>10, <2>11, <2>12 DEF Proportional, R
<1> QED
  BY <1>1, <1>15, <1>16 DEF q, w, P, cs, present, absent

-----------------------------------------------------------------------------
Sights(w, seen, id) == ProductOf([i \in DOMAIN seen |-> Spoken(w, seen[i], id)])

Words(told, id) == ProductOf([i \in DOMAIN told |-> FeedbackFactor(id, told[i])])

(* What a run that was asked a should believe of what it saw and was told. *)
Believed(a, seen, told) ==
  [id \in Ids(a.candidates) |-> Posterior(a)[id] * Sights(a.weights, seen, id) * Words(told, id)]

CertainIn(told) ==
  \E i \in DOMAIN told : told[i].record.type = "search" /\
    \E distribution \in {told[i].model.present, told[i].model.absent} :
      FeedbackLikelihood(told[i].record, distribution) = 0

TypedSight(o, ids) == o \in Observation /\ DOMAIN o.likelihoods = ids

TypedItem(item) ==
  /\ IsWeighing(item.record.outcomes) /\ item.model \in Model
  /\ item.record.type = "search" =>
       /\ DOMAIN item.record.outcomes \subseteq DOMAIN item.model.present
       /\ DOMAIN item.model.present = DOMAIN item.model.absent

(* The likelihood of a feedback is a number.                               *)
LEMMA ItemFacts ==
  ASSUME NEW item, TypedItem(item)
  PROVE  /\ \A id : FeedbackFactor(id, item) \in Nat
         /\ item.record.type = "search" =>
              /\ FeedbackLikelihood(item.record, item.model.present) \in Nat
              /\ FeedbackLikelihood(item.record, item.model.absent) \in Nat
<1>1. ASSUME item.record.type = "search"
      PROVE  /\ FeedbackLikelihood(item.record, item.model.present) \in Nat
             /\ FeedbackLikelihood(item.record, item.model.absent) \in Nat
  <2>1. IsWeighing(item.model.present) /\ IsWeighing(item.model.absent)
    BY ModelAssumption DEF TypedItem
  <2> QED
    BY <1>1, <2>1, WeighedBy DEF FeedbackLikelihood, TypedItem
<1>2. ASSUME NEW id PROVE FeedbackFactor(id, item) \in Nat
  <2>1. CASE item.record.type # "search"
    BY <2>1 DEF FeedbackFactor
  <2>2. CASE item.record.type = "search" /\ id = item.record.target
    BY <1>1, <2>2 DEF FeedbackFactor
  <2>3. CASE item.record.type = "search" /\ id # item.record.target
    BY <1>1, <2>3 DEF FeedbackFactor
  <2> QED
    BY <2>1, <2>2, <2>3
<1> QED
  BY <1>1, <1>2

(* Numbers listed are a weighing of their places.                          *)
LEMMA ListWeighs ==
  ASSUME NEW n \in Nat, NEW f, DOMAIN f = 1..n, f = [i \in 1..n |-> f[i]],
         \A i \in 1..n : f[i] \in Nat
  PROVE  IsWeighing(f)
<1>1. IsFiniteSet(1..n)
  <2>1. 1 \in Int /\ n \in Int
    OBVIOUS
  <2> QED
    BY <2>1, FS_Interval
<1>2. f \in [1..n -> Nat]
  OBVIOUS
<1> QED
  BY <1>1, <1>2 DEF IsWeighing

(* One more factor.                                                        *)
LEMMA GrownProduct ==
  ASSUME NEW n \in Nat, NEW f \in [1..(n + 1) -> Nat], NEW g \in [1..n -> Nat],
         \A i \in 1..n : g[i] = f[i]
  PROVE  ProductOf(f) = f[n + 1] * ProductOf(g)
<1>1. DOMAIN f = 1..(n + 1) /\ DOMAIN g = 1..n /\ n + 1 \in Nat
  OBVIOUS
<1>2. f = [i \in 1..(n + 1) |-> f[i]] /\ \A i \in 1..(n + 1) : f[i] \in Nat
  OBVIOUS
<1>3. IsWeighing(f)
  BY <1>1, <1>2, ListWeighs
<1> QED
  BY <1>1, <1>3, OneMoreFactor

(* What is proportional stays so when both are multiplied alike.           *)
LEMMA ProportionalStep ==
  ASSUME NEW I, NEW b, NEW P, Proportional(b, P), DOMAIN P = I,
         NEW g, NEW w, DOMAIN w = I, NEW Q, Proportional(w, Q), IsWeighing(Q),
         NEW c, DOMAIN c = I,
         \A id \in I : /\ b[id] \in Nat /\ P[id] \in Nat /\ g[id] \in Nat
                       /\ c[id] = b[id] * g[id] /\ w[id] = P[id] * g[id]
  PROVE  Proportional(c, Q)
<1>1. PICK k \in Nat \ {0} : \A id \in I : b[id] = k * P[id]
  BY DEF Proportional
<1>2. PICK m \in Nat \ {0} : \A id \in I : w[id] = m * Q[id]
  BY DEF Proportional
<1>3. DOMAIN Q = I /\ \A id \in I : Q[id] \in Nat
  BY DEF Proportional, IsWeighing
<1>4. ASSUME NEW id \in I PROVE c[id] = (k * m) * Q[id]
  <2>1. c[id] = (k * P[id]) * g[id] /\ P[id] * g[id] = m * Q[id] /\ P[id] \in Nat /\ g[id] \in Nat
    BY <1>1, <1>2
  <2>2. (k * P[id]) * g[id] = k * (P[id] * g[id])
    BY <2>1
  <2>3. k * (m * Q[id]) = (k * m) * Q[id]
    BY <1>3
  <2> QED
    BY <2>1, <2>2, <2>3
<1>5. k * m \in Nat \ {0}
  OBVIOUS
<1> QED
  BY <1>3, <1>4, <1>5 DEF Proportional

-----------------------------------------------------------------------------
(* A query whose current request stands for what was seen and told.        *)
BeliefOK(a, cur, seen, told) ==
  /\ Poised(a) /\ Poised(cur) /\ SameQuery(cur, a)
  /\ IsList(seen) /\ \A i \in DOMAIN seen : TypedSight(seen[i], Ids(a.candidates))
  /\ IsList(told) /\ \A i \in DOMAIN told : TypedItem(told[i])
  /\ ~ CertainIn(told) => Proportional(Believed(a, seen, told), Posterior(cur))

(* Asking the same is transitive.                                          *)
LEMMA SameQueryTransitive ==
  ASSUME NEW q, NEW r, NEW s, SameQuery(q, r), SameQuery(r, s)
  PROVE  SameQuery(q, s)
BY DEF SameQuery

(* What was seen and told multiplies by a number for every candidate.      *)
LEMMA SightsFacts ==
  ASSUME NEW w, Weighting(w), NEW seen, IsList(seen), NEW ids, \A i \in DOMAIN seen : TypedSight(seen[i], ids),
         NEW id \in ids
  PROVE  /\ Sights(w, seen, id) \in Nat
         /\ \A o : TypedSight(o, ids) =>
              /\ Spoken(w, o, id) \in Nat
              /\ Sights(w, Append(seen, o), id) = Spoken(w, o, id) * Sights(w, seen, id)
<1> DEFINE n == Len(seen)
           g == [i \in DOMAIN seen |-> Spoken(w, seen[i], id)]
<1>1. n \in Nat /\ DOMAIN seen = 1..n
  BY ListFacts
<1>2. \A o : TypedSight(o, ids) => Spoken(w, o, id) \in Nat
  <2> SUFFICES ASSUME NEW o, TypedSight(o, ids) PROVE Spoken(w, o, id) \in Nat
    OBVIOUS
  <2> DEFINE base == o.likelihoods[id]
             n1 == w[o.channel]
             n2 == o.reliability
  <2>1. base \in Nat /\ n1 \in Nat /\ n2 \in Nat
    BY ObservationAssumption DEF TypedSight, IsWeighing, Weighting
  <2>2. Spoken(w, o, id) = Power(base, n1 * n2)
    BY DEF Spoken
  <2> HIDE DEF base, n1, n2
  <2>3. n1 * n2 \in Nat
    BY <2>1
  <2> QED
    BY <2>1, <2>2, <2>3, PowerFacts
<1>3. g \in [1..n -> Nat] /\ \A i \in 1..n : g[i] = Spoken(w, seen[i], id)
  BY <1>1, <1>2
<1>4. Sights(w, seen, id) = ProductOf(g)
  BY DEF Sights
<1> HIDE DEF n, g
<1>5. ProductOf(g) \in Nat
  <2>1. DOMAIN g = 1..n /\ g = [i \in 1..n |-> g[i]] /\ \A i \in 1..n : g[i] \in Nat
    BY <1>3
  <2> QED
    BY <1>1, <2>1, ListWeighs, ProductFacts
<1>6. ASSUME NEW o, TypedSight(o, ids)
      PROVE  Sights(w, Append(seen, o), id) = Spoken(w, o, id) * Sights(w, seen, id)
  <2> DEFINE more == Append(seen, o)
             f == [i \in DOMAIN more |-> Spoken(w, more[i], id)]
  <2>1. /\ DOMAIN more = 1..(n + 1) /\ \A i \in 1..n : more[i] = seen[i]
        /\ more[n + 1] = o
    BY AppendFacts DEF n
  <2>2. \A i \in 1..(n + 1) : Spoken(w, more[i], id) \in Nat
    <3> SUFFICES ASSUME NEW i \in 1..(n + 1) PROVE Spoken(w, more[i], id) \in Nat
      OBVIOUS
    <3>1. i \in 1..n \/ i = n + 1
      BY <1>1
    <3> HIDE DEF more
    <3> QED
      BY <1>1, <1>2, <1>6, <2>1, <3>1
  <2>3. f \in [1..(n + 1) -> Nat] /\ f[n + 1] = Spoken(w, o, id) /\ \A i \in 1..n : g[i] = f[i]
    <3>1. n + 1 \in 1..(n + 1) /\ \A i \in 1..n : i \in 1..(n + 1)
      BY <1>1
    <3> HIDE DEF more
    <3> QED
      BY <1>3, <2>1, <2>2, <3>1
  <2>4. Sights(w, more, id) = ProductOf(f)
    BY DEF Sights
  <2> HIDE DEF f, more
  <2>5. ProductOf(f) = f[n + 1] * ProductOf(g)
    BY <1>1, <1>3, <2>3, GrownProduct
  <2> QED
    BY <1>4, <2>3, <2>4, <2>5 DEF more
<1> QED
  BY <1>2, <1>4, <1>5, <1>6

(* So does what it was told.                                               *)
LEMMA WordsFacts ==
  ASSUME NEW told, IsList(told), \A i \in DOMAIN told : TypedItem(told[i]), NEW id
  PROVE  /\ Words(told, id) \in Nat
         /\ \A item : TypedItem(item) =>
              /\ FeedbackFactor(id, item) \in Nat
              /\ Words(Append(told, item), id) = FeedbackFactor(id, item) * Words(told, id)
<1> DEFINE n == Len(told)
           g == [i \in DOMAIN told |-> FeedbackFactor(id, told[i])]
<1>1. n \in Nat /\ DOMAIN told = 1..n
  BY ListFacts
<1>2. \A item : TypedItem(item) => FeedbackFactor(id, item) \in Nat
  BY ItemFacts
<1>3. g \in [1..n -> Nat] /\ \A i \in 1..n : g[i] = FeedbackFactor(id, told[i])
  BY <1>1, <1>2
<1>4. Words(told, id) = ProductOf(g)
  BY DEF Words
<1> HIDE DEF n, g
<1>5. ProductOf(g) \in Nat
  <2>1. DOMAIN g = 1..n /\ g = [i \in 1..n |-> g[i]] /\ \A i \in 1..n : g[i] \in Nat
    BY <1>3
  <2> QED
    BY <1>1, <2>1, ListWeighs, ProductFacts
<1>6. ASSUME NEW item, TypedItem(item)
      PROVE  Words(Append(told, item), id) = FeedbackFactor(id, item) * Words(told, id)
  <2> DEFINE more == Append(told, item)
             f == [i \in DOMAIN more |-> FeedbackFactor(id, more[i])]
  <2>1. /\ DOMAIN more = 1..(n + 1) /\ \A i \in 1..n : more[i] = told[i]
        /\ more[n + 1] = item
    BY AppendFacts DEF n
  <2>2. \A i \in 1..(n + 1) : FeedbackFactor(id, more[i]) \in Nat
    <3> SUFFICES ASSUME NEW i \in 1..(n + 1) PROVE FeedbackFactor(id, more[i]) \in Nat
      OBVIOUS
    <3>1. i \in 1..n \/ i = n + 1
      BY <1>1
    <3> HIDE DEF more
    <3> QED
      BY <1>1, <1>2, <1>6, <2>1, <3>1
  <2>3. f \in [1..(n + 1) -> Nat] /\ f[n + 1] = FeedbackFactor(id, item) /\ \A i \in 1..n : g[i] = f[i]
    <3>1. n + 1 \in 1..(n + 1) /\ \A i \in 1..n : i \in 1..(n + 1)
      BY <1>1
    <3> HIDE DEF more
    <3> QED
      BY <1>3, <2>1, <2>2, <3>1
  <2>4. Words(more, id) = ProductOf(f)
    BY DEF Words
  <2> HIDE DEF f, more
  <2>5. ProductOf(f) = f[n + 1] * ProductOf(g)
    BY <1>1, <1>3, <2>3, GrownProduct
  <2> QED
    BY <1>4, <2>3, <2>4, <2>5 DEF more
<1> QED
  BY <1>2, <1>4, <1>5, <1>6

(* What should be believed is a number for every candidate; one more sight *)
(* or one more thing told is one more factor.                              *)
LEMMA BelievedFacts ==
  ASSUME NEW a, Poised(a), NEW seen, IsList(seen), NEW told, IsList(told),
         \A i \in DOMAIN seen : TypedSight(seen[i], Ids(a.candidates)),
         \A i \in DOMAIN told : TypedItem(told[i])
  PROVE  \A id \in Ids(a.candidates) :
           /\ Believed(a, seen, told)[id] \in Nat
           /\ \A o : TypedSight(o, Ids(a.candidates)) =>
                /\ Spoken(a.weights, o, id) \in Nat
                /\ Believed(a, Append(seen, o), told)[id]
                     = Believed(a, seen, told)[id] * Spoken(a.weights, o, id)
           /\ \A item : TypedItem(item) =>
                /\ FeedbackFactor(id, item) \in Nat
                /\ Believed(a, seen, Append(told, item))[id]
                     = Believed(a, seen, told)[id] * FeedbackFactor(id, item)
<1> SUFFICES ASSUME NEW id \in Ids(a.candidates)
    PROVE  /\ Believed(a, seen, told)[id] \in Nat
           /\ \A o : TypedSight(o, Ids(a.candidates)) =>
                /\ Spoken(a.weights, o, id) \in Nat
                /\ Believed(a, Append(seen, o), told)[id]
                     = Believed(a, seen, told)[id] * Spoken(a.weights, o, id)
           /\ \A item : TypedItem(item) =>
                /\ FeedbackFactor(id, item) \in Nat
                /\ Believed(a, seen, Append(told, item))[id]
                     = Believed(a, seen, told)[id] * FeedbackFactor(id, item)
  OBVIOUS
<1> DEFINE P == Posterior(a)
<1>1. P[id] \in Nat
  BY PosteriorFacts DEF IsWeighing
<1>2. \A s, t : Believed(a, s, t)[id] = P[id] * Sights(a.weights, s, id) * Words(t, id)
  BY DEF Believed
<1>3. /\ Sights(a.weights, seen, id) \in Nat
      /\ \A o : TypedSight(o, Ids(a.candidates)) =>
           /\ Spoken(a.weights, o, id) \in Nat
           /\ Sights(a.weights, Append(seen, o), id) = Spoken(a.weights, o, id) * Sights(a.weights, seen, id)
  <2>1. Weighting(a.weights)
    BY DEF Poised, TypedRequest, Weighting
  <2> QED
    BY <2>1, SightsFacts
<1>4. /\ Words(told, id) \in Nat
      /\ \A item : TypedItem(item) =>
           /\ FeedbackFactor(id, item) \in Nat
           /\ Words(Append(told, item), id) = FeedbackFactor(id, item) * Words(told, id)
  BY WordsFacts
<1> HIDE DEF P
<1>5. Believed(a, seen, told)[id] \in Nat
  BY <1>1, <1>2, <1>3, <1>4
<1>6. ASSUME NEW o, TypedSight(o, Ids(a.candidates))
      PROVE  /\ Spoken(a.weights, o, id) \in Nat
             /\ Believed(a, Append(seen, o), told)[id] = Believed(a, seen, told)[id] * Spoken(a.weights, o, id)
  <2>1. Spoken(a.weights, o, id) \in Nat /\ Sights(a.weights, Append(seen, o), id) = Spoken(a.weights, o, id) * Sights(a.weights, seen, id)
    BY <1>3, <1>6
  <2>2. P[id] * (Spoken(a.weights, o, id) * Sights(a.weights, seen, id)) * Words(told, id)
          = (P[id] * Sights(a.weights, seen, id) * Words(told, id)) * Spoken(a.weights, o, id)
    BY <1>1, <1>3, <1>4, <2>1
  <2> QED
    BY <1>2, <2>1, <2>2
<1>7. ASSUME NEW item, TypedItem(item)
      PROVE  /\ FeedbackFactor(id, item) \in Nat
             /\ Believed(a, seen, Append(told, item))[id] = Believed(a, seen, told)[id] * FeedbackFactor(id, item)
  <2>1. FeedbackFactor(id, item) \in Nat /\ Words(Append(told, item), id) = FeedbackFactor(id, item) * Words(told, id)
    BY <1>4, <1>7
  <2>2. P[id] * Sights(a.weights, seen, id) * (FeedbackFactor(id, item) * Words(told, id))
          = (P[id] * Sights(a.weights, seen, id) * Words(told, id)) * FeedbackFactor(id, item)
    BY <1>1, <1>3, <1>4, <2>1
  <2> QED
    BY <1>2, <2>1, <2>2
<1> QED
  BY <1>5, <1>6, <1>7

-----------------------------------------------------------------------------
(* A belief that was right is right after one more observation, ...        *)
LEMMA SeeOneMore ==
  ASSUME NEW a, NEW cur, NEW seen, NEW told, BeliefOK(a, cur, seen, told),
         NEW res, AnswerTo(cur, res),
         NEW o \in Observation, DOMAIN o.likelihoods = DOMAIN res.posterior,
         Poised(RequestAfterObservation(cur, res, o))
  PROVE  BeliefOK(a, RequestAfterObservation(cur, res, o), Append(seen, o), told)
<1> DEFINE q == RequestAfterObservation(cur, res, o)
           P == Posterior(cur)
           Q == Posterior(q)
           I == Ids(a.candidates)
           w == [id \in Ids(cur.candidates) |-> P[id] * Spoken(cur.weights, o, id)]
           g == [id \in I |-> Spoken(a.weights, o, id)]
           b == Believed(a, seen, told)
           c == Believed(a, Append(seen, o), told)
<1>1. Poised(a) /\ Poised(cur) /\ SameQuery(cur, a) /\ Ids(cur.candidates) = I
  BY SameQueryIds DEF BeliefOK
<1>2. SameQuery(q, cur) /\ Proportional(w, Q)
  BY <1>1, ObservedBelief
<1>3. SameQuery(q, a)
  BY <1>1, <1>2, SameQueryTransitive
<1>4. IsWeighing(P) /\ DOMAIN P = I /\ IsWeighing(Q)
  BY <1>1, PosteriorFacts
<1>5. TypedSight(o, I)
  <2>1. res.posterior = P
    BY DEF AnswerTo
  <2> QED
    BY <1>4, <2>1 DEF TypedSight
<1>6. DOMAIN b = I /\ DOMAIN c = I /\ DOMAIN w = I
  BY <1>1 DEF Believed
<1>7. \A id \in I : w[id] = P[id] * g[id] /\ g[id] = Spoken(a.weights, o, id)
  <2>1. cur.weights = a.weights
    BY <1>1 DEF SameQuery
  <2> QED
    BY <1>1, <2>1
<1>8. IsList(Append(seen, o)) /\ \A i \in DOMAIN Append(seen, o) : TypedSight(Append(seen, o)[i], I)
  <2>1. /\ IsList(seen) /\ \A i \in DOMAIN seen : TypedSight(seen[i], I)
        /\ Len(seen) \in Nat /\ DOMAIN seen = 1..Len(seen)
    BY ListFacts DEF BeliefOK
  <2>2. /\ IsList(Append(seen, o)) /\ DOMAIN Append(seen, o) = 1..(Len(seen) + 1)
        /\ \A i \in 1..Len(seen) : Append(seen, o)[i] = seen[i]
        /\ Append(seen, o)[Len(seen) + 1] = o
    BY <2>1, AppendFacts
  <2> HIDE DEF I
  <2>3. \A i \in 1..(Len(seen) + 1) : i \in 1..Len(seen) \/ i = Len(seen) + 1
    BY <2>1
  <2> QED
    BY <1>5, <2>1, <2>2, <2>3
<1>9. \A id \in I : /\ b[id] \in Nat /\ Spoken(a.weights, o, id) \in Nat
                    /\ c[id] = b[id] * Spoken(a.weights, o, id)
  BY <1>1, <1>5, BelievedFacts DEF BeliefOK
<1>10. \A id \in I : P[id] \in Nat
  BY <1>4 DEF IsWeighing
<1>11. ~ CertainIn(told) => Proportional(b, P)
  BY DEF BeliefOK
<1> HIDE DEF q, P, Q, I, w, g, b, c
<1>12. ~ CertainIn(told) => Proportional(c, Q)
  BY <1>2, <1>4, <1>6, <1>7, <1>9, <1>10, <1>11, ProportionalStep
<1> QED
  BY <1>1, <1>3, <1>8, <1>12 DEF BeliefOK, q, Q, I, c

(* An object that may be searched for stays one.                           *)
LEMMA TargetStays ==
  ASSUME NEW cur, Poised(cur), NEW a, SameQuery(cur, a), NEW i \in DOMAIN a.candidates,
         ~ Violated(a.candidates[i]), IsObject(a.candidates[i])
  PROVE  /\ a.candidates[i].id # UnknownId(cur.candidates)
         /\ \E j \in DOMAIN cur.candidates :
              a.candidates[i].id = cur.candidates[j].id /\ ~ Violated(cur.candidates[j])
<1>1. /\ i \in DOMAIN cur.candidates
      /\ cur.candidates[i].id = a.candidates[i].id
      /\ cur.candidates[i].kind = a.candidates[i].kind
      /\ cur.candidates[i].constraints = a.candidates[i].constraints
  BY DEF SameQuery
<1>2. ~ Violated(cur.candidates[i]) /\ IsObject(cur.candidates[i])
  BY <1>1 DEF Violated, IsObject
<1>3. PICK u \in DOMAIN cur.candidates :
        ~ IsObject(cur.candidates[u]) /\ UnknownId(cur.candidates) = cur.candidates[u].id
  BY OneUnknown
<1>4. UniqueIds(cur.candidates)
  BY DEF Poised, ValidRequest
<1> QED
  BY <1>1, <1>2, <1>3, <1>4 DEF UniqueIds

(* ... after the feedback of a search, ...                                 *)
LEMMA HearOneMore ==
  ASSUME NEW a, NEW cur, NEW seen, NEW told, BeliefOK(a, cur, seen, told),
         NEW res, AnswerTo(cur, res),
         NEW item, TypedItem(item), item.record.type = "search",
         \E i \in DOMAIN a.candidates :
           /\ item.record.target = a.candidates[i].id
           /\ ~ Violated(a.candidates[i]) /\ IsObject(a.candidates[i]),
         Poised(RequestAfterPresenceUpdate(cur, res, item.record.target, item.record, item.model))
  PROVE  BeliefOK(a, RequestAfterPresenceUpdate(cur, res, item.record.target, item.record, item.model),
                  seen, Append(told, item))
<1> DEFINE sought == item.record.target
           q == RequestAfterPresenceUpdate(cur, res, sought, item.record, item.model)
           P == Posterior(cur)
           Q == Posterior(q)
           I == Ids(a.candidates)
           present == FeedbackLikelihood(item.record, item.model.present)
           absent == FeedbackLikelihood(item.record, item.model.absent)
           w == [id \in Ids(cur.candidates) |-> P[id] * (IF id = sought THEN present ELSE absent)]
           b == Believed(a, seen, told)
           c == Believed(a, seen, Append(told, item))
           more == Append(told, item)
<1>1. Poised(a) /\ Poised(cur) /\ SameQuery(cur, a) /\ Ids(cur.candidates) = I
  BY SameQueryIds DEF BeliefOK
<1>2. PICK at \in DOMAIN a.candidates :
        /\ sought = a.candidates[at].id
        /\ ~ Violated(a.candidates[at]) /\ IsObject(a.candidates[at])
  OBVIOUS
<1>3. \E i \in DOMAIN cur.candidates :
        sought = cur.candidates[i].id /\ ~ Violated(cur.candidates[i])
  BY <1>1, <1>2, TargetStays
<1>4. sought # UnknownId(cur.candidates)
  BY <1>1, <1>2, TargetStays
<1>5. /\ IsWeighing(item.record.outcomes) /\ item.model \in Model
      /\ DOMAIN item.record.outcomes \subseteq DOMAIN item.model.present
      /\ DOMAIN item.model.present = DOMAIN item.model.absent
  BY DEF TypedItem
<1>6. /\ SameQuery(q, cur) /\ present \in Nat /\ absent \in Nat
      /\ (present # 0 /\ absent # 0) => Proportional(w, Q)
  <2>1. Poised(q)
    OBVIOUS
  <2> QED
    BY <1>1, <1>3, <1>4, <1>5, <2>1, SearchedBelief
<1>7. SameQuery(q, a)
  BY <1>1, <1>6, SameQueryTransitive
<1>8. IsWeighing(P) /\ DOMAIN P = I /\ IsWeighing(Q)
  BY <1>1, PosteriorFacts
<1>9. DOMAIN b = I /\ DOMAIN c = I /\ DOMAIN w = I
  BY <1>1 DEF Believed
<1>10. \A id : FeedbackFactor(id, item) = IF id = sought THEN present ELSE absent
  <2>1. \A id : FeedbackFactor(id, item) =
           FeedbackLikelihood(item.record, IF id = sought THEN item.model.present ELSE item.model.absent)
    BY DEF FeedbackFactor
  <2> HIDE DEF sought
  <2> QED
    BY <2>1
<1>11. \A id \in I : w[id] = P[id] * (IF id = sought THEN present ELSE absent)
  BY <1>1
<1>12. /\ IsList(told) /\ \A i \in DOMAIN told : TypedItem(told[i])
       /\ Len(told) \in Nat /\ DOMAIN told = 1..Len(told)
  BY ListFacts DEF BeliefOK
<1>13. /\ IsList(more) /\ DOMAIN more = 1..(Len(told) + 1)
       /\ \A i \in 1..Len(told) : more[i] = told[i]
       /\ more[Len(told) + 1] = item
  BY <1>12, AppendFacts
<1>14. \A i \in DOMAIN more : TypedItem(more[i])
  <2>1. \A i \in 1..(Len(told) + 1) : i \in 1..Len(told) \/ i = Len(told) + 1
    BY <1>12
  <2> HIDE DEF more
  <2> QED
    BY <1>12, <1>13, <2>1
<1>15. ~ CertainIn(more) => ~ CertainIn(told) /\ present # 0 /\ absent # 0
  <2>1. \A i \in 1..Len(told) : i \in 1..(Len(told) + 1)
    BY <1>12
  <2>2. Len(told) + 1 \in 1..(Len(told) + 1)
    BY <1>12
  <2> HIDE DEF more
  <2>3. CertainIn(told) => CertainIn(more)
    BY <1>12, <1>13, <2>1 DEF CertainIn
  <2>4. present = 0 \/ absent = 0 => CertainIn(more)
    BY <1>13, <2>2 DEF CertainIn
  <2> QED
    BY <2>3, <2>4
<1>16. \A id \in I : /\ b[id] \in Nat /\ FeedbackFactor(id, item) \in Nat
                     /\ c[id] = b[id] * FeedbackFactor(id, item)
  <2>1. IsList(seen) /\ \A i \in DOMAIN seen : TypedSight(seen[i], Ids(a.candidates))
    BY DEF BeliefOK
  <2> QED
    BY <1>1, <1>12, <2>1, BelievedFacts
<1>17. \A id \in I : P[id] \in Nat
  BY <1>8 DEF IsWeighing
<1>18. ~ CertainIn(told) => Proportional(b, P)
  BY DEF BeliefOK
<1> DEFINE g == [id \in I |-> FeedbackFactor(id, item)]
<1>19. \A id \in I : g[id] = FeedbackFactor(id, item)
  OBVIOUS
<1> HIDE DEF q, P, Q, I, w, b, c, g, present, absent, sought
<1>20. \A id \in I : /\ b[id] \in Nat /\ P[id] \in Nat /\ g[id] \in Nat
                     /\ c[id] = b[id] * g[id] /\ w[id] = P[id] * g[id]
  BY <1>10, <1>11, <1>16, <1>17, <1>19
<1> HIDE DEF more
<1>21. ~ CertainIn(more) => Proportional(c, Q)
  BY <1>6, <1>8, <1>9, <1>15, <1>18, <1>20, ProportionalStep
<1>22. IsList(seen) /\ \A i \in DOMAIN seen : TypedSight(seen[i], Ids(a.candidates))
  BY DEF BeliefOK
<1> QED
  BY <1>1, <1>7, <1>13, <1>14, <1>21, <1>22 DEF BeliefOK, q, Q, c, more, sought

(* ... and after feedback that says nothing of where the sought is.        *)
LEMMA HearNothing ==
  ASSUME NEW a, NEW cur, NEW seen, NEW told, BeliefOK(a, cur, seen, told),
         NEW item, TypedItem(item), item.record.type # "search"
  PROVE  BeliefOK(a, cur, seen, Append(told, item))
<1> DEFINE b == Believed(a, seen, told)
           c == Believed(a, seen, Append(told, item))
           P == Posterior(cur)
           I == Ids(a.candidates)
           more == Append(told, item)
<1>1. /\ Poised(a) /\ Poised(cur) /\ SameQuery(cur, a) /\ Ids(cur.candidates) = I
      /\ IsList(seen) /\ \A i \in DOMAIN seen : TypedSight(seen[i], I)
  BY SameQueryIds DEF BeliefOK
<1>2. /\ IsList(told) /\ \A i \in DOMAIN told : TypedItem(told[i])
      /\ Len(told) \in Nat /\ DOMAIN told = 1..Len(told)
  BY ListFacts DEF BeliefOK
<1>3. /\ IsList(more) /\ DOMAIN more = 1..(Len(told) + 1)
      /\ \A i \in 1..Len(told) : more[i] = told[i]
      /\ more[Len(told) + 1] = item
  BY <1>2, AppendFacts
<1>4. \A i \in 1..(Len(told) + 1) : i \in 1..Len(told) \/ i = Len(told) + 1
  BY <1>2
<1>5. \A i \in 1..Len(told) : i \in 1..(Len(told) + 1)
  BY <1>2
<1>6. \A id \in I : b[id] \in Nat /\ c[id] = b[id] * FeedbackFactor(id, item)
  BY <1>1, <1>2, BelievedFacts
<1>7. \A id : FeedbackFactor(id, item) = 1
  BY DEF FeedbackFactor
<1>8. DOMAIN b = I /\ DOMAIN c = I /\ b = [id \in I |-> b[id]] /\ c = [id \in I |-> c[id]]
  BY DEF Believed
<1>9. ~ CertainIn(told) => Proportional(b, P)
  BY DEF BeliefOK
<1> HIDE DEF b, c, P, I, more
<1>10. \A id \in I : c[id] = b[id]
  BY <1>6, <1>7
<1>11. b = c
  BY <1>8, <1>10
<1>12. CertainIn(told) => CertainIn(more)
  BY <1>2, <1>3, <1>5 DEF CertainIn
<1>13. \A i \in DOMAIN more : TypedItem(more[i])
  BY <1>2, <1>3, <1>4
<1> QED
  BY <1>1, <1>3, <1>9, <1>11, <1>12, <1>13 DEF BeliefOK, c, P, I, more

-----------------------------------------------------------------------------
(* The policy follows from the status.                                     *)
LEMMA PolicyIs ==
  ASSUME NEW r, Poised(r), NEW res, AnswerTo(r, res)
  PROVE  res.policy \in {"active_verify", "ask_user", "abstain", "return_top_k"}
<1> DEFINE cs == r.candidates
           P  == Posterior(r)
           s  == RankedIndexes(cs, P)
<1>1. res.policy = PolicyFor(r, Status(r, P, s))
  BY DEF AnswerTo
<1>2. Status(r, P, s) \in {"unknown", "ambiguous", "resolved"}
  BY StatusIs
<1>3. r.onAmbiguous \in {"active_verify", "ask_user"} /\ r.onUnknown \in {"active_verify", "abstain"}
  BY DEF Poised, ValidRequest
<1> HIDE DEF P, s
<1> QED
  BY <1>1, <1>2, <1>3 DEF PolicyFor

(* A query that was just asked is believed as it was asked.                *)
LEMMA StartsRight ==
  ASSUME NEW r, Poised(r)
  PROVE  BeliefOK(r, r, << >>, << >>)
<1> DEFINE P == Posterior(r)
           b == Believed(r, << >>, << >>)
           I == Ids(r.candidates)
<1>1. IsWeighing(P) /\ DOMAIN P = I
  BY PosteriorFacts
<1>2. IsList(<< >>) /\ DOMAIN << >> = {}
  BY EmptyList
<1>3. ASSUME NEW f, DOMAIN f = {} PROVE ProductOf(f) = 1
  <2>1. ProductOf(f) = ProductOver(f, {})
    BY <1>3 DEF ProductOf, FoldFunction, ProductOver
  <2>2. ProductOver(f, {}) = Fold(Multiplication, 1, f, {})
    BY FS_EmptySet, ProductIsFold
  <2> QED
    BY <2>1, <2>2, FoldEmpty
<1>4. \A id : Sights(r.weights, << >>, id) = 1 /\ Words(<< >>, id) = 1
  <2> SUFFICES ASSUME NEW id PROVE Sights(r.weights, << >>, id) = 1 /\ Words(<< >>, id) = 1
    OBVIOUS
  <2> DEFINE f == [i \in DOMAIN << >> |-> Spoken(r.weights, << >>[i], id)]
             g == [i \in DOMAIN << >> |-> FeedbackFactor(id, << >>[i])]
  <2>1. DOMAIN f = {} /\ DOMAIN g = {}
    BY <1>2
  <2>2. Sights(r.weights, << >>, id) = ProductOf(f) /\ Words(<< >>, id) = ProductOf(g)
    BY DEF Sights, Words
  <2> HIDE DEF f, g
  <2> QED
    BY <1>3, <2>1, <2>2
<1>5. DOMAIN b = I /\ \A id \in I : b[id] = P[id] * Sights(r.weights, << >>, id) * Words(<< >>, id)
  BY DEF Believed
<1> HIDE DEF P, b, I
<1>6. \A id \in I : b[id] = 1 * P[id]
  BY <1>1, <1>4, <1>5 DEF IsWeighing
<1>7. Proportional(b, P)
  BY <1>1, <1>5, <1>6 DEF Proportional
<1>8. SameQuery(r, r)
  BY DEF SameQuery
<1> QED
  BY <1>2, <1>7, <1>8 DEF BeliefOK, b, P

-----------------------------------------------------------------------------
(* The request that carries the belief, what the fusion said of it, and    *)
(* the evidence that is in it, committed or about to be.                   *)
Current ==
  IF pc \in {"commit_observation", "mark", "learn", "commit_execution"} THEN pending.next ELSE request

Answer ==
  IF pc \in {"commit_observation", "mark", "learn", "commit_execution"} THEN pending.result
  ELSE IF pc = "decide" THEN precomputed ELSE result

Seen == IF pc = "commit_observation" THEN Append(observed, pending.record) ELSE observed

Told == IF pc \in {"learn", "commit_execution"} THEN fed \o pending.learned ELSE fed

Decided ==
  /\ (pc = "decide" /\ precomputed = NoResult) \/ AnswerTo(Current, Answer)
  /\ pc = "act" => result.policy = "return_top_k"
  /\ pc \in {"learn", "commit_execution"} =>
       /\ \E i \in DOMAIN asked.candidates :
            /\ target = asked.candidates[i].id
            /\ ~ Violated(asked.candidates[i]) /\ IsObject(asked.candidates[i])
       /\ \A i \in DOMAIN pending.execution.feedback :
            /\ pending.execution.feedback[i].target = target
            /\ IsWeighing(pending.execution.feedback[i].outcomes)

BeliefInv == (sound /\ Ongoing) => BeliefOK(asked, Current, Seen, Told) /\ Decided

(* A run starts believing what it was asked.                               *)
LEMMA StartBelieves ==
  ASSUME NEW r \in Request, Start(r)
  PROVE  BeliefInv'
<1>1. CASE ValidRequest(r)
  <2>1. /\ pc' = "decide" /\ asked' = r /\ request' = r /\ precomputed' = NoResult
        /\ observed' = << >> /\ fed' = << >>
    BY <1>1 DEF Start, Fresh
  <2>2. BeliefOK(r, r, << >>, << >>)
    BY <1>1, StartsRight, RequestAssumption DEF Poised
  <2>3. Current' = r /\ Seen' = << >> /\ Told' = << >>
    BY <2>1 DEF Current, Seen, Told
  <2>4. BeliefOK(asked, Current, Seen, Told)'
    BY <2>1, <2>2, <2>3 DEF BeliefOK
  <2>5. Decided'
    BY <2>1 DEF Decided
  <2> QED
    BY <2>4, <2>5 DEF BeliefInv
<1>2. CASE ~ ValidRequest(r)
  BY <1>2 DEF Start, Raise, BeliefInv, Ongoing
<1> QED
  BY <1>1, <1>2

(* The fusion of a cycle, or of the one before.                            *)
LEMMA DecideBelieves ==
  ASSUME BeliefInv, sound, NEW f \in Tampering, Decide(f)
  PROVE  BeliefInv'
<1>1. pc = "decide"
  BY DEF Decide
<1>2. PICK res \in IF precomputed # NoResult THEN {precomputed} ELSE FuseValidated(request, f) :
        IF res = NoResult THEN Raise
        ELSE /\ result' = res
             /\ IF res.policy \in {"ask_user", "abstain"}
                THEN Return(res.policy) /\ target' = NoResult
                ELSE /\ pc' = IF res.policy = "active_verify" THEN "plan" ELSE "act"
                     /\ cycle' = cycle + 1 /\ precomputed' = NoResult
                     /\ UNCHANGED <<reason, asked, request, used, executed, target,
                                    observed, observedAt, fed, fedAt>>
             /\ UNCHANGED <<chosen, pending>>
  BY Zenon DEF Decide
<1>3. CASE res = NoResult
  BY <1>2, <1>3 DEF Raise, BeliefInv, Ongoing
<1>4. CASE res # NoResult /\ res.policy \in {"ask_user", "abstain"}
  BY <1>2, <1>4 DEF Return, BeliefInv, Ongoing
<1>5. CASE res # NoResult /\ res.policy \notin {"ask_user", "abstain"}
  <2>1. BeliefOK(asked, request, observed, fed)
    BY <1>1 DEF BeliefInv, Ongoing, Current, Seen, Told
  <2>2. Poised(request)
    BY <2>1 DEF BeliefOK
  <2>3. AnswerTo(request, res)
    <3>1. CASE precomputed # NoResult
      BY <1>1, <1>2, <3>1 DEF BeliefInv, Ongoing, Decided, Current, Answer
    <3>2. CASE precomputed = NoResult
      BY <1>2, <1>5, <2>2, <3>2, TamperingIsForgery, FuseIsSound DEF Poised
    <3> QED
      BY <3>1, <3>2
  <2>4. res.policy \in {"active_verify", "return_top_k"}
    BY <1>5, <2>2, <2>3, PolicyIs
  <2>5. /\ result' = res /\ pc' = IF res.policy = "active_verify" THEN "plan" ELSE "act"
        /\ UNCHANGED <<asked, request, observed, fed>>
    BY <1>2, <1>5
  <2>6. pc' \in {"plan", "act"} /\ (pc' = "act" => result'.policy = "return_top_k")
    BY <2>4, <2>5
  <2>7. Current' = request /\ Answer' = res /\ Seen' = observed /\ Told' = fed
    BY <2>5, <2>6 DEF Current, Answer, Seen, Told
  <2>8. BeliefOK(asked, Current, Seen, Told)'
    BY <2>1, <2>5, <2>7 DEF BeliefOK
  <2>9. Decided'
    <3>1. AnswerTo(Current, Answer)'
      BY <2>3, <2>7 DEF AnswerTo
    <3> QED
      BY <2>6, <3>1 DEF Decided
  <2> QED
    BY <2>8, <2>9 DEF BeliefInv
<1> QED
  BY <1>3, <1>4, <1>5

(* Planning changes no belief.                                             *)
LEMMA PlanBelieves ==
  ASSUME BeliefInv, sound, NEW p \in Proposal, Plan(p)
  PROVE  BeliefInv'
<1>1. pc = "plan"
  BY DEF Plan
<1>2. \/ Raise
      \/ Return("stopped")
      \/ pc' = "observe" /\ UNCHANGED <<asked, request, result, observed, fed>>
  BY DEF Plan
<1>3. CASE Raise \/ Return("stopped")
  BY <1>3 DEF Raise, Return, BeliefInv, Ongoing
<1>4. CASE pc' = "observe" /\ UNCHANGED <<asked, request, result, observed, fed>>
  <2>1. BeliefOK(asked, request, observed, fed) /\ AnswerTo(request, result)
    BY <1>1 DEF BeliefInv, Ongoing, Current, Answer, Seen, Told, Decided
  <2>2. Current' = request /\ Answer' = result /\ Seen' = observed /\ Told' = fed
    BY <1>4 DEF Current, Answer, Seen, Told
  <2>3. BeliefOK(asked, Current, Seen, Told)' /\ AnswerTo(Current, Answer)'
    BY <1>4, <2>1, <2>2 DEF BeliefOK, AnswerTo
  <2> QED
    BY <1>4, <2>3 DEF BeliefInv, Decided
<1> QED
  BY <1>2, <1>3, <1>4

(* The request an observation makes stands for one sight more.             *)
LEMMA ObserveBelieves ==
  ASSUME BeliefInv, sound, NEW o \in Observation, NEW f \in Tampering, Observe(o, f)
  PROVE  BeliefInv'
<1>1. pc = "observe"
  BY DEF Observe
<1>2. BeliefOK(asked, request, observed, fed) /\ AnswerTo(request, result)
  BY <1>1 DEF BeliefInv, Ongoing, Current, Answer, Seen, Told, Decided
<1> DEFINE next == RequestAfterObservation(request, result, o)
<1>3. \/ Raise
      \/ /\ ValidObservation(request, DOMAIN result.posterior, chosen, o)
         /\ \E res \in FuseValidated(next, f) :
              /\ res # NoResult
              /\ pc' = "commit_observation"
              /\ pending' = [record |-> o, next |-> next, result |-> res]
              /\ UNCHANGED <<asked, request, result, observed, fed>>
  BY DEF Observe
<1>4. CASE Raise
  BY <1>4 DEF Raise, BeliefInv, Ongoing
<1>5. ASSUME ValidObservation(request, DOMAIN result.posterior, chosen, o),
             NEW res \in FuseValidated(next, f), res # NoResult,
             pc' = "commit_observation",
             pending' = [record |-> o, next |-> next, result |-> res],
             UNCHANGED <<asked, request, result, observed, fed>>
      PROVE  BeliefInv'
  <2>1. DOMAIN o.likelihoods = DOMAIN result.posterior
    BY <1>5 DEF ValidObservation
  <2>2. Poised(request)
    BY <1>2 DEF BeliefOK
  <2>3. TypedRequest(next)
    BY <1>2, <2>1, <2>2, ObservedBelief
  <2>4. Poised(next) /\ AnswerTo(next, res)
    <3> HIDE DEF next
    <3> QED
      BY <1>5, <2>3, TamperingIsForgery, FuseIsSound
  <2>5. BeliefOK(asked, next, Append(observed, o), fed)
    BY <1>2, <2>1, <2>4, SeeOneMore
  <2> HIDE DEF next
  <2>6. pending'.record = o /\ pending'.next = next /\ pending'.result = res
    BY <1>5
  <2>7. Current' = next /\ Answer' = res /\ Seen' = Append(observed, o) /\ Told' = fed
    BY <1>5, <2>6 DEF Current, Answer, Seen, Told
  <2>8. BeliefOK(asked, Current, Seen, Told)' /\ AnswerTo(Current, Answer)'
    BY <1>5, <2>4, <2>5, <2>7 DEF BeliefOK, AnswerTo
  <2> QED
    BY <1>5, <2>8 DEF BeliefInv, Decided
<1> QED
  BY <1>3, <1>4, <1>5

(* The sight is committed, the belief waits for the checkpoint.            *)
LEMMA CommitObservationBelieves ==
  ASSUME BeliefInv, sound, CommitObservation
  PROVE  BeliefInv'
<1>1. pc = "commit_observation"
  BY DEF CommitObservation
<1>2. \/ Raise
      \/ pc' = "mark" /\ observed' = Append(observed, pending.record)
         /\ UNCHANGED <<asked, pending, fed>>
  BY DEF CommitObservation
<1>3. CASE Raise
  BY <1>3 DEF Raise, BeliefInv, Ongoing
<1>4. CASE pc' = "mark" /\ observed' = Append(observed, pending.record) /\ UNCHANGED <<asked, pending, fed>>
  <2>1. BeliefOK(asked, pending.next, Append(observed, pending.record), fed)
        /\ AnswerTo(pending.next, pending.result)
    BY <1>1 DEF BeliefInv, Ongoing, Current, Answer, Seen, Told, Decided
  <2>2. /\ Current' = pending.next /\ Answer' = pending.result
        /\ Seen' = Append(observed, pending.record) /\ Told' = fed
    BY <1>4 DEF Current, Answer, Seen, Told
  <2>3. BeliefOK(asked, Current, Seen, Told)' /\ AnswerTo(Current, Answer)'
    BY <1>4, <2>1, <2>2 DEF BeliefOK, AnswerTo
  <2> QED
    BY <1>4, <2>3 DEF BeliefInv, Decided
<1> QED
  BY <1>2, <1>3, <1>4

(* The checkpoint makes the next request the current one.                  *)
LEMMA MarkBelieves ==
  ASSUME BeliefInv, sound, Mark
  PROVE  BeliefInv'
<1>1. /\ pc = "mark" /\ pc' = "decide" /\ request' = pending.next /\ precomputed' = pending.result
      /\ UNCHANGED <<asked, observed, fed>>
  BY DEF Mark
<1>2. BeliefOK(asked, pending.next, observed, fed) /\ AnswerTo(pending.next, pending.result)
  BY <1>1 DEF BeliefInv, Ongoing, Current, Answer, Seen, Told, Decided
<1>3. Current' = pending.next /\ Answer' = pending.result /\ Seen' = observed /\ Told' = fed
  BY <1>1 DEF Current, Answer, Seen, Told
<1>4. BeliefOK(asked, Current, Seen, Told)' /\ AnswerTo(Current, Answer)'
  BY <1>1, <1>2, <1>3 DEF BeliefOK, AnswerTo
<1> QED
  BY <1>1, <1>4 DEF BeliefInv, Decided

(* Acting sets the target, one of the query's objects not ruled out.       *)
LEMMA ActBelieves ==
  ASSUME BeliefInv, sound, NEW x \in Execution, Act(x)
  PROVE  BeliefInv'
<1>1. pc = "act"
  BY DEF Act
<1>2. BeliefOK(asked, request, observed, fed) /\ AnswerTo(request, result)
      /\ result.policy = "return_top_k"
  BY <1>1 DEF BeliefInv, Ongoing, Current, Answer, Seen, Told, Decided
<1>3. \/ Raise
      \/ /\ ConsistentExecution(x) /\ BoundExecution(request, TargetOf(result), x)
         /\ pc' = "learn" /\ target' = TargetOf(result).id
         /\ pending' = [execution |-> x, learned |-> << >>, next |-> request, result |-> result]
         /\ UNCHANGED <<asked, observed, fed>>
  BY DEF Act
<1>4. CASE Raise
  BY <1>4 DEF Raise, BeliefInv, Ongoing
<1>5. CASE /\ ConsistentExecution(x) /\ BoundExecution(request, TargetOf(result), x)
           /\ pc' = "learn" /\ target' = TargetOf(result).id
           /\ pending' = [execution |-> x, learned |-> << >>, next |-> request, result |-> result]
           /\ UNCHANGED <<asked, observed, fed>>
  <2>1. /\ pending'.execution = x /\ pending'.learned = << >>
        /\ pending'.next = request /\ pending'.result = result
    BY <1>5
  <2>2. fed \o << >> = fed
    BY <1>2, NothingMore DEF BeliefOK
  <2>3. Current' = request /\ Answer' = result /\ Seen' = observed /\ Told' = fed
    BY <1>5, <2>1, <2>2 DEF Current, Answer, Seen, Told
  <2>4. BeliefOK(asked, Current, Seen, Told)' /\ AnswerTo(Current, Answer)'
    BY <1>2, <1>5, <2>3 DEF BeliefOK, AnswerTo
  <2>5. \E i \in DOMAIN asked.candidates :
          /\ TargetOf(result).id = asked.candidates[i].id
          /\ ~ Violated(asked.candidates[i]) /\ IsObject(asked.candidates[i])
    <3>1. Poised(request) /\ SameQuery(request, asked)
      BY <1>2 DEF BeliefOK
    <3>2. PICK i \in DOMAIN request.candidates :
            /\ TargetOf(result).id = request.candidates[i].id
            /\ ~ Violated(request.candidates[i]) /\ IsObject(request.candidates[i])
      BY <1>2, <3>1, SettledAnswer
    <3>3. /\ i \in DOMAIN asked.candidates
          /\ request.candidates[i].id = asked.candidates[i].id
          /\ request.candidates[i].kind = asked.candidates[i].kind
          /\ request.candidates[i].constraints = asked.candidates[i].constraints
      BY <3>1 DEF SameQuery
    <3> QED
      BY <3>2, <3>3 DEF Violated, IsObject
  <2>6. \A i \in DOMAIN x.feedback : x.feedback[i].target = TargetOf(result).id
                                     /\ IsWeighing(x.feedback[i].outcomes)
    BY <1>5, ExecutionAssumption DEF ConsistentExecution, FeedbackFits, BoundExecution
  <2>7. Decided'
    BY <1>5, <2>1, <2>4, <2>5, <2>6 DEF Decided
  <2> QED
    BY <2>4, <2>7 DEF BeliefInv
<1> QED
  BY <1>3, <1>4, <1>5

(* A feedback that is learned is one word more, or no news.                *)
LEMMA LearnBelieves ==
  ASSUME RecordInv, BeliefInv, sound, NEW m \in Model, NEW f \in Tampering, Learn(m, f)
  PROVE  BeliefInv'
<1> DEFINE at == Len(pending.learned) + 1
           feedback == pending.execution.feedback[at]
           item == [record |-> feedback, model |-> m]
           learned == pending.learned
           Step(next, res) ==
             /\ pending' = [pending EXCEPT !.learned = Append(@, item), !.next = next, !.result = res]
             /\ pc' \in {"learn", "commit_execution"}
             /\ UNCHANGED <<asked, target, observed, fed>>
<1>1. pc = "learn"
  BY DEF Learn
<1>2. /\ DOMAIN pending = {"execution", "learned", "next", "result"}
      /\ IsList(learned) /\ IsList(fed) /\ at \in DOMAIN pending.execution.feedback
  <2>1. /\ IsList(learned) /\ IsList(pending.execution.feedback)
        /\ Len(learned) < Len(pending.execution.feedback) /\ IsList(fed)
        /\ DOMAIN pending = {"execution", "learned", "next", "result"}
    BY <1>1 DEF RecordInv, PendingInv, ListsInv
  <2> QED
    BY <2>1, ListFacts
<1>3. /\ BeliefOK(asked, pending.next, observed, fed \o learned)
      /\ AnswerTo(pending.next, pending.result)
      /\ \E i \in DOMAIN asked.candidates :
           /\ target = asked.candidates[i].id
           /\ ~ Violated(asked.candidates[i]) /\ IsObject(asked.candidates[i])
      /\ \A i \in DOMAIN pending.execution.feedback :
           /\ pending.execution.feedback[i].target = target
           /\ IsWeighing(pending.execution.feedback[i].outcomes)
  BY <1>1 DEF BeliefInv, Ongoing, Current, Answer, Seen, Told, Decided
<1>4. feedback.target = target /\ IsWeighing(feedback.outcomes)
  BY <1>2, <1>3
<1>5. item.record = feedback /\ item.model = m
  OBVIOUS
<1>6. fed \o Append(learned, item) = Append(fed \o learned, item)
  BY <1>2, ConcatAppend
<1>7. ASSUME NEW next, NEW res, Step(next, res), AnswerTo(next, res),
             BeliefOK(asked, next, observed, Append(fed \o learned, item))
      PROVE  BeliefInv'
  <2>1. /\ pending'.learned = Append(learned, item) /\ pending'.next = next
        /\ pending'.result = res /\ pending'.execution = pending.execution
    <3> HIDE DEF item
    <3> QED
      BY <1>2, <1>7
  <2>2. pc' \in {"learn", "commit_execution"} /\ UNCHANGED <<asked, target, observed, fed>>
    BY <1>7
  <2> HIDE DEF item, learned
  <2>3. /\ Current' = next /\ Answer' = res /\ Seen' = observed
        /\ Told' = Append(fed \o learned, item)
    BY <1>6, <2>1, <2>2 DEF Current, Answer, Seen, Told
  <2>4. BeliefOK(asked, Current, Seen, Told)' /\ AnswerTo(Current, Answer)'
    BY <1>7, <2>2, <2>3 DEF BeliefOK, AnswerTo
  <2>5. Decided'
    BY <1>3, <2>1, <2>2, <2>4, SMTT(30) DEF Decided
  <2> QED
    BY <2>4, <2>5 DEF BeliefInv
<1> DEFINE next1 == RequestAfterPresenceUpdate(pending.next, pending.result, target, feedback, m)
<1>8. \/ Raise
      \/ feedback.type # "search" /\ Step(pending.next, pending.result)
      \/ /\ feedback.type = "search" /\ ValidModel(pending.execution, feedback, m)
         /\ \E res \in FuseValidated(next1, f) : res # NoResult /\ Step(next1, res)
  BY Zenon DEF Learn, Updated
<1>9. CASE Raise
  BY <1>9 DEF Raise, BeliefInv, Ongoing
<1> HIDE DEF Step, feedback
<1>10. CASE feedback.type # "search" /\ Step(pending.next, pending.result)
  <2>1. TypedItem(item)
    BY <1>4, <1>5, <1>10 DEF TypedItem
  <2>2. BeliefOK(asked, pending.next, observed, Append(fed \o learned, item))
    BY <1>3, <1>5, <1>10, <2>1, HearNothing
  <2> QED
    BY <1>3, <1>7, <1>10, <2>2
<1>11. ASSUME feedback.type = "search", ValidModel(pending.execution, feedback, m),
              NEW res \in FuseValidated(next1, f), res # NoResult, Step(next1, res)
       PROVE  BeliefInv'
  <2>1. TypedItem(item)
    BY <1>4, <1>5, <1>11 DEF TypedItem, ValidModel
  <2>2. Poised(next1) /\ AnswerTo(next1, res)
    <3> DEFINE cur == pending.next
    <3>1. Poised(cur) /\ SameQuery(cur, asked)
      BY <1>3 DEF BeliefOK
    <3>2. PICK i \in DOMAIN asked.candidates :
            /\ target = asked.candidates[i].id
            /\ ~ Violated(asked.candidates[i]) /\ IsObject(asked.candidates[i])
      BY <1>3
    <3>3. target # UnknownId(cur.candidates)
          /\ \E j \in DOMAIN cur.candidates :
               target = cur.candidates[j].id /\ ~ Violated(cur.candidates[j])
      BY <3>1, <3>2, TargetStays
    <3>4. TypedRequest(next1)
      BY <1>3, <1>4, <1>11, <3>1, <3>3, SearchedBelief DEF ValidModel
    <3> HIDE DEF next1
    <3> QED
      BY <1>11, <3>4, TamperingIsForgery, FuseIsSound
  <2>3. /\ item.record.type = "search" /\ item.record.target = target
        /\ next1 = RequestAfterPresenceUpdate(pending.next, pending.result,
                                              item.record.target, item.record, item.model)
    BY <1>4, <1>5, <1>11
  <2> HIDE DEF next1, item, learned
  <2>4. BeliefOK(asked, next1, observed, Append(fed \o learned, item))
    BY <1>3, <2>1, <2>2, <2>3, HearOneMore
  <2> QED
    BY <1>7, <1>11, <2>2, <2>4
<1> QED
  BY <1>8, <1>9, <1>10, <1>11, SMTT(30)

(* The feedback is committed, and the next request is the current one.     *)
LEMMA CommitExecutionBelieves ==
  ASSUME BeliefInv, sound, CommitExecution
  PROVE  BeliefInv'
<1>1. pc = "commit_execution"
  BY DEF CommitExecution
<1>2. \/ Raise
      \/ pc' = "ended"
      \/ /\ pc' = "decide" /\ request' = pending.next /\ precomputed' = pending.result
         /\ fed' = fed \o pending.learned /\ UNCHANGED <<asked, observed>>
  BY DEF CommitExecution
<1>3. CASE Raise \/ pc' = "ended"
  BY <1>3 DEF Raise, BeliefInv, Ongoing
<1>4. CASE /\ pc' = "decide" /\ request' = pending.next /\ precomputed' = pending.result
           /\ fed' = fed \o pending.learned /\ UNCHANGED <<asked, observed>>
  <2>1. BeliefOK(asked, pending.next, observed, fed \o pending.learned)
        /\ AnswerTo(pending.next, pending.result)
    BY <1>1 DEF BeliefInv, Ongoing, Current, Answer, Seen, Told, Decided
  <2>2. /\ Current' = pending.next /\ Answer' = pending.result
        /\ Seen' = observed /\ Told' = fed \o pending.learned
    BY <1>4 DEF Current, Answer, Seen, Told
  <2>3. BeliefOK(asked, Current, Seen, Told)' /\ AnswerTo(Current, Answer)'
    BY <1>4, <2>1, <2>2 DEF BeliefOK, AnswerTo
  <2> QED
    BY <1>4, <2>3 DEF BeliefInv, Decided
<1> QED
  BY <1>2, <1>3, <1>4

(* A fusion does not change while it is used.                              *)
LEMMA SoundStays ==
  ASSUME [LoopNext]_loopVars
  PROVE  sound' = sound
<1>1. ASSUME NEW f, Decide(f) PROVE sound' = sound
  BY <1>1, Zenon DEF Decide, outside
<1>2. ASSUME NEW p, Plan(p) PROVE sound' = sound
  BY <1>2, Zenon DEF Plan, outside
<1>3. ASSUME NEW o, NEW f, Observe(o, f) PROVE sound' = sound
  BY <1>3, Zenon DEF Observe
<1>4. ASSUME NEW m, NEW f, Learn(m, f) PROVE sound' = sound
  BY <1>4, Zenon DEF Learn, outside
<1>5. ASSUME NEW x, Act(x) PROVE sound' = sound
  BY <1>5, Zenon DEF Act
<1>6. ASSUME NEW r, Start(r) PROVE sound' = sound
  BY <1>6, Zenon DEF Start
<1>7. ASSUME GiveUp \/ Mark \/ NothingToActOn \/ ProviderRaises \/ Others \/ UNCHANGED loopVars
      PROVE  sound' = sound
  BY <1>7 DEF GiveUp, Mark, NothingToActOn, ProviderRaises, Others, outside, loopVars
<1>8. ASSUME CommitObservation \/ CommitExecution PROVE sound' = sound
  BY <1>8, Zenon DEF CommitObservation, CommitExecution
<1> QED
  BY <1>1, <1>2, <1>3, <1>4, <1>5, <1>6, <1>7, <1>8 DEF LoopNext, Run

(* Every step keeps the belief right, if the numbers of the fusion are.    *)
LEMMA BeliefStep ==
  ASSUME RecordInv, BeliefInv, [LoopNext]_loopVars
  PROVE  BeliefInv'
<1>1. sound' = sound
  BY SoundStays
<1>2. CASE ~ sound
  BY <1>1, <1>2 DEF BeliefInv
<1>3. CASE sound
  <2>1. CASE Others \/ UNCHANGED loopVars
    <3>1. UNCHANGED <<pc, asked, request, precomputed, result, pending, target, observed, fed>>
      BY <2>1 DEF Others, loopVars, locals
    <3>2. UNCHANGED <<Current, Answer, Seen, Told>>
      BY <3>1 DEF Current, Answer, Seen, Told
    <3>3. BeliefOK(asked, Current, Seen, Told) => BeliefOK(asked, Current, Seen, Told)'
      BY <3>1, <3>2 DEF BeliefOK
    <3>4. Decided => Decided'
      BY <3>1, <3>2 DEF Decided, AnswerTo
    <3> QED
      BY <1>1, <3>1, <3>3, <3>4 DEF BeliefInv, Ongoing
  <2>2. CASE GiveUp \/ NothingToActOn \/ ProviderRaises
    BY <2>2 DEF GiveUp, NothingToActOn, ProviderRaises, Return, Raise, BeliefInv, Ongoing
  <2> QED
    BY <1>3, <2>1, <2>2, StartBelieves, DecideBelieves, PlanBelieves, ObserveBelieves,
       CommitObservationBelieves, MarkBelieves, ActBelieves, LearnBelieves, CommitExecutionBelieves
       DEF LoopNext, Run
<1> QED
  BY <1>2, <1>3

-----------------------------------------------------------------------------
(* Whether the numbers of the fusion are right or not, the request that is *)
(* current asks about the same candidates as the one that was asked, and   *)
(* the result at hand was taken for its answer.                            *)
Placed(a, r) == UniqueIds(a.candidates) /\ "candidates" \in DOMAIN r /\ SameQuery(r, a)

PlaceInv ==
  Ongoing => /\ Placed(asked, Current)
             /\ (pc = "decide" /\ precomputed = NoResult) \/ BoundAnswer(Current, Answer)

(* An observation leaves the candidates where they are, ...                *)
LEMMA ObservedPlaces ==
  ASSUME NEW a, NEW r, Placed(a, r), NEW res, NEW o
  PROVE  Placed(a, RequestAfterObservation(r, res, o))
<1> DEFINE q == RequestAfterObservation(r, res, o)
<1>1. /\ "candidates" \in DOMAIN q
      /\ q = [r EXCEPT !.candidates = [i \in DOMAIN r.candidates |-> AfterView(r.candidates[i], res, o)]]
  BY DEF Placed, RequestAfterObservation, AfterView
<1>2. /\ DOMAIN q.candidates = DOMAIN r.candidates
      /\ \A i \in DOMAIN r.candidates : q.candidates[i] = AfterView(r.candidates[i], res, o)
      /\ q.resolution = r.resolution /\ q.weights = r.weights
  BY <1>1 DEF Placed
<1>3. \A c : LET d == AfterView(c, res, o)
             IN  d.id = c.id /\ d.kind = c.kind /\ d.place = c.place /\ d.constraints = c.constraints
  BY DEF AfterView
<1> HIDE DEF q
<1>4. SameQuery(q, r)
  BY <1>2, <1>3 DEF SameQuery
<1> QED
  BY <1>1, <1>4, SameQueryTransitive DEF Placed, q

(* ... and so does what a search found.                                    *)
LEMMA SearchedPlaces ==
  ASSUME NEW a, NEW r, Placed(a, r), NEW res, NEW sought, NEW feedback, NEW model
  PROVE  Placed(a, RequestAfterPresenceUpdate(r, res, sought, feedback, model))
<1> DEFINE q == RequestAfterPresenceUpdate(r, res, sought, feedback, model)
<1>1. PICK t :
        q = [r EXCEPT !.candidates = [i \in DOMAIN r.candidates |-> AfterSearch(r.candidates[i], t)]]
  BY DEF RequestAfterPresenceUpdate, AfterSearch
<1> HIDE DEF q
<1>2. /\ "candidates" \in DOMAIN q
      /\ DOMAIN q.candidates = DOMAIN r.candidates
      /\ \A i \in DOMAIN r.candidates : q.candidates[i] = AfterSearch(r.candidates[i], t)
      /\ q.resolution = r.resolution /\ q.weights = r.weights
  BY <1>1 DEF Placed
<1>3. \A c : LET d == AfterSearch(c, t)
             IN  d.id = c.id /\ d.kind = c.kind /\ d.place = c.place /\ d.constraints = c.constraints
  BY DEF AfterSearch
<1>4. SameQuery(q, r)
  BY <1>2, <1>3 DEF SameQuery
<1> QED
  BY <1>2, <1>4, SameQueryTransitive DEF Placed, q

(* Every step keeps the places.                                            *)
LEMMA PlaceStep ==
  ASSUME RecordInv, PlaceInv, [LoopNext]_loopVars
  PROVE  PlaceInv'
<1>1. ASSUME Raise \/ (\E why : Return(why)) PROVE PlaceInv'
  BY <1>1 DEF Raise, Return, PlaceInv, Ongoing
<1>2. ASSUME NEW r, NEW res, Placed(asked, r), BoundAnswer(r, res),
             asked' = asked, Current' = r, Answer' = res
      PROVE  PlaceInv'
  BY <1>2 DEF PlaceInv, Placed, BoundAnswer
<1>3. ASSUME NEW r \in Request, Start(r) PROVE PlaceInv'
  <2>1. CASE ValidRequest(r)
    <3>1. pc' = "decide" /\ asked' = r /\ request' = r /\ precomputed' = NoResult
      BY <1>3, <2>1 DEF Start, Fresh
    <3>2. Current' = r
      BY <3>1 DEF Current
    <3>3. Placed(r, r)
      BY <2>1, RequestAssumption DEF Placed, SameQuery, ValidRequest, TypedRequest
    <3> QED
      BY <3>1, <3>2, <3>3 DEF PlaceInv, Placed
  <2>2. CASE ~ ValidRequest(r)
    BY <1>1, <1>3, <2>2 DEF Start
  <2> QED
    BY <2>1, <2>2
<1>4. ASSUME NEW f \in Tampering, Decide(f) PROVE PlaceInv'
  <2>1. pc = "decide" /\ Placed(asked, request) /\ (precomputed = NoResult \/ BoundAnswer(request, precomputed))
    BY <1>4 DEF Decide, PlaceInv, Ongoing, Current, Answer
  <2>2. CASE Raise \/ \E why : Return(why)
    BY <1>1, <2>2
  <2>3. CASE ~ (Raise \/ \E why : Return(why))
    <3>1. PICK res \in IF precomputed # NoResult THEN {precomputed} ELSE FuseValidated(request, f) :
            /\ res # NoResult /\ result' = res
            /\ pc' \in {"plan", "act"} /\ UNCHANGED <<asked, request>>
      <4>1. PICK res \in IF precomputed # NoResult THEN {precomputed} ELSE FuseValidated(request, f) :
              IF res = NoResult THEN Raise
              ELSE /\ result' = res
                   /\ IF res.policy \in {"ask_user", "abstain"}
                      THEN Return(res.policy) /\ target' = NoResult
                      ELSE /\ pc' = IF res.policy = "active_verify" THEN "plan" ELSE "act"
                           /\ cycle' = cycle + 1 /\ precomputed' = NoResult
                           /\ UNCHANGED <<reason, asked, request, used, executed, target,
                                          observed, observedAt, fed, fedAt>>
                   /\ UNCHANGED <<chosen, pending>>
        BY <1>4, Zenon DEF Decide
      <4> QED
        BY <2>3, <4>1
    <3>2. BoundAnswer(request, res)
      BY <2>1, <3>1, TamperingIsForgery, FuseIsBound
    <3>3. Current' = request /\ Answer' = res
      BY <3>1 DEF Current, Answer
    <3> QED
      BY <1>2, <2>1, <3>1, <3>2, <3>3
  <2> QED
    BY <2>2, <2>3
<1>5. ASSUME NEW p \in Proposal, Plan(p) PROVE PlaceInv'
  <2>1. pc = "plan" /\ Placed(asked, request) /\ BoundAnswer(request, result)
    BY <1>5 DEF Plan, PlaceInv, Ongoing, Current, Answer
  <2>2. Raise \/ Return("stopped") \/ (pc' = "observe" /\ UNCHANGED <<asked, request, result>>)
    BY <1>5 DEF Plan
  <2>3. pc' = "observe" /\ UNCHANGED <<asked, request, result>> => Current' = request /\ Answer' = result
    BY DEF Current, Answer
  <2> QED
    BY <1>1, <1>2, <2>1, <2>2, <2>3
<1>6. ASSUME NEW o \in Observation, NEW f \in Tampering, Observe(o, f) PROVE PlaceInv'
  <2> DEFINE next == RequestAfterObservation(request, result, o)
  <2>1. Placed(asked, request)
    BY <1>6 DEF Observe, PlaceInv, Ongoing, Current
  <2>2. CASE Raise
    BY <1>1, <2>2
  <2>3. CASE ~ Raise
    <3>1. PICK res \in FuseValidated(next, f) :
            /\ res # NoResult /\ pc' = "commit_observation" /\ asked' = asked
            /\ pending' = [record |-> o, next |-> next, result |-> res]
      BY <1>6, <2>3 DEF Observe
    <3>2. Placed(asked, next)
      BY <2>1, ObservedPlaces
    <3> HIDE DEF next
    <3>3. BoundAnswer(next, res)
      BY <3>1, TamperingIsForgery, FuseIsBound
    <3>4. pending'.next = next /\ pending'.result = res
      BY <3>1
    <3>5. Current' = next /\ Answer' = res
      BY <3>1, <3>4 DEF Current, Answer
    <3> QED
      BY <1>2, <3>1, <3>2, <3>3, <3>5
  <2> QED
    BY <2>2, <2>3
<1>7. ASSUME CommitObservation PROVE PlaceInv'
  <2>1. Placed(asked, pending.next) /\ BoundAnswer(pending.next, pending.result)
    BY <1>7 DEF CommitObservation, PlaceInv, Ongoing, Current, Answer
  <2>2. Raise \/ (pc' = "mark" /\ UNCHANGED <<asked, pending>>)
    BY <1>7 DEF CommitObservation
  <2>3. pc' = "mark" /\ UNCHANGED <<asked, pending>> => Current' = pending.next /\ Answer' = pending.result
    BY DEF Current, Answer
  <2> QED
    BY <1>1, <1>2, <2>1, <2>2, <2>3
<1>8. ASSUME Mark PROVE PlaceInv'
  <2>1. /\ Placed(asked, pending.next) /\ BoundAnswer(pending.next, pending.result)
        /\ pc' = "decide" /\ request' = pending.next /\ precomputed' = pending.result /\ asked' = asked
    BY <1>8 DEF Mark, PlaceInv, Ongoing, Current, Answer
  <2>2. Current' = pending.next /\ Answer' = pending.result
    BY <2>1 DEF Current, Answer
  <2> QED
    BY <1>2, <2>1, <2>2
<1>9. ASSUME NEW x \in Execution, Act(x) PROVE PlaceInv'
  <2>1. Placed(asked, request) /\ BoundAnswer(request, result)
    BY <1>9 DEF Act, PlaceInv, Ongoing, Current, Answer
  <2>2. CASE Raise
    BY <1>1, <2>2
  <2>3. CASE ~ Raise
    <3>1. /\ pc' = "learn" /\ asked' = asked
          /\ pending' = [execution |-> x, learned |-> << >>, next |-> request, result |-> result]
      BY <1>9, <2>3 DEF Act
    <3>2. pending'.next = request /\ pending'.result = result
      BY <3>1
    <3>3. Current' = request /\ Answer' = result
      BY <3>1, <3>2 DEF Current, Answer
    <3> QED
      BY <1>2, <2>1, <3>1, <3>3
  <2> QED
    BY <2>2, <2>3
<1>10. ASSUME NEW m \in Model, NEW f \in Tampering, Learn(m, f) PROVE PlaceInv'
  <2> DEFINE feedback == pending.execution.feedback[Len(pending.learned) + 1]
             item == [record |-> feedback, model |-> m]
             next == Updated(feedback, m)
  <2>1. /\ pc = "learn" /\ Placed(asked, pending.next) /\ BoundAnswer(pending.next, pending.result)
        /\ DOMAIN pending = {"execution", "learned", "next", "result"}
    BY <1>10 DEF Learn, PlaceInv, Ongoing, Current, Answer, RecordInv, PendingInv
  <2>2. CASE Raise
    BY <1>1, <2>2
  <2>3. CASE ~ Raise
    <3>1. \E r, res :
            /\ pending' = [pending EXCEPT !.learned = Append(@, item), !.next = r, !.result = res]
            /\ pc' \in {"learn", "commit_execution"} /\ asked' = asked
            /\ \/ r = pending.next /\ res = pending.result
               \/ r = next /\ res \in FuseValidated(r, f) /\ res # NoResult
      BY <1>10, <2>3, Zenon DEF Learn
    <3>2. Placed(asked, next)
      BY <2>1, SearchedPlaces DEF Updated
    <3> HIDE DEF item, next
    <3>3. PICK r, res :
            /\ pending' = [pending EXCEPT !.learned = Append(@, item), !.next = r, !.result = res]
            /\ pc' \in {"learn", "commit_execution"} /\ asked' = asked
            /\ Placed(asked, r) /\ BoundAnswer(r, res)
      BY <2>1, <3>1, <3>2, TamperingIsForgery, FuseIsBound
    <3>4. pending'.next = r /\ pending'.result = res
      BY <2>1, <3>3
    <3>5. Current' = r /\ Answer' = res
      BY <3>3, <3>4 DEF Current, Answer
    <3> QED
      BY <1>2, <3>3, <3>5
  <2> QED
    BY <2>2, <2>3
<1>11. ASSUME CommitExecution PROVE PlaceInv'
  <2>1. Placed(asked, pending.next) /\ BoundAnswer(pending.next, pending.result)
    BY <1>11 DEF CommitExecution, PlaceInv, Ongoing, Current, Answer
  <2>2. \/ Raise
        \/ pc' = "ended"
        \/ pc' = "decide" /\ request' = pending.next /\ precomputed' = pending.result /\ asked' = asked
    BY <1>11 DEF CommitExecution
  <2>3. pc' = "decide" /\ request' = pending.next /\ precomputed' = pending.result
          => Current' = pending.next /\ Answer' = pending.result
    BY DEF Current, Answer
  <2>4. pc' = "ended" => PlaceInv'
    BY DEF PlaceInv, Ongoing
  <2> QED
    BY <1>1, <1>2, <2>1, <2>2, <2>3, <2>4
<1>12. ASSUME GiveUp \/ NothingToActOn \/ ProviderRaises PROVE PlaceInv'
  BY <1>1, <1>12 DEF GiveUp, NothingToActOn, ProviderRaises
<1>13. ASSUME Others \/ UNCHANGED loopVars PROVE PlaceInv'
  <2>1. UNCHANGED <<pc, asked, request, precomputed, result, pending>>
    BY <1>13 DEF Others, loopVars, locals
  <2>2. UNCHANGED <<Current, Answer>>
    BY <2>1 DEF Current, Answer
  <2> QED
    BY <2>1, <2>2 DEF PlaceInv, Ongoing, Placed, BoundAnswer
<1> QED
  BY <1>3, <1>4, <1>5, <1>6, <1>7, <1>8, <1>9, <1>10, <1>11, <1>12, <1>13 DEF LoopNext, Run

-----------------------------------------------------------------------------
(* No run has been asked anything.                                         *)
LEMMA BeliefInit ==
  ASSUME LoopInit PROVE BeliefInv
BY DEF LoopInit, BeliefInv, Ongoing

(* The belief that a run should have, of what it committed.                *)
LEMMA CommittedIsBelieved == CommittedBelief = Believed(asked, observed, fed)
BY Zenon DEF CommittedBelief, Believed, ObservedFactor, Sights, Spoken, Words

(* A likelihood of zero is one of what was told.                           *)
LEMMA CertaintyIs == Certainty <=> CertainIn(fed)
BY DEF Certainty, CertainIn

(* The belief of a run is the posterior of the request it was asked, times *)
(* the likelihood of every observation and of every search result that it  *)
(* committed, each exactly once, unless a likelihood was zero.             *)
THEOREM BeliefSafety == LoopSpec => []BeliefIsWhatWasCommitted
<1>1. LoopInit => RecordInv /\ BeliefInv
  BY RecordInit, BeliefInit
<1>2. RecordInv /\ BeliefInv /\ [LoopNext]_loopVars => RecordInv' /\ BeliefInv'
  BY RecordStep, BeliefStep
<1>3. BeliefInv => BeliefIsWhatWasCommitted
  <2> SUFFICES ASSUME BeliefInv, sound, pc \in {"decide", "plan", "observe", "act"}, ~ Certainty
               PROVE  Posterior(request) = LowestTerms(CommittedBelief)
    BY DEF BeliefIsWhatWasCommitted
  <2>1. BeliefOK(asked, request, observed, fed)
    BY DEF BeliefInv, Ongoing, Current, Seen, Told
  <2>2. Proportional(CommittedBelief, Posterior(request)) /\ Poised(request)
    BY <2>1, CommittedIsBelieved, CertaintyIs DEF BeliefOK
  <2> QED
    BY <2>2, BackToPosterior
<1> QED
  BY <1>1, <1>2, <1>3, PTL DEF LoopSpec

(* What is proportional ranks alike, and has its share of the whole.       *)
LEMMA SharesAlike ==
  ASSUME NEW v, NEW P, IsWeighing(P), Proportional(v, P), NEW best \in DOMAIN P,
         NEW scale \in Nat, NEW share \in Nat, scale * P[best] >= share * Total(P),
         \A id \in DOMAIN P : P[id] <= P[best]
  PROVE  /\ scale * v[best] >= share * Total(v)
         /\ \A id \in DOMAIN v : v[id] <= v[best]
<1>1. PICK k \in Nat \ {0} : \A id \in DOMAIN P : v[id] = k * P[id]
  BY DEF Proportional
<1>2. DOMAIN v = DOMAIN P /\ IsFiniteSet(DOMAIN P) /\ \A id \in DOMAIN P : P[id] \in Nat
  BY DEF Proportional, IsWeighing
<1>3. Total(v) = k * Total(P)
  BY <1>1, <1>2, SumScaled DEF Total, SumFunction
<1>4. Total(P) \in Nat
  BY TotalFacts
<1> DEFINE t == Total(P)
           p == P[best]
<1>5. p \in Nat /\ t \in Nat /\ v[best] = k * p /\ Total(v) = k * t /\ scale * p >= share * t
  BY <1>1, <1>2, <1>3, <1>4
<1> HIDE DEF t, p
<1>6. scale * (k * p) >= share * (k * t)
  <2>1. scale * p \in Nat /\ share * t \in Nat
    BY <1>5
  <2>2. k * (scale * p) >= k * (share * t)
    <3> DEFINE x == scale * p
               y == share * t
    <3>1. x \in Nat /\ y \in Nat /\ x >= y /\ k \in Nat
      BY <1>5, <2>1
    <3> HIDE DEF x, y
    <3>2. k * x >= k * y
      BY <3>1
    <3> QED
      BY <3>2 DEF x, y
  <2>3. scale * (k * p) = k * (scale * p) /\ share * (k * t) = k * (share * t)
    BY <1>5
  <2> QED
    BY <2>2, <2>3
<1>7. ASSUME NEW id \in DOMAIN v PROVE v[id] <= v[best]
  <2> DEFINE q == P[id]
  <2>1. q \in Nat /\ q <= p /\ v[id] = k * q
    BY <1>1, <1>2 DEF p
  <2> HIDE DEF q
  <2> QED
    BY <1>5, <2>1
<1> QED
  BY <1>5, <1>6, <1>7

(* The robot acts only where the request that was asked puts a candidate   *)
(* of it, whatever the fusion states; by the numbers of                    *)
(* JointPosteriorFusion, on an object with every hard constraint found     *)
(* satisfied and, unless a likelihood was zero, on the one that the        *)
(* committed evidence makes the most probable, by the threshold.           *)
THEOREM SettledSafety == LoopSpec => []ActsOnSettledTargets
<1>1. LoopInit => RecordInv /\ BeliefInv /\ PlaceInv
  BY RecordInit, BeliefInit DEF LoopInit, PlaceInv, Ongoing
<1>2. RecordInv /\ BeliefInv /\ PlaceInv /\ [LoopNext]_loopVars => RecordInv' /\ BeliefInv' /\ PlaceInv'
  BY RecordStep, BeliefStep, PlaceStep
<1>3. BeliefInv /\ PlaceInv => ActsOnSettledTargets
  <2> SUFFICES ASSUME BeliefInv, PlaceInv, pc = "act", ObjectsOf(result) # {} PROVE ActsOnSettledTargets
    BY DEF ActsOnSettledTargets
  <2> DEFINE id == TargetOf(result).id
             wanted == CandidateOf(asked.candidates, id)
             belief == CommittedBelief
             P == Posterior(request)
  <2>1. PICK i \in DOMAIN asked.candidates :
          /\ id = asked.candidates[i].id /\ wanted = asked.candidates[i]
          /\ TargetOf(result).place = asked.candidates[i].place
    <3>1. Placed(asked, request) /\ BoundAnswer(request, result)
      BY DEF PlaceInv, Ongoing, Current, Answer
    <3>2. PICK k \in DOMAIN result.ranked : TargetOf(result) = result.ranked[k]
      <4> DEFINE K == ObjectsOf(result)
      <4>1. K \subseteq DOMAIN result.ranked /\ K \subseteq Nat /\ K # {}
        BY <3>1 DEF ObjectsOf, BoundAnswer
      <4>2. TargetOf(result) = result.ranked[Min(K)]
        BY DEF TargetOf
      <4> HIDE DEF K
      <4> QED
        BY <4>1, <4>2, LeastOne
    <3> DEFINE cs == request.candidates
    <3>3. id \in Ids(cs) /\ TargetOf(result).place = CandidateOf(cs, id).place
      BY <3>1, <3>2 DEF BoundAnswer, BoundResult
    <3>4. PICK i \in DOMAIN cs : id = cs[i].id
      BY <3>3 DEF Ids
    <3>5. UniqueIds(asked.candidates) /\ SameQuery(request, asked)
      BY <3>1 DEF Placed
    <3>6. /\ DOMAIN cs = DOMAIN asked.candidates
          /\ \A j \in DOMAIN cs : cs[j].id = asked.candidates[j].id /\ cs[j].place = asked.candidates[j].place
      BY <3>5 DEF SameQuery
    <3>7. UniqueIds(cs)
      BY <3>5, <3>6 DEF UniqueIds
    <3> HIDE DEF cs, id, wanted
    <3>8. CandidateOf(cs, id) = cs[i]
      BY <3>4, <3>7, CandidateAt
    <3>9. CandidateOf(asked.candidates, id) = asked.candidates[i]
      BY <3>4, <3>5, <3>6, CandidateAt
    <3> QED
      BY <3>3, <3>4, <3>6, <3>8, <3>9 DEF wanted
  <2>2. id \in Ids(asked.candidates) /\ TargetOf(result).place = wanted.place
    BY <2>1 DEF Ids
  <2>3. ASSUME sound
        PROVE  /\ BeliefOK(asked, request, observed, fed) /\ Poised(asked) /\ Poised(request)
               /\ SameQuery(request, asked)
               /\ \E j \in DOMAIN request.candidates :
                    /\ id = request.candidates[j].id
                    /\ Range(request.candidates[j].constraints) \subseteq {"satisfied"}
               /\ id \in DOMAIN P
               /\ Scale * P[id] >= request.resolution * Total(P)
               /\ \A other \in DOMAIN P : P[other] <= P[id]
    <3>1. /\ BeliefOK(asked, request, observed, fed) /\ AnswerTo(request, result)
          /\ result.policy = "return_top_k"
      BY <2>3 DEF BeliefInv, Ongoing, Current, Answer, Seen, Told, Decided
    <3>2. Poised(asked) /\ Poised(request) /\ SameQuery(request, asked)
      BY <3>1 DEF BeliefOK
    <3> QED
      BY <3>1, <3>2, SettledAnswer
  <2>4. ASSUME sound PROVE Range(wanted.constraints) \subseteq {"satisfied"}
    <3>1. PICK j \in DOMAIN request.candidates :
             /\ id = request.candidates[j].id
             /\ Range(request.candidates[j].constraints) \subseteq {"satisfied"}
      BY <2>3, <2>4
    <3>2. /\ j \in DOMAIN asked.candidates
          /\ asked.candidates[j].id = request.candidates[j].id
          /\ asked.candidates[j].constraints = request.candidates[j].constraints
      BY <2>3, <2>4 DEF SameQuery
    <3>3. UniqueIds(asked.candidates)
      BY <2>3, <2>4 DEF Poised, ValidRequest
    <3> HIDE DEF id, wanted
    <3>4. i = j
      BY <2>1, <3>1, <3>2, <3>3 DEF UniqueIds
    <3> QED
      BY <2>1, <3>1, <3>2, <3>4
  <2>5. ASSUME sound, ~ Certainty
        PROVE  /\ Scale * belief[id] >= asked.resolution * Total(belief)
               /\ \A other \in DOMAIN belief : belief[other] <= belief[id]
    <3>1. Proportional(belief, P)
      BY <2>3, <2>5, CommittedIsBelieved, CertaintyIs DEF BeliefOK
    <3>2. IsWeighing(P)
      BY <2>3, <2>5, PosteriorFacts
    <3>3. Scale \in Nat /\ request.resolution \in Nat /\ request.resolution = asked.resolution
      BY <2>3, <2>5, ScaleAssumption DEF SameQuery, Poised, TypedRequest
    <3> HIDE DEF belief, P, id
    <3>4. /\ Scale * belief[id] >= request.resolution * Total(belief)
          /\ \A other \in DOMAIN belief : belief[other] <= belief[id]
      BY <2>3, <2>5, <3>1, <3>2, <3>3, SharesAlike
    <3> QED
      BY <3>3, <3>4
  <2> QED
    BY <2>2, <2>4, <2>5 DEF ActsOnSettledTargets
<1> QED
  BY <1>1, <1>2, <1>3, PTL DEF LoopSpec

-----------------------------------------------------------------------------

(* What makes LayersFit inductive: anchors are anchors, of which there are *)
(* finitely many.                                                          *)
MapInv ==
  /\ DOMAIN static \subseteq Anchor
  /\ IsFiniteSet(DOMAIN static)
  /\ LayersFit

Forest(layer) ==
  \A group \in (SUBSET DOMAIN layer) \ {{}} : \E a \in group : layer[a].parent \notin group

(* A forest stays one when something new is put on what is there.          *)
LEMMA OneMoreAnchor ==
  ASSUME NEW layer, Forest(layer), NEW anchor, anchor \notin DOMAIN layer, NEW more,
         DOMAIN more = DOMAIN layer \cup {anchor},
         \A a \in DOMAIN layer : more[a].parent = layer[a].parent /\ layer[a].parent # anchor,
         more[anchor].parent # anchor
  PROVE  Forest(more)
<1> SUFFICES ASSUME NEW group \in SUBSET DOMAIN more, group # {}
             PROVE  \E a \in group : more[a].parent \notin group
  BY DEF Forest
<1>1. CASE group \ {anchor} = {}
  BY <1>1
<1>2. CASE group \ {anchor} # {}
  <2>1. PICK a \in group \ {anchor} : layer[a].parent \notin group \ {anchor}
    BY <1>2 DEF Forest
  <2> QED
    BY <2>1
<1> QED
  BY <1>1, <1>2

(* An anchor that is added is new, and what it stands on is not.           *)
LEMMA AddingFits ==
  ASSUME MapInv, NEW anchor \in Anchor, NEW parent \in Anchor \cup {Root}, NEW frame,
         AddStaticAnchor(anchor, parent, frame)
  PROVE  MapInv'
<1>1. /\ anchor \notin DOMAIN static
      /\ parent # Root => parent \in DOMAIN static /\ static[parent].frame = frame
      /\ staticRevision' = staticRevision + 1 /\ dynamic' = dynamic
  BY DEF AddStaticAnchor, CanAnchor
<1>2. /\ DOMAIN static' = DOMAIN static \cup {anchor}
      /\ static'[anchor] = [parent |-> parent, frame |-> frame]
      /\ \A a \in DOMAIN static : static'[a] = static[a]
  BY <1>1 DEF AddStaticAnchor, With
<1>3. IsFiniteSet(DOMAIN static') /\ Cardinality(DOMAIN static') = Cardinality(DOMAIN static) + 1
  BY <1>1, <1>2, FS_AddElement DEF MapInv
<1>4. Forest(static')
  <2>1. \A a \in DOMAIN static : static[a].parent # anchor
    BY <1>1, RootAssumption DEF MapInv, LayersFit
  <2>2. parent # anchor
    BY <1>1, RootAssumption
  <2>3. Forest(static)
    BY DEF MapInv, LayersFit, Forest
  <2> QED
    BY <1>1, <1>2, <2>1, <2>2, <2>3, OneMoreAnchor
<1>5. \A a \in DOMAIN static' : static'[a].parent # Root =>
        static'[a].parent \in DOMAIN static' /\ static'[static'[a].parent].frame = static'[a].frame
  BY <1>1, <1>2 DEF MapInv, LayersFit
<1>6. \A t \in DOMAIN dynamic' :
        dynamic'[t].anchor \in DOMAIN static' /\ static'[dynamic'[t].anchor].frame = dynamic'[t].frame
  BY <1>1, <1>2 DEF MapInv, LayersFit
<1>7. staticRevision' = Cardinality(DOMAIN static') /\ DOMAIN static' \subseteq Anchor
  BY <1>1, <1>2, <1>3 DEF MapInv, LayersFit
<1> QED
  BY <1>3, <1>4, <1>5, <1>6, <1>7 DEF MapInv, LayersFit, Forest

(* An object is placed in the frame of its anchor.                         *)
LEMMA PlacingFits ==
  ASSUME MapInv, NEW thing, NEW anchor, NEW frame, UpsertDynamicObject(thing, anchor, frame)
  PROVE  MapInv'
<1>1. /\ anchor \in DOMAIN static /\ static[anchor].frame = frame
      /\ UNCHANGED <<static, staticRevision>>
  BY DEF UpsertDynamicObject, CanPlace
<1>2. /\ DOMAIN dynamic' = DOMAIN dynamic \cup {thing}
      /\ dynamic'[thing] = [anchor |-> anchor, frame |-> frame]
      /\ \A t \in DOMAIN dynamic \ {thing} : dynamic'[t] = dynamic[t]
  BY DEF UpsertDynamicObject, With
<1>3. \A t \in DOMAIN dynamic' :
        dynamic'[t].anchor \in DOMAIN static /\ static[dynamic'[t].anchor].frame = dynamic'[t].frame
  BY <1>1, <1>2 DEF MapInv, LayersFit
<1> QED
  BY <1>1, <1>3 DEF MapInv, LayersFit

(* The anchors are trees, and frames agree along them and with the objects *)
(* on them, after any number of anchors, placements and moves.             *)
THEOREM LayerSafety == EvidenceSpec => []LayersFit
<1>1. EvidenceInit => MapInv
  <2> SUFFICES ASSUME EvidenceInit PROVE MapInv
    OBVIOUS
  <2>1. DOMAIN static = {} /\ DOMAIN dynamic = {} /\ staticRevision = 0
    BY DEF EvidenceInit
  <2> QED
    BY <2>1, FS_EmptySet DEF MapInv, LayersFit
<1>2. MapInv /\ [EvidenceNext]_evidenceVars => MapInv'
  <2> SUFFICES ASSUME MapInv, [EvidenceNext]_evidenceVars PROVE MapInv'
    OBVIOUS
  <2>1. CASE UNCHANGED mapVars
    BY <2>1 DEF mapVars, MapInv, LayersFit
  <2>2. CASE MapNext
    <3>1. PICK a \in Anchor, f \in Frame :
            \/ \E p \in Anchor \cup {Root} : AddStaticAnchor(a, p, f)
            \/ \E t \in Thing : UpsertDynamicObject(t, a, f) \/ MoveDynamicObject(t, a, f)
      BY <2>2 DEF MapNext
    <3> QED
      BY <3>1, AddingFits, PlacingFits DEF MoveDynamicObject
  <2> QED
    BY <2>1, <2>2 DEF EvidenceNext, evidenceVars, mapVars
<1>3. MapInv => LayersFit
  BY DEF MapInv
<1> QED
  BY <1>1, <1>2, <1>3, PTL DEF EvidenceSpec

-----------------------------------------------------------------------------
(* The evidence modules beside the loop.                                   *)

(* A product is as large as its factors.                                   *)
LEMMA ProductMonotone ==
  ASSUME NEW f, IsWeighing(f), NEW g, IsWeighing(g), DOMAIN g = DOMAIN f,
         \A x \in DOMAIN f : f[x] <= g[x]
  PROVE  ProductOf(f) <= ProductOf(g)
<1> DEFINE S == DOMAIN f
           F(T) == Fold(Multiplication, 1, f, T)
           G(T) == Fold(Multiplication, 1, g, T)
           W == {T \in SUBSET S : F(T) \in Nat /\ G(T) \in Nat /\ F(T) <= G(T)}
<1>1. IsFiniteSet(S) /\ \A x \in S : f[x] \in Nat /\ g[x] \in Nat /\ f[x] <= g[x]
  BY DEF IsWeighing
<1>2. {} \in W
  BY FoldEmpty
<1>3. ASSUME NEW T \in SUBSET S, NEW x \in S \ T, T \in W PROVE T \cup {x} \in W
  <2>1. F(T \cup {x}) = Multiplication[<<f[x], F(T)>>] /\ G(T \cup {x}) = Multiplication[<<g[x], G(T)>>]
    BY <1>1, FoldAdd, MultiplicationMonoid
  <2>2. /\ F(T) \in Nat /\ G(T) \in Nat /\ F(T) <= G(T)
        /\ f[x] \in Nat /\ g[x] \in Nat /\ f[x] <= g[x]
    BY <1>1, <1>3
  <2> HIDE DEF F, G
  <2>3. F(T \cup {x}) = f[x] * F(T) /\ G(T \cup {x}) = g[x] * G(T)
    BY <2>1, <2>2 DEF Multiplication
  <2>4. f[x] * F(T) \in Nat /\ g[x] * G(T) \in Nat /\ f[x] * F(T) <= g[x] * G(T)
    BY <2>2, TimesMonotone
  <2> QED
    BY <2>3, <2>4
<1>4. S \in W
  <2> HIDE DEF W, S
  <2> QED
    BY <1>1, <1>2, <1>3, SetInduction
<1> QED
  BY <1>4, ProductFacts

(* A product with one factor more.                                         *)
LEMMA ProductWith ==
  ASSUME NEW g, IsWeighing(g), NEW x \in DOMAIN g,
         NEW f, DOMAIN f = DOMAIN g \ {x}, \A y \in DOMAIN f : f[y] = g[y],
         IsWeighing(f)
  PROVE  ProductOf(g) = g[x] * ProductOf(f)
<1> DEFINE S == DOMAIN g
           R == S \ {x}
<1>1. IsFiniteSet(S) /\ IsFiniteSet(R) /\ (\A y \in S : g[y] \in Nat)
  BY FS_Subset DEF IsWeighing
<1>2. ProductOf(g) = Fold(Multiplication, 1, g, S) /\ ProductOf(f) = Fold(Multiplication, 1, f, R)
  BY ProductFacts
<1>3. ProductOf(f) \in Nat /\ g[x] \in Nat
  BY <1>1, ProductFacts
<1>4. \A y \in R : f[y] = g[y]
  OBVIOUS
<1> HIDE DEF S, R
<1>5. Fold(Multiplication, 1, f, R) = Fold(Multiplication, 1, g, R)
  BY <1>1, <1>4, FoldSame
<1>6. Fold(Multiplication, 1, g, S) = Multiplication[<<g[x], Fold(Multiplication, 1, g, R)>>]
  BY <1>1, FoldAny, MultiplicationMonoid DEF S, R
<1> QED
  BY <1>2, <1>3, <1>5, <1>6 DEF Multiplication

(* Powers of larger numbers are larger.                                    *)
LEMMA PowerMonotone ==
  ASSUME NEW a \in Nat, NEW b \in Nat, a <= b, NEW n \in Nat
  PROVE  Power(a, n) <= Power(b, n)
<1> DEFINE f == [i \in 1..n |-> a]
           g == [i \in 1..n |-> b]
<1>1. IsFiniteSet(1..n)
  <2>1. 1 \in Int /\ n \in Int
    OBVIOUS
  <2> QED
    BY <2>1, FS_Interval
<1>2. IsWeighing(f) /\ IsWeighing(g)
  BY <1>1 DEF IsWeighing
<1>3. DOMAIN g = DOMAIN f /\ \A i \in DOMAIN f : f[i] <= g[i]
  OBVIOUS
<1>4. Power(a, n) = ProductOf(f) /\ Power(b, n) = ProductOf(g)
  BY DEF Power
<1> HIDE DEF f, g
<1> QED
  BY <1>2, <1>3, <1>4, ProductMonotone

-----------------------------------------------------------------------------
(* The memory request: what its factors say on either side of the odds.    *)
SideWeights(c, side) == [f \in DOMAIN c.factors |-> Power(c.factors[f][side], c.factors[f].weight)]

(* They are positive numbers.                                              *)
LEMMA SideFacts ==
  ASSUME NEW c, TypedClaim(c), NEW side \in {"current", "gone"}
  PROVE  /\ IsWeighing(SideWeights(c, side))
         /\ DOMAIN SideWeights(c, side) = DOMAIN c.factors
         /\ \A f \in DOMAIN c.factors :
              /\ SideWeights(c, side)[f] = Power(c.factors[f][side], c.factors[f].weight)
              /\ SideWeights(c, side)[f] > 0
         /\ ProductOf(SideWeights(c, side)) \in Nat /\ ProductOf(SideWeights(c, side)) > 0
<1> DEFINE w == SideWeights(c, side)
<1>1. IsFiniteSet(DOMAIN c.factors)
  BY ClaimAssumption, FS_Subset DEF TypedClaim
<1>2. ASSUME NEW f \in DOMAIN c.factors
      PROVE  /\ Power(c.factors[f][side], c.factors[f].weight) \in Nat
             /\ Power(c.factors[f][side], c.factors[f].weight) > 0
  <2>1. c.factors[f] \in FactorWeights
    BY DEF TypedClaim
  <2>2. c.factors[f][side] \in Nat /\ c.factors[f][side] > 0 /\ c.factors[f].weight \in Nat
    BY <2>1 DEF FactorWeights
  <2> QED
    BY <2>2, PowerFacts
<1>3. DOMAIN w = DOMAIN c.factors /\ \A f \in DOMAIN c.factors : w[f] = Power(c.factors[f][side], c.factors[f].weight)
  BY DEF SideWeights
<1>4. IsWeighing(w)
  BY <1>1, <1>2 DEF IsWeighing, SideWeights
<1> HIDE DEF w
<1>5. ProductOf(w) \in Nat /\ ProductOf(w) > 0
  BY <1>2, <1>3, <1>4, ProductFacts, ProductPositive
<1>6. \A f \in DOMAIN c.factors : w[f] > 0
  BY <1>2, <1>3
<1> QED
  BY <1>3, <1>4, <1>5, <1>6 DEF w

(* The odds of a claim are numbers.                                        *)
LEMMA OddsFacts ==
  ASSUME NEW c, TypedClaim(c)
  PROVE  /\ Odds(c).current = c.prior.current * ProductOf(SideWeights(c, "current"))
         /\ Odds(c).gone = c.prior.gone * ProductOf(SideWeights(c, "gone"))
         /\ Odds(c).current \in Nat /\ Odds(c).gone \in Nat
<1>1. c.prior.current \in Nat /\ c.prior.gone \in Nat
  BY DEF TypedClaim
<1>2. /\ Odds(c).current = c.prior.current * ProductOf(SideWeights(c, "current"))
      /\ Odds(c).gone = c.prior.gone * ProductOf(SideWeights(c, "gone"))
  BY DEF Odds, SideWeights
<1>3. ProductOf(SideWeights(c, "current")) \in Nat /\ ProductOf(SideWeights(c, "gone")) \in Nat
  BY SideFacts
<1>4. \A a, b \in Nat : a * b \in Nat
  OBVIOUS
<1> QED
  BY <1>1, <1>2, <1>3, <1>4

(* One more factor multiplies the odds by its weights.                     *)
LEMMA OneFactorMore ==
  ASSUME NEW c, TypedClaim(c), NEW d, TypedClaim(d), d.prior = c.prior,
         NEW x, x \in DOMAIN d.factors, DOMAIN c.factors = DOMAIN d.factors \ {x},
         \A f \in DOMAIN c.factors : c.factors[f] = d.factors[f],
         NEW p, p = Power(d.factors[x].current, d.factors[x].weight),
         NEW q, q = Power(d.factors[x].gone, d.factors[x].weight)
  PROVE  /\ p \in Nat /\ p > 0 /\ q \in Nat /\ q > 0
         /\ Odds(d).current = Odds(c).current * p /\ Odds(d).gone = Odds(c).gone * q
<1>1. ASSUME NEW side \in {"current", "gone"}
      PROVE  /\ ProductOf(SideWeights(d, side)) = SideWeights(d, side)[x] * ProductOf(SideWeights(c, side))
             /\ SideWeights(d, side)[x] \in Nat /\ SideWeights(d, side)[x] > 0
             /\ SideWeights(d, side)[x] = Power(d.factors[x][side], d.factors[x].weight)
  <2>1. IsWeighing(SideWeights(c, side)) /\ IsWeighing(SideWeights(d, side))
    BY SideFacts
  <2>2. DOMAIN SideWeights(c, side) = DOMAIN c.factors /\ DOMAIN SideWeights(d, side) = DOMAIN d.factors
    BY SideFacts
  <2>3. \A f \in DOMAIN SideWeights(c, side) : SideWeights(c, side)[f] = SideWeights(d, side)[f]
    BY <2>2 DEF SideWeights
  <2>4. SideWeights(d, side)[x] > 0 /\ SideWeights(d, side)[x] = Power(d.factors[x][side], d.factors[x].weight)
    BY SideFacts
  <2>5. SideWeights(d, side)[x] \in Nat
    BY <2>1, <2>2 DEF IsWeighing
  <2>6. DOMAIN SideWeights(c, side) = DOMAIN SideWeights(d, side) \ {x} /\ x \in DOMAIN SideWeights(d, side)
    BY <2>2
  <2> DEFINE f == SideWeights(c, side)
             g == SideWeights(d, side)
  <2> HIDE DEF f, g
  <2>7. ProductOf(g) = g[x] * ProductOf(f)
    <3>1. IsWeighing(f) /\ IsWeighing(g) /\ x \in DOMAIN g /\ DOMAIN f = DOMAIN g \ {x}
      BY <2>1, <2>6 DEF f, g
    <3>2. \A y \in DOMAIN f : f[y] = g[y]
      BY <2>3 DEF f, g
    <3> QED
      BY <3>1, <3>2, ProductWith
  <2> QED
    BY <2>4, <2>5, <2>7 DEF f, g
<1>2. p = SideWeights(d, "current")[x] /\ q = SideWeights(d, "gone")[x]
  BY <1>1
<1>3. /\ Odds(c).current = c.prior.current * ProductOf(SideWeights(c, "current"))
      /\ Odds(c).gone = c.prior.gone * ProductOf(SideWeights(c, "gone"))
      /\ Odds(d).current = c.prior.current * ProductOf(SideWeights(d, "current"))
      /\ Odds(d).gone = c.prior.gone * ProductOf(SideWeights(d, "gone"))
  BY OddsFacts
<1>4. ProductOf(SideWeights(c, "current")) \in Nat /\ ProductOf(SideWeights(c, "gone")) \in Nat
  BY SideFacts
<1>5. c.prior.current \in Nat /\ c.prior.gone \in Nat
  BY DEF TypedClaim
<1>6. \A a, b, e \in Nat : a * (b * e) = (a * e) * b
  OBVIOUS
<1> QED
  BY <1>1, <1>2, <1>3, <1>4, <1>5, <1>6

-----------------------------------------------------------------------------
(* What favours a claim lifts its odds over no threshold downwards, and    *)
(* what speaks against it over none upwards.                               *)
LEMMA OddsMove ==
  ASSUME NEW old, NEW new, NEW p \in Nat, NEW q \in Nat, p > 0, q > 0, NEW t \in Nat,
         old.current \in Nat, old.gone \in Nat,
         new.current = old.current * p, new.gone = old.gone * q
  PROVE  /\ p >= q /\ AtLeast(old, t) => AtLeast(new, t)
         /\ p >= q /\ AtMost(new, t) => AtMost(old, t)
         /\ p <= q /\ AtLeast(new, t) => AtLeast(old, t)
         /\ p <= q /\ AtMost(old, t) => AtMost(new, t)
<1> DEFINE C == old.current
           G == old.gone
           L == Whole * C
           R == t * (C + G)
           M == t * (C * p + G * q)
<1>1. C \in Nat /\ G \in Nat /\ Whole \in Nat
  BY ClaimAssumption
<1> HIDE DEF C, G
<1>2. L \in Nat /\ R \in Nat /\ M \in Nat /\ C * p \in Nat /\ G * q \in Nat /\ G * p \in Nat
  BY <1>1
<1>3. Whole * (C * p) = L * p
  BY <1>1
<1>4. t * (C * p + G * p) = R * p
  BY <1>1
<1>5. p >= q => M <= R * p
  <2> SUFFICES ASSUME p >= q PROVE M <= R * p
    OBVIOUS
  <2>1. G * q <= G * p
    BY <1>1, TimesMonotone
  <2>2. M <= t * (C * p + G * p)
    <3>1. C * p + G * q <= C * p + G * p /\ C * p + G * q \in Nat /\ C * p + G * p \in Nat
      BY <1>2, <2>1
    <3> QED
      BY <3>1, TimesMonotone
  <2> QED
    BY <1>4, <2>2
<1>6. p <= q => R * p <= M
  <2> SUFFICES ASSUME p <= q PROVE R * p <= M
    OBVIOUS
  <2>1. G * p <= G * q
    BY <1>1, TimesMonotone
  <2>2. t * (C * p + G * p) <= M
    <3>1. C * p + G * p <= C * p + G * q /\ C * p + G * q \in Nat /\ C * p + G * p \in Nat
      BY <1>2, <2>1
    <3> QED
      BY <3>1, TimesMonotone
  <2> QED
    BY <1>4, <2>2
<1>7. (L >= R <=> L * p >= R * p) /\ (L <= R <=> L * p <= R * p) /\ L * p \in Nat /\ R * p \in Nat
  <2> HIDE DEF L, R
  <2>1. ASSUME NEW a \in Nat, NEW b \in Nat, a < b PROVE a * p < b * p
    <3>1. (a + 1) * p <= b * p
      BY <2>1, TimesMonotone
    <3>2. (a + 1) * p = a * p + p
      OBVIOUS
    <3> QED
      BY <3>1, <3>2
  <2>2. L < R \/ L = R \/ R < L
    BY <1>2
  <2>3. L * p \in Nat /\ R * p \in Nat
    BY <1>2
  <2> QED
    BY <1>2, <2>1, <2>2, <2>3
<1>8. AtLeast(old, t) <=> L >= R
  BY DEF AtLeast, C, G
<1>9. AtMost(old, t) <=> L <= R
  BY DEF AtMost, C, G
<1>10. AtLeast(new, t) <=> L * p >= M
  BY <1>3 DEF AtLeast, C, G
<1>11. AtMost(new, t) <=> L * p <= M
  BY <1>3 DEF AtMost, C, G
<1> HIDE DEF L, R, M
<1> QED
  BY <1>2, <1>5, <1>6, <1>7, <1>8, <1>9, <1>10, <1>11

-----------------------------------------------------------------------------
(* A memory request stays valid.                                           *)
MemoryInv == TypedClaim(claim) /\ ValidClaim(claim)

(* What is fresh enough is usable enough.                                  *)
LEMMA FreshIsUsable ==
  ASSUME NEW c, TypedClaim(c), ValidClaim(c), AtLeast(Odds(c), c.fresh)
  PROVE  AtLeast(Odds(c), c.usable)
<1> DEFINE a == Odds(c).current
           b == Odds(c).gone
<1>1. a \in Nat /\ b \in Nat /\ Whole \in Nat
  BY OddsFacts, ClaimAssumption
<1>2. c.usable \in Nat /\ c.fresh \in Nat /\ c.usable <= c.fresh
  BY DEF TypedClaim, ValidClaim
<1>3. Whole * a >= c.fresh * (a + b)
  BY DEF AtLeast
<1> HIDE DEF a, b
<1>4. /\ c.usable * (a + b) <= c.fresh * (a + b)
      /\ c.usable * (a + b) \in Nat /\ c.fresh * (a + b) \in Nat /\ Whole * a \in Nat
  BY <1>1, <1>2, TimesMonotone
<1>5. Whole * a >= c.usable * (a + b)
  BY <1>3, <1>4
<1> QED
  BY <1>5 DEF AtLeast, a, b

(* The cascade of project.                                                 *)
LEMMA StatusOf ==
  ASSUME NEW c, TypedClaim(c), ValidClaim(c)
  PROVE  MemoryStatus(c) =
           IF c.superseded THEN "superseded" ELSE IF c.historical THEN "historical"
           ELSE IF c.contradiction /\ AtMost(Odds(c), c.contradicted) THEN "contradicted"
           ELSE IF AtLeast(Odds(c), c.fresh) /\ c.age <= c.staleAfter THEN "fresh"
           ELSE IF AtLeast(Odds(c), c.usable) THEN "stale" ELSE "uncertain"
<1>1. AtLeast(Odds(c), c.fresh) => AtLeast(Odds(c), c.usable)
  BY FreshIsUsable
<1>2. c.superseded \in BOOLEAN /\ c.historical \in BOOLEAN
  BY DEF TypedClaim
<1> QED
  BY <1>1, <1>2 DEF MemoryStatus

(* How high the cascade lets a claim stand.                                *)
LEMMA StandingIs ==
  ASSUME NEW c, TypedClaim(c), ValidClaim(c)
  PROVE  Standing(MemoryStatus(c)) =
           IF c.superseded \/ c.historical THEN 4
           ELSE IF c.contradiction /\ AtMost(Odds(c), c.contradicted) THEN 0
           ELSE IF AtLeast(Odds(c), c.fresh) /\ c.age <= c.staleAfter THEN 3
           ELSE IF AtLeast(Odds(c), c.usable) THEN 2 ELSE 1
<1> DEFINE opposed == c.contradiction /\ AtMost(Odds(c), c.contradicted)
           fresh   == AtLeast(Odds(c), c.fresh) /\ c.age <= c.staleAfter
           usable  == AtLeast(Odds(c), c.usable)
<1>1. MemoryStatus(c) =
        IF c.superseded THEN "superseded" ELSE IF c.historical THEN "historical"
        ELSE IF opposed THEN "contradicted" ELSE IF fresh THEN "fresh" ELSE IF usable THEN "stale" ELSE "uncertain"
  BY StatusOf
<1>2. c.superseded \in BOOLEAN /\ c.historical \in BOOLEAN
  BY DEF TypedClaim
<1> HIDE DEF opposed, fresh, usable
<1>3. Standing(MemoryStatus(c)) = IF c.superseded \/ c.historical THEN 4
        ELSE IF opposed THEN 0 ELSE IF fresh THEN 3 ELSE IF usable THEN 2 ELSE 1
  BY <1>1, <1>2 DEF Standing
<1> QED
  BY <1>3 DEF opposed, fresh, usable

(* Evidence that comes in, for or against.                                 *)
LEMMA WeighMovesIt ==
  ASSUME NEW c, TypedClaim(c), ValidClaim(c), NEW d, TypedClaim(d), ValidClaim(d),
         d.prior = c.prior, d.age = c.age, d.staleAfter = c.staleAfter,
         d.fresh = c.fresh, d.usable = c.usable, d.contradicted = c.contradicted,
         d.contradiction = c.contradiction, d.historical = c.historical, d.superseded = c.superseded,
         NEW x, x \in DOMAIN d.factors, DOMAIN c.factors = DOMAIN d.factors \ {x},
         \A f \in DOMAIN c.factors : c.factors[f] = d.factors[f]
  PROVE  LET e == d.factors[x]
         IN  /\ e.current >= e.gone => Standing(MemoryStatus(d)) >= Standing(MemoryStatus(c))
             /\ e.current <= e.gone => Standing(MemoryStatus(d)) <= Standing(MemoryStatus(c))
<1> DEFINE e == d.factors[x]
           p == Power(e.current, e.weight)
           q == Power(e.gone, e.weight)
           Level(opposed, fresh, usable) ==
             IF c.superseded \/ c.historical THEN 4
             ELSE IF opposed THEN 0 ELSE IF fresh THEN 3 ELSE IF usable THEN 2 ELSE 1
<1>1. e.current \in Nat /\ e.gone \in Nat /\ e.weight \in Nat
  BY DEF TypedClaim, FactorWeights
<1>2. /\ p \in Nat /\ p > 0 /\ q \in Nat /\ q > 0
      /\ Odds(d).current = Odds(c).current * p /\ Odds(d).gone = Odds(c).gone * q
  BY OneFactorMore
<1>3. (e.current >= e.gone => p >= q) /\ (e.current <= e.gone => p <= q)
  BY <1>1, <1>2, PowerMonotone
<1>4. Odds(c).current \in Nat /\ Odds(c).gone \in Nat
  BY OddsFacts
<1>5. c.contradicted \in Nat /\ c.fresh \in Nat /\ c.usable \in Nat
  BY DEF TypedClaim
<1> DEFINE opposed(k) == k.contradiction /\ AtMost(Odds(k), k.contradicted)
           fresh(k)   == AtLeast(Odds(k), k.fresh) /\ k.age <= k.staleAfter
           usable(k)  == AtLeast(Odds(k), k.usable)
<1>6. /\ Standing(MemoryStatus(c)) = Level(opposed(c), fresh(c), usable(c))
      /\ Standing(MemoryStatus(d)) = Level(opposed(d), fresh(d), usable(d))
  BY StandingIs
<1> HIDE DEF p, q, e
<1>7. p >= q => (opposed(d) => opposed(c)) /\ (fresh(c) => fresh(d)) /\ (usable(c) => usable(d))
  <2> SUFFICES ASSUME p >= q
               PROVE (opposed(d) => opposed(c)) /\ (fresh(c) => fresh(d)) /\ (usable(c) => usable(d))
    OBVIOUS
  <2>1. /\ AtMost(Odds(d), c.contradicted) => AtMost(Odds(c), c.contradicted)
        /\ AtLeast(Odds(c), c.fresh) => AtLeast(Odds(d), c.fresh)
        /\ AtLeast(Odds(c), c.usable) => AtLeast(Odds(d), c.usable)
    BY <1>2, <1>4, <1>5, OddsMove
  <2> QED
    BY <2>1
<1>8. p <= q => (opposed(c) => opposed(d)) /\ (fresh(d) => fresh(c)) /\ (usable(d) => usable(c))
  <2> SUFFICES ASSUME p <= q
               PROVE (opposed(c) => opposed(d)) /\ (fresh(d) => fresh(c)) /\ (usable(d) => usable(c))
    OBVIOUS
  <2>1. /\ AtMost(Odds(c), c.contradicted) => AtMost(Odds(d), c.contradicted)
        /\ AtLeast(Odds(d), c.fresh) => AtLeast(Odds(c), c.fresh)
        /\ AtLeast(Odds(d), c.usable) => AtLeast(Odds(c), c.usable)
    BY <1>2, <1>4, <1>5, OddsMove
  <2> QED
    BY <2>1
<1>9. (fresh(c) => usable(c)) /\ (fresh(d) => usable(d))
  BY FreshIsUsable
<1> HIDE DEF opposed, fresh, usable
<1>10. p >= q => Standing(MemoryStatus(d)) >= Standing(MemoryStatus(c))
  BY <1>6, <1>7, <1>9
<1>11. p <= q => Standing(MemoryStatus(d)) <= Standing(MemoryStatus(c))
  BY <1>6, <1>8, <1>9
<1> QED
  BY <1>3, <1>10, <1>11 DEF e

(* A step of the memory request: what it does to the claim.                *)
LEMMA MemoryStep ==
  ASSUME MemoryInv, [MemoryNext]_memoryVars
  PROVE  MemoryInv' /\ AgeingOnlyMakesStale /\ EvidenceMovesTheStanding
<1> DEFINE c == claim
           d == claim'
<1>1. /\ TypedClaim(c) /\ ValidClaim(c) /\ c.age \in Nat
  BY DEF MemoryInv, TypedClaim
<1>2. CASE UNCHANGED claim
  <2>1. ~ (claim'.age > claim.age)
    BY <1>1, <1>2
  <2>2. DOMAIN claim'.factors \ DOMAIN claim.factors = {}
    BY <1>2
  <2> QED
    BY <1>2, <2>1, <2>2 DEF MemoryInv, AgeingOnlyMakesStale, EvidenceMovesTheStanding
<1>3. ASSUME NEW n \in Nat, claim' = [claim EXCEPT !.age = n]
      PROVE  MemoryInv' /\ AgeingOnlyMakesStale /\ EvidenceMovesTheStanding
  <2>1. TypedClaim(d)
    BY <1>1, <1>3 DEF TypedClaim
  <2>2. /\ d.prior = c.prior /\ d.factors = c.factors /\ d.age = n /\ d.staleAfter = c.staleAfter
        /\ d.fresh = c.fresh /\ d.usable = c.usable /\ d.contradicted = c.contradicted
        /\ d.contradiction = c.contradiction /\ d.historical = c.historical /\ d.superseded = c.superseded
    BY <1>1, <1>3 DEF TypedClaim
  <2>3. ValidClaim(d)
    BY <1>1, <2>2 DEF ValidClaim
  <2>4. Odds(d) = Odds(c)
    BY <2>2 DEF Odds
  <2>5. EvidenceMovesTheStanding
    BY <2>2 DEF EvidenceMovesTheStanding
  <2>6. ASSUME d.age > c.age
        PROVE  \/ MemoryStatus(d) = MemoryStatus(c)
               \/ MemoryStatus(c) = "fresh" /\ MemoryStatus(d) = "stale"
    <3>1. d.age <= d.staleAfter => c.age <= c.staleAfter
      BY <1>1, <2>1, <2>2, <2>6 DEF TypedClaim
    <3> DEFINE opposed == c.contradiction /\ AtMost(Odds(c), c.contradicted)
               sure    == AtLeast(Odds(c), c.fresh)
               usable  == AtLeast(Odds(c), c.usable)
               Recent(k) == k.age <= k.staleAfter
    <3>2. sure => usable
      BY <1>1, FreshIsUsable
    <3>3. /\ opposed <=> (d.contradiction /\ AtMost(Odds(d), d.contradicted))
          /\ sure <=> AtLeast(Odds(d), d.fresh)
          /\ usable <=> AtLeast(Odds(d), d.usable)
      BY <2>2, <2>4
    <3>4. MemoryStatus(c) =
            IF c.superseded THEN "superseded" ELSE IF c.historical THEN "historical"
            ELSE IF opposed THEN "contradicted" ELSE IF sure /\ Recent(c) THEN "fresh"
            ELSE IF usable THEN "stale" ELSE "uncertain"
      BY <1>1, StatusOf
    <3>5. MemoryStatus(d) =
            IF d.superseded THEN "superseded" ELSE IF d.historical THEN "historical"
            ELSE IF d.contradiction /\ AtMost(Odds(d), d.contradicted) THEN "contradicted"
            ELSE IF AtLeast(Odds(d), d.fresh) /\ Recent(d) THEN "fresh"
            ELSE IF AtLeast(Odds(d), d.usable) THEN "stale" ELSE "uncertain"
      BY <2>1, <2>3, StatusOf
    <3>6. Recent(d) => Recent(c)
      BY <3>1
    <3> HIDE DEF opposed, sure, usable, Recent, c, d
    <3> QED
      BY <2>2, <3>2, <3>3, <3>4, <3>5, <3>6
  <2>7. AgeingOnlyMakesStale
    BY <2>6 DEF AgeingOnlyMakesStale
  <2> QED
    BY <2>1, <2>3, <2>5, <2>7 DEF MemoryInv
<1>4. ASSUME \/ claim' = [claim EXCEPT !.contradiction = TRUE]
             \/ claim' = [claim EXCEPT !.historical = TRUE]
             \/ claim' = [claim EXCEPT !.superseded = TRUE]
      PROVE  MemoryInv' /\ AgeingOnlyMakesStale /\ EvidenceMovesTheStanding
  <2>1. TypedClaim(d)
    BY <1>1, <1>4 DEF TypedClaim
  <2>2. /\ d.prior = c.prior /\ d.factors = c.factors /\ d.age = c.age
        /\ d.fresh = c.fresh /\ d.usable = c.usable /\ d.contradicted = c.contradicted
    BY <1>1, <1>4 DEF TypedClaim
  <2>3. ValidClaim(d)
    BY <1>1, <2>2 DEF ValidClaim
  <2> QED
    BY <1>1, <2>1, <2>2, <2>3 DEF MemoryInv, AgeingOnlyMakesStale, EvidenceMovesTheStanding
<1>5. ASSUME NEW x \in Factor, NEW e \in FactorEvidence, Weigh(x, e)
      PROVE  MemoryInv' /\ AgeingOnlyMakesStale /\ EvidenceMovesTheStanding
  <2> DEFINE more == [f \in DOMAIN claim.factors \cup {x} |-> IF f = x THEN e ELSE claim.factors[f]]
  <2>1. claim' = [claim EXCEPT !.factors = more] /\ x \notin DOMAIN claim.factors
    BY <1>5 DEF Weigh
  <2>2. /\ DOMAIN more = DOMAIN c.factors \cup {x} /\ more[x] = e
        /\ \A f \in DOMAIN c.factors : more[f] = c.factors[f]
    BY <2>1
  <2>3. more \in [DOMAIN more -> FactorWeights] /\ DOMAIN more \subseteq Factor
    BY <1>1, ClaimAssumption DEF TypedClaim
  <2> HIDE DEF more
  <2>4. /\ d.prior = c.prior /\ d.factors = more /\ d.age = c.age /\ d.staleAfter = c.staleAfter
        /\ d.fresh = c.fresh /\ d.usable = c.usable /\ d.contradicted = c.contradicted
        /\ d.contradiction = c.contradiction /\ d.historical = c.historical /\ d.superseded = c.superseded
    BY <1>1, <2>1 DEF TypedClaim
  <2>5. TypedClaim(d)
    <3>1. DOMAIN d.factors \subseteq Factor /\ d.factors \in [DOMAIN d.factors -> FactorWeights]
      BY <2>3, <2>4
    <3>2. d \in [prior : [current : Nat, gone : Nat], factors : {d.factors},
                 age : Nat, staleAfter : Nat, fresh : Nat, usable : Nat, contradicted : Nat,
                 contradiction : BOOLEAN, historical : BOOLEAN, superseded : BOOLEAN]
      BY <1>1, <2>1, <2>4 DEF TypedClaim
    <3> QED
      BY <3>1, <3>2 DEF TypedClaim
  <2>6. ValidClaim(d)
    BY <1>1, <2>2, <2>4 DEF ValidClaim
  <2>7. ~ (d.age > c.age)
    BY <1>1, <2>4
  <2>8. DOMAIN d.factors \ DOMAIN c.factors = {x}
    BY <2>1, <2>2, <2>4
  <2>9. /\ e.current >= e.gone => Standing(MemoryStatus(d)) >= Standing(MemoryStatus(c))
        /\ e.current <= e.gone => Standing(MemoryStatus(d)) <= Standing(MemoryStatus(c))
    <3>1. /\ x \in DOMAIN d.factors /\ DOMAIN c.factors = DOMAIN d.factors \ {x} /\ d.factors[x] = e
          /\ \A f \in DOMAIN c.factors : c.factors[f] = d.factors[f]
      BY <2>1, <2>2, <2>4
    <3> HIDE DEF c, d
    <3> QED
      BY <1>1, <2>4, <2>5, <2>6, <3>1, WeighMovesIt
  <2> QED
    BY <2>2, <2>4, <2>5, <2>6, <2>7, <2>8, <2>9 DEF MemoryInv, AgeingOnlyMakesStale, EvidenceMovesTheStanding
<1>6. ASSUME Age \/ SeeDirectly
      PROVE  MemoryInv' /\ AgeingOnlyMakesStale /\ EvidenceMovesTheStanding
  <2>1. claim' = [claim EXCEPT !.age = c.age + 1] \/ claim' = [claim EXCEPT !.age = 0]
    BY <1>6 DEF Age, SeeDirectly
  <2> QED
    BY <1>1, <1>3, <2>1
<1> QED
  BY <1>2, <1>4, <1>5, <1>6 DEF MemoryNext, memoryVars, Contradict, KeepAsHistory, Supersede

-----------------------------------------------------------------------------
(* The identity request.                                                   *)

(* The view that speaks for its cluster.                                   *)
Best(vs, cluster, i) ==
  /\ i \in DOMAIN vs
  /\ vs[i].cluster = cluster
  /\ \A j \in DOMAIN vs : vs[j].cluster = cluster =>
       vs[j].quality < vs[i].quality \/ (vs[j].quality = vs[i].quality /\ i <= j)

(* Views whose qualities are numbers.                                      *)
TypedViews(vs) == IsList(vs) /\ \A i \in DOMAIN vs : vs[i].quality \in Nat

(* There is one such view for every cluster.                               *)
LEMMA BestExists ==
  ASSUME NEW vs, TypedViews(vs), NEW cluster \in Clusters(vs)
  PROVE  \E i : Best(vs, cluster, i)
<1> DEFINE I == {i \in DOMAIN vs : vs[i].cluster = cluster}
           Leads(i, j) == vs[j].quality < vs[i].quality \/ (vs[j].quality = vs[i].quality /\ i <= j)
           W == {T \in SUBSET I : T = {} \/ \E i \in T : \A j \in T : Leads(i, j)}
<1>1. DOMAIN vs = 1..Len(vs) /\ Len(vs) \in Nat
  BY ListFacts DEF TypedViews
<1>2. IsFiniteSet(I)
  <2>1. IsFiniteSet(1..Len(vs))
    <3>1. 1 \in Int /\ Len(vs) \in Int
      BY <1>1
    <3> QED
      BY <3>1, FS_Interval
  <2> QED
    BY <1>1, <2>1, FS_Subset
<1>3. \A i \in I : i \in Nat /\ vs[i].quality \in Nat
  BY <1>1 DEF TypedViews
<1>4. {} \in W
  OBVIOUS
<1>5. ASSUME NEW T \in SUBSET I, NEW x \in I \ T, T \in W PROVE T \cup {x} \in W
  <2> HIDE DEF I
  <2>1. CASE T = {}
    <3>1. Leads(x, x)
      BY <1>3
    <3> QED
      BY <2>1, <3>1
  <2>2. CASE T # {}
    <3>1. PICK i \in T : \A j \in T : Leads(i, j)
      BY <1>5, <2>2
    <3>2. i \in Nat /\ vs[i].quality \in Nat /\ x \in Nat /\ vs[x].quality \in Nat
      BY <1>3
    <3>3. Leads(i, x) \/ Leads(x, i)
      BY <3>2
    <3>4. CASE Leads(i, x)
      BY <3>1, <3>4
    <3>5. CASE Leads(x, i)
      <4>1. \A j \in T : Leads(x, j)
        <5> SUFFICES ASSUME NEW j \in T PROVE Leads(x, j)
          OBVIOUS
        <5>1. j \in Nat /\ vs[j].quality \in Nat
          BY <1>3
        <5> QED
          BY <3>1, <3>2, <3>5, <5>1
      <4>2. Leads(x, x)
        BY <3>2
      <4> QED
        BY <4>1, <4>2
    <3> QED
      BY <3>3, <3>4, <3>5
  <2> QED
    BY <2>1, <2>2
<1>6. I \in W
  <2> HIDE DEF W, I
  <2> QED
    BY <1>2, <1>4, <1>5, SetInduction
<1>7. I # {}
  BY DEF Clusters
<1>8. PICK i \in I : \A j \in I : Leads(i, j)
  BY <1>6, <1>7
<1> QED
  BY <1>8 DEF Best

(* The best view is what BestOf chooses.                                   *)
LEMMA BestOfIs ==
  ASSUME NEW vs, TypedViews(vs), NEW cluster, NEW i, Best(vs, cluster, i)
  PROVE  BestOf(vs, cluster) = vs[i]
<1> DEFINE k == CHOOSE k : Best(vs, cluster, k)
<1>1. Best(vs, cluster, k)
  OBVIOUS
<1>2. i \in Nat /\ vs[i].quality \in Nat /\ k \in Nat /\ vs[k].quality \in Nat
  <2>1. DOMAIN vs = 1..Len(vs) /\ \A j \in DOMAIN vs : vs[j].quality \in Nat
    BY ListFacts DEF TypedViews
  <2> HIDE DEF k
  <2>2. i \in DOMAIN vs /\ k \in DOMAIN vs
    BY <1>1 DEF Best
  <2> QED
    BY <2>1, <2>2
<1>3. k = i
  <2> HIDE DEF k
  <2>1. vs[k].quality < vs[i].quality \/ (vs[k].quality = vs[i].quality /\ i <= k)
    BY <1>1 DEF Best
  <2>2. vs[i].quality < vs[k].quality \/ (vs[i].quality = vs[k].quality /\ k <= i)
    BY <1>1 DEF Best
  <2> QED
    BY <1>2, <2>1, <2>2
<1>4. BestOf(vs, cluster) = vs[CHOOSE m \in DOMAIN vs :
        /\ vs[m].cluster = cluster
        /\ \A j \in DOMAIN vs : vs[j].cluster = cluster =>
             vs[j].quality < vs[m].quality \/ (vs[j].quality = vs[m].quality /\ m <= j)]
  BY DEF BestOf
<1>5. BestOf(vs, cluster) = vs[CHOOSE m : Best(vs, cluster, m)]
  BY <1>4 DEF Best
<1> QED
  BY <1>3, <1>5

(* Who is confirmed follows from the views that speak for their clusters.  *)
LEMMA SameVerdict ==
  ASSUME NEW q, NEW vs, NEW ws, Clusters(ws) = Clusters(vs),
         \A c \in Clusters(vs) : BestOf(ws, c) = BestOf(vs, c)
  PROVE  Verdict(q, ws) = Verdict(q, vs)
<1>1. Used(ws) = Used(vs)
  BY DEF Used
<1>2. IdentityWeights(q, ws) = IdentityWeights(q, vs)
  <2>1. ASSUME NEW id
        PROVE  [c \in Clusters(ws) |-> Power(BestOf(ws, c).likelihoods[id], BestOf(ws, c).quality)]
                 = [c \in Clusters(vs) |-> Power(BestOf(vs, c).likelihoods[id], BestOf(vs, c).quality)]
    OBVIOUS
  <2> QED
    BY <2>1 DEF IdentityWeights
<1> QED
  BY <1>1, <1>2 DEF Verdict

(* A frame that is no better than the one its cluster has.                 *)
LEMMA WorseFrame ==
  ASSUME NEW q, NEW vs, TypedViews(vs), NEW v, v.quality \in Nat,
         v.quality <= BestQuality(vs, v.cluster)
  PROVE  Verdict(q, Append(vs, v)) = Verdict(q, vs)
<1> DEFINE ws == Append(vs, v)
           n == Len(vs)
<1>1. /\ IsList(vs) /\ DOMAIN vs = 1..n /\ n \in Nat
      /\ IsList(ws) /\ DOMAIN ws = 1..(n + 1) /\ ws[n + 1] = v /\ \A i \in 1..n : ws[i] = vs[i]
  BY ListFacts, AppendFacts DEF TypedViews
<1> HIDE DEF ws, n
<1>2. v.cluster \in Clusters(vs)
  <2>1. ~ (v.quality <= -1)
    OBVIOUS
  <2> QED
    BY <2>1 DEF BestQuality
<1>3. \A j \in 1..(n + 1) : j \in 1..n \/ j = n + 1
  BY <1>1
<1>4. Clusters(ws) = Clusters(vs)
  BY <1>1, <1>2, <1>3 DEF Clusters
<1>5. TypedViews(ws)
  BY <1>1, <1>3 DEF TypedViews
<1>6. ASSUME NEW c \in Clusters(vs) PROVE BestOf(ws, c) = BestOf(vs, c)
  <2>1. PICK i : Best(vs, c, i)
    BY BestExists
  <2>2. BestOf(vs, c) = vs[i]
    BY <2>1, BestOfIs
  <2>3. i \in 1..n /\ ws[i] = vs[i] /\ vs[i].quality \in Nat /\ vs[i].cluster = c
    BY <1>1, <2>1 DEF Best, TypedViews
  <2>4. v.cluster = c => v.quality < vs[i].quality \/ (v.quality = vs[i].quality /\ i <= n + 1)
    BY <1>1, <1>2, <2>2, <2>3 DEF BestQuality
  <2>5. ASSUME NEW j \in 1..(n + 1), ws[j].cluster = c
        PROVE  ws[j].quality < ws[i].quality \/ (ws[j].quality = ws[i].quality /\ i <= j)
    <3>1. CASE j = n + 1
      BY <1>1, <2>3, <2>4, <2>5, <3>1
    <3>2. CASE j \in 1..n
      BY <1>1, <2>1, <2>3, <2>5, <3>2 DEF Best
    <3> QED
      BY <1>3, <3>1, <3>2
  <2>6. Best(ws, c, i)
    BY <1>1, <2>3, <2>5 DEF Best
  <2> QED
    BY <1>5, <2>2, <2>3, <2>6, BestOfIs
<1> QED
  BY <1>4, <1>6, SameVerdict DEF ws

(* The views the other way round.                                          *)
LEMMA OrderOfViews ==
  ASSUME NEW q, NEW vs, TypedViews(vs),
         \A i, j \in DOMAIN vs : vs[i].cluster = vs[j].cluster /\ vs[i].quality = vs[j].quality => i = j
  PROVE  Verdict(q, Reverse(vs)) = Verdict(q, vs)
<1> DEFINE ws == Reverse(vs)
           n == Len(vs)
           m(i) == (n - i) + 1
<1>1. DOMAIN vs = 1..n /\ n \in Nat
  BY ListFacts DEF TypedViews
<1>2. ws = [i \in 1..n |-> vs[m(i)]]
  BY DEF Reverse
<1>3. DOMAIN ws = 1..n /\ \A i \in 1..n : ws[i] = vs[m(i)]
  BY <1>2
<1>4. \A i \in 1..n : m(i) \in 1..n /\ m(m(i)) = i
  BY <1>1
<1> HIDE DEF ws, n
<1>5. IsList(ws) /\ Len(ws) = n
  <2>1. ws = [i \in 1..n |-> ws[i]]
    BY <1>2
  <2> QED
    BY <1>1, <1>3, <2>1, FunctionIsList
<1>6. \A i \in 1..n : vs[i] = ws[m(i)]
  BY <1>3, <1>4
<1> HIDE DEF m
<1>7. TypedViews(ws)
  BY <1>1, <1>3, <1>4, <1>5 DEF TypedViews
<1>8. Clusters(ws) = Clusters(vs)
  BY <1>1, <1>3, <1>4, <1>6 DEF Clusters
<1>9. ASSUME NEW c \in Clusters(vs) PROVE BestOf(ws, c) = BestOf(vs, c)
  <2>1. PICK i : Best(vs, c, i)
    BY BestExists
  <2>2. BestOf(vs, c) = vs[i] /\ i \in 1..n /\ vs[i].cluster = c /\ vs[i].quality \in Nat
    BY <1>1, <2>1, BestOfIs DEF Best, TypedViews
  <2>3. m(i) \in 1..n /\ ws[m(i)] = vs[i]
    BY <1>4, <1>6, <2>2
  <2>4. ASSUME NEW j \in 1..n, ws[j].cluster = c
        PROVE  ws[j].quality < vs[i].quality \/ (ws[j].quality = vs[i].quality /\ m(i) <= j)
    <3>1. m(j) \in 1..n /\ ws[j] = vs[m(j)] /\ m(m(j)) = j
      BY <1>3, <1>4
    <3>2. vs[m(j)].quality < vs[i].quality \/ vs[m(j)].quality = vs[i].quality
      BY <1>1, <2>1, <2>4, <3>1 DEF Best
    <3>3. vs[m(j)].quality = vs[i].quality => m(j) = i
      BY <1>1, <2>2, <2>4, <3>1
    <3>4. m(j) = i => m(i) <= j
      BY <3>1
    <3> QED
      BY <3>1, <3>2, <3>3, <3>4
  <2>5. Best(ws, c, m(i))
    BY <1>3, <2>2, <2>3, <2>4 DEF Best
  <2> QED
    BY <1>7, <2>2, <2>3, <2>5, BestOfIs
<1> QED
  BY <1>8, <1>9, SameVerdict DEF ws

(* There are finitely many clusters.                                       *)
LEMMA HowManyClusters ==
  ASSUME NEW vs, TypedViews(vs) PROVE Cardinality(Clusters(vs)) \in Nat
<1>1. IsFiniteSet(DOMAIN vs)
  <2>1. DOMAIN vs = 1..Len(vs) /\ Len(vs) \in Nat
    BY ListFacts DEF TypedViews
  <2>2. 1 \in Int /\ Len(vs) \in Int
    BY <2>1
  <2> QED
    BY <2>1, <2>2, FS_Interval
<1> DEFINE f == [i \in DOMAIN vs |-> vs[i].cluster]
<1>2. Clusters(vs) = {f[i] : i \in DOMAIN vs}
  BY DEF Clusters
<1> HIDE DEF f
<1>3. IsFiniteSet({f[i] : i \in DOMAIN vs})
  BY <1>1, ImageIsFinite
<1> QED
  BY <1>2, <1>3, FS_CardinalityType

(* An identity request keeps its inquiry.                                  *)
ViewsInv == inquiry \in Inquiry /\ TypedViews(views)

(* A step of the identity request.                                         *)
LEMMA IdentityStep ==
  ASSUME ViewsInv, [IdentityNext]_identityVars
  PROVE  ViewsInv' /\ FramesAreNotViews /\ VerdictIgnoresOrder'
<1>1. ViewsInv'
  <2>1. CASE UNCHANGED identityVars
    BY <2>1 DEF ViewsInv, identityVars, TypedViews
  <2>2. ASSUME NEW v \in View, AddView(v) PROVE ViewsInv'
    <3>1. views' = Append(views, v) /\ inquiry' = inquiry
      BY <2>2 DEF AddView
    <3>2. TypedViews(Append(views, v))
      <4>1. /\ IsList(views) /\ Len(views) \in Nat /\ DOMAIN views = 1..Len(views)
            /\ IsList(Append(views, v)) /\ DOMAIN Append(views, v) = 1..(Len(views) + 1)
            /\ Append(views, v)[Len(views) + 1] = v
            /\ \A i \in 1..Len(views) : Append(views, v)[i] = views[i]
        BY ListFacts, AppendFacts DEF ViewsInv, TypedViews
      <4>2. \A j \in 1..(Len(views) + 1) : j \in 1..Len(views) \/ j = Len(views) + 1
        BY <4>1
      <4> QED
        BY <4>1, <4>2, ViewAssumption DEF ViewsInv, TypedViews
    <3> QED
      BY <3>1, <3>2 DEF ViewsInv
  <2> QED
    BY <2>1, <2>2 DEF IdentityNext
<1>2. VerdictIgnoresOrder'
  BY <1>1, OrderOfViews DEF ViewsInv, VerdictIgnoresOrder, NoTies
<1>3. ASSUME NEW v \in View, AddView(v) PROVE FramesAreNotViews
  <2>1. views' = Append(views, v) /\ inquiry' = inquiry /\ v.quality \in Nat
    BY <1>3, ViewAssumption DEF AddView
  <2>2. IsList(views) /\ Len(views) \in Nat /\ Last(views') = v
    <3>1. /\ IsList(views) /\ Len(views) \in Nat
          /\ Len(Append(views, v)) = Len(views) + 1 /\ Append(views, v)[Len(views) + 1] = v
      BY ListFacts, AppendFacts DEF ViewsInv, TypedViews
    <3> QED
      BY <2>1, <3>1 DEF Last
  <2>3. v.quality <= BestQuality(views, v.cluster) => Verdict(inquiry, views') = Verdict(inquiry, views)
    BY <2>1, WorseFrame DEF ViewsInv
  <2>4. Cardinality(Clusters(views')) < inquiry.required => Verdict(inquiry, views').confirmed = {}
    <3>1. Cardinality(Clusters(views')) \in Nat
      BY <1>1, HowManyClusters DEF ViewsInv
    <3>2. inquiry.required \in Nat
      BY ViewAssumption DEF ViewsInv
    <3> SUFFICES ASSUME Cardinality(Clusters(views')) < inquiry.required
                 PROVE  Verdict(inquiry, views').confirmed = {}
      OBVIOUS
    <3>3. ~ (Cardinality(Clusters(views')) >= inquiry.required)
      BY <3>1, <3>2
    <3> DEFINE touched == \E v1 \in Used(views') : v1.modality = "tactile"
    <3>4. Verdict(inquiry, views') = [confirmed |-> {}, next |-> IF inquiry.tactile /\ ~ touched THEN "tactile" ELSE "rgbd"]
      BY <3>3, Zenon DEF Verdict
    <3> HIDE DEF touched
    <3> QED
      BY <3>4
  <2> QED
    BY <2>2, <2>3, <2>4 DEF FramesAreNotViews
<1>4. ASSUME UNCHANGED identityVars PROVE FramesAreNotViews
  <2>1. views' = views
    BY <1>4 DEF identityVars
  <2> QED
    BY <2>1 DEF FramesAreNotViews
<1> QED
  BY <1>1, <1>2, <1>3, <1>4 DEF IdentityNext

(* OnlyEvidenceCounts, for any claims, factors, inquiries and views, and   *)
(* however many of them there are.                                         *)
THEOREM EvidenceSafety == EvidenceSpec => OnlyEvidenceCounts
<1> DEFINE Inv == MemoryInv /\ ViewsInv
           Step == AgeingOnlyMakesStale /\ EvidenceMovesTheStanding /\ FramesAreNotViews /\ VerdictIgnoresOrder'
<1>1. EvidenceInit => Inv
  <2>1. TypedViews(<< >>)
    BY EmptyList DEF TypedViews
  <2> QED
    BY <2>1, ClaimAssumption DEF EvidenceInit, MemoryInv, ViewsInv
<1>2. Inv /\ [EvidenceNext]_evidenceVars => Inv' /\ Step
  <2> SUFFICES ASSUME Inv, [EvidenceNext]_evidenceVars PROVE Inv' /\ Step
    OBVIOUS
  <2>1. [MemoryNext]_memoryVars /\ [IdentityNext]_identityVars
    BY Zenon DEF EvidenceNext, evidenceVars, memoryVars, identityVars, mapVars
  <2> QED
    BY <2>1, MemoryStep, IdentityStep
<1> HIDE DEF Inv, Step
<1>3. EvidenceSpec => [][Step]_<<memoryVars, identityVars>>
  BY <1>1, <1>2, PTL DEF EvidenceSpec
<1> QED
  BY <1>3 DEF OnlyEvidenceCounts, Step
=============================================================================
