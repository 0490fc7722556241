--------------------------- MODULE RuntimeProofs ---------------------------
(***************************************************************************)
(* Proofs about InProcessRuntime: the safety properties that TLC checks    *)
(* on small instances, for every set of handlers, messages, times and      *)
(* manifests, any number of restarts, and handlers that return anything.   *)
(***************************************************************************)
EXTENDS Runtime, FiniteSetTheorems, WellFoundedInduction, SequenceTheorems, TLAPS

(* The handler whose turn it is exists: sorted finds a least name.         *)
LEMMA CurrentIsLeast ==
  ASSUME todo # {}, todo \subseteq Registration
  PROVE  Current \in todo /\ \A s \in todo : Rank[Current.name] <= Rank[s.name]
<1> DEFINE below(r) == 0..Rank[r.name]
           T == {below(r) : r \in todo}
<1>1. \A r \in todo : Rank[r.name] \in Nat
  BY NameAssumption, RegistrationAssumption
<1>2. T # {} /\ T \subseteq FiniteSubsetsOf(Nat)
  <2> SUFFICES ASSUME NEW r \in todo PROVE below(r) \in FiniteSubsetsOf(Nat)
    OBVIOUS
  <2>1. Rank[r.name] \in Nat /\ IsFiniteSet(below(r))
    BY <1>1, FS_Interval
  <2> QED
    BY <2>1 DEF FiniteSubsetsOf
<1>3. \E x \in T : \A y \in T : ~(<<y, x>> \in StrictSubsetOrdering(Nat))
  <2> HIDE DEF T
  <2> QED
    BY <1>2, FS_StrictSubsetOrderingWellFounded, WFMin, Zenon
<1>4. PICK r \in todo : \A s \in todo : ~(<<below(s), below(r)>> \in StrictSubsetOrdering(Nat))
  BY <1>3
<1>5. \A s \in todo : Rank[r.name] <= Rank[s.name]
  <2> SUFFICES ASSUME NEW s \in todo, Rank[s.name] < Rank[r.name] PROVE FALSE
    BY <1>1
  <2>1. Rank[s.name] \in Nat /\ Rank[r.name] \in Nat
    BY <1>1
  <2>2. below(s) \subseteq below(r) /\ Rank[r.name] \in below(r) /\ Rank[r.name] \notin below(s)
    BY <2>1
  <2>3. <<below(s), below(r)>> \in StrictSubsetOrdering(Nat)
    BY <2>1, <2>2 DEF StrictSubsetOrdering
  <2> QED
    BY <1>4, <2>3
<1> QED
  BY <1>5 DEF Current

(* It stays the same while no handler returns.                             *)
LEMMA CurrentStays ==
  ASSUME UNCHANGED todo
  PROVE  UNCHANGED Current
BY DEF Current

-----------------------------------------------------------------------------
Seeds == {0} \cup {m.seed : m \in Manifest}

Contexts == [handler : Name, message : Message, attempt : Nat, versions : Version,
             now : Time, seed : Seeds]

Commits == Transaction \cup {NoCommit}

Results == [handler : Name, message : Message, context : Contexts, commit : Commits]

(* What is kept of an execution has the shape of one, ...                  *)
RecordsInv ==
  /\ results \in Seq(Results)
  /\ \A k \in DOMAIN cache : cache[k] \in [message : Message, context : Contexts, commit : Commits]
  /\ phase = "finish" => try \in [context : Contexts, commit : Commits]

(* ... and what is to be run has been registered for the message.          *)
DispatchInv ==
  /\ registered \subseteq Registration
  /\ \A r, s \in registered : Clashes(r, s) => r = s
  /\ phase = "idle" => todo = {} /\ results = << >>
  /\ phase # "idle" => message \in Message /\ todo \subseteq HandlersFor(message)
  /\ phase \in {"idle", "select"} => attempt = 1
  /\ phase \in {"attempt", "finish", "fail"} => attempt <= Current.maxAttempts

ShapeInv == TypeOK /\ RecordsInv /\ DispatchInv

(* A runtime that was just made has the shape.                             *)
LEMMA InitShape == Init => ShapeInv
<1> SUFFICES ASSUME Init PROVE ShapeInv
  OBVIOUS
<1> USE DEF Init, EmptyDict
<1>1. TypeOK
  BY BoundAssumption DEF TypeOK
<1>2. RecordsInv
  BY DEF RecordsInv
<1>3. DispatchInv
  BY DEF DispatchInv
<1> QED
  BY <1>1, <1>2, <1>3 DEF ShapeInv

(* The handler whose turn it is was registered for the message.            *)
LEMMA CurrentFacts ==
  ASSUME ShapeInv, phase # "idle", todo # {}
  PROVE  /\ Current \in todo /\ Current \in registered /\ Current \in HandlersFor(message)
         /\ Current.name \in Name /\ Current.maxAttempts \in Nat \ {0}
         /\ message \in Message
<1>1. todo \subseteq Registration /\ todo \subseteq HandlersFor(message) /\ message \in Message
  BY DEF ShapeInv, TypeOK, DispatchInv
<1>2. Current \in todo
  BY <1>1, CurrentIsLeast
<1> QED
  BY <1>1, <1>2, RegistrationAssumption DEF HandlersFor

(* The times dispatch reads are times.                                     *)
LEMMA Times ==
  ASSUME ShapeInv
  PROVE  LogicalNow \in Time /\ LogicalNow \in Nat /\ CommitTimes \subseteq Time /\ Seed \in Seeds
BY ManifestAssumption, TimeAssumption DEF ShapeInv, TypeOK, LogicalNow, CommitTimes, Seed, Seeds

(* What a handler returns is a batch, and its commit a transaction under   *)
(* the handler's key.                                                      *)
LEMMA OutputFacts ==
  ASSUME ShapeInv, phase = "attempt"
  PROVE  /\ Context \in Contexts
         /\ Records(Context) \in Batch
         /\ LogKey \in Key
         /\ \A at \in CommitTimes :
              Records(Context) # << >> /\ ValidOutput(Records(Context)) =>
                LET tx == CommittedTransaction(Len(log) + 1, Records(Context), LogKey, at)
                IN  tx \in Transaction /\ ScopedKey(tx) = <<message.household, LogKey>>
<1>1. /\ Current \in Registration /\ Current.name \in Name /\ message \in Message
      /\ attempt \in 1..Current.maxAttempts /\ versions \in Version
      /\ LogicalNow \in Time /\ Seed \in Seeds /\ attempt \in Nat
  <2>1. todo # {}
    BY DEF ShapeInv, TypeOK
  <2> QED
    BY <2>1, CurrentFacts, Times DEF ShapeInv, TypeOK, DispatchInv
<1>2. Context \in Contexts
  BY <1>1 DEF Context, Contexts
<1>3. Records(Context) \in Batch
  BY <1>1, RecordsAssumption DEF Context, Seeds
<1>4. LogKey \in Key
  BY <1>1, KeyAssumption DEF LogKey
<1>5. ASSUME NEW at \in CommitTimes, Records(Context) # << >>, ValidOutput(Records(Context))
      PROVE  LET tx == CommittedTransaction(Len(log) + 1, Records(Context), LogKey, at)
             IN  tx \in Transaction /\ ScopedKey(tx) = <<message.household, LogKey>>
  <2> DEFINE batch == Records(Context)
  <2>1. batch \in Seq(Record) /\ batch # << >>
    BY <1>3, <1>5 DEF Batch
  <2>2. 1 \in DOMAIN batch /\ batch[1] \in Record
    BY <2>1
  <2>3. batch[1].household = message.household
    BY <1>5, <2>2 DEF ValidOutput
  <2>4. Len(log) + 1 \in Nat /\ at \in Time
    BY <1>5, Times DEF ShapeInv, TypeOK
  <2> QED
    BY <1>3, <1>4, <2>2, <2>3, <2>4 DEF CommittedTransaction, Transaction, ScopedKey
<1> QED
  BY <1>2, <1>3, <1>4, <1>5

-----------------------------------------------------------------------------
(* Time passes while a dispatch is in progress.                            *)
LEMMA TickShape == ASSUME ShapeInv, Tick PROVE ShapeInv'
<1> USE DEF Tick, durable, process, request, progress
<1>1. TypeOK'
  BY DEF ShapeInv, TypeOK
<1> QED
  BY <1>1, CurrentStays DEF ShapeInv, RecordsInv, DispatchInv, HandlersFor

(* A dump copies the log and touches nothing else.                         *)
LEMMA DumpShape == ASSUME ShapeInv, Dump PROVE ShapeInv'
<1> USE DEF Dump, process, request, progress
<1>1. TypeOK'
  BY DEF ShapeInv, TypeOK
<1> QED
  BY <1>1, CurrentStays DEF ShapeInv, RecordsInv, DispatchInv, HandlersFor

(* A registration that clashes with another is refused.                    *)
LEMMA RegisterShape == ASSUME ShapeInv, NEW r \in Registration, Register(r) PROVE ShapeInv'
<1> USE DEF Register, durable, request, progress
<1>1. TypeOK'
  BY DEF ShapeInv, TypeOK
<1>2. RecordsInv'
  BY DEF ShapeInv, RecordsInv
<1>3. DispatchInv'
  BY CurrentStays DEF ShapeInv, DispatchInv, Clashes
<1> QED
  BY <1>1, <1>2, <1>3 DEF ShapeInv

(* A dispatch begins with the handlers that are registered for its message. *)
LEMMA DispatchShape ==
  ASSUME ShapeInv, NEW m \in Message, NEW replay \in Manifest \cup {NoManifest}, Dispatch(m, replay)
  PROVE  ShapeInv'
<1> USE DEF Dispatch, durable, process, progress
<1>1. TypeOK'
  BY DEF ShapeInv, TypeOK, HandlersFor
<1>2. RecordsInv'
  BY DEF ShapeInv, RecordsInv
<1>3. DispatchInv'
  BY DEF ShapeInv, DispatchInv, HandlersFor
<1> QED
  BY <1>1, <1>2, <1>3 DEF ShapeInv

(* dispatch ends: it raises, or has an answer, or the process has died.    *)
LEMMA EndShape ==
  ASSUME ShapeInv, End, clock' = clock, versions' \in Version,
         log' \in Seq(Transaction), disk' = disk,
         restarts' \in 0..MaxRestart, loaded' \in 0..Len(log'),
         registered' \in {registered, {}}, cache' \in {cache, EmptyDict}
  PROVE  ShapeInv'
<1> USE DEF End
<1>1. TypeOK'
  BY DEF ShapeInv, TypeOK
<1>2. RecordsInv'
  BY DEF ShapeInv, RecordsInv, EmptyDict
<1>3. DispatchInv'
  BY DEF ShapeInv, DispatchInv
<1> QED
  BY <1>1, <1>2, <1>3 DEF ShapeInv

(* The next process knows nothing but the dump.                            *)
LEMMA RestartShape == ASSUME ShapeInv, Restart PROVE ShapeInv'
<1>1. log' \in Seq(Transaction)
  BY DEF Restart, ShapeInv, TypeOK
<1>2. loaded' \in 0..Len(log')
  BY <1>1 DEF Restart
<1>3. restarts' \in 0..MaxRestart
  BY BoundAssumption DEF Restart, ShapeInv, TypeOK
<1> QED
  BY <1>1, <1>2, <1>3, EndShape DEF Restart

(* dispatch raises or returns in a process that lives on.                  *)
LEMMA RaisedShape ==
  ASSUME ShapeInv, RefuseReusedKey \/ Fail \/ Return
  PROVE  ShapeInv'
<1>1. /\ End
      /\ UNCHANGED <<clock, log, disk, restarts, loaded, versions, registered, cache>>
  BY DEF RefuseReusedKey, Fail, Return, durable, process
<1> QED
  BY <1>1, EndShape DEF ShapeInv, TypeOK

(* A handler has a result: the next one's turn.                            *)
LEMMA AdvanceShape ==
  ASSUME ShapeInv, phase # "idle", todo # {}, NEW result \in Results, Advance(result),
         UNCHANGED <<clock, log, durable, versions, registered, request>>,
         \A k \in DOMAIN cache' :
           cache'[k] \in [message : Message, context : Contexts, commit : Commits]
  PROVE  ShapeInv'
<1> USE DEF Advance, durable, request
<1>1. TypeOK'
  BY DEF ShapeInv, TypeOK
<1>2. RecordsInv'
  BY DEF ShapeInv, RecordsInv
<1>3. DispatchInv'
  BY DEF ShapeInv, DispatchInv, HandlersFor
<1> QED
  BY <1>1, <1>2, <1>3 DEF ShapeInv

(* A cached result has the shape of a result.                              *)
LEMMA ReturnCachedShape == ASSUME ShapeInv, ReturnCached PROVE ShapeInv'
<1>1. phase = "select" /\ todo # {} /\ CacheKey \in DOMAIN cache
  BY DEF ReturnCached
<1>2. Result(cache[CacheKey].context, cache[CacheKey].commit) \in Results
  BY <1>1, CurrentFacts DEF ShapeInv, RecordsInv, Result, Results
<1> QED
  BY <1>1, <1>2, AdvanceShape DEF ReturnCached, ShapeInv, RecordsInv

(* The result of an attempt that returned is cached and handed on.         *)
LEMMA SucceedShape == ASSUME ShapeInv, Succeed PROVE ShapeInv'
<1>1. /\ phase = "finish" /\ todo # {}
      /\ try \in [context : Contexts, commit : Commits]
  BY DEF Succeed, ShapeInv, TypeOK, RecordsInv
<1>2. Result(try.context, try.commit) \in Results
  BY <1>1, CurrentFacts DEF Result, Results
<1>3. \A k \in DOMAIN cache' :
        cache'[k] \in [message : Message, context : Contexts, commit : Commits]
  <2>1. [message |-> message, context |-> try.context, commit |-> try.commit]
          \in [message : Message, context : Contexts, commit : Commits]
    BY <1>1, CurrentFacts
  <2>2. \A k \in DOMAIN cache : cache[k] \in [message : Message, context : Contexts, commit : Commits]
    BY DEF ShapeInv, RecordsInv
  <2> HIDE DEF Commits
  <2> QED
    BY <2>1, <2>2 DEF Succeed, Remember, Put
<1> QED
  BY <1>1, <1>2, <1>3, AdvanceShape DEF Succeed

(* A handler is begun, raises, or its output cannot be committed.          *)
LEMMA AttemptShape ==
  ASSUME ShapeInv, Begin \/ RaiseRetryable \/ RaiseOther \/ FinishBeforeStart
  PROVE  ShapeInv'
<1> USE DEF Begin, RaiseRetryable, RaiseOther, FinishBeforeStart, durable, process, request, progress
<1>1. TypeOK'
  BY Times DEF ShapeInv, TypeOK
<1>2. RecordsInv'
  BY DEF ShapeInv, RecordsInv
<1>3. DispatchInv'
  <2>1. phase # "idle" /\ todo # {} /\ Current' = Current
    BY CurrentStays DEF ShapeInv, TypeOK
  <2>2. attempt \in Nat /\ Current.maxAttempts \in Nat \ {0}
    BY <2>1, CurrentFacts DEF ShapeInv, TypeOK
  <2> QED
    BY <2>1, <2>2 DEF ShapeInv, DispatchInv, HandlersFor
<1> QED
  BY <1>1, <1>2, <1>3 DEF ShapeInv

(* The output of an attempt is committed in the shape of a transaction.    *)
LEMMA ReturnOutputShape == ASSUME ShapeInv, ReturnOutput PROVE ShapeInv'
<1> DEFINE batch == Records(Context)
<1>1. /\ phase = "attempt" /\ phase' \in {"finish", "fail"}
      /\ UNCHANGED <<clock, disk, restarts, loaded, versions, registered, cache, journal,
                     message, manifest, todo, results, startedAt, attempt, answers>>
  BY DEF ReturnOutput, durable, process, request
<1>2. todo # {} /\ Context \in Contexts
  BY <1>1, OutputFacts DEF ShapeInv, TypeOK
<1>3. /\ log' \in Seq(Transaction) /\ Len(log) <= Len(log')
      /\ phase' = "finish" => try' \in [context : Contexts, commit : Commits]
  <2>1. log \in Seq(Transaction) /\ Len(log) \in Nat
    BY DEF ShapeInv, TypeOK
  <2>2. CASE UNCHANGED log /\ try' = [context |-> Context, commit |-> NoCommit]
    BY <1>2, <2>1, <2>2 DEF Commits
  <2>3. CASE UNCHANGED log /\ \E i \in Committed : try' = [context |-> Context, commit |-> log[i]]
    BY <1>2, <2>1, <2>3 DEF Commits, Committed
  <2>4. ASSUME NEW at \in CommitTimes, batch # << >>, ValidOutput(batch),
               log' = Append(log, CommittedTransaction(Len(log) + 1, batch, LogKey, at)),
               try' = [context |-> Context,
                       commit |-> CommittedTransaction(Len(log) + 1, batch, LogKey, at)]
        PROVE  /\ log' \in Seq(Transaction) /\ Len(log) <= Len(log')
               /\ try' \in [context : Contexts, commit : Commits]
    <3> DEFINE tx == CommittedTransaction(Len(log) + 1, batch, LogKey, at)
    <3>1. tx \in Transaction
      BY <1>1, <2>4, OutputFacts
    <3> HIDE DEF tx
    <3>2. log' = Append(log, tx) /\ try' = [context |-> Context, commit |-> tx]
      BY <2>4 DEF tx
    <3> QED
      BY <1>2, <2>1, <3>1, <3>2 DEF Commits
  <2>5. CASE UNCHANGED log /\ phase' = "fail"
    BY <2>1, <2>5
  <2> QED
    BY <2>2, <2>3, <2>4, <2>5 DEF ReturnOutput
<1>4. TypeOK'
  BY <1>1, <1>2, <1>3 DEF ShapeInv, TypeOK
<1>5. RecordsInv'
  BY <1>1, <1>3 DEF ShapeInv, RecordsInv
<1>6. DispatchInv'
  BY <1>1, CurrentStays DEF ShapeInv, DispatchInv, HandlersFor
<1> QED
  BY <1>4, <1>5, <1>6 DEF ShapeInv

(* No step of the runtime breaks the shape of its state.                   *)
LEMMA ShapeStep ==
  ASSUME ShapeInv, [Next]_vars
  PROVE  ShapeInv'
<1>1. CASE Step
  BY <1>1, ReturnCachedShape, RaisedShape, AttemptShape, ReturnOutputShape, SucceedShape DEF Step
<1>2. CASE Tick \/ Dump \/ Restart
  BY <1>2, TickShape, DumpShape, RestartShape
<1>3. CASE \E r \in Registration : Register(r)
  BY <1>3, RegisterShape
<1>4. CASE \E m \in Message, replay \in Manifest \cup {NoManifest} : Dispatch(m, replay)
  BY <1>4, DispatchShape
<1>5. CASE UNCHANGED vars
  BY <1>5, CurrentStays DEF vars, durable, process, request, progress, ShapeInv, TypeOK,
     RecordsInv, DispatchInv, HandlersFor
<1> QED
  BY <1>1, <1>2, <1>3, <1>4, <1>5 DEF Next

(* The state of the runtime always has its shape.                          *)
THEOREM ShapeInvariance == Spec => []ShapeInv
BY ShapeStep, InitShape, PTL DEF Spec

(* Every variable keeps the shape the code gives it.                       *)
THEOREM RuntimeTypeCorrectness == Spec => []TypeOK
BY ShapeInvariance, PTL DEF ShapeInv

-----------------------------------------------------------------------------
(* What a callback's return does to the log: nothing, or one commit under  *)
(* the handler's key.                                                      *)
LEMMA CommitFacts ==
  ASSUME ShapeInv, ReturnOutput
  PROVE  \/ UNCHANGED log
         \/ \E tx \in Transaction :
              /\ log' = Append(log, tx)
              /\ try' = [context |-> Context, commit |-> tx] /\ phase' = "finish"
              /\ tx.seq = Len(log) + 1 /\ tx.records = Records(Context)
              /\ tx.household = message.household
              /\ ScopedKey(tx) = <<message.household, LogKey>>
              /\ Records(Context) # << >> /\ AppendCommits(Records(Context))
<1> DEFINE batch == Records(Context)
           tx(at) == CommittedTransaction(Len(log) + 1, batch, LogKey, at)
<1>1. CASE ~UNCHANGED log
  <2>1. PICK at \in CommitTimes :
          /\ batch # << >> /\ ValidOutput(batch) /\ AppendCommits(batch)
          /\ log' = Append(log, tx(at))
          /\ try' = [context |-> Context, commit |-> tx(at)]
          /\ phase' = "finish"
    BY <1>1 DEF ReturnOutput
  <2>2. tx(at) \in Transaction /\ ScopedKey(tx(at)) = <<message.household, LogKey>>
    BY <2>1, OutputFacts DEF ReturnOutput
  <2>3. /\ tx(at).seq = Len(log) + 1 /\ tx(at).records = batch
        /\ tx(at).household = message.household
    <3>1. ScopedKey(tx(at))[1] = tx(at).household
      BY DEF ScopedKey
    <3> QED
      BY <2>2, <3>1 DEF CommittedTransaction
  <2> QED
    BY <2>1, <2>2, <2>3
<1> QED
  BY <1>1

(* A log numbers its transactions and has one of each key.                 *)
Numbered(txs) ==
  /\ \A i \in DOMAIN txs : txs[i].seq = i
  /\ \A i, j \in DOMAIN txs : ScopedKey(txs[i]) = ScopedKey(txs[j]) => i = j

LogInv == Numbered(log) /\ (disk # NoDump => Numbered(disk))

(* A callback's return keeps it so.                                        *)
LEMMA CommitNumbered ==
  ASSUME ShapeInv, Numbered(log), ReturnOutput
  PROVE  Numbered(log)'
<1>1. CASE UNCHANGED log
  BY <1>1 DEF Numbered
<1>2. ASSUME NEW tx \in Transaction, log' = Append(log, tx), tx.seq = Len(log) + 1,
             ScopedKey(tx) = <<message.household, LogKey>>, Committed = {}
      PROVE  Numbered(log)'
  <2>1. /\ log \in Seq(Transaction) /\ Len(log) \in Nat /\ DOMAIN log = 1..Len(log)
        /\ DOMAIN log' = 1..(Len(log) + 1)
        /\ \A i \in DOMAIN log : log'[i] = log[i]
        /\ log'[Len(log) + 1] = tx
    BY <1>2 DEF ShapeInv, TypeOK
  <2>2. \A i \in DOMAIN log : ScopedKey(log[i]) # ScopedKey(tx)
    BY <1>2 DEF Committed
  <2>3. \A i \in DOMAIN log' : log'[i].seq = i
    BY <1>2, <2>1 DEF Numbered
  <2>4. \A i, j \in DOMAIN log' : ScopedKey(log'[i]) = ScopedKey(log'[j]) => i = j
    BY <2>1, <2>2 DEF Numbered
  <2> QED
    BY <2>3, <2>4 DEF Numbered
<1> QED
  BY <1>1, <1>2, CommitFacts DEF AppendCommits

(* Every step but a commit leaves the log as it was, or loads the dump.    *)
LEMMA LogStep ==
  ASSUME ShapeInv, LogInv, [Next]_vars
  PROVE  LogInv'
<1> USE DEF LogInv
<1>1. CASE ReturnOutput
  BY <1>1, CommitNumbered DEF ReturnOutput, durable
<1>2. CASE Dump
  BY <1>2 DEF Dump
<1>3. CASE Restart
  BY <1>3 DEF Restart, Numbered
<1>4. CASE UNCHANGED <<log, disk>>
  BY <1>4 DEF Numbered
<1> QED
  BY <1>1, <1>2, <1>3, <1>4 DEF Next, Step, Tick, Register, Dispatch, ReturnCached,
     RefuseReusedKey, Begin, RaiseRetryable, RaiseOther, Succeed, FinishBeforeStart, Fail,
     Return, vars, durable

(* Log and dump number their transactions and have one of each key.        *)
THEOREM LogInvariance == Spec => []LogInv
<1>1. Init => LogInv
  BY DEF Init, LogInv, Numbered
<1> QED
  BY <1>1, LogStep, ShapeInvariance, PTL DEF Spec

-----------------------------------------------------------------------------
(* A commit was made under the key of a handler and a message.             *)
UnderKey(commit, household, name, key) ==
  commit # NoCommit => ScopedKey(commit) = <<household, <<"handler">> \o name \o key>>

KeyInv ==
  /\ \A k \in DOMAIN cache : UnderKey(cache[k].commit, k[1], k[2], k[3])
  /\ phase = "finish" =>
       UnderKey(try.commit, message.household, Current.name, message.key)
  /\ \A x \in {results[i] : i \in DOMAIN results} \cup answers :
       UnderKey(x.commit, x.message.household, x.handler, x.message.key)

(* What the attempt that returned has to show.                             *)
LEMMA TryKey ==
  ASSUME ReturnOutput, ShapeInv, phase' = "finish"
  PROVE  UnderKey(try.commit, message.household, Current.name, message.key)'
<1>1. UNCHANGED <<Current, message>>
  BY CurrentStays DEF ReturnOutput, request
<1>2. \/ try'.commit = NoCommit
      \/ \E i \in Committed : try'.commit = log[i]
      \/ ScopedKey(try'.commit) = <<message.household, LogKey>>
  <2>1. CASE UNCHANGED log
    BY <2>1 DEF ReturnOutput
  <2>2. CASE ~UNCHANGED log
    BY <2>2, CommitFacts
  <2> QED
    BY <2>1, <2>2
<1>3. try'.commit # NoCommit => ScopedKey(try'.commit) = <<message.household, LogKey>>
  BY <1>2 DEF Committed
<1> QED
  BY <1>1, <1>3 DEF UnderKey, LogKey, ScopedKey

(* A result that is added to the others keeps the rest.                    *)
LEMMA AdvanceKey ==
  ASSUME ShapeInv, KeyInv, NEW result \in Results, Advance(result), UNCHANGED answers,
         UnderKey(result.commit, result.message.household, result.handler, result.message.key)
  PROVE  \A x \in {results'[i] : i \in DOMAIN results'} \cup answers' :
           UnderKey(x.commit, x.message.household, x.handler, x.message.key)
<1>1. results \in Seq(Results) /\ results' = Append(results, result)
  BY DEF ShapeInv, RecordsInv, Advance
<1>2. {results'[i] : i \in DOMAIN results'} \subseteq {results[i] : i \in DOMAIN results} \cup {result}
  BY <1>1
<1> QED
  BY <1>2 DEF KeyInv

(* No step gives anybody a commit of another key.                          *)
LEMMA KeyStep ==
  ASSUME ShapeInv, KeyInv, [Next]_vars
  PROVE  KeyInv'
<1>1. CASE ReturnOutput
  <2>1. UNCHANGED <<cache, results, answers>> /\ phase' \in {"finish", "fail"}
    BY <1>1 DEF ReturnOutput, process
  <2> QED
    BY <1>1, <2>1, TryKey DEF KeyInv
<1>2. CASE ReturnCached
  <2> DEFINE result == Result(cache[CacheKey].context, cache[CacheKey].commit)
  <2>1. /\ phase = "select" /\ todo # {} /\ CacheKey \in DOMAIN cache
        /\ phase' = "select" /\ UNCHANGED <<cache, answers>> /\ Advance(result)
    BY <1>2 DEF ReturnCached, Advance
  <2>2. result \in Results
    BY <2>1, CurrentFacts DEF ShapeInv, RecordsInv, Result, Results
  <2>3. UnderKey(result.commit, result.message.household, result.handler, result.message.key)
    BY <2>1 DEF KeyInv, Result, CacheKey
  <2> HIDE DEF result
  <2>4. \A x \in {results'[i] : i \in DOMAIN results'} \cup answers' :
          UnderKey(x.commit, x.message.household, x.handler, x.message.key)
    BY <2>1, <2>2, <2>3, AdvanceKey
  <2> QED
    BY <2>1, <2>4 DEF KeyInv
<1>3. CASE Succeed
  <2> DEFINE result == Result(try.context, try.commit)
  <2>1. /\ phase = "finish" /\ phase' = "select" /\ UNCHANGED answers /\ Advance(result)
        /\ cache' = Put(cache, CacheKey, [message |-> message, context |-> try.context,
                                          commit |-> try.commit])
    BY <1>3 DEF Succeed, Advance, Remember
  <2>2. result \in Results
    BY <2>1, CurrentFacts DEF ShapeInv, TypeOK, RecordsInv, Result, Results
  <2>3. UnderKey(try.commit, message.household, Current.name, message.key)
    BY <2>1 DEF KeyInv
  <2>4. UnderKey(result.commit, result.message.household, result.handler, result.message.key)
    BY <2>3 DEF Result
  <2>5. \A k \in DOMAIN cache' : UnderKey(cache'[k].commit, k[1], k[2], k[3])
    <3> SUFFICES ASSUME NEW k \in DOMAIN cache'
                 PROVE  UnderKey(cache'[k].commit, k[1], k[2], k[3])
      OBVIOUS
    <3>1. CASE k = CacheKey
      <4>1. cache'[k].commit = try.commit
        BY <2>1, <3>1 DEF Put
      <4> QED
        BY <2>3, <3>1, <4>1 DEF CacheKey
    <3>2. CASE k # CacheKey
      <4>1. k \in DOMAIN cache /\ cache'[k] = cache[k]
        BY <2>1, <3>2 DEF Put
      <4> QED
        BY <4>1 DEF KeyInv
    <3> QED
      BY <3>1, <3>2
  <2> HIDE DEF result
  <2>6. \A x \in {results'[i] : i \in DOMAIN results'} \cup answers' :
          UnderKey(x.commit, x.message.household, x.handler, x.message.key)
    BY <2>1, <2>2, <2>4, AdvanceKey
  <2> QED
    BY <2>1, <2>5, <2>6 DEF KeyInv
<1>4. CASE Return
  <2>1. /\ results' = << >> /\ phase' = "idle" /\ UNCHANGED cache
        /\ answers' = answers \cup {results[i] : i \in DOMAIN results}
    BY <1>4 DEF Return, End, process
  <2> QED
    BY <2>1 DEF KeyInv
<1>5. CASE RefuseReusedKey \/ Fail \/ Restart
  <2>1. /\ results' = << >> /\ phase' = "idle" /\ UNCHANGED answers
        /\ cache' = cache \/ cache' = EmptyDict
    BY <1>5 DEF RefuseReusedKey, Fail, Restart, End, process
  <2> QED
    BY <2>1 DEF KeyInv, EmptyDict
<1>6. CASE \E m \in Message, replay \in Manifest \cup {NoManifest} : Dispatch(m, replay)
  <2>1. results' = << >> /\ phase' = "select" /\ UNCHANGED <<cache, answers>>
    BY <1>6 DEF Dispatch, process
  <2> QED
    BY <2>1 DEF KeyInv
<1>7. CASE UNCHANGED <<cache, results, answers, todo, message, try>> /\ phase' \in {phase, "attempt", "fail"}
  BY <1>7, CurrentStays DEF KeyInv
<1>8. ASSUME Tick \/ Dump \/ (\E r \in Registration : Register(r)) \/ Begin \/ RaiseRetryable
             \/ RaiseOther \/ FinishBeforeStart \/ UNCHANGED vars
      PROVE  /\ UNCHANGED <<cache, results, answers, todo, message, try>>
             /\ phase' \in {phase, "attempt", "fail"}
  BY <1>8 DEF Tick, Dump, Register, Begin, RaiseRetryable, RaiseOther, FinishBeforeStart,
     vars, process, request, progress
<1> QED
  BY <1>1, <1>2, <1>3, <1>4, <1>5, <1>6, <1>7, <1>8 DEF Next, Step

(* Every commit the runtime holds, returns or has ever returned was made   *)
(* under the key of its handler and message.                               *)
THEOREM KeyInvariance == Spec => []KeyInv
<1>1. Init => KeyInv
  BY DEF Init, KeyInv, EmptyDict
<1> QED
  BY <1>1, KeyStep, ShapeInvariance, PTL DEF Spec

(* Whatever was answered by whichever process, one household, handler and  *)
(* key have one commit.                                                    *)
THEOREM AnswerAgreement == Spec => []AnswersAgree
<1>1. LogInv /\ KeyInv => AnswersAgree
  <2> SUFFICES ASSUME LogInv, KeyInv, NEW a \in answers, NEW b \in answers,
                      a.commit # NoCommit, b.commit # NoCommit,
                      a.handler = b.handler,
                      a.message.household = b.message.household, a.message.key = b.message.key,
                      InLog(a.commit), InLog(b.commit)
               PROVE  a.commit = b.commit
    BY DEF AnswersAgree
  <2>1. ScopedKey(a.commit) = ScopedKey(b.commit)
    BY DEF KeyInv, UnderKey
  <2> QED
    BY <2>1 DEF LogInv, Numbered, InLog
<1> QED
  BY <1>1, LogInvariance, KeyInvariance, PTL

-----------------------------------------------------------------------------
(* The commit of an execution in this context: it stands in the log.       *)
Stands(context, commit, household, name) ==
  /\ context.handler = name
  /\ IF Records(context) = << >>
     THEN commit = NoCommit
     ELSE /\ InLog(commit)
          /\ commit.records = Records(context)
          /\ commit.household = household

(* While a handler runs its key is not cached, and what its attempt        *)
(* returned is committed.                                                  *)
TryInv ==
  /\ phase \in {"attempt", "finish", "fail"} => CacheKey \notin DOMAIN cache
  /\ phase = "finish" => Stands(try.context, try.commit, message.household, Current.name)

CacheInv == TryInv /\ CacheHoldsCommits /\ JournalMatchesCache

(* A commit stays where it is while the process lives.                     *)
LEMMA StandsStays ==
  ASSUME ShapeInv, ReturnOutput \/ UNCHANGED log,
         NEW context, NEW commit, NEW household, NEW name,
         Stands(context, commit, household, name)
  PROVE  Stands(context, commit, household, name)'
<1>1. InLog(commit) => InLog(commit)'
  <2>1. CASE UNCHANGED log
    BY <2>1 DEF InLog
  <2>2. ASSUME NEW tx \in Transaction, log' = Append(log, tx), InLog(commit)
        PROVE  InLog(commit)'
    <3>1. log \in Seq(Transaction)
      BY DEF ShapeInv, TypeOK
    <3> QED
      BY <2>2, <3>1 DEF InLog
  <2> QED
    BY <2>1, <2>2, CommitFacts
<1> QED
  BY <1>1 DEF Stands

(* An attempt that returns has its output committed.                       *)
LEMMA ReturnStands ==
  ASSUME ShapeInv, LogInv, ReturnOutput, phase' = "finish"
  PROVE  Stands(try.context, try.commit, message.household, Current.name)'
<1> DEFINE batch == Records(Context)
<1>1. /\ UNCHANGED <<message, Current>> /\ Context.handler = Current.name
      /\ log \in Seq(Transaction)
  BY CurrentStays DEF ReturnOutput, request, Context, ShapeInv, TypeOK
<1>2. CASE UNCHANGED log /\ batch = << >> /\ try' = [context |-> Context, commit |-> NoCommit]
  BY <1>1, <1>2 DEF Stands
<1>3. CASE /\ UNCHANGED log /\ batch # << >> /\ AppendReplays(batch)
           /\ \E i \in Committed : try' = [context |-> Context, commit |-> log[i]]
  <2>1. PICK i \in Committed : try' = [context |-> Context, commit |-> log[i]]
    BY <1>3
  <2>2. PICK j \in Committed : log[j].records = batch
    BY <1>3 DEF AppendReplays
  <2>3. i = j
    BY <2>1, <2>2 DEF Committed, LogInv, Numbered
  <2>4. /\ i \in DOMAIN log /\ log[i].seq = i
        /\ log[i].household = message.household
    BY <2>1 DEF Committed, ScopedKey, LogInv, Numbered
  <2>5. InLog(log[i])
    BY <2>4 DEF InLog
  <2>6. InLog(try.commit)'
    BY <1>3, <2>1, <2>5 DEF InLog
  <2> QED
    BY <1>1, <1>3, <2>1, <2>2, <2>3, <2>4, <2>6 DEF Stands
<1>4. ASSUME NEW tx \in Transaction, log' = Append(log, tx), batch # << >>,
             try' = [context |-> Context, commit |-> tx],
             tx.seq = Len(log) + 1, tx.records = batch, tx.household = message.household
      PROVE  Stands(try.context, try.commit, message.household, Current.name)'
  <2>1. Len(log) + 1 \in DOMAIN log' /\ log'[Len(log) + 1] = tx
    BY <1>1, <1>4
  <2>2. InLog(try.commit)'
    BY <1>4, <2>1 DEF InLog
  <2> QED
    BY <1>1, <1>4, <2>2 DEF Stands
<1>5. CASE ~UNCHANGED log
  BY <1>4, <1>5, CommitFacts
<1>6. CASE UNCHANGED log
  BY <1>2, <1>3, <1>6 DEF ReturnOutput
<1> QED
  BY <1>5, <1>6

(* The cache is of one piece with the log.                                 *)
LEMMA CacheStays ==
  ASSUME ShapeInv, CacheHoldsCommits, ReturnOutput \/ UNCHANGED log, UNCHANGED cache
  PROVE  CacheHoldsCommits'
<1> SUFFICES ASSUME NEW k \in DOMAIN cache
             PROVE  /\ cache[k].message.household = k[1] /\ cache[k].message.key = k[3]
                    /\ Stands(cache[k].context, cache[k].commit, k[1], k[2])'
  BY DEF CacheHoldsCommits, Stands
<1>1. Stands(cache[k].context, cache[k].commit, k[1], k[2])
  BY DEF CacheHoldsCommits, Stands
<1>2. Stands(cache[k].context, cache[k].commit, k[1], k[2])'
  BY <1>1, StandsStays
<1> QED
  BY <1>2 DEF CacheHoldsCommits

(* What is cached after a success is what the attempt committed.           *)
LEMMA SucceedCache ==
  ASSUME ShapeInv, CacheInv, Succeed
  PROVE  CacheInv'
<1> DEFINE entry == [message |-> message, context |-> try.context, commit |-> try.commit]
<1>1. /\ phase = "finish" /\ phase' = "select" /\ UNCHANGED log
      /\ cache' = Put(cache, CacheKey, entry)
      /\ journal' = Entry("SUCCEEDED", Result(try.context, try.commit))
  BY DEF Succeed, Remember, Advance
<1>2. Stands(try.context, try.commit, message.household, Current.name)
  BY <1>1 DEF CacheInv, TryInv
<1>3. DOMAIN cache' = DOMAIN cache \cup {CacheKey} /\ cache'[CacheKey] = entry
      /\ \A k \in DOMAIN cache : k # CacheKey => cache'[k] = cache[k]
  BY <1>1 DEF Put
<1>4. CacheHoldsCommits'
  <2> SUFFICES ASSUME NEW k \in DOMAIN cache'
               PROVE  /\ cache'[k].message.household = k[1] /\ cache'[k].message.key = k[3]
                      /\ Stands(cache'[k].context, cache'[k].commit, k[1], k[2])
    BY <1>1 DEF CacheHoldsCommits, Stands, InLog
  <2>1. CASE k = CacheKey
    BY <1>2, <1>3, <2>1 DEF CacheKey
  <2>2. CASE k # CacheKey
    BY <1>3, <2>2 DEF CacheInv, CacheHoldsCommits, Stands
  <2> QED
    BY <2>1, <2>2
<1>5. JournalMatchesCache'
  BY <1>1, <1>3 DEF JournalMatchesCache, Entry, Result, CacheKey
<1> QED
  BY <1>1, <1>4, <1>5 DEF CacheInv, TryInv

(* No step takes the cache, journal and attempt apart from the log.        *)
LEMMA CacheStep ==
  ASSUME ShapeInv, LogInv, CacheInv, [Next]_vars
  PROVE  CacheInv'
<1>1. CASE Succeed
  BY <1>1, SucceedCache
<1>2. CASE ReturnOutput
  <2>1. /\ UNCHANGED <<cache, journal, message, Current>> /\ phase = "attempt"
        /\ phase' \in {"finish", "fail"}
    BY <1>2, CurrentStays DEF ReturnOutput, process, request
  <2>2. TryInv'
    BY <1>2, <2>1, ReturnStands DEF CacheInv, TryInv, CacheKey
  <2> QED
    BY <1>2, <2>1, <2>2, CacheStays DEF CacheInv, JournalMatchesCache
<1>3. CASE ReturnCached
  <2>1. /\ UNCHANGED <<log, cache>> /\ phase' = "select"
        /\ CacheKey \in DOMAIN cache /\ cache[CacheKey].message = message
        /\ journal' = Entry("IDEMPOTENT_REPLAY",
                            Result(cache[CacheKey].context, cache[CacheKey].commit))
    BY <1>3 DEF ReturnCached, Advance
  <2>2. JournalMatchesCache'
    BY <2>1 DEF JournalMatchesCache, Entry, Result, CacheKey
  <2> QED
    BY <2>1, <2>2, CacheStays DEF CacheInv, TryInv
<1>4. CASE Restart
  <2>1. cache' = EmptyDict /\ journal' = NoEntry /\ phase' = "idle"
    BY <1>4 DEF Restart, End
  <2> QED
    BY <2>1 DEF CacheInv, TryInv, CacheHoldsCommits, JournalMatchesCache, EmptyDict
<1>5. CASE Fail
  <2>1. /\ UNCHANGED <<log, cache>> /\ phase' = "idle"
        /\ journal' = journal \/ journal'.status = "FAILED"
    BY <1>5 DEF Fail, End, Entry
  <2>2. JournalMatchesCache'
    BY <2>1 DEF CacheInv, JournalMatchesCache
  <2> QED
    BY <2>1, <2>2, CacheStays DEF CacheInv, TryInv
<1>6. CASE /\ UNCHANGED <<log, cache, journal>>
           /\ \/ phase' \in {"idle", "select"}
              \/ phase' = "attempt" /\ CacheKey \notin DOMAIN cache /\ UNCHANGED <<message, todo>>
              \/ phase' \in {phase, "fail"} /\ phase \notin {"idle", "select"}
                   /\ UNCHANGED <<message, todo, try>>
  <2>1. TryInv'
    <3>1. CASE phase' \in {"idle", "select"}
      BY <3>1 DEF TryInv
    <3>2. CASE /\ phase' = "attempt" /\ CacheKey \notin DOMAIN cache
               /\ UNCHANGED <<message, todo>>
      BY <1>6, <3>2, CurrentStays DEF TryInv, CacheKey
    <3>3. CASE /\ phase' \in {phase, "fail"} /\ phase \notin {"idle", "select"}
               /\ UNCHANGED <<message, todo, try>>
      <4>1. UNCHANGED <<Current, CacheKey, cache>>
        BY <1>6, <3>3, CurrentStays DEF CacheKey
      <4>2. phase \in {"attempt", "finish", "fail"}
        BY <3>3 DEF ShapeInv, TypeOK
      <4> QED
        BY <1>6, <3>3, <4>1, <4>2 DEF CacheInv, TryInv, Stands, InLog
    <3> QED
      BY <1>6, <3>1, <3>2, <3>3
  <2> QED
    BY <1>6, <2>1, CacheStays DEF CacheInv, JournalMatchesCache
<1>7. ASSUME Tick \/ Dump \/ (\E r \in Registration : Register(r)) \/ Begin \/ RaiseRetryable
             \/ (\E m \in Message, replay \in Manifest \cup {NoManifest} : Dispatch(m, replay))
             \/ RaiseOther \/ FinishBeforeStart \/ RefuseReusedKey \/ Return \/ UNCHANGED vars
      PROVE  /\ UNCHANGED <<log, cache, journal>>
             /\ \/ phase' \in {"idle", "select"}
                \/ phase' = "attempt" /\ CacheKey \notin DOMAIN cache /\ UNCHANGED <<message, todo>>
                \/ phase' \in {phase, "fail"} /\ phase \notin {"idle", "select"}
                     /\ UNCHANGED <<message, todo, try>>
  <2>1. phase \in {"idle", "select", "attempt", "finish", "fail"}
    BY DEF ShapeInv, TypeOK
  <2> QED
    BY <1>7, <2>1 DEF Tick, Dump, Register, Begin, RaiseRetryable, Dispatch, RaiseOther,
       FinishBeforeStart, RefuseReusedKey, Return, End, vars, process, request, progress,
       CacheInv, TryInv
<1> QED
  BY <1>1, <1>2, <1>3, <1>4, <1>5, <1>6, <1>7 DEF Next, Step

(* The cache, the journal and the attempt in progress agree with the log.  *)
THEOREM CacheInvariance == Spec => []CacheInv
<1>1. Init => CacheInv
  BY DEF Init, CacheInv, TryInv, CacheHoldsCommits, JournalMatchesCache, EmptyDict
<1> QED
  BY <1>1, CacheStep, ShapeInvariance, LogInvariance, PTL DEF Spec

(* What the cache would return again is what is committed.                 *)
THEOREM CacheConsistency == Spec => []CacheHoldsCommits
BY CacheInvariance, PTL DEF CacheInv

(* The journal tells the same story as the cache.                          *)
THEOREM JournalConsistency == Spec => []JournalMatchesCache
BY CacheInvariance, PTL DEF CacheInv

(* No handler succeeds a second time under one key: what is cached stays   *)
(* as it is while the process lives.                                       *)
THEOREM CacheStability == Spec => CacheIsStable
<1> DEFINE Stable == restarts' = restarts => \A key \in DOMAIN cache :
                       key \in DOMAIN cache' /\ cache'[key] = cache[key]
<1>1. ShapeInv /\ CacheInv /\ [Next]_vars => [Stable]_vars
  <2> SUFFICES ASSUME ShapeInv, CacheInv, [Next]_vars, restarts' = restarts,
                      NEW key \in DOMAIN cache
               PROVE  key \in DOMAIN cache' /\ cache'[key] = cache[key]
    OBVIOUS
  <2>1. CASE Succeed
    <3>1. CacheKey \notin DOMAIN cache
      BY <2>1 DEF Succeed, CacheInv, TryInv
    <3> QED
      BY <2>1, <3>1 DEF Succeed, Remember, Put
  <2>2. CASE UNCHANGED cache
    BY <2>2
  <2>3. ~Restart
    BY DEF Restart, ShapeInv, TypeOK
  <2> QED
    BY <2>1, <2>2, <2>3 DEF Next, Step, Tick, Dump, Register, Dispatch, ReturnCached,
       RefuseReusedKey, Begin, RaiseRetryable, RaiseOther, ReturnOutput, FinishBeforeStart,
       Fail, Return, vars, process
<1> QED
  BY <1>1, ShapeInvariance, CacheInvariance, PTL DEF Spec, CacheIsStable

-----------------------------------------------------------------------------
(* The handlers of one message have different names.                       *)
LEMMA NamesDiffer ==
  ASSUME ShapeInv, phase # "idle"
  PROVE  \A r, s \in HandlersFor(message) : r.name = s.name => r = s
BY DEF ShapeInv, DispatchInv, HandlersFor, Clashes

(* The handler that returns is the next in the order, and the others come  *)
(* after it.                                                               *)
LEMMA AdvanceFan ==
  ASSUME ShapeInv, FanOutInOrder, phase # "idle", todo # {},
         NEW result \in Results, result.handler = Current.name, Advance(result),
         UNCHANGED <<registered, message>>
  PROVE  FanOutInOrder'
<1>1. /\ results \in Seq(Results) /\ Len(results) \in Nat /\ DOMAIN results = 1..Len(results)
      /\ DOMAIN results' = 1..(Len(results) + 1)
      /\ \A i \in DOMAIN results : results'[i] = results[i]
      /\ results'[Len(results) + 1] = result
      /\ todo' = todo \ {Current}
  BY DEF ShapeInv, RecordsInv, Advance
<1>2. /\ Current \in todo /\ todo \subseteq HandlersFor(message)
      /\ HandlersFor(message)' = HandlersFor(message)
      /\ \A s \in todo : Rank[Current.name] <= Rank[s.name]
  BY CurrentIsLeast DEF ShapeInv, DispatchInv, TypeOK, HandlersFor
<1>3. \A s \in todo' : Rank[Current.name] < Rank[s.name]
  <2> SUFFICES ASSUME NEW s \in todo, s # Current PROVE Rank[Current.name] < Rank[s.name]
    BY <1>1
  <2>1. s.name # Current.name /\ s.name \in Name /\ Current.name \in Name
    BY <1>2, NamesDiffer, RegistrationAssumption DEF ShapeInv, TypeOK
  <2>2. Rank[s.name] # Rank[Current.name] /\ Rank[s.name] \in Nat /\ Rank[Current.name] \in Nat
    BY <2>1, NameAssumption
  <2> QED
    BY <1>2, <2>2
<1>4. {results'[i].handler : i \in DOMAIN results'} \cup {r.name : r \in todo'}
        = {r.name : r \in HandlersFor(message)'}
  <2>1. {results'[i].handler : i \in DOMAIN results'}
          = {results[i].handler : i \in DOMAIN results} \cup {Current.name}
    BY <1>1
  <2>2. {r.name : r \in todo'} \cup {Current.name} = {r.name : r \in todo}
    BY <1>1, <1>2
  <2>3. {results[i].handler : i \in DOMAIN results} \cup {r.name : r \in todo}
          = {r.name : r \in HandlersFor(message)}
    BY DEF FanOutInOrder
  <2> QED
    BY <1>2, <2>1, <2>2, <2>3
<1>5. ASSUME NEW i \in DOMAIN results'
      PROVE  /\ \A j \in 1..(i-1) : Rank[results'[j].handler] < Rank[results'[i].handler]
             /\ \A r \in todo' : Rank[results'[i].handler] < Rank[r.name]
  <2>1. CASE i \in DOMAIN results
    <3>1. \A j \in 1..(i-1) : results'[j] = results[j]
      BY <1>1, <2>1
    <3> QED
      BY <1>1, <2>1, <3>1 DEF FanOutInOrder
  <2>2. CASE i = Len(results) + 1
    <3>1. results'[i].handler = Current.name
      BY <1>1, <2>2
    <3>2. \A j \in 1..(i-1) : Rank[results'[j].handler] < Rank[Current.name]
      BY <1>1, <1>2, <2>2 DEF FanOutInOrder
    <3> QED
      BY <1>3, <3>1, <3>2
  <2> QED
    BY <1>1, <2>1, <2>2
<1> QED
  BY <1>4, <1>5 DEF FanOutInOrder

(* No step changes the order of the handlers.                              *)
LEMMA FanOutStep ==
  ASSUME ShapeInv, FanOutInOrder, [Next]_vars
  PROVE  FanOutInOrder'
<1>1. CASE ReturnCached
  <2> DEFINE result == Result(cache[CacheKey].context, cache[CacheKey].commit)
  <2>1. /\ phase # "idle" /\ todo # {} /\ CacheKey \in DOMAIN cache
        /\ Advance(result) /\ UNCHANGED <<registered, message>>
    BY <1>1 DEF ReturnCached, request
  <2>2. result \in Results /\ result.handler = Current.name
    BY <2>1, CurrentFacts DEF ShapeInv, RecordsInv, Result, Results
  <2> HIDE DEF result
  <2> QED
    BY <2>1, <2>2, AdvanceFan
<1>2. CASE Succeed
  <2> DEFINE result == Result(try.context, try.commit)
  <2>1. /\ phase = "finish" /\ todo # {}
        /\ Advance(result) /\ UNCHANGED <<registered, message>>
    BY <1>2 DEF Succeed, request, ShapeInv, TypeOK
  <2>2. result \in Results /\ result.handler = Current.name
    BY <2>1, CurrentFacts DEF ShapeInv, RecordsInv, Result, Results
  <2> HIDE DEF result
  <2> QED
    BY <2>1, <2>2, AdvanceFan
<1>3. CASE \E m \in Message, replay \in Manifest \cup {NoManifest} : Dispatch(m, replay)
  <2>1. todo' = HandlersFor(message)' /\ results' = << >>
    BY <1>3 DEF Dispatch, process, HandlersFor
  <2> QED
    BY <2>1 DEF FanOutInOrder
<1>4. CASE phase' = "idle"
  BY <1>4 DEF FanOutInOrder
<1>5. CASE UNCHANGED <<registered, message, todo, results>> /\ phase # "idle"
  BY <1>5 DEF FanOutInOrder, HandlersFor
<1>6. ASSUME Tick \/ Dump \/ Restart \/ (\E r \in Registration : Register(r)) \/ Begin
             \/ RaiseRetryable \/ RaiseOther \/ ReturnOutput \/ FinishBeforeStart \/ Fail
             \/ RefuseReusedKey \/ Return \/ UNCHANGED vars
      PROVE  \/ phase' = "idle"
             \/ UNCHANGED <<registered, message, todo, results>> /\ phase # "idle"
  BY <1>6 DEF Tick, Dump, Restart, Register, Begin, RaiseRetryable, RaiseOther, ReturnOutput,
     FinishBeforeStart, Fail, RefuseReusedKey, Return, End, vars, process, request, progress
<1> QED
  BY <1>1, <1>2, <1>3, <1>4, <1>5, <1>6 DEF Next, Step

(* Handlers run in the order of their names, each once, none left out.     *)
THEOREM FanOutOrder == Spec => []FanOutInOrder
<1>1. Init => FanOutInOrder
  BY DEF Init, FanOutInOrder
<1> QED
  BY <1>1, FanOutStep, ShapeInvariance, PTL DEF Spec

-----------------------------------------------------------------------------
(* While the clock does not step back no execution finishes before it      *)
(* started.                                                                *)
ClockInv == phase \in {"attempt", "finish", "fail"} => LogicalNow >= startedAt

(* Nothing but a backward step of the clock could break it.                *)
LEMMA ClockStays ==
  ASSUME ~ClockMayStepBack, ShapeInv, ClockInv, [Next]_vars
  PROVE  ClockInv'
<1> USE DEF ClockInv, LogicalNow
<1>1. CASE Tick
  BY <1>1, TimeAssumption DEF Tick, request, progress, ShapeInv, TypeOK
<1>2. CASE Begin
  <2>1. startedAt' = LogicalNow /\ LogicalNow' = LogicalNow /\ LogicalNow \in Nat
    BY <1>2, Times DEF Begin, request
  <2> QED
    BY <2>1
<1>3. CASE phase' \in {"idle", "select"}
  BY <1>3
<1>4. CASE UNCHANGED <<clock, manifest, startedAt>> /\ phase \in {"attempt", "finish", "fail"}
  BY <1>4
<1>5. CASE UNCHANGED vars
  BY <1>5 DEF vars, request, progress
<1> QED
  BY <1>1, <1>2, <1>3, <1>4, <1>5 DEF Next, Step, Dump, Restart, Register, Dispatch, ReturnCached,
     Advance, RaiseRetryable, RaiseOther, ReturnOutput, Succeed, FinishBeforeStart, Fail,
     RefuseReusedKey, Return, End, request, progress

(* A failure leaves no transaction behind, as long as the clock does not   *)
(* step back.                                                              *)
THEOREM FailureSafety ==
  ASSUME ~ClockMayStepBack
  PROVE  Spec => []FailureCommitsNothing
<1>1. Init => ClockInv /\ FailureCommitsNothing
  BY DEF Init, ClockInv, FailureCommitsNothing
<1>2. ShapeInv /\ CacheInv /\ ClockInv /\ FailureCommitsNothing /\ [Next]_vars
        => ClockInv' /\ FailureCommitsNothing'
  <2> SUFFICES ASSUME ShapeInv, CacheInv, ClockInv, FailureCommitsNothing, [Next]_vars
               PROVE  FailureCommitsNothing'
    BY ClockStays
  <2>1. CASE ReturnOutput
    <3>1. phase = "attempt" /\ UNCHANGED <<loaded, cache>>
      BY <2>1 DEF ReturnOutput, durable, process
    <3>2. CASE UNCHANGED log
      BY <3>1, <3>2 DEF FailureCommitsNothing
    <3>3. ASSUME NEW tx \in Transaction, log' = Append(log, tx), try'.commit = tx,
                 phase' = "finish"
          PROVE  FailureCommitsNothing'
      <4>1. /\ log \in Seq(Transaction) /\ Len(log) \in Nat /\ loaded \in Nat
            /\ Len(log') = Len(log) + 1
            /\ \A i \in 1..Len(log) : log'[i] = log[i]
            /\ log'[Len(log) + 1] = tx
        BY <3>3 DEF ShapeInv, TypeOK
      <4> SUFFICES ASSUME NEW i \in (loaded + 1)..(Len(log) + 1)
                   PROVE  \/ \E k \in DOMAIN cache : cache[k].commit = log'[i]
                          \/ try'.commit = log'[i]
        BY <3>1, <3>3, <4>1 DEF FailureCommitsNothing
      <4>2. CASE i \in (loaded + 1)..Len(log)
        BY <3>1, <4>1, <4>2 DEF FailureCommitsNothing
      <4>3. CASE i = Len(log) + 1
        BY <3>3, <4>1, <4>3
      <4> QED
        BY <4>1, <4>2, <4>3
    <3> QED
      BY <2>1, <3>2, <3>3, CommitFacts
  <2>2. CASE Succeed
    <3>1. /\ UNCHANGED <<loaded, log>> /\ CacheKey \notin DOMAIN cache
          /\ DOMAIN cache' = DOMAIN cache \cup {CacheKey}
          /\ cache'[CacheKey].commit = try.commit
          /\ \A k \in DOMAIN cache : cache'[k] = cache[k]
      BY <2>2 DEF Succeed, durable, Remember, Put, CacheInv, TryInv
    <3> QED
      BY <3>1 DEF FailureCommitsNothing
  <2>3. CASE Restart
    <3>1. loaded' = Len(log') /\ Len(log') \in Nat
      BY <2>3 DEF Restart, ShapeInv, TypeOK
    <3> QED
      BY <3>1 DEF FailureCommitsNothing
  <2>4. CASE UNCHANGED <<log, loaded, cache>>
             /\ (phase = "finish" => phase' = "finish" /\ UNCHANGED try)
    BY <2>4 DEF FailureCommitsNothing
  <2>5. ~FinishBeforeStart
    <3>1. LogicalNow \in Nat /\ startedAt \in Nat
      BY Times DEF ShapeInv, TypeOK
    <3> QED
      BY <3>1 DEF FinishBeforeStart, ClockInv
  <2>6. ASSUME Tick \/ Dump \/ (\E r \in Registration : Register(r)) \/ Begin \/ ReturnCached
               \/ (\E m \in Message, replay \in Manifest \cup {NoManifest} : Dispatch(m, replay))
               \/ RaiseRetryable \/ RaiseOther \/ Fail \/ RefuseReusedKey \/ Return
               \/ UNCHANGED vars
        PROVE  /\ UNCHANGED <<log, loaded, cache>>
               /\ phase = "finish" => phase' = "finish" /\ UNCHANGED try
    BY <2>6 DEF Tick, Dump, Register, Begin, ReturnCached, Dispatch, RaiseRetryable, RaiseOther,
       Fail, RefuseReusedKey, Return, vars, durable, process, progress
  <2> QED
    BY <2>1, <2>2, <2>3, <2>4, <2>5, <2>6 DEF Next, Step
<1> QED
  BY <1>1, <1>2, ShapeInvariance, CacheInvariance, PTL DEF Spec

-----------------------------------------------------------------------------
(* What the runtime does to the log, with its retries, its cache and its   *)
(* restarts, is what the ledger allows.                                    *)
THEOREM RuntimeRefinement == Spec => LogIsLedger
<1>1. Init => Ledger!Init
  BY DEF Init, Ledger!Init
<1>2. ShapeInv /\ [Next]_vars => [Ledger!Next]_(Ledger!ledgerVars)
  <2> SUFFICES ASSUME ShapeInv, [Next]_vars PROVE Ledger!Next \/ UNCHANGED <<log, disk>>
    BY DEF Ledger!ledgerVars
  <2>1. CASE ReturnOutput /\ ~UNCHANGED log
    <3>1. PICK tx \in Transaction :
            /\ log' = Append(log, tx) /\ tx.seq = Len(log) + 1
            /\ tx.records = Records(Context)
            /\ ScopedKey(tx) = <<message.household, LogKey>>
            /\ AppendCommits(Records(Context))
      BY <2>1, CommitFacts
    <3>2. /\ log \in Seq(Transaction) /\ Len(log') = Len(log) + 1 /\ log'[Len(log')] = tx
      BY <3>1 DEF ShapeInv, TypeOK
    <3>3. Ledger!ValidBatch(tx.records)
      BY <3>1 DEF AppendCommits, ValidBatch, Ledger!ValidBatch
    <3>4. \A i \in DOMAIN log :
            /\ Ledger!ScopedKey(log[i]) # Ledger!ScopedKey(tx)
            /\ Ledger!RecordIds(log[i].records) \cap Ledger!RecordIds(tx.records) = {}
      BY <3>1, Zenon DEF AppendCommits, Committed, ScopedKey, RecordIds, Ledger!ScopedKey, Ledger!RecordIds
    <3>5. UNCHANGED disk
      BY <2>1 DEF ReturnOutput, durable
    <3> QED
      BY <3>1, <3>2, <3>3, <3>4, <3>5 DEF Ledger!Next, Ledger!Commit
  <2>2. CASE ReturnOutput /\ UNCHANGED log
    BY <2>2 DEF ReturnOutput, durable
  <2>3. CASE Dump
    <3>1. log \in Seq(Transaction) /\ Len(log) \in 0..Len(log)
      BY DEF ShapeInv, TypeOK
    <3>2. log = SubSeq(log, 1, Len(log))
      BY <3>1, SubSeqFull
    <3> QED
      BY <2>3, <3>1, <3>2 DEF Dump, Ledger!Next, Ledger!Persist
  <2>4. CASE Restart
    BY <2>4 DEF Restart, Ledger!Next, Ledger!Lose, Ledger!Recover
  <2>5. CASE UNCHANGED <<log, disk>>
    BY <2>5
  <2> QED
    BY <2>1, <2>2, <2>3, <2>4, <2>5 DEF Next, Step, Tick, Register, Dispatch, ReturnCached,
       RefuseReusedKey, Begin, RaiseRetryable, RaiseOther, Succeed, FinishBeforeStart, Fail,
       Return, vars, durable
<1> QED
  BY <1>1, <1>2, ShapeInvariance, PTL DEF Spec, LogIsLedger, Ledger!Spec
=============================================================================
