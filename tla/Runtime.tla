------------------------------ MODULE Runtime ------------------------------
(***************************************************************************)
(* InProcessRuntime: commands and events are dispatched to the registered  *)
(* handlers one after the other; every handler runs with bounded retries,  *)
(* its output is committed as one transaction of the log, and the result   *)
(* is cached under household, handler name and idempotency key.            *)
(*                                                                         *)
(* One dispatch is a sequence of steps because time passes between them    *)
(* and the process may die after any of them: a handler is begun or its    *)
(* cached result returned, each attempt returns or raises, the execution   *)
(* record is written or not.  A callback and the append of its output are  *)
(* one step: nothing in this module can tell a death between them from one *)
(* before the callback.                                                    *)
(*                                                                         *)
(* The log is the ledger of LogContracts (TransactionLog implements it).   *)
(* A fingerprint is the message itself.  Handler names, idempotency keys   *)
(* and the log's keys are sequences of parts without ':', so that ':' in   *)
(* f"handler:{name}:{key}" is concatenation.  deterministic_uuid is taken  *)
(* to be injective: what a handler derives its ids from is its context.    *)
(* Operators named Fault... are wrong variants that no specification uses.  *)
(***************************************************************************)
EXTENDS LogContracts

CONSTANTS
  Name,             \* handler names
  Rank,             \* their place in sorted(...)
  Registration,     \* the register_command and subscribe_event calls of the host
  Message,          \* [id, kind, name, household, trace, key]
  Manifest,         \* what dispatch reads of a replay manifest: [at, seed]
  NoManifest,
  Version,          \* version bundles: code, configuration, models
  Records(_),       \* what the callback returns in a context
  NoMessage, NoEntry, NoCommit, NoTry, NoDump,
  MaxRestart,       \* bound: how often the process dies
  ClockMayStepBack  \* utc_now is the wall clock

ASSUME NameAssumption ==
  /\ Rank \in [Name -> Nat]
  /\ \A m, n \in Name : Rank[m] = Rank[n] => m = n

ASSUME RegistrationAssumption ==
  \A r \in Registration : /\ r.kind \in {"command", "event"}
                          /\ r.name \in Name
                          /\ r.maxAttempts \in Nat \ {0}

ASSUME TimeAssumption == Time \subseteq Nat

ASSUME BoundAssumption == MaxRestart \in Nat

ASSUME ManifestAssumption ==
  /\ \A m \in Manifest : m.at \in Time
  /\ NoManifest \notin Manifest

ASSUME RecordsAssumption ==
  \A r \in Registration, m \in Message, v \in Version, t \in Time,
     s \in {0} \cup {x.seed : x \in Manifest} : \A i \in 1..r.maxAttempts :
    Records([handler |-> r.name, message |-> m, attempt |-> i, versions |-> v,
             now |-> t, seed |-> s]) \in Batch

ASSUME KeyAssumption ==
  \A n \in Name, m \in Message : <<"handler">> \o n \o m.key \in Key

VARIABLES
  clock,
  log,          \* the transaction log
  disk,         \* what the last completed dump holds
  restarts,
  loaded,       \* history: how long the log was when the process started
  versions,     \* the version bundle the runtime was made with
  registered,   \* _commands and _events: the registrations in force
  cache,        \* _cache
  journal,      \* the newest entry of execution_journal
  phase,        \* where dispatch is: idle, select, attempt, finish, fail
  message, manifest,  \* the arguments of the dispatch
  todo,         \* the handlers it has still to run
  results,      \* what the others returned
  startedAt, attempt,
  try,          \* the context and the commit of the attempt that returned
  answers       \* history: the results dispatch has returned to its callers

durable  == <<disk, restarts, loaded>>
process  == <<versions, registered, cache, journal>>
request  == <<message, manifest>>
progress == <<startedAt, attempt, try>>
vars     == <<clock, log, durable, process, phase, request, todo, results, progress, answers>>

Init ==
  /\ clock \in Time
  /\ log = << >> /\ disk = NoDump /\ restarts = 0 /\ loaded = 0
  /\ versions \in Version
  /\ registered = {} /\ cache = EmptyDict /\ journal = NoEntry
  /\ phase = "idle"
  /\ message = NoMessage /\ manifest = NoManifest
  /\ todo = {} /\ results = << >>
  /\ startedAt = 0 /\ attempt = 1 /\ try = NoTry
  /\ answers = {}

LogicalNow == IF manifest = NoManifest THEN clock ELSE manifest.at

Seed == IF manifest = NoManifest THEN 0 ELSE manifest.seed

Tick ==
  /\ \E t \in Time : (t > clock \/ ClockMayStepBack) /\ clock' = t
  /\ UNCHANGED <<log, durable, process, phase, request, todo, results, progress, answers>>

-----------------------------------------------------------------------------
(* A command has one handler, an event any number with different names; a  *)
(* second registration raises HandlerRegistrationError.                    *)
Clashes(r, s) == r.kind = s.kind /\ r.on = s.on /\ (r.kind = "event" => r.name = s.name)

Register(r) ==
  /\ phase = "idle"
  /\ \A s \in registered : ~Clashes(r, s)
  /\ registered' = registered \cup {r}
  /\ UNCHANGED <<clock, log, durable, versions, cache, journal, phase, request, todo, results, progress, answers>>

HandlersFor(m) == {r \in registered : r.kind = m.kind /\ r.on = m.name}

(* A command without a handler raises and changes nothing.                 *)
Dispatch(m, replay) ==
  /\ phase = "idle"
  /\ m.kind = "command" => HandlersFor(m) # {}
  /\ phase' = "select"
  /\ message' = m /\ manifest' = replay
  /\ todo' = HandlersFor(m)
  /\ results' = << >>
  /\ UNCHANGED <<clock, log, durable, process, progress, answers>>

-----------------------------------------------------------------------------
FaultLastName == CHOOSE r \in todo : \A s \in todo : Rank[r.name] >= Rank[s.name]

(* The handler whose turn it is.                                           *)
Current == CHOOSE r \in todo : \A s \in todo : Rank[r.name] <= Rank[s.name]

FaultKeyWithoutHandler == <<message.household, << >>, message.key>>

CacheKey == <<message.household, Current.name, message.key>>

Result(context, commit) ==
  [handler |-> Current.name, message |-> message, context |-> context, commit |-> commit]

Advance(result) ==
  /\ results' = Append(results, result)
  /\ todo' = todo \ {Current}
  /\ phase' = "select"
  /\ startedAt' = 0 /\ attempt' = 1 /\ try' = NoTry

Entry(status, result) == [status |-> status, result |-> result]

(* The same message was handled before: its execution is journaled again   *)
(* and its result returned.                                                *)
ReturnCached ==
  /\ phase = "select" /\ todo # {}
  /\ CacheKey \in DOMAIN cache
  /\ cache[CacheKey].message = message
  /\ LET result == Result(cache[CacheKey].context, cache[CacheKey].commit)
     IN  journal' = Entry("IDEMPOTENT_REPLAY", result) /\ Advance(result)
  /\ UNCHANGED <<clock, log, durable, versions, registered, cache, request, answers>>

FaultTodoKept ==
  /\ phase' = "idle"
  /\ message' = NoMessage /\ manifest' = NoManifest
  /\ todo' = todo /\ results' = << >>
  /\ startedAt' = 0 /\ attempt' = 1 /\ try' = NoTry

(* dispatch returns or raises, and its local variables are gone.           *)
End ==
  /\ phase' = "idle"
  /\ message' = NoMessage /\ manifest' = NoManifest
  /\ todo' = {} /\ results' = << >>
  /\ startedAt' = 0 /\ attempt' = 1 /\ try' = NoTry

(* The key was used for another message: dispatch raises, the caller gets  *)
(* nothing, later handlers do not run.                                     *)
RefuseReusedKey ==
  /\ phase = "select" /\ todo # {}
  /\ CacheKey \in DOMAIN cache
  /\ cache[CacheKey].message # message
  /\ End
  /\ UNCHANGED <<clock, log, durable, process, answers>>

FaultBeginAnyway ==
  /\ phase = "select" /\ todo # {}
  /\ phase' = "attempt"
  /\ startedAt' = LogicalNow
  /\ UNCHANGED <<clock, log, durable, process, request, todo, results, attempt, try, answers>>

(* The handler was not run under this key by this process.                 *)
Begin ==
  /\ phase = "select" /\ todo # {}
  /\ CacheKey \notin DOMAIN cache
  /\ phase' = "attempt"
  /\ startedAt' = LogicalNow
  /\ UNCHANGED <<clock, log, durable, process, request, todo, results, attempt, try, answers>>

FaultCountStartsAgain ==
  /\ phase = "attempt"
  /\ attempt' = IF attempt < Current.maxAttempts THEN attempt + 1 ELSE 1
  /\ UNCHANGED <<clock, log, durable, process, phase, request, todo, results, startedAt, try, answers>>

(* RetryableHandlerError: another attempt, as long as there are any.       *)
RaiseRetryable ==
  /\ phase = "attempt"
  /\ IF attempt < Current.maxAttempts
     THEN attempt' = attempt + 1 /\ UNCHANGED phase
     ELSE phase' = "fail" /\ UNCHANGED attempt
  /\ UNCHANGED <<clock, log, durable, process, request, todo, results, startedAt, try, answers>>

RaiseOther ==
  /\ phase = "attempt"
  /\ phase' = "fail"
  /\ UNCHANGED <<clock, log, durable, process, request, todo, results, progress, answers>>

Context ==
  [handler |-> Current.name, message |-> message, attempt |-> attempt,
   versions |-> versions, now |-> LogicalNow, seed |-> Seed]

(* _validate_output: nothing leaves the household or the trace.            *)
ValidOutput(batch) ==
  \A j \in DOMAIN batch : /\ batch[j].household = message.household
                          /\ batch[j].trace = message.trace

FaultLogKeyPerAttempt == <<"handler">> \o Current.name \o <<attempt>> \o message.key

(* f"handler:{registered.name}:{message.idempotency_key}"                  *)
LogKey == <<"handler">> \o Current.name \o message.key

Committed == {i \in DOMAIN log : ScopedKey(log[i]) = <<message.household, LogKey>>}

FaultContentIgnored(batch) == Committed # {}

FaultRetryConflicts(batch) == FALSE

(* append of M03: the commit of these records under this key if there is   *)
(* one, ...                                                                *)
AppendReplays(batch) ==
  \E i \in Committed : /\ log[i].records = batch
                       /\ manifest # NoManifest => log[i].at = manifest.at

FaultKeyIgnored(batch) ==
  /\ ValidBatch(batch)
  /\ \A i \in DOMAIN log : RecordIds(log[i].records) \cap RecordIds(batch) = {}

(* ... a new one if neither the key nor a record was seen, or an error.    *)
AppendCommits(batch) ==
  /\ ValidBatch(batch)
  /\ Committed = {}
  /\ \A i \in DOMAIN log : RecordIds(log[i].records) \cap RecordIds(batch) = {}

FaultTimeNotPinned == Time

(* committed_at: the manifest's time, or utc_now as the log reads it, which *)
(* need not be what the runtime's own clock says.                          *)
CommitTimes == IF manifest = NoManifest THEN Time ELSE {manifest.at}

(* The callback returns; its output is checked and, if there is any,       *)
(* appended to the log.                                                    *)
ReturnOutput ==
  LET batch  == Records(Context)
      tx(at) == CommittedTransaction(Len(log) + 1, batch, LogKey, at)
  IN  /\ phase = "attempt"
      /\ \/ /\ batch = << >>
            /\ try' = [context |-> Context, commit |-> NoCommit]
            /\ phase' = "finish" /\ UNCHANGED log
         \/ /\ batch # << >> /\ ValidOutput(batch) /\ AppendReplays(batch)
            /\ \E i \in Committed : try' = [context |-> Context, commit |-> log[i]]
            /\ phase' = "finish" /\ UNCHANGED log
         \/ /\ batch # << >> /\ ValidOutput(batch) /\ AppendCommits(batch)
            /\ \E at \in CommitTimes :
                 /\ log' = Append(log, tx(at))
                 /\ try' = [context |-> Context, commit |-> tx(at)]
            /\ phase' = "finish"
         \/ /\ batch # << >>
            /\ ~(ValidOutput(batch) /\ (AppendReplays(batch) \/ AppendCommits(batch)))
            /\ phase' = "fail" /\ UNCHANGED <<log, try>>
      /\ UNCHANGED <<clock, durable, process, request, todo, results, startedAt, attempt, answers>>

FaultNotCached(entry) == cache

Remember(entry) == Put(cache, CacheKey, entry)

(* The execution record is built, cached and journaled.  One that would    *)
(* finish before it started is refused by its validator, and the handler   *)
(* has failed although its output is committed.                            *)
Succeed ==
  /\ phase = "finish" /\ LogicalNow >= startedAt
  /\ LET result == Result(try.context, try.commit)
     IN  /\ cache' = Remember([message |-> message, context |-> try.context,
                                commit |-> try.commit])
         /\ journal' = Entry("SUCCEEDED", result)
         /\ Advance(result)
  /\ UNCHANGED <<clock, log, durable, versions, registered, request, answers>>

FinishBeforeStart ==
  /\ phase = "finish" /\ LogicalNow < startedAt
  /\ phase' = "fail"
  /\ UNCHANGED <<clock, log, durable, process, request, todo, results, progress, answers>>

(* The failure is journaled, unless its record is refused as well, and     *)
(* raised.                                                                 *)
Fail ==
  /\ phase = "fail"
  /\ journal' = IF LogicalNow >= startedAt
                THEN Entry("FAILED", Result(NoTry, NoCommit))
                ELSE journal
  /\ End
  /\ UNCHANGED <<clock, log, durable, versions, registered, cache, answers>>

(* Every handler has run: dispatch returns their results.                  *)
Return ==
  /\ phase = "select" /\ todo = {}
  /\ answers' = answers \cup {results[i] : i \in DOMAIN results}
  /\ End
  /\ UNCHANGED <<clock, log, durable, process>>

-----------------------------------------------------------------------------
Dump ==
  /\ phase = "idle"
  /\ disk' = log
  /\ UNCHANGED <<clock, log, restarts, loaded, process, phase, request, todo, results, progress, answers>>

(* The process dies; the next one, perhaps of another version, loads the   *)
(* dump and knows no handler, no cached result and no execution.           *)
Restart ==
  /\ restarts < MaxRestart /\ restarts' = restarts + 1
  /\ log' = IF disk = NoDump THEN << >> ELSE disk
  /\ loaded' = Len(log')
  /\ versions' \in Version
  /\ registered' = {} /\ cache' = EmptyDict /\ journal' = NoEntry
  /\ End
  /\ UNCHANGED <<clock, disk, answers>>

Step ==
  \/ ReturnCached \/ RefuseReusedKey \/ Begin
  \/ RaiseRetryable \/ RaiseOther \/ ReturnOutput
  \/ Succeed \/ FinishBeforeStart \/ Fail \/ Return

Next ==
  \/ Tick
  \/ \E r \in Registration : Register(r)
  \/ \E m \in Message, replay \in Manifest \cup {NoManifest} : Dispatch(m, replay)
  \/ Step
  \/ Dump
  \/ Restart

Spec == Init /\ [][Next]_vars

(***************************************************************************)
(* Scheduling.  The runtime is one thread that keeps going.                *)
(***************************************************************************)
FairSpec == Spec /\ WF_vars(Step)

(* And what its host has to do for a message to be answered: it registers  *)
(* its handlers, it delivers a message again and again until it has an     *)
(* answer, and a callback does not raise for ever.                         *)
Output(n, m) == phase = "attempt" /\ Current.name = n /\ message = m /\ ReturnOutput

HostPersists ==
  /\ \A r \in Registration : SF_vars(Register(r))
  /\ \A m \in Message : SF_vars(Dispatch(m, NoManifest))
  /\ \A n \in Name, m \in Message : SF_vars(Output(n, m))

-----------------------------------------------------------------------------
(* The shape of the state.                                                 *)
TypeOK ==
  /\ clock \in Time /\ versions \in Version
  /\ log \in Seq(Transaction)
  /\ disk \in Seq(Transaction) \cup {NoDump}
  /\ restarts \in 0..MaxRestart /\ loaded \in 0..Len(log)
  /\ registered \subseteq Registration /\ todo \subseteq registered
  /\ phase \in {"idle", "select", "attempt", "finish", "fail"}
  /\ phase \in {"attempt", "finish", "fail"} => todo # {}
  /\ message \in Message \cup {NoMessage} /\ manifest \in Manifest \cup {NoManifest}
  /\ startedAt \in Nat /\ attempt \in Nat \ {0}

InLog(commit) == commit.seq \in DOMAIN log /\ log[commit.seq] = commit

(* What the cache would return again is what is committed: the transaction *)
(* stands in the log under this handler's key, with the records the        *)
(* handler produced, and it is missing only if the handler produced none.  *)
CacheHoldsCommits ==
  \A k \in DOMAIN cache :
    LET e == cache[k]
    IN  /\ e.message.household = k[1] /\ e.context.handler = k[2] /\ e.message.key = k[3]
        /\ IF Records(e.context) = << >>
           THEN e.commit = NoCommit
           ELSE /\ InLog(e.commit)
                /\ e.commit.records = Records(e.context)
                /\ e.commit.household = k[1]

(* The journal and the cache tell one story: what is journaled as          *)
(* succeeded or replayed is what the cache holds, ...                      *)
JournalMatchesCache ==
  journal # NoEntry /\ journal.status # "FAILED" =>
    LET result == journal.result
        key    == <<result.message.household, result.handler, result.message.key>>
    IN  /\ key \in DOMAIN cache
        /\ cache[key].message = result.message
        /\ cache[key].context = result.context
        /\ cache[key].commit = result.commit

(* ... and that never changes while the process lives, so that no handler  *)
(* succeeds a second time under one key.                                   *)
CacheIsStable ==
  [][restarts' = restarts => \A key \in DOMAIN cache :
       key \in DOMAIN cache' /\ cache'[key] = cache[key]]_vars

(* A failure leaves no transaction: whatever this process has committed is *)
(* the output of an execution that succeeded, or of the one that is about  *)
(* to be recorded.  (Only while the clock does not step back.)             *)
FailureCommitsNothing ==
  \A i \in (loaded + 1)..Len(log) :
    \/ \E k \in DOMAIN cache : cache[k].commit = log[i]
    \/ phase = "finish" /\ try.commit = log[i]

(* The handlers of a message run in the order of their names, each once;   *)
(* nothing that is registered for it is left out.                          *)
FanOutInOrder ==
  phase # "idle" =>
    /\ {results[i].handler : i \in DOMAIN results} \cup {r.name : r \in todo}
         = {r.name : r \in HandlersFor(message)}
    /\ \A i \in DOMAIN results :
         /\ \A j \in 1..(i-1) : Rank[results[j].handler] < Rank[results[i].handler]
         /\ \A r \in todo : Rank[results[i].handler] < Rank[r.name]

(* Callers that were answered for the same household, handler and key,     *)
(* also by different processes, were told of the same commit, unless a     *)
(* restart has lost one of the commits they were told of.                  *)
AnswersAgree ==
  \A a, b \in answers :
    /\ a.commit # NoCommit /\ b.commit # NoCommit
    /\ a.handler = b.handler
    /\ a.message.household = b.message.household /\ a.message.key = b.message.key
    /\ InLog(a.commit) /\ InLog(b.commit)
    => a.commit = b.commit

(* What the runtime does to the log is what the ledger allows.             *)
Ledger == INSTANCE CommitLedger WITH ledger <- log, durable <- disk

LogIsLedger == Ledger!Spec

(* Every dispatch ends, however often its handlers raise.                  *)
DispatchEnds == phase # "idle" ~> phase = "idle"

(* Every message is answered in the end if the host persists: a handler    *)
(* that failed, and one that had succeeded before it, do not keep the      *)
(* message from being completed when it is delivered again, also by a      *)
(* process that has lost the cache.                                        *)
RedeliveryCompletes ==
  HostPersists => \A m \in Message : <>(\E a \in answers : a.message = m)
=============================================================================
