# Verification of cpswm

This directory holds the TLA+ specifications kept beside cpswm, the TLC
configurations that model-check them on small instances, and the proofs about
them that TLAPS checks for every instance. Paths below are relative to the
root of the repository.

    tlc -workers 2 -config MCRuntimeFanOut.cfg MCRuntime.tla   # check a run
    tlapm TransactionLogProofs.tla                             # check the proofs of one module

## 1. The system

cpswm is a single-process library. Nothing in it runs concurrently except
callers of the transaction log, which takes an `RLock`; everything else is a
sequence of calls made by one host thread. What makes it hard is not
parallelism but what survives what: which state is in memory, which in the log,
which in the dump of the log, and what happens when one of several steps raises
or the process is started again in between.

| component | state | operations |
|---|---|---|
| M03 transaction log (`foundation/persistence_replay/memory_store.py`) | list of committed transactions; indexes by idempotency key, transaction id, record id; count per schema; a dump file | `append`, `read`, `watermark_at`, `fingerprint`, `dump`, `load` |
| M03 projection store, store catalog | dictionary of derived records | `put`, `clear` |
| M03 snapshot catalog (`snapshots.py`) | dictionary of snapshot manifests | `add`, `invalidate` |
| M04 runtime (`foundation/runtime_orchestration/runtime.py`) | registered handlers, cache of results, execution journal | `register_command`, `subscribe_event`, `dispatch` |
| M04 replay (`replay.py`, `provenance.py`) | none: a manifest, an input log and a runtime with its own log | `build_replay_manifest`, `verify_replay_provenance`, `ReplayRunner.run`, `compare_replay_runs` |
| M02 registries (`foundation/identity_time_frames/`) | identities; clock alignments and frame transforms, each valid over an interval | `register`, `resolve`, `align`, `lookup` |
| Counterfactual event hypergraph, CHEH (`system/counterfactual_event_hypergraph/`) | none: immutable histories of revisions of event hypotheses that its callers keep and store | `branch`, `revise_actor_responsibility`, `retract`, `rebuild` |
| Grounded search (`world_model/grounded_search/pipeline.py`) | of one call: the request, a result computed ahead, used and executed ids, the trace; outside: the log, the providers | `decide`, `run_closed_loop` |
| Grounded search evidence (`memory_reliability.py`, `identity_verification.py`, `layered_map.py`) | static anchors and the objects on them; the other two are pure | `project`, `verify`, `add_static_anchor`, `upsert_dynamic_object`, `move_dynamic_object` |
| Routine generator (`system/synthetic_routines/`) | none: plans of who puts what where | `generate` |
| World-model simulator (`system/world_model_simulator/`) | of one run: a pseudo random stream and the records so far | `run`, `run_paired`, `run_privileged` |
| Evaluator (`system/evaluation_operations/evaluator.py`) | none: manifest, simulated run and truth in, report out | `evaluate` |
| Shift attribution (`d0_shift_scenarios.py`, `online_shift_attribution.py`, `shift_*.py`) | none: suites of cases, and what baselines say of them | `generate`, `predict`, `evaluate` |
| Habit model (`world_model/habits_transitions/`) | pseudo counts per household, person and context | `update`, `predict` |
| Counterfactual baselines, apps, tools | none that lives between calls | batch computation |

**Interactions.** The runtime calls the log's `append` once per handler
execution that produced records, under a key made of the handler's name and the
message's idempotency key. Replay reads messages from one log and dispatches
them in a runtime that writes another. The closed loop calls five
kinds of providers and a log between its own steps: it appends what was observed
and then tells the provider that the action was consumed. Plans of the generator
are simulated under policies; what the simulator returns is evaluated against
the plan, or spliced into cases of shift attribution. The hypergraph, the
registries and the habit model are called directly by the applications and the
tests. The only callbacks are message handlers and the providers of the loop.

**Hard behaviours**, each with its line under `hazards` in `PROJECT.json`: a
dump that reads the log's list without the lock while another thread is inside
`append`; a dump file that is truncated before it is written; a process that
dies with commits that are not in the dump, and callers that still hold what
they were told; retries by a caller that got no answer; one of several
subscribers failing after another has committed; a redelivery to a process that
has lost its cache; a wall clock that steps back between the commit and the
record of the execution; handler names that serve two message names; evidence
that comes in another order, twice, or correlated with evidence already used;
histories that are extended by several callers and put together again from
stored revisions; sums of floats that are compared exactly; a loop whose
providers raise, lie, repeat themselves or return what was made for another
request, after the robot has already acted; a random stream that two runs must
consume alike; records of a household that tell a robot what it did not see.

**What makes each component correct.** Transaction log: one transaction per
household and key, no record twice, indexes that are a function of the list,
dumps that load, watermarks that keep their meaning. Runtime: handlers run once
per key, in order, all of them; what is answered is committed; failures commit
nothing; redelivery completes. Replay: it refuses every log but the one it was
made for, and two replays of one manifest give the same outputs. Registries: no
pair has two links that are valid at once, and an answer is that of a shortest
path of valid links. Hypergraph: mass is
conserved, odds are those of the branch and the evidence, evidence counts once,
what was retracted stays retracted, and revisions of different histories cannot
be mixed. Closed loop: its belief is made of committed evidence, once
each; it acts on what the evidence settled; at most the last act is missing from
the log; it ends. Evidence modules: order, age and repetition are not evidence.
Simulator: nothing unseen is told, and pairs differ by their policy only.
Evaluator and shift scenarios: recalls are as large as they can be, one manifest
has one score, and labels say what the inputs can tell. Habit model: only facts
teach, and only about the household they are from.

## 2. Modules

| module | models |
|---|---|
| `LogContracts` | records, batches, transactions, watermarks; what may be committed and what may be loaded |
| `CommitLedger` | what the log promises: a ledger and a file holding a prefix of it |
| `TransactionLog` | `AppendOnlyTransactionLog` with threads, lock, indexes, dump, crash, load |
| `DataLemmas` | lemmas about what the other modules compute with: finite sets, sums and products over sets, sequences |
| `TransactionLogProofs`, `RuntimeProofs`, `ReplayProofs` | the theorems about these, `Runtime` and `Replay` |
| `HypergraphProofs` | the theorems about `Hypergraph` |
| `GroundedSearchProofs` | the theorems about `ClosedLoop`, `JointPosterior` and `GroundedEvidence` |
| `HouseholdProofs` | the theorems about `Records`, `IdentityTimeFrames`, `RoutineGenerator`, `Simulator` and `HabitModel` |
| `EvaluationProofs` | the theorems about `ShiftScenarios` and `Evaluator` |
| `Runtime` | `InProcessRuntime` over a log |
| `Replay` | `build_replay_manifest`, `verify_replay_provenance`, `ReplayRunner.run`: extends `Runtime` with an input log, manifests and the source on disk |
| `HypothesisContracts` | revisions and histories of event hypotheses: chains, step times, what the contracts of `counterfactual_event_hypergraph/contracts.py` accept |
| `Hypergraph` | `CounterfactualEventHypergraphEngine`: `branch`, `revise_actor_responsibility`, `retract`, `rebuild` |
| `RevisionTree` | what an append-only history promises: a tree of revisions in which evidence is used once along every path |
| `GroundedContracts` | requests, results, actions, observations, executions and models of grounded search, and which of them fit together |
| `JointPosterior` | fusion, planning and the two updates of a belief, in whole numbers |
| `ClosedLoop` | `DirectionThreePipeline.run_closed_loop` over a log that others use, too |
| `Products` | products and powers of weights, where the code adds logarithms |
| `GroundedEvidence` | memory reliability, identity verification, the layered map |
| `Registries` | the registries of M02: identities, clock alignments, frame transforms; motions and what may be registered |
| `IdentityTimeFrames` | the search for an answer in a registry of links: extends `Registries` |
| `Sorting` | what `sorted` returns |
| `Records` | what was recorded under an id keeps its meaning: extends `Registries` and `SnapshotCatalog` |
| `SnapshotCatalog` | the catalog of snapshot manifests |
| `RoutineGenerator` | routines, changes of them, and the plan of a household |
| `Simulator` | `run` and `run_paired`, one sample at a time, in two lanes |
| `Evaluator` | manifests and recalls: extends `Simulator` |
| `ShiftScenarios` | offline and online suites, baselines: extends `RoutineGenerator` and `Simulator` |
| `HabitModel` | `HierarchicalDirichletHabitModel` |
| `MCTransactionLog`, `MCRuntime`, `MCReplay`, `MCHypergraph`, `MCGroundedSearch`, `MCHousehold` | the instances TLC checks |

Operators whose names begin with `Fault` are wrong variants of the definition
that follows them, of the kind a careless change would introduce. No
specification uses them; putting one in the place of the definition makes the
property it is listed with in `PROJECT.json` fail, which is how we know that
the property says something about the code.

### Data

SHA-256 and UUIDv5 are taken to be injective: a content hash is the content, a
transaction id is the batch it was cut from, a message fingerprint is the
message, an id derived by `deterministic_uuid` is its context. A record is the
envelope fields the log looks at: id, household, trace, schema, and a body that
stands for everything else. Sessions behave as traces do in the runtime's
checks and are not kept apart. Strings that code puts together (the log key
`handler:{name}:{key}`) are sequences of parts.

### TransactionLog

`Call(t, request)` is `append` up to the lock. Under the lock, `Replay` returns
the earlier commit, `Refuse` is one of the two errors, `Push` builds the
transaction and appends it to `_transactions`, and `Index` is all other
mutations up to the release of the lock. `Push` and `Index` are separate
because `dump` (`DumpBegin`: copy, validate, truncate the file; `DumpEnd`:
write it) takes no lock and so can see the list between them. No other method
can see that state, which is why the four index updates are one step. `Crash`
forgets everything but the file. `Load` is `load`, and `StartEmpty` a start
without a usable file. `held` is a history variable: any one of the results
callers were given, kept for comparison. One dump is in progress at a time.

### Runtime

One `dispatch` runs through the phases `select` (next handler, or `Return`),
`attempt` (callback, validation and append: `ReturnOutput`, `RaiseRetryable`,
`RaiseOther`), `finish` (`Succeed`, or `FinishBeforeStart` when the execution
record is refused) and `fail`. Between any two of them time can pass (`Tick`)
and the process can die (`Restart`). Callback and append are one step: a death
between them leaves exactly the state of a death before the callback. What a
callback returns is the constant operator `Records` of its context (handler,
message, attempt, now, seed), that is, a handler is deterministic in its
context and otherwise arbitrary; that it may raise instead is nondeterministic.
The log is the ledger that `TransactionLog` implements; `LogIsLedger` checks
that the runtime stays inside it. Dumps are taken while no dispatch is in
progress. `answers` is a history variable with the results callers were given,
and `journal` is the newest entry of `execution_journal`. `versions` is the
version bundle a runtime is made with. The time of a commit (`CommitTimes`) is
the manifest's, or the wall clock as the log reads it: the log calls `utc_now`
itself, so it is not tied to the runtime's clock.

### Replay

The runtime's log is the output log of the replay; `input` is the log the
messages come from. `BeginManifest`, `ReadWatermark` and `EndManifest` are
`build_replay_manifest`: three calls on the input log, each of which takes and
releases the lock, so that other threads' commits (`InputCommit`) fall between
them. `ReplayRunner.run` goes through the stages `watermark`, `fingerprint`,
`decode` and `dispatch` for the same reason: its calls of `watermark_at`,
`fingerprint` and `read` each take the lock for themselves. `StartReplay` is
`verify_replay_manifest`, which compares the version bundle the runtime was made
with (`versions`) with what is on disk now (`source`) and with the manifest.
`code` is what the process has really imported, which the program cannot see.
`Handle`, `HandlerRaises` and `HandlersReturn` are the runtime's steps while a
replay dispatches. A manifest declares the schema version of this process
(`SchemaVersion` holds the one that the code supports), and a message of another
version is committed like any other and refused when it is decoded (`Decodable`).
`NewRuntimeHere` and `NewProcess` are a new runtime in the
same or another process, over a dump of the output log or an empty one;
`InputReload` is an input log loaded from a dump that holds less, after which
it can grow differently. `runs` and `tenants` are history variables: what was
returned, and which manifests' runs have written the output log.

### Hypergraph

The engine keeps nothing. `held` is the history each holder has, `made` every
history an operation has returned (revisions are stored one by one, and
`Rebuild` may put any of them together), `answer` how the last call ended: with
a history, refused by the engine's own checks, or refused by the contracts of
what the engine had constructed. Of a revision that the contracts refused it
keeps which hypotheses the revision leaves active (`left`) and how its sum of
probabilities compares with 1.0 (`sum`). A history is immutable and
`Rebuild` takes a holder to any node of the tree, so that one holder reaches the
histories several would make.

A hypothesis is a chain of actors `<<a, b>>`: `a` picked up, `b` placed, with a
handoff if they differ. Posteriors are exact: a revision has masses and a
`scale` they are fractions of, so that reweighting is a product and needs no
division. A likelihood ratio (posterior over reference prior, with the sample
weight applied) is a number of parts of `Unit`. Evidence carries what
the engine compares: record, cluster (`evidence_cluster_id`, which counts once)
and meaning (the content hash that is the same for a copy in other wrapping),
and what binds it to one of the two detections. The digest of a revision is the
revision itself, so `parent` holds the previous revision and not its id.

What floats add to exact fractions is the choice `Rounding`. It is taken only
where it can matter: when mass of hypotheses was moved to the unresolved mass
and no mass is left outside it. The result must then be 1.0 exactly and may come
out as 1.0, below, or above. This takes the mass that is left active to be far
above a rounding error; a hypothesis of 1e-16 could be lost in the sum.
Probabilities that are rounded to zero, or that exceed
1.0 by an ulp in revisions with something left, are left out, as are the bodies
of the steps of a chain except their times, which are whole microseconds rounded
to even as `timedelta` does.

### Grounded search

Probabilities are weights that need not be normalised: logarithms that are added
in the code are weights that are multiplied, and `LowestTerms` stands for the
normalisation. The exponent of a likelihood is the weight the request gives its
channel, times reliability, times availability (`EffectiveWeight`). The three
are whole numbers here, 0, 1 and 2 in the run, while the code has fractions: a
channel or a sensor can count not at all, once or more. An observation becomes
the only evidence of the next request, with its own reliability and the weight
its channel has there (`RequestAfterObservation`); over a channel of weight zero
it is committed and changes nothing. Thresholds are parts of `Scale`.
Comparisons are exact, and equals keep the order of the request; what the last
bits of a float make of a tie is left out. Where a likelihood is zero the code
clamps to an epsilon, and `Huge` stands for its inverse.

`ClosedLoop` has one action per stretch of `run_closed_loop` between two calls of
something outside: `Decide` (fuse or take the result computed ahead, and branch
on the policy), `Plan`, `Observe` (with the next request and its fusion, which
the code validates before it commits), `CommitObservation`, `Mark`, `Act`,
`Learn` (one feedback record), `CommitExecution`, `GiveUp`. Every one of them may
end in `Raise`, and `ProviderRaises` is an exception from outside. What comes
from outside is any member of small sets that contain what fits, what was made
for something else and what is handed in again. `Forged` is what a replaceable
fusion may do to its result. Some of it the validation catches: a candidate at
another place, one left out, an unknown mass that does not add up, a result for
another query or another scope. Some of it fits and cannot be noticed
(`Unnoticed`): all candidates found alike, or a query called resolved that is
not. `sound` says whether the fusion keeps from these, that is, whether its
numbers are those of `JointPosteriorFusion`. What the properties say of
probabilities is about sound fusions; what they say of the log, of the candidate
and of its place is about all. `NothingToActOn` is the `StopIteration` of a
result that names no object. `pending` is what has been validated and not yet
committed. `performed` is a history variable: what the robot did in this run.
`Others` is any other user of the log, which may commit the loop's own records.

`GroundedEvidence` has no interaction between its three parts. The state of the
first two is the request a caller makes again and again: a claim that ages and
gathers evidence, an inquiry that gathers views.

### Registries

A clock alignment and a frame transform are both a link with a motion, valid over
an interval: for clocks a shift, whose uncertainties add up, for frames a quarter
turn and a translation. Quarter turns and integer translations keep what matters
of the group, that a rotation changes the translation that comes before it,
without rounding. `Lookup` is the breadth first search over edges sorted by node
and id, in both directions. `Queued` is its queue round by round, with the paths
that were taken from it still in place; a round goes on from one path (`Onwards`),
and there are no more rounds than ends of links. Where the code returns in the
middle of a round, the model ends the round and no other follows. What the contracts
of links say is `LinkAssumption`: numbers, different ends, an alignment that only
shifts, a transform that is exact.

### Households

`RoutineGenerator` and `Simulator` take the outcomes of pseudo random streams as
functions or as choices. A stream is a function of what the code seeds it with,
so two runs with one `StreamId` draw the same: `stream` records what has been
drawn and `Drawn` gives it back. `Sample` is one trajectory sample with its two
draws. Both lanes of `run_paired` are lanes of the model, and so are two calls of
`run`. A policy's sample says which places are in the frustum; no optics.

`ShiftScenarios` uses `Simulated`, the same run as a function of its stream,
because a suite needs six of them; the actors' evidence, the splice, the factor
fingerprints and the validators are those of the code. `Evaluator` takes a run
that returned, builds its manifest, and is given both lanes.

`HabitModel` counts in parts of `Sure` squared, and an update that is rejected
(weight zero, a location that is no candidate, evidence that is no valid record)
changes nothing and is no step.

## 3. Runs

A property of the last two runs is a conjunction of parts that have names and
comments of their own:

| property | parts |
|---|---|
| `ActsAreOnRecord` | `OnlyTheLastActIsLost`, `ReportedCommitsHold`, `NoObservationTwice` |
| `OnlyEvidenceCounts` | `AgeingOnlyMakesStale`, `EvidenceMovesTheStanding`, `FramesAreNotViews`, `VerdictIgnoresOrder` |
| `AnswersFollowTheLinks` | `OneLinkPerPair`, `AnswersFit`, `AnswersMoveAlongTheirPath`, `FramesGoBack`, `ClocksGoBack` |
| `RecordsKeepTheirMeaning` | `IdsKeepTheirMeaning`, `InvalidStaysInvalid` |
| `PlansAreCoherent` | `ExceptionsPass`, `SourcesChain` |
| `OnlySightTells` | `NothingUnseenIsTold`, `DetectionsAreTrue`, `ResultsAreValid` |
| `ScoresAreFair` | `RecallsAreLargest`, `OneManifestOneScore`, `PairedRunsNest`, `LookingMoreFindsNoLess` |
| `CasesPoseTheirQuestion` | `EveryCaseIsBuilt`, `PairsAgreeBeforeTheChange`, `EvidenceNamesWhoMovedIt`, `WithoutActorsTheyLookAlike`, `ActorEvidenceEndsLeakage`, `SameInputSameCauses` |
| `LearningIsSound` | `LearningIsLocal`, `LevelsAddUp`, `OnlyFactsTeach` |


| run | question | instance |
|---|---|---|
| `transaction_log` | do indexes, dumps and held watermarks stay right, is the log a ledger, and does every append return | 2 threads, 9 kinds of append over 4 records, 2 keys, 2 households, 2 times |
| `runtime_fan_out` | partial failure of an event with two subscribers, redelivery, restart | 2 subscribers, one with a retry, 2 events with one key, 1 restart |
| `runtime_shared_name` | one handler name and one key for a command and an event, a wall clock that steps back, manifests that pin the time | 2 registrations, 2 messages, 1 manifest, 1 restart |
| `runtime_liveness` | does every dispatch end, and is every message answered in the end | 2 subscribers, 1 event, 1 restart |
| `replay_input` | is what is replayed what the manifest was made of | up to 5 commits of the input log: two messages in the wrong order, a third with a sequence number that is taken, a fourth of another schema version, a record that is no message |
| `replay_output` | do complete runs of one manifest agree, whatever was left behind, and do handlers see the versions it declares | 2 messages, a handler with 2 attempts, 2 versions, 2 restarts |
| `replay_liveness` | is a replay that is tried again completed | 2 messages, 1 restart |
| `replay_code` (violated) | is the code that runs the code the manifest declares | 1 message, 2 versions, 1 restart |
| `hypergraph` | are odds those of the evidence, does anything retracted come back, what do the contracts refuse of what the engine builds, do histories form a tree | 4 detections, 4 priors, 5 records of evidence, 10 lists of counterevidence, 7 sets of targets, 3 histories |
| `grounded_search` | is a belief made of what was committed, is the log right whatever raises, does the loop end; are order, age and repetition evidence | 8 requests, one with a channel of weight 2 and one with weight 0, 5 proposals, 5 observations with reliability 0 to 2, 5 executions, 3 models, 7 forgeries, 3 cycles, 2 runs; 3 claims and 3 kinds of evidence, 2 inquiries and up to 4 of 5 views, 3 anchors |
| `household` | do registries answer by the links that are valid, do exceptions pass, is nothing unseen told, are pairs and cases what they say, do only facts teach | 7 transforms, 5 alignments, 5 identities, 5 manifests of snapshots; 93 sets of changes over 4 days; 4 plans and 8 policies with 2 or 3 samples, single and paired; 4 scenarios of 2 days; 9 records of habit evidence |
| `hypergraph_retract` (violated) | can all hypotheses be retracted | 2 detections, 1 prior, the same evidence, 3 histories |

**Bounds.** The appends of `MCTransactionLog` are chosen so that each way
through `append` is taken: a record and a changed version of it, a key for two
contents and for two households, a record under two keys, a retry that pins the
time and one that pins another, a mixed batch, a batch with a duplicate, an
empty one. Every record can be committed once, so the log has at most three
transactions and no further bound is needed. In the runtime, one restart is
enough for a message to be handled by a process that committed and one that has
forgotten (`MaxRestart`); two times are enough for a clock to step back; two
attempts distinguish a retry from a first attempt. A replay's second restart
lets a run be interrupted, completed, and compared with one over an empty log;
`MaxManifests` bounds how many manifests are made, and one is enough because a
manifest names one version and the source can be edited before and after. Two
households meet in `transaction_log`; the runtime's key contains the household
in the same way as the log's. In the hypergraph `MaxMade` bounds how many
histories are made: three allow a branch and two changes of it in either order,
or two branches and a change of one of them; `MaxRebuilt` lets a rebuild name as
many revisions as the longest of these. The evidence has a copy in other
wrapping, two correlated records, records that rule out one actor and both, and
records of another object and another time; the priors have an actor with no
mass and a single actor, and the detections an interval that is too short for
the steps of a handoff. The closed loop's requests lead to each policy and
status, and one of them has a candidate that violates a constraint; two differ
only in the weight of the channel that observations come over. A fusion that is
not sound is tried in one run on three of them (`Tried`). Three cycles allow two
observations and an act or an act that sends the loop round, `MaxRuns` a second
call that meets what the first left in the log. The frames of the registries
form a hexagon: two ways from 1 to 2 of equal length that disagree, of which one
is found there and the other back (`MaxLinks` is large enough to register all
six links), with links against the direction and some that end; the clocks have
one alignment that replaces another and one that overlaps both. `MaxUpdates`,
`MaxViews`, `MaxAge`, `MaxRevision` and `MaxReasons` bound how often something
is repeated. Changes of a routine overlap in threes, which lets an exception
interrupt a drift under a guest. A scenario of two days has one day before and
one after the change, with both draws of both days free. Deadlock is checked for
the log, which can always be called; the other runs allow it because a command
without a handler is refused and the bounded instance can be used up.

**Fairness.** For the log, only that some thread that can proceed inside
`append` does (weak fairness of the threads together): `RLock` is not fair, so
nothing is assumed of an individual thread. `AppendsReturn` therefore says that
once no new calls are made all calls return. For the runtime: the single thread
keeps executing (weak fairness of the steps of `dispatch`), the host registers
its handlers and delivers a message again until it is answered, and a callback
that is called again and again does not raise for ever (strong fairness, each
of these can be disabled in between). `FairSpec` assumes the first only, and
`DispatchEnds` needs no more; the others are what the host has to do,
`HostPersists`, and an antecedent of `RedeliveryCompletes` alone. The run of
both uses handlers whose output depends on the message only,
see the limits below. For replays: `run` keeps going (weak), and the host sets
up its handlers and tries a replay again that failed, while no callback raises
for ever (strong). `ReplayCompletes` assumes that from some time on the input
log has the manifest's prefix, the version is installed and the output log
serves no other manifest (`Replayable`): then, and only then, is a run that is
tried again certain to end. For the closed loop: calls of providers and of the
log return or raise, so its thread keeps running (weak fairness of the steps of a
run together); nothing makes the caller start it.

**The violated runs.** `replay_code` shows a disagreement of document and code.
`docs/architecture/step1-a0-foundation.md:82` says that a replay is refused when
the declared version is not the one actually running, and
`runtime_orchestration/provenance.py:125` speaks of "the running source". What
is hashed is the source on disk, once when the runtime is made and once when the
replay starts. A process that imported its code, after which the source was
edited and a runtime made, passes the check and replays with the old code.

`hypergraph_retract` shows a retraction that the engine builds and its contracts
refuse. `docs/architecture/cheh-first-hidden-event-vertical-slice.md:60` says
that contradicting evidence can retract one or more hypotheses. When it retracts
all of them, the unresolved probability is a sum of floats that
`counterfactual_event_hypergraph/contracts.py:176` compares with 1.0 exactly,
although four lines above the total is checked with a tolerance of 1e-6, and
that the type `Probability` (`contracts/base.py:12`) limits to 1.0. In the model
the sum may come out on either side. It does so in practice: with the default
fractions and Python 3.11 the prior `{A: 0.7, B: 0.3}` gives 0.9999999999999999
and `{A: 0.6, B: 0.4}` gives 1.0000000000000002, and both retractions raise.

## 4. Proofs

`TransactionLogProofs` proves, for every set of threads, records, keys, times
and appends, what the run `transaction_log` checks on one instance:
`TypeCorrectness`, `IndexConsistency`, `DumpSafety`, `WatermarkStability` and
`Refinement` (the log implements `CommitLedger`).

The assumptions are those the modules name: `NoTime`, `NoThread`, `NoCall`,
`NoDump` and `Torn` are not ordinary values, and requests are made of batches,
keys and times.

The properties are not inductive by themselves; `IInv` adds what is true of the
state between `Push` and `Index`. `LockInv`: exactly the thread in `pushed`
holds the lock, a thread inside `append` has a batch that passed the checks, and
a held lock means that the last transaction is the one not yet indexed.
`DownInv`: a process that is down has an empty memory, which makes `Load` a
`Recover` of the ledger. `SnapshotInv`: the copy a dump has taken is still a
prefix of the log when it is written. `HeldInv`: the watermark a caller holds is
the one `load` would compute from the prefix it was committed in; with
`IndexesMatchLog` this gives `HeldWatermarkStays`. Two counting lemmas
connect `append`, which adds to the local sequences, with
`load`, which counts them: `LocalSeqStep` and `LocalSeqOfPrefix`.

`RuntimeProofs` proves every safety property of the runtime's runs for all sets
of handlers, messages, times and manifests and any number of restarts
(`MaxRestart` is an arbitrary number), and for handlers that return any batch.
The invariants come in layers, each proved with the ones before it.
`ShapeInv`: types, the handlers still to run are registered for the message, no
two of them clash, the attempt number is within the policy. `CurrentIsLeast`
shows that there is a next handler at all; it goes through the well-foundedness
of the finite initial segments of Nat. `LogInv`: log and dump number their
transactions and have one of each key. `KeyInv`: every commit the runtime holds,
or has ever told a caller of, was made under the key of its handler and message;
with `LogInv` this gives `AnswersAgree` over all restarts. `CacheInv`: the key of
a handler that is running is not cached, and what its attempt returned stands in
the log; this gives `CacheHoldsCommits`, `JournalMatchesCache` and
`CacheIsStable`. `ClockInv` (no execution finishes before it started, if the
clock does not step back) gives `FailureCommitsNothing`. The assumptions are that
ranks are different naturals, that registrations have a name, a kind and at
least one attempt, that a handler returns records (`RecordsAssumption`), that
log keys are keys (`KeyAssumption`), and that times are naturals.

`ReplayProofs` proves `ManifestsAreSound`, `PrefixIsReplayed`, `VersionIsReplayed`
and `ReplayDeterminism` for all feeds, handlers, manifests and editions of the
source, with commits, reloads, restarts and failures anywhere in between. It
extends `RuntimeProofs`: a step of the runtime is one in the replay too
(`RuntimeMoves`), so `ShapeInv` and `FanOutInOrder` come from there.
`InputInv`: the input log is well numbered and what has been read for a manifest
under construction is of one prefix of one log; this is why a manifest that is
made while commits go on is still sound. `StageInv`: what one stage of `run` has
verified holds in every later stage. That the fingerprint is over the prefix is
what binds the input: a watermark alone fits other logs, and the log may be
replaced between the two checks, so before the second check only the watermark is
known to fit. `DispatchedInv` has four parts: the queue is in
strict order (`QueueInv`), what was handled lies before all of it (`OutputsInv`),
no message is in neither (`CoverInv`), and the runtime works on the head
(`HeadInv`). `Ordered` takes the message with i smaller ones; `PlaceFacts` shows
by counting that there is exactly one for each i, which needs the numbers
to be different (`Unique`). `VersionInv`: everything the cache, the attempt and
the outputs hold was made by this runtime; `RunsInv` keeps what is left when
a run returns. The assumptions are that feeds are made of batches, keys and
times (`FeedAssumption`) and that messages have a sequence number
(`MessageAssumption`).

`ReplayDeterminism` proves `RunsAgree`. It has one hypothesis,
`SilenceIsNoAccident`: whether a handler has an output does not depend on the
number of the attempt. What the output is may depend on it, as record ids do.
Without the hypothesis the property is false, see the limits. A task is a message
of the prefix with a handler registered for it; a run comes to its tasks in one
order, first by sequence number, then by handler name. `SettledInv` says, for an
output log that served one manifest only, that every transaction was written in
some attempt at a task when all earlier tasks with an output had theirs in the
log (`WrittenFor`), and that whatever the cache, the attempt, the results and the
outputs hold is settled: it has the context the manifest and the task determine,
and its output is in the log under its key, or it has none. That a dump which is
loaded again satisfies the same is what makes runs over the remains of others
agree. `TasksInv`: the tasks done come in order and none before the current one
is left out, so that the next commit is explained too (`ProducersBefore`).
`AloneInv` keeps for a returned run that there is a log over which it is
complete. Two such logs are equal, position by position (`LogsAgree`): at the
first difference the later of the two writers would have left out the earlier,
so both are one task, whose executions in the two runs have one context and so
the same records (`CommitOfTask`). TLC found no violation of `TasksInv` and
`SettledInv` on the instances of `MCReplayInput.cfg` and `MCReplayOutput.cfg`, with
attempts and manifests restricted to those that occur there.

`HypergraphProofs` proves the five properties of the run `hypergraph`, for any
number of holders, actors, detections and pieces of evidence and histories of
any length, with any rounding. `HistoriesAreSound` is the invariant: everything
in `made` passes the contracts, its revisions are numbered, typed and each has
no active hypothesis that the one before had not, and everything that is held
was made. `OnlyEmptiedSetsAreRefused` and `GivenUpForGood` follow along
`SuccessorFollows`: a revision built by `revise` or `retract` `Follows` the
history it was built for, which says in one place what the two have in common,
and whatever follows is a valid revision (`FollowerIsValid`) that makes a valid
history (`FollowerExtends`), as far as exact numbers go. What the contracts
refuse is then refused for a sum that was rounded, and a sum that is compared
exactly is all there is, so that nothing is active (`ComparedIsEmptied`): such
retractions can be refused, as the run `hypergraph_retract` shows, and nothing
else that `revise` and `retract` build. The sums of masses that the contracts
ask for are sums over finite sets, and come from `SumStep` of `DataLemmas`.
`HistoriesFormATree` is the refinement of `RevisionTree`, with a commit of the
tree for a step that adds a revision (`FollowerIsExtension`) and a stutter for a
`rebuild`, which finds what it returns in `made` already. `OddsFollowBayes` adds
`BayesInv`: in every history whose evidence is known, weights of two active
hypotheses relate as those of the first revision times the ratios used since. A
product over the history is one factor longer after each revision
(`RatiosOfAppend`); unresolved mass and normalisation multiply both weights
alike (`CrossMultiply`), and a retraction moves no mass between hypotheses that
stay. The assumptions are those of `Hypergraph`: the scale is positive,
fractions, priors and ratios are naturals, priors are about finitely many
actors, an id names one piece of evidence.

Induction over data is done by sets instead of predicates, because the
library's induction theorems take an operator as a parameter. `DataLemmas` has
the forms that were needed: `NatSetInduction` and `SetInduction` say of a set W
that it holds all numbers, or all subsets of a finite set, and a proof defines W
by the statement it wants. From these come what `FoldFunction` over a finite set
computes (`FoldStep`: the order does not matter for a commutative monoid), with
`SumStep` and `ProductIsFold` as the two cases, and what `FlattenSeq` computes
(`FlattenAppend`).

`GroundedSearchProofs` proves everything the run `grounded_search` checks except
that runs end, beginning with two properties of `grounded_search` for all requests,
proposals, observations, executions, models and foreign commits, and any number
of runs and cycles. `LoopRefinement`: whatever a run does, and wherever it
raises, the log it uses changes only as `CommitLedger` allows. That the ledger
is a sequence is all the invariant it takes; that what is appended is a valid
batch is the guard `Accepts`. `RecordSafety` is `[]ActsAreOnRecord`. It needs to
know what lies between an act and its commit: `LookedInv` (what was looked at is
in `used`, or is the observation being committed, and the action chosen is not
yet in `used`) and `PendingInv` (what is pending is what the robot did last, and
each piece of learned evidence belongs to the feedback at its place).
`RaisingIsSafe` covers every exception at once: it leaves the log and clears
what would have been reported. The steps that commit rest on `CommitHolds`: a
batch that `append` accepts is in the log afterwards, under the number it
returns, whether it was there before or not. The assumptions are that what
others commit was accepted by the log (`ForeignAssumption`) and that an
execution carries sequences (`ExecutionAssumption`).

`LayersFit` (`LayerSafety`) holds for all anchors, frames and things. A new
anchor can be nobody's parent, because parents exist: that keeps the anchors a
forest (`OneMoreAnchor`). `RootAssumption`: the mark for "no parent" is not an
anchor.

`BeliefSafety` is `[]BeliefIsWhatWasCommitted`, for fusions that are sound. The
code carries its belief in the priors of the next request, divided by a common
factor, and the property compares it with the product over everything that was
committed, so the argument is about proportions: `Proportional` relates weights
that agree up to a factor, `LowestTerms` picks one of them (`InLowestTerms`,
`SameLowestTerms`; the greatest common divisor is a recursive function, and
`GcdDivides` and `GcdScales` are inductions over it), and one observation
multiplies both sides by the same likelihoods to the same power
(`NextPosterior`, `ProportionalStep`), because no request of a run changes the
weights of channels. `BeliefOK` says of a request, what was asked, what was seen
and what was told that the request stands for the rest. `BeliefInv` says so at
every step: `Current` is the request that carries the belief, also while it is
only pending, and `Seen` and `Told` add the evidence that is about to be
committed to what was. `Decided` remembers what the result in hand was computed
from, which makes it useless to hand in a result made for another request:
`AnswerTo` says what a replaceable fusion that passes the checks of the pipeline
has in common with `fuse`. `SettledSafety` is `[]ActsOnSettledTargets`. For
sound fusions it comes from the same invariant: shares are alike for
proportional weights (`SharesAlike`), and `SettledAnswer` says what a request
must have shown for the policy to be to act. That the target is a candidate in
its place holds for all fusions, by `PlaceInv`: every request of a run is about
the candidates of the first, and a result that passed the checks names them
where they are (`BoundAnswer`). The assumptions are the types of what comes from
outside: likelihoods, outcomes and models weigh finitely many things with
naturals, reliability is a natural (`ObservationAssumption`, `ExecutionAssumption`,
`ModelAssumption`), a request has candidates with priors, channels and naturals
(`TypedRequest`, `RequestAssumption`), there are finitely many channels
(`ChannelAssumption`), thresholds are parts of a natural scale
(`ScaleAssumption`), and forgeries are those that `Forged` tells apart, of which
a sound fusion makes only those that the checks catch (`ForgeryAssumption`).

`EvidenceSafety` is `OnlyEvidenceCounts`, an action property of memory claims and
identity inquiries. The odds of a claim are products of factor weights raised to
their reliability and availability, so one more factor that speaks for what is
stored cannot lower them (`OneFactorMore`, `OddsMove`), and the cascade of
thresholds in `project` turns larger odds into no worse a standing
(`StandingIs`, `WeighMovesIt`). For views, `verify` keeps the best view of each
cluster; `BestOfIs` shows that the first best one of a list is well determined,
so that a worse frame of a cluster that was seen changes nothing (`WorseFrame`)
and the order of the views does not matter (`OrderOfViews`). `MemoryInv` and
`ViewsInv` are types. `ClaimAssumption` and `ViewAssumption` give claims, factors
and views the types of their contracts.

`HouseholdProofs` is about the run `household`. Of the registries it proves
`LinksSafety`, that no two links between the same clocks or frames are valid at
one time, and that the motions links stand for are a group: `MotionsCompose`,
`MotionsUndo` and `MotionsAssociate`. `RecordsSafety` is
`RecordsKeepTheirMeaning`: an id that was registered, and a snapshot that was
found invalid, keep their meaning; for snapshots this rests on `CatalogInv`, that
a manifest is stored under its id and is invalid exactly when it has reasons.
The assumptions are what the contracts of links say (`LinkAssumption`) and the
shape of manifests (`ManifestAssumption`).

`AnswersSafety` is `[]AnswersFollowTheLinks`. What is invariant is
`RegistriesInv`; the rest is an argument about the search. `QueueInv` says of the queue
that every path in it follows valid links (`PathTo`) to a node that no shorter one
reaches (`Nearest`), that no two paths are to the same node, that the lengths never
go down along the queue and differ by at most one among the paths that wait, and
that from those that were taken it went on to all that is near. Then
all that is at most as far away as the path that is next has been visited
(`LevelsAreVisited`), so what is new is one link further away, and a round keeps
`QueueInv` (`NextRound`). There are enough rounds because the paths are to different
ends of links (`QueueSize`), and so a search ends with a nearest path or has
visited whatever can be reached (`SearchIs`). A path back over the same links is at the
same nodes in reverse, and link by link takes back the motion of the path there
(`WalkBack`), up to the uncertainties of clocks, which add up both ways (`Exact`).

`PlansSafety` is `[]PlansAreCoherent`. The generator is a loop over days and
routines with the last place of each object in hand. `PickedInOrder` says which
change an object is under on a day without the loop, `SourceFacts` that an
event starts where the last one of that object ended, and `StoriesAgree` that a
config and the same config without one change (`Without`) tell the same of all
days and objects that the change is not about: two plans are compared, so what is
invariant is only that the plan is the one that was generated (`PlanInv`), and
the argument is about plans. Slots lie within a day (`DayAssumption`), which
makes two events of one object never simultaneous, and a config has the types
of its contract (`ConfigAssumption`).

`SimulatorSafety` is `[]OnlySightTells`. `LaneInv` says of a run that each
opportunity and result so far is the one that its sample and two draws of its
stream give (`Told`); with `OneValue`, that a stream has one value at each
position, two runs over the same stream agree wherever what they saw agrees
(`ToldAlike`), and `PairedSafety` follows for lanes that differ only by how
often they look. Plans are any that are chained (`CallAssumption`), and
`GeneratedIsChained` shows that those of the generator are. `PartAssumption`
says that probabilities are counted in parts of a positive natural.

`LearningSafety` is `LearningIsSound`. `HabitInv` strengthens the two sums with
what was learned from: valid evidence that is no prediction (`Teaches`).
`UpdateAdds` says what an update adds to each count, `SomebodyDidIt` that the
parts of the persons and of nobody known add up to all that was done, and then
the levels still add up because sums are added term by term (`SumAdded`).
`ScoreMoves` compares scores before and after, of which `LearningIsLocal` is a
consequence. `HabitAssumption` gives evidence the types of its contract, finitely
many actors and contexts, and priors and pooling weights that are naturals.

`EvaluationProofs` proves `ScenarioSafety`, `[]CasesPoseTheirQuestion`, for any
scenario, any number of days and whatever is drawn. The property compares runs
that are simulated apart, so the argument is a closed form of a run: `Tells`
says what a run reports of each day, given only the stream it draws from, how
often it looks on each day and where the tablet is (`SimulatedTells`).
`StreamFacts` shows that all runs of a kind draw from one stream, whatever
happens in the household: the key of a stream is made of the seed and of what
the policies have in common. And whether a look meets the object does not depend
on where it is, as the camera sees the desk and the sofa. Splicing preserves the
form (`BeforeAndSince`, `SplicedTells`), hence the cases of the two suites have
it, too (`CaseFacts`, `OnlineFacts`): each is determined by which causes set in
on the day of the change (`SelectionOf`, `PlaceOf`). From then on the parts of
the property are comparisons of days: before the change nothing differs;
`OneFactorDiffers` says what does afterwards; `HitsAre` and `CitedIsAll` say
which detections evidence can be about; `MindingActors` is the baseline, whose
masses are compared as sums over these; and `FamiliesApart` is the finite part
of `SameInputSameCauses`, that two sets of causes that agree on the looks, on
the place and on the actor are the same. The inductive invariant is `ShiftInv`:
the runs, the cases and the answers are the ones that scenario, plans and draws
determine. `ScenarioAssumption` gives scenarios the types of their contract, a
day three parts, and the marks for no actor and no place values of their own.

`ScoreSafety` is `[]ScoresAreFair`. What is hard in it is that the events that are
matched are as many as can be told apart, for any detections and any truth. The
search of augmenting paths is a recursive function, on what was visited and a
detection. `AugmentExists` shows that there is one, by induction over the events not
yet visited, and `AugmentFinds` what it returns, by the same induction. Either it finds:
then what was given stays given, up to other detections, and one event more is
(`FreeEvent`, `TakenEvent`). Or it does not: then what was visited is closed
(`Closed`), every event visited is given to a detection that has nothing to turn
to outside. Detections
whose turn is over and that got nothing therefore have their events within a closed
set, and it stays closed, because later paths do not enter it (`NextTurn`,
`GivenInTurn`). Then no set of events that can be told apart is larger
(`GivenIsLargest`): its events outside the closed set are found by detections
that were given an event. `EvaluatorInv` adds that a report is
the one of its run, which needs that a run that is over stays as it is
(`ReturnedStays`). `OneManifestOneScore` follows because a report is a function of
what a manifest binds (`ReportIs`), and `LookingMoreFindsNoLess` because what a run
detects is detected by one that looks more often as well (`LooksMore`), so that
events that the one can tell apart the other can. `EventsAssumption` says that the events
of a plan are a list.

Two definitions were changed because no proof of them went through. In
`PresenceUpdate` and in `Submit` of the hypergraph the guards of a CASE
overlapped, so that TLA+ leaves the choice open where the code takes the first
branch; now they exclude one another. `FramesGoBack` and `ClocksGoBack` claimed
more than the code does, see the limits. Others were rewritten without a change of
meaning, because the prover has no theory of what they used: lists
that are filtered are `Those`, the members at some places in their
order, where `SelectSeq` would say the same, and the search of the registries
is a recursive function over the rounds, where a RECURSIVE operator would do.

What stays with TLC. Liveness under fairness: `AppendsReturn`, `DispatchEnds`,
`RedeliveryCompletes`, `ReplayCompletes`, `EveryRunEnds`. All other properties of the
passing runs are theorems. The two violated properties have no theorem, of course.

## 5. Limits that the models show

These are properties of the code one may wish for and does not have. No
document of the repository promises them.

* A failed handler may have committed. When the wall clock steps back between
  `started_at` and `finished_at`, the execution record is refused
  (`runtime_orchestration/contracts.py:180`) after the append. The caller sees
  an error, nothing is cached, and the message's next delivery meets its own
  commit in the log. `FailureCommitsNothing` is checked under a clock that does
  not step back.
* A message that was committed can be unanswerable after a restart. If a
  handler's records depend on `context.now` or `context.attempt`, the next
  process produces other records under the same log key and `append` raises
  `IdempotencyConflictError` each time. `RedeliveryCompletes` is checked for
  handlers that depend on the message only.
* An interrupted replay may never be completed over its own output log when
  handlers are retried: a record id contains the attempt number, so a run that
  needs another number of attempts than the one before it produces other records
  under a key that is taken. TLC finds this when `MCReplayLiveness.cfg` is given
  `MCRetried`. With an empty output log the replay always completes.
* Two runs of one manifest on one runtime return the same outputs, but the
  executions of the second have the status `IDEMPOTENT_REPLAY`, so that
  `compare_replay_runs` returns false. `RunsAgree` compares outputs, commits and
  watermarks, and only runs over output logs that served no other manifest. The
  handlers of the run always return a record; when a handler decides by the
  attempt number whether it has any output, TLC finds two complete runs of one
  manifest that differ: one that committed nothing at its second attempt and one
  that met the commit which an interrupted run had left.
* Sequence numbers have to be unique over the whole prefix, across sessions and
  households; a log in which they are not can be committed and given a manifest,
  and is refused only by the replay (`replay.py:129`).
* `handler:{name}:{key}` is not injective if names or keys contain colons.
* A dump that is interrupted destroys the one before it.
* `rebuild` checks that its revisions are one history, not that they are all of
  it: a prefix rebuilds, and a holder who only has the prefix can use evidence
  that the longer history has used already. The two then lie on different
  branches of the tree, which is why `RevisionTree` counts evidence along a path.
* `branch` is refused for an interval that is too short for its hidden steps to
  have times of their own, which is a matter of a few microseconds.

* A candidate whose hard constraint is violated gets posterior zero, and zero is
  no valid prior. A request with such a candidate can be decided, observed for
  and acted on, but the fusion after the first observation or search feedback
  raises, and the evidence is not committed.
* An act whose checks, models or fusion raise afterwards has happened and is not
  in the log. `OnlyTheLastActIsLost` says that it is the last one only.
* An observation over a channel to which the request gives weight zero
  (`grounded_search.py:259` allows it), or with reliability zero, is planned by its
  information gain, made, committed and reported, and changes no belief. A run can
  spend all its cycles on such observations.
* Nothing checks the numbers of a replaceable fusion: one that calls a query
  resolved makes the robot act on what its own candidates do not settle, also on
  one with a constraint that was never found satisfied.
* A fresh call of the loop starts from the request it is given: evidence that an
  earlier call committed is not read back from the log.
* A view of quality zero changes no weight and still counts as a cluster of its
  own towards the views that a confirmation needs. Two views of one cluster and
  the same quality: the first one counts.
* Of two shortest paths of equal length that disagree, the way there and the way
  back can take different ones, because edges are sorted by node and id and each
  direction does so from its own end. The household run contains such frames:
  `FramesGoBack` says that there is a way back, as long as the way there, and
  that it undoes the way there if it runs over the same links.
* A clock's time aligned there and back can differ at the edge of a validity
  interval, because validity is judged at the time on the source clock. A link
  registered later can change answers given earlier. `ClocksGoBack` is about the
  same links there and back.
* A `TEMPORARY_EXCEPTION` without `end_day` is permanent, and the actor of an
  earlier guest change stays under a later change without an actor of its own.
* Paired runs share the ids of their opportunities and results while the contents
  differ, and the id of a run does not depend on `paired_noise_seed`.
* The online suite labels every case identifiable. When nothing is detected after
  the change, different causes give a method the same input: `SameInputSameCauses`
  excludes that case.
* The logged policy baseline that does not mind actors blames the owner for a
  guest; `ActorEvidenceEndsLeakage` is about the one that does.
* `update` of the habit model counts evidence again that is delivered again.

## 6. Not modelled, and the plan

`PROJECT.json` lists every component with its status. Left out everywhere:
Pydantic's field validation, canonical JSON, rounding, hashing, report writing
and command lines. Left out of modelled parts:

* the rejection of fields smuggled in by `model_copy` (`_reject_*_extras`), which
  walks over Python objects;
* `DirectionThreePipeline.decide`, which is one cycle without effects;
* camera optics, the capability token of `run_privileged`, and the scan of the
  evaluator for ground truth references, which searches strings;
* of shift attribution: opaque ids, shuffling and splits, confidence values and
  the scores computed from them, and the online evaluator, for which the code has
  no method that would produce its input;
* the budgets and splits of benchmark manifests.

Not modelled at all: the projection store and the store catalog (dictionaries
with one assignment per call), the counterfactual baselines (two stateless
scoring functions), `contracts/events.py`, `cpswm_gt/models.py` and
`simobs/observations.py` (value types the rest does not use), applications and
tools (batch scripts).
