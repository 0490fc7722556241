------------------------------- MODULE Replay -------------------------------
(***************************************************************************)
(* Strict replay: a manifest is made of a prefix of an input log, and a    *)
(* ReplayRunner dispatches the messages of that prefix, in the order of    *)
(* their sequence numbers, in a runtime that writes a log of its own.      *)
(*                                                                         *)
(* The runtime is module Runtime, and its log is the output log.  The      *)
(* input log is a ledger that other threads append to; every method of it  *)
(* takes the lock for itself, so that commits can fall between any two     *)
(* calls of build_replay_manifest or of run.  A new process or a new       *)
(* runtime may take over, with the dump of the output log or with an empty *)
(* one, and the input log may be loaded from an older dump and grow        *)
(* differently.                                                            *)
(* A fingerprint of a log is the log.                                      *)
(***************************************************************************)
EXTENDS Runtime

CONSTANTS
  Feed,            \* appends to the input log: [records, key, at]
  MessageSchema,   \* "cpswm.RuntimeMessageRecord"
  SchemaVersion,   \* the schema versions a manifest can declare for the messages
  Logical,         \* [at, seed]: what a manifest can declare for the runtime
  NoWatermark, NoBuild, NoReplay,
  MaxManifests     \* bound: how many manifests are made

ASSUME LogicalAssumption == Logical = Manifest

ASSUME FeedAssumption ==
  \A feed \in Feed : feed.records \in Batch /\ feed.key \in Key /\ feed.at \in Time

(* A message of this module has a sequence number.                         *)
ASSUME MessageAssumption == \A m \in Message : m.seqNo \in Nat

VARIABLES
  input,       \* the input log
  source,      \* the version of what is on disk
  code,        \* the version of what the process has imported
  building,    \* what build_replay_manifest has read so far
  manifests,   \* the manifests that were made
  stage,       \* where run is: idle, watermark, fingerprint, decode, dispatch
  replayed,    \* the manifest it runs on
  queue,       \* the messages still to dispatch
  outputs,     \* what the others returned
  tenants,     \* history: the manifests whose runs have used the output log
  runs         \* history: the ReplayRuns that were returned

runtime == <<vars>>
inputs  == <<input, source, code, building, manifests>>
run     == <<stage, replayed, queue, outputs>>
history == <<tenants, runs>>
replayVars == <<runtime, inputs, run, history>>

ReplayInit ==
  /\ Init
  /\ input = << >> /\ source \in Version /\ code = source /\ versions = source
  /\ building = NoBuild /\ manifests = {}
  /\ stage = "idle" /\ replayed = NoReplay /\ queue = << >> /\ outputs = << >>
  /\ tenants = {} /\ runs = {}

-----------------------------------------------------------------------------
(* The input log.                                                          *)
InputCommit(feed) ==
  /\ ValidBatch(feed.records)
  /\ \A i \in DOMAIN input :
       /\ ScopedKey(input[i]) # <<feed.records[1].household, feed.key>>
       /\ RecordIds(input[i].records) \cap RecordIds(feed.records) = {}
  /\ input' = Append(input,
       CommittedTransaction(Len(input) + 1, feed.records, feed.key, feed.at))
  /\ UNCHANGED <<runtime, source, code, building, manifests, run, history>>

(* A later process loads a dump that holds less.                           *)
InputReload(n) ==
  /\ stage = "idle" /\ building = NoBuild
  /\ input' = SubSeq(input, 1, n)
  /\ UNCHANGED <<runtime, source, code, building, manifests, run, history>>

(* watermark_at                                                            *)
WatermarkAt(txs, n) ==
  IF n = 0 THEN NoWatermark ELSE WatermarkFor(txs[n], LocalSeqAt(txs, n))

Prefix(n) == SubSeq(input, 1, n)

-----------------------------------------------------------------------------
(* build_replay_manifest: through which commit, ...                        *)
BeginManifest(n) ==
  /\ stage = "idle" /\ building = NoBuild
  /\ Cardinality(manifests) < MaxManifests
  /\ building' = [through |-> n, watermark |-> NoBuild]
  /\ UNCHANGED <<runtime, input, source, code, manifests, run, history>>

(* ... the watermark of that commit, ...                                   *)
ReadWatermark ==
  /\ building # NoBuild /\ building.watermark = NoBuild
  /\ building' = [building EXCEPT !.watermark = WatermarkAt(input, building.through)]
  /\ UNCHANGED <<runtime, input, source, code, manifests, run, history>>

FaultFingerprintOfAll == input

(* fingerprint(through_commit_seq=through)                                 *)
Fingerprint == Prefix(building.through)

(* ... and the fingerprint of the log up to it.  The caller declares the   *)
(* version, and that of the schema of the messages.                        *)
EndManifest(logical, version, schemaVersion) ==
  /\ building # NoBuild /\ building.watermark # NoBuild
  /\ manifests' = manifests \cup
       {[watermark |-> building.watermark, through |-> building.through,
         prefix |-> Fingerprint, version |-> version, schemaVersion |-> schemaVersion,
         logical |-> logical]}
  /\ building' = NoBuild
  /\ UNCHANGED <<runtime, input, source, code, run, history>>

(* Somebody edits the source or checks out another commit.                 *)
EditSource(version) ==
  /\ version # source /\ source' = version
  /\ UNCHANGED <<runtime, input, code, building, manifests, run, history>>

-----------------------------------------------------------------------------
(* run raises, and has no effect but what its handlers have committed.     *)
Abandon ==
  /\ stage' = "idle" /\ replayed' = NoReplay
  /\ queue' = << >> /\ outputs' = << >>

FaultManifestNotCompared(m) == versions = source

(* verify_replay_provenance: the bundle the runtime was made with is that  *)
(* of what is on disk now, and the one the manifest declares.              *)
VersionsMatch(m) == versions = source /\ m.version = versions

(* The host has registered its handlers.                                   *)
StartReplay(m) ==
  /\ stage = "idle" /\ building = NoBuild /\ registered = Registration
  /\ VersionsMatch(m)
  /\ stage' = "watermark" /\ replayed' = m
  /\ UNCHANGED <<runtime, inputs, queue, outputs, history>>

VerifyWatermark ==
  /\ stage = "watermark"
  /\ IF /\ replayed.through <= Len(input)
        /\ WatermarkAt(input, replayed.through) = replayed.watermark
     THEN stage' = "fingerprint" /\ UNCHANGED <<replayed, queue, outputs>>
     ELSE Abandon
  /\ UNCHANGED <<runtime, inputs, history>>

FaultWatermarkIsEnough == TRUE

FingerprintMatches == Prefix(replayed.through) = replayed.prefix

VerifyFingerprint ==
  /\ stage = "fingerprint"
  /\ IF FingerprintMatches
     THEN stage' = "decode" /\ UNCHANGED <<replayed, queue, outputs>>
     ELSE Abandon
  /\ UNCHANGED <<runtime, inputs, history>>

RecordsIn(txs) ==
  UNION {{txs[i].records[j] : j \in DOMAIN txs[i].records} : i \in DOMAIN txs}

MessagesIn(txs) == {r.body : r \in RecordsIn(txs)}

(* read(through_commit_seq=...)                                            *)
ReadInput == Prefix(replayed.through)

(* A record holds a message if its schema says so and its payload is one;  *)
(* the message is of the schema version that the manifest declares.        *)
Decodable(r, schemaVersion) ==
  /\ r.schema = MessageSchema
  /\ r.body \in Message /\ r.body.schemaVersion = schemaVersion

Unique(records) == \A q, r \in records : q.body.seqNo = r.body.seqNo => q = r

(* sorted by sequence_no                                                   *)
Ordered(messages) ==
  [i \in 1..Cardinality(messages) |->
     CHOOSE m \in messages : Cardinality({n \in messages : n.seqNo < m.seqNo}) = i - 1]

Decode ==
  /\ stage = "decode"
  /\ IF /\ \A r \in RecordsIn(ReadInput) : Decodable(r, replayed.schemaVersion)
        /\ Unique(RecordsIn(ReadInput))
     THEN /\ stage' = "dispatch"
          /\ queue' = Ordered(MessagesIn(ReadInput))
          /\ tenants' = tenants \cup {replayed}
          /\ UNCHANGED <<replayed, outputs>>
     ELSE Abandon /\ UNCHANGED tenants
  /\ UNCHANGED <<runtime, inputs, runs>>

(* The next message is dispatched; one that is a command without a handler *)
(* ends the run.                                                           *)
DispatchNext ==
  /\ stage = "dispatch" /\ phase = "idle" /\ queue # << >>
  /\ \/ Dispatch(Head(queue), replayed.logical) /\ UNCHANGED run
     \/ /\ Head(queue).kind = "command" /\ HandlersFor(Head(queue)) = {}
        /\ Abandon /\ UNCHANGED runtime
  /\ UNCHANGED <<inputs, history>>

(* The runtime works on it (logical time stands still in a replay, so that *)
(* no execution finishes before it started), ...                           *)
Handle ==
  /\ stage = "dispatch"
  /\ \/ ReturnCached
     \/ Begin
     \/ RaiseRetryable
     \/ RaiseOther
     \/ ReturnOutput
     \/ Succeed
  /\ UNCHANGED <<inputs, run, history>>

(* ... raises, ...                                                         *)
HandlerRaises ==
  /\ stage = "dispatch"
  /\ Fail \/ RefuseReusedKey
  /\ Abandon
  /\ UNCHANGED <<inputs, history>>

(* What a ReplayRun keeps of an execution.                                 *)
Recorded(result) ==
  [execution |-> result,
   watermark |-> IF result.commit = NoCommit THEN NoWatermark
                 ELSE WatermarkAt(log, result.commit.seq)]

(* ... or returns.                                                         *)
HandlersReturn ==
  /\ stage = "dispatch"
  /\ Return
  /\ outputs' = outputs \o [i \in DOMAIN results |-> Recorded(results[i])]
  /\ queue' = Tail(queue)
  /\ UNCHANGED <<inputs, stage, replayed, history>>

(* Every message was handled: run returns.                                 *)
EndReplay ==
  /\ stage = "dispatch" /\ phase = "idle" /\ queue = << >>
  /\ runs' = runs \cup
       {[manifest |-> replayed, outputs |-> outputs, code |-> code,
         alone |-> tenants = {replayed}]}
  /\ Abandon
  /\ UNCHANGED <<runtime, inputs, tenants>>

-----------------------------------------------------------------------------
(* The host's set-up, dumps and restarts.  A dump that is deleted lets the *)
(* next process begin with an empty output log.                            *)
Setup(r) == stage = "idle" /\ Register(r) /\ UNCHANGED <<inputs, run, history>>

SaveOutput == stage = "idle" /\ Dump /\ UNCHANGED <<inputs, run, history>>

DeleteDump ==
  /\ stage = "idle" /\ phase = "idle" /\ disk # NoDump /\ disk' = NoDump
  /\ UNCHANGED <<clock, log, restarts, loaded, process, phase, request, todo, results, progress, answers>>
  /\ UNCHANGED <<inputs, run, history>>

(* The host makes a runtime, with a version bundle of what it finds on     *)
(* disk, ...                                                               *)
NewRuntime ==
  /\ Restart
  /\ versions' = source
  /\ Abandon
  /\ building' = NoBuild
  /\ tenants' = IF disk = NoDump THEN {} ELSE tenants
  /\ UNCHANGED <<input, source, manifests, runs>>

(* ... in the process it has, between two replays, or in a new one, which  *)
(* imports what is on disk.                                                *)
NewRuntimeHere == stage = "idle" /\ NewRuntime /\ UNCHANGED code

NewProcess == NewRuntime /\ code' = source

Run ==
  \/ VerifyWatermark \/ VerifyFingerprint \/ Decode
  \/ DispatchNext \/ Handle \/ HandlerRaises \/ HandlersReturn \/ EndReplay

ReplayNext ==
  \/ \E feed \in Feed : InputCommit(feed)
  \/ \E n \in 0..Len(input) : InputReload(n) \/ BeginManifest(n)
  \/ ReadWatermark
  \/ \E logical \in Logical, v \in Version, schemaVersion \in SchemaVersion :
       EndManifest(logical, v, schemaVersion)
  \/ \E v \in Version : EditSource(v)
  \/ \E m \in manifests : StartReplay(m)
  \/ Run
  \/ \E r \in Registration : Setup(r)
  \/ SaveOutput
  \/ DeleteDump
  \/ NewRuntimeHere
  \/ NewProcess

ReplaySpec == ReplayInit /\ [][ReplayNext]_replayVars

(***************************************************************************)
(* Scheduling: run keeps going, the host sets a runtime up and tries a     *)
(* replay that failed again, and no handler raises for ever.               *)
(***************************************************************************)
Answer(m) == message = m /\ ReturnOutput /\ Handle

ReplayFairSpec ==
  /\ ReplaySpec
  /\ WF_replayVars(Run)
  /\ \A r \in Registration : SF_replayVars(Setup(r))
  /\ SF_replayVars(\E m \in manifests : StartReplay(m))
  /\ \A m \in Message : SF_replayVars(Answer(m))

-----------------------------------------------------------------------------
(* A manifest speaks of one log: its watermark is that of the prefix it    *)
(* fingerprints, whatever was committed while it was being made.           *)
ManifestIsOnePrefix ==
  \A m \in manifests :
    Len(m.prefix) = m.through /\ m.watermark = WatermarkAt(m.prefix, m.through)

(* What is dispatched is what the manifest was made of, however the input  *)
(* log has grown or been replaced since: the messages of its prefix, none  *)
(* left out that has a handler, and a run that has returned has outputs of *)
(* no other message, in the order of the sequence numbers.                 *)
ReplaysThePrefix ==
  /\ stage = "dispatch" =>
       /\ {queue[i] : i \in DOMAIN queue} \subseteq MessagesIn(replayed.prefix)
       /\ \A m \in MessagesIn(replayed.prefix) :
            \/ \E i \in DOMAIN queue : queue[i] = m
            \/ \E i \in DOMAIN outputs : outputs[i].execution.message = m
            \/ HandlersFor(m) = {}
  /\ \A r \in runs : \A i, j \in DOMAIN r.outputs :
       LET before == r.outputs[i].execution.message
           after  == r.outputs[j].execution.message
       IN  /\ before \in MessagesIn(r.manifest.prefix)
           /\ i < j => before.seqNo <= after.seqNo

(* The version bundle handlers see in a replay is the one the manifest     *)
(* declares, whatever was edited, installed or restarted in between.       *)
ReplaysTheVersion ==
  \A r \in runs : \A i \in DOMAIN r.outputs :
    r.outputs[i].execution.context.versions = r.manifest.version

(* The code that a replay runs is the code the manifest declares.          *)
ReplaysTheCode ==
  \A r \in runs : r.outputs # << >> => r.code = r.manifest.version

Attempts(r) == [i \in DOMAIN r.outputs |-> r.outputs[i].execution.context.attempt]

(* Replay is deterministic: two runs of one manifest over output logs that *)
(* served no other manifest return the same outputs, commits and           *)
(* watermarks, if their handlers needed the same attempts; it does not     *)
(* matter that one of them was completed over what an earlier, failed run  *)
(* or a process that died had left behind.                                 *)
RunsAgree ==
  \A r, s \in runs :
    r.manifest = s.manifest /\ r.alone /\ s.alone /\ Attempts(r) = Attempts(s)
      => r.outputs = s.outputs

(* The input log still begins with the prefix of the manifest, the prefix  *)
(* can be decoded, the version is installed, and the output log serves no  *)
(* other manifest.                                                         *)
Replayable(m) ==
  /\ VersionsMatch(m)
  /\ m.through <= Len(input) /\ Prefix(m.through) = m.prefix
  /\ \A r \in RecordsIn(m.prefix) : Decodable(r, m.schemaVersion)
  /\ Unique(RecordsIn(m.prefix))
  /\ tenants \subseteq {m}

(* A replay that is tried again is completed in the end: what a failed run *)
(* or a process that died has left in the output log never stands in the   *)
(* way of the next.  (For handlers with a single attempt.)                 *)
ReplayCompletes ==
  <>[](manifests # {} /\ \A m \in manifests : Replayable(m))
    => <>[](\A m \in manifests : \E r \in runs : r.manifest = m)
=============================================================================
