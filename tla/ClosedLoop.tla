---------------------------- MODULE ClosedLoop ----------------------------
(***************************************************************************)
(* DirectionThreePipeline.run_closed_loop: a query's belief is fused, and  *)
(* as long as it is not settled an observation is planned, made and        *)
(* committed; once it is settled the robot acts on the best candidate, and *)
(* the feedback is committed and may send the loop round again.            *)
(*                                                                         *)
(* Everything outside the loop can fail or hand in what does not fit: the  *)
(* fusion, the two kinds of providers, the executor, the log.  An          *)
(* exception ends the run with whatever was done by then, and the caller   *)
(* may start another one, with the same providers and the same log.  The   *)
(* loop checks that the result of a fusion has the right form and belongs  *)
(* to the request, but not its numbers: a fusion that is not sound may     *)
(* state others.                                                           *)
(* The log is the one of module CommitLedger; others commit to it, too.    *)
(***************************************************************************)
EXTENDS JointPosterior, LogContracts

CONSTANTS
  Request,      \* the requests the loop is called with
  Proposal,     \* what action providers propose: sequences of actions
  Observation,  \* what observation providers return
  Execution,    \* what executors return
  Model,        \* what outcome model providers return
  Forgery,      \* what a replaceable fusion does to its result
  Unnoticed,    \* those of them that no check can notice
  Foreign,      \* batches that others commit, by their key
  MaxCycles,    \* max_cycles
  Goal,         \* success_threshold, in parts of Scale
  MaxRuns,      \* bound: how often the loop is called
  NoResult

(* What others commit was accepted by the log they know.                   *)
ASSUME ForeignAssumption == \A key \in DOMAIN Foreign : ValidBatch(Foreign[key])

IsSequence(s) == Len(s) \in Nat /\ s = [i \in 1..Len(s) |-> s[i]]

IsWeighing(f) == IsFiniteSet(DOMAIN f) /\ f \in [DOMAIN f -> Nat]

ASSUME ExecutionAssumption ==
  \A x \in Execution :
    /\ IsSequence(x.opportunities) /\ IsSequence(x.feedback)
    /\ \A i \in DOMAIN x.feedback : IsWeighing(x.feedback[i].outcomes)

ASSUME ModelAssumption == \A m \in Model : IsWeighing(m.present) /\ IsWeighing(m.absent)

ASSUME ObservationAssumption ==
  \A o \in Observation :
    o.channel \in Channel /\ o.reliability \in Nat /\ IsWeighing(o.likelihoods)

(* The types that the fields of a request have; the rest is ValidRequest.  *)
TypedCandidate(candidate) ==
  /\ {"prior", "channels"} \subseteq DOMAIN candidate
  /\ candidate.prior \in Nat
  /\ \A ch \in Channel :
       /\ {"likelihood", "reliability", "available"} \subseteq DOMAIN candidate.channels[ch]
       /\ candidate.channels[ch].likelihood \in Nat
       /\ candidate.channels[ch].reliability \in Nat /\ candidate.channels[ch].available \in Nat
  /\ Range(candidate.constraints) \subseteq {"satisfied", "violated", "unknown"}

TypedRequest(r) ==
  /\ "candidates" \in DOMAIN r /\ IsSequence(r.candidates)
  /\ \A i \in DOMAIN r.candidates : TypedCandidate(r.candidates[i])
  /\ \A ch \in Channel : r.weights[ch] \in Nat
  /\ r.topK \in Nat \ {0}
  /\ {r.resolution, r.margin, r.unknownMass} \subseteq Nat

ASSUME RequestAssumption == \A r \in Request : TypedRequest(r)

ASSUME ChannelAssumption == IsFiniteSet(Channel)
ASSUME ScaleAssumption == Scale \in Nat /\ Huge \in Nat
ASSUME ForgeryAssumption ==
  /\ Unnoticed \subseteq Forgery
  /\ Forgery \ Unnoticed \subseteq {"none", "moved", "dropped", "denied", "of_another_query", "of_another_scope"}
  /\ Unnoticed \subseteq {"leveled", "insisted"}

VARIABLES
  pc,           \* where the run is
  asked,        \* the request it was called with
  request,      \* current_request
  precomputed,  \* precomputed_result
  result,       \* what this cycle decided on
  chosen,       \* the observation action that is carried out
  pending,      \* evidence that is validated and not yet committed
  cycle,        \* how many cycles have begun
  used, executed, target,
  observed, observedAt, fed, fedAt,  \* observations, feedback and their commits
  reason,       \* termination_reason, or "raised"
  ledger,       \* the canonical log
  marks, consumed,  \* has the provider mark_consumed, and what it was told
  sound,        \* whether the numbers of the fusion are those of JointPosteriorFusion
  performed,    \* what the robot did in this run: [what, records]
  runs

locals  == <<asked, request, precomputed, result, chosen, pending, cycle,
             used, executed, target, observed, observedAt, fed, fedAt>>
outside == <<ledger, marks, consumed, sound, performed, runs>>
loopVars == <<pc, reason, locals, outside>>

Fresh(r) ==
  /\ asked' = r /\ request' = r
  /\ precomputed' = NoResult /\ result' = NoResult /\ chosen' = NoResult /\ pending' = NoResult
  /\ cycle' = 0 /\ used' = {} /\ executed' = {} /\ target' = NoResult
  /\ observed' = << >> /\ observedAt' = << >> /\ fed' = << >> /\ fedAt' = << >>

LoopInit ==
  /\ pc = "idle" /\ reason = "none"
  /\ asked = NoResult /\ request = NoResult
  /\ precomputed = NoResult /\ result = NoResult /\ chosen = NoResult /\ pending = NoResult
  /\ cycle = 0 /\ used = {} /\ executed = {} /\ target = NoResult
  /\ observed = << >> /\ observedAt = << >> /\ fed = << >> /\ fedAt = << >>
  /\ ledger = << >> /\ marks \in BOOLEAN /\ sound \in BOOLEAN
  /\ consumed = {} /\ performed = << >> /\ runs = 0

-----------------------------------------------------------------------------
(* An exception leaves the caller nothing of the run.                      *)
Raise ==
  /\ pc' = "ended" /\ reason' = "raised"
  /\ Fresh(NoResult)

Return(why) ==
  /\ pc' = "ended" /\ reason' = why
  /\ UNCHANGED <<asked, request, precomputed, used, executed, observed, observedAt, fed, fedAt, cycle>>

Start(r) ==
  /\ pc \in {"idle", "ended"} /\ runs < MaxRuns
  /\ runs' = runs + 1
  /\ IF ValidRequest(r)
     THEN pc' = "decide" /\ reason' = "none" /\ Fresh(r)
     ELSE Raise
  /\ performed' = << >>
  /\ UNCHANGED <<ledger, marks, consumed, sound>>

-----------------------------------------------------------------------------
(* What a fusion provider may return for a request: its own result, one    *)
(* that does not fit, one made for something else, and one that fits but   *)
(* finds all candidates alike, or the query resolved, whatever it is.      *)
Forged(own, forgery) ==
  CASE forgery = "none"    -> own
    [] forgery = "moved"   -> [own EXCEPT !.ranked[1].place = "elsewhere"]
    [] forgery = "dropped" -> [own EXCEPT !.posterior = [id \in DOMAIN @ \ {own.ranked[1].id} |-> @[id]]]
    [] forgery = "denied"  -> [own EXCEPT !.unknown = 0]
    [] forgery = "of_another_query" -> [own EXCEPT !.query = "another"]
    [] forgery = "of_another_scope" -> [own EXCEPT !.scope = "another"]
    [] forgery = "leveled" ->
         [own EXCEPT !.posterior = [id \in DOMAIN @ |-> 1], !.unknown = 1,
                     !.ranked = [k \in DOMAIN @ |-> [@[k] EXCEPT !.probability = 1]]]
    [] forgery = "insisted" -> [own EXCEPT !.status = "resolved", !.policy = "return_top_k"]

Tampering == IF sound THEN Forgery \ Unnoticed ELSE Forgery

FusionValid(r, res) == ConsistentResult(res) /\ BoundResult(r, res)

(* _fuse_validated: NoResult stands for the exception.  A prior of zero is *)
(* no StrictlyPositiveProbability.                                         *)
FuseValidated(r, forgery) ==
  IF ~ ValidRequest(r) THEN {NoResult}
  ELSE {IF FusionValid(r, res) THEN res ELSE NoResult : res \in {Forged(own, forgery) : own \in Fusions(r)}}

(* The beginning of a cycle: fuse, unless the last cycle did, and go where *)
(* the policy of the result says.                                          *)
Decide(forgery) ==
  /\ pc = "decide" /\ cycle < MaxCycles
  /\ \E res \in IF precomputed # NoResult THEN {precomputed} ELSE FuseValidated(request, forgery) :
       IF res = NoResult THEN Raise
       ELSE /\ result' = res
            /\ IF res.policy \in {"ask_user", "abstain"}
               THEN Return(res.policy) /\ target' = NoResult
               ELSE /\ pc' = IF res.policy = "active_verify" THEN "plan" ELSE "act"
                    /\ cycle' = cycle + 1 /\ precomputed' = NoResult
                    /\ UNCHANGED <<reason, asked, request, used, executed, target,
                                   observed, observedAt, fed, fedAt>>
            /\ UNCHANGED <<chosen, pending>>
  /\ UNCHANGED outside

FaultOneMore ==
  /\ pc = "decide" /\ cycle > MaxCycles
  /\ Return("maximum_closed_loop_cycles_reached")
  /\ UNCHANGED <<target, result, chosen, pending, outside>>

GiveUp ==
  /\ pc = "decide" /\ cycle = MaxCycles
  /\ Return("maximum_closed_loop_cycles_reached")
  /\ UNCHANGED <<target, result, chosen, pending, outside>>

-----------------------------------------------------------------------------
Offered(proposal) == SelectSeq(proposal, LAMBDA a : a.id \notin consumed)

Unused(actions) == {a \in ToSet(actions) : a.id \notin used}

Plan(proposal) ==
  LET offered == Offered(proposal)
      actions == Unused(offered)
      belief  == result.posterior
  IN  /\ pc = "plan"
      /\ IF ~ ValidActions(offered, DOMAIN belief) THEN Raise
         ELSE \/ /\ MayStop(belief, actions)
                 /\ Return("stopped")
                 /\ UNCHANGED <<target, result, chosen, pending>>
              \/ \E a \in Selectable(belief, actions) :
                   /\ pc' = "observe" /\ chosen' = a
                   /\ UNCHANGED <<reason, asked, request, precomputed, result, pending, cycle, used,
                                  executed, target, observed, observedAt, fed, fedAt>>
      /\ UNCHANGED outside

Perform(what, records) ==
  performed' = Append(performed, [what |-> what, records |-> records])

(* observe, the checks of what came back, the next request and its fusion: *)
(* only then is there something to commit.                                 *)
Observe(o, forgery) ==
  /\ pc = "observe"
  /\ Perform(<<"observation", chosen.id>>, {o.id})
  /\ IF ~ ValidObservation(request, DOMAIN result.posterior, chosen, o) THEN Raise
     ELSE \E next \in {RequestAfterObservation(request, result, o)} :
          \E res \in FuseValidated(next, forgery) :
            IF res = NoResult THEN Raise
            ELSE /\ pc' = "commit_observation"
                 /\ pending' = [record |-> o, next |-> next, result |-> res]
                 /\ UNCHANGED <<reason, asked, request, precomputed, result, chosen, cycle, used,
                                executed, target, observed, observedAt, fed, fedAt>>
  /\ UNCHANGED <<ledger, marks, consumed, sound, runs>>

-----------------------------------------------------------------------------
Envelope(item) ==
  [id |-> item.id, household |-> item.scope, trace |-> item.scope, schema |-> "record", body |-> item]

(* A key that is known answers with the commit it has.                     *)
SequenceOf(key, batch) ==
  IF \E i \in DOMAIN ledger : ScopedKey(ledger[i]) = <<batch[1].household, key>>
  THEN CHOOSE i \in DOMAIN ledger : ScopedKey(ledger[i]) = <<batch[1].household, key>>
  ELSE Len(ledger) + 1

FaultKeyOnly(key, batch) ==
  \A i \in DOMAIN ledger : ScopedKey(ledger[i]) # <<batch[1].household, key>>

(* Neither the key nor a record is in the log.  The time of a commit is    *)
(* left out.                                                               *)
IsNewBatch(key, batch) ==
  \A i \in DOMAIN ledger :
    /\ ScopedKey(ledger[i]) # <<batch[1].household, key>>
    /\ RecordIds(ledger[i].records) \cap RecordIds(batch) = {}

Accepts(key, batch) ==
  /\ ValidBatch(batch)
  /\ \/ IsNewBatch(key, batch)
     \/ SequenceOf(key, batch) <= Len(ledger) /\ ledger[SequenceOf(key, batch)].records = batch

FaultFirstOnly(key, batch) ==
  ledger' = IF IsNewBatch(key, batch)
            THEN Append(ledger, CommittedTransaction(Len(ledger) + 1, <<batch[1]>>, key, NoTime))
            ELSE ledger

Appended(key, batch) ==
  ledger' = IF IsNewBatch(key, batch)
            THEN Append(ledger, CommittedTransaction(Len(ledger) + 1, batch, key, NoTime))
            ELSE ledger

CommitObservation ==
  LET o     == pending.record
      key   == <<"observation", o.id>>
      batch == <<Envelope(o)>>
  IN  /\ pc = "commit_observation"
      /\ IF ~ Accepts(key, batch) THEN Raise /\ UNCHANGED ledger
         ELSE /\ Appended(key, batch)
              /\ observed' = Append(observed, o)
              /\ observedAt' = Append(observedAt, SequenceOf(key, batch))
              /\ used' = used \cup {chosen.id}
              /\ pc' = "mark"
              /\ UNCHANGED <<reason, asked, request, precomputed, result, chosen, pending, cycle,
                             executed, target, fed, fedAt>>
      /\ UNCHANGED <<marks, consumed, sound, performed, runs>>

(* mark_consumed, if the provider has one, and the end of the cycle.       *)
Mark ==
  /\ pc = "mark"
  /\ consumed' = IF marks THEN consumed \cup {chosen.id} ELSE consumed
  /\ request' = pending.next /\ precomputed' = pending.result
  /\ pending' = NoResult /\ chosen' = NoResult /\ result' = NoResult
  /\ pc' = "decide"
  /\ UNCHANGED <<reason, asked, cycle, used, executed, target, observed, observedAt, fed, fedAt,
                 ledger, marks, sound, performed, runs>>

-----------------------------------------------------------------------------
ObjectsOf(res) == {k \in DOMAIN res.ranked : IsObject(res.ranked[k])}

TargetOf(res) == res.ranked[Min(ObjectsOf(res))]

RecordsOf(execution) == execution.opportunities \o execution.feedback

(* A result that names no object ends the run with StopIteration.          *)
NothingToActOn ==
  /\ pc = "act" /\ ObjectsOf(result) = {}
  /\ Raise
  /\ UNCHANGED outside

(* execute, and the checks of what came back.                              *)
Act(execution) ==
  /\ pc = "act" /\ ObjectsOf(result) # {}
  /\ Perform(<<"execution", execution.id>>, {RecordsOf(execution)[i].id : i \in DOMAIN RecordsOf(execution)})
  /\ IF \/ ~ ConsistentExecution(execution)
        \/ ~ BoundExecution(request, TargetOf(result), execution)
        \/ execution.id \in executed
     THEN Raise
     ELSE /\ pc' = "learn"
          /\ target' = TargetOf(result).id
          /\ pending' = [execution |-> execution, learned |-> << >>, next |-> request, result |-> result]
          /\ UNCHANGED <<reason, asked, request, precomputed, result, chosen, cycle, used,
                         executed, observed, observedAt, fed, fedAt>>
  /\ UNCHANGED <<ledger, marks, consumed, sound, runs>>

(* The presence of the target is updated on top of what the feedback       *)
(* before this one left.                                                   *)
Updated(feedback, model) ==
  RequestAfterPresenceUpdate(pending.next, pending.result, target, feedback, model)

(* The next feedback record of the execution.  Only the feedback of a      *)
(* search says anything about where the target is; a model that does not   *)
(* fit raises, like a fusion that does.                                    *)
Learn(model, forgery) ==
  LET at       == Len(pending.learned) + 1
      feedback == pending.execution.feedback[at]
      Learned(next, res) ==
        /\ pending' = [pending EXCEPT !.learned = Append(@, [record |-> feedback, model |-> model]),
                                      !.next = next, !.result = res]
        /\ pc' = IF at = Len(pending.execution.feedback) THEN "commit_execution" ELSE "learn"
        /\ UNCHANGED <<reason, asked, request, precomputed, result, chosen, cycle, used,
                       executed, target, observed, observedAt, fed, fedAt>>
  IN  /\ pc = "learn"
      /\ IF feedback.type # "search" THEN Learned(pending.next, pending.result)
         ELSE IF ~ ValidModel(pending.execution, feedback, model) THEN Raise
         ELSE \E next \in {Updated(feedback, model)} : \E res \in FuseValidated(next, forgery) :
                IF res = NoResult THEN Raise ELSE Learned(next, res)
      /\ UNCHANGED outside

(* The whole evidence of an execution is one batch.                        *)
CommitExecution ==
  LET execution == pending.execution
      key       == <<"execution", execution.id>>
      batch     == [i \in DOMAIN RecordsOf(execution) |-> Envelope(RecordsOf(execution)[i])]
      success   == \E i \in DOMAIN execution.feedback : execution.feedback[i].goal >= Goal
      replanned == execution.type = "search"
      Leave(why) ==
        /\ pc' = "ended" /\ reason' = why /\ UNCHANGED <<request, precomputed>>
  IN  /\ pc = "commit_execution"
      /\ IF ~ Accepts(key, batch) THEN Raise /\ UNCHANGED ledger
         ELSE /\ Appended(key, batch)
              /\ fed' = fed \o pending.learned
              /\ fedAt' = fedAt \o [i \in DOMAIN pending.learned |-> SequenceOf(key, batch)]
              /\ executed' = executed \cup {execution.id}
              /\ CASE success -> Leave("task_success_feedback_committed")
                   [] ~ success /\ replanned ->
                        /\ pc' = "decide" /\ UNCHANGED reason
                        /\ request' = pending.next /\ precomputed' = pending.result
                   [] ~ success /\ ~ replanned -> Leave("task_incomplete_feedback_committed")
              /\ pending' = NoResult /\ result' = NoResult
              /\ UNCHANGED <<asked, chosen, cycle, used, target, observed, observedAt>>
      /\ UNCHANGED <<marks, consumed, sound, performed, runs>>

-----------------------------------------------------------------------------
(* A provider raises: propose, observe, mark_consumed, execute, model_for. *)
ProviderRaises ==
  /\ pc \in {"plan", "observe", "mark", "act", "learn"}
  /\ Raise
  /\ UNCHANGED outside

(* Others commit to the log between any two steps.                         *)
Others ==
  /\ \E key \in DOMAIN Foreign :
       /\ IsNewBatch(key, Foreign[key])
       /\ Appended(key, Foreign[key])
  /\ UNCHANGED <<pc, reason, locals, marks, consumed, sound, performed, runs>>

Run ==
  \/ \E f \in Tampering : Decide(f)
  \/ GiveUp
  \/ \E p \in Proposal : Plan(p)
  \/ \E o \in Observation, f \in Tampering : Observe(o, f)
  \/ CommitObservation
  \/ Mark
  \/ NothingToActOn
  \/ \E x \in Execution : Act(x)
  \/ \E m \in Model, f \in Tampering : Learn(m, f)
  \/ CommitExecution
  \/ ProviderRaises

LoopNext == Run \/ Others \/ \E r \in Request : Start(r)

(* The loop runs on in its own thread; every call it makes returns or      *)
(* raises.  Nothing makes the caller start it.                             *)
LoopSpec == LoopInit /\ [][LoopNext]_loopVars /\ WF_loopVars(Run)
-----------------------------------------------------------------------------
(* What the belief should be: the posterior of the request as it was       *)
(* asked, times the likelihood of every observation and of every search    *)
(* result the run committed, each exactly once; that of an observation to  *)
(* the power of its reliability and the weight its channel has in what was *)
(* asked.  An observation that was made over a channel of weight zero, or  *)
(* that is wholly unreliable, is committed and changes nothing.            *)
ObservedFactor(id) ==
  ProductOf([i \in DOMAIN observed |->
               Power(observed[i].likelihoods[id],
                     asked.weights[observed[i].channel] * observed[i].reliability)])

FeedbackFactor(id, item) ==
  IF item.record.type # "search" THEN 1
  ELSE FeedbackLikelihood(item.record,
         IF id = item.record.target THEN item.model.present ELSE item.model.absent)

CommittedBelief ==
  [id \in Ids(asked.candidates) |->
     Posterior(asked)[id] * ObservedFactor(id)
       * ProductOf([i \in DOMAIN fed |-> FeedbackFactor(id, fed[i])])]

(* Some feedback in the trace is impossible with the target, or without.   *)
Certainty ==
  \E i \in DOMAIN fed : fed[i].record.type = "search" /\
    \E distribution \in {fed[i].model.present, fed[i].model.absent} :
      FeedbackLikelihood(fed[i].record, distribution) = 0

(* The belief of a run is made of the committed evidence and nothing else: *)
(* each piece counts once, with the weight it has by the request that was  *)
(* asked, and none counts that the log does not hold.  Where a likelihood  *)
(* is zero, the code clamps; whether the numbers of another fusion are     *)
(* right, nothing checks (run_closed_loop, fuse).                          *)
BeliefIsWhatWasCommitted ==
  (sound /\ pc \in {"decide", "plan", "observe", "act"} /\ ~ Certainty) =>
    Posterior(request) = LowestTerms(CommittedBelief)

(* The sequence numbers a run reports are those of transactions that hold  *)
(* the record they are reported for, also when another run, or another     *)
(* process, committed it before.                                           *)
ReportedCommitsHold ==
  /\ \A i \in DOMAIN observedAt :
       /\ observedAt[i] \in DOMAIN ledger
       /\ observed[i].id \in RecordIds(ledger[observedAt[i]].records)
  /\ \A i \in DOMAIN fedAt :
       /\ fedAt[i] \in DOMAIN ledger
       /\ fed[i].record.id \in RecordIds(ledger[fedAt[i]].records)

LoggedIds == UNION {RecordIds(ledger[i].records) : i \in DOMAIN ledger}

(* What the robot did is in the log before it does the next thing: a run   *)
(* that raises loses the evidence of its last act at most, and a run that  *)
(* returns loses none.                                                     *)
OnlyTheLastActIsLost ==
  \A i \in DOMAIN performed :
    \/ performed[i].records \subseteq LoggedIds
    \/ /\ i = Len(performed)
       /\ pc \in {"commit_observation", "learn", "commit_execution"} \/ reason = "raised"

(* One run makes no observation twice, also when the provider does not     *)
(* take note of what it was told and proposes the action again.            *)
NoObservationTwice ==
  \A i, j \in DOMAIN performed :
    (performed[i].what = performed[j].what /\ performed[i].what[1] = "observation") => i = j

(* The log tells what the robot did: no act is made before the last one is *)
(* in it, the commits that a run reports hold what they are reported for,  *)
(* and nothing was looked at twice, however a run ended and whatever its   *)
(* providers proposed.                                                     *)
ActsAreOnRecord == OnlyTheLastActIsLost /\ ReportedCommitsHold /\ NoObservationTwice

(* The robot acts on an object only where the request puts it, whatever    *)
(* the fusion states and whatever it states it for; and by the numbers of  *)
(* JointPosteriorFusion, only when every hard constraint was found         *)
(* satisfied and the evidence committed so far makes it the most probable  *)
(* candidate, by the threshold.                                            *)
ActsOnSettledTargets ==
  (pc = "act" /\ ObjectsOf(result) # {}) =>
    LET id     == TargetOf(result).id
        wanted == CandidateOf(asked.candidates, id)
        belief == CommittedBelief
    IN  /\ id \in Ids(asked.candidates)
        /\ TargetOf(result).place = wanted.place
        /\ sound => Range(wanted.constraints) \subseteq {"satisfied"}
        /\ (sound /\ ~ Certainty) =>
             /\ Scale * belief[id] >= asked.resolution * Total(belief)
             /\ \A other \in DOMAIN belief : belief[other] <= belief[id]

(* The loop uses the log by its contract: keys and records are new in      *)
(* every transaction it adds.                                              *)
Ledger == INSTANCE CommitLedger WITH durable <- NoResult, NoDump <- NoResult

UsesLedger == Ledger!Spec

(* A run that was started comes to an end, whatever its providers return   *)
(* and however often they send it round again.                             *)
EveryRunEnds == (pc # "idle") ~> (pc = "ended")
=============================================================================
