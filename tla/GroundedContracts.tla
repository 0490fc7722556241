------------------------- MODULE GroundedContracts -------------------------
(***************************************************************************)
(* The contracts of grounded search: what a request, the result of a       *)
(* fusion, an observation action, an observation, an execution package and *)
(* an outcome model must satisfy, as their validators and those of the     *)
(* pipeline require it of whatever a replaceable provider hands in.        *)
(*                                                                         *)
(* Probabilities are natural weights: a belief is a function from          *)
(* candidate ids to weights, and the probability of one is its share of    *)
(* their sum.  That priors and posteriors sum to one is therefore built    *)
(* in; likelihoods are parts of Scale.  A likelihood counts with the       *)
(* exponent weight of its channel * reliability * availability; the three  *)
(* are counted in units in which the exponents are whole numbers, zero     *)
(* included.  A scope stands for household, session and trace, `label` for *)
(* schema name and version, and `query` for the id of the compiled query   *)
(* and the version of the fusion model.                                    *)
(***************************************************************************)
EXTENDS Integers, Sequences, FiniteSets, Functions, SequencesExt

CONSTANTS
  Channel,     \* JOINT_EVIDENCE_CHANNELS
  Scale,       \* a likelihood or a probability of one
  NoPlace,     \* location_id is None
  NoGate       \* safety_approval is None

Allowed(status) ==
  CASE status = "resolved"  -> {"return_top_k"}
    [] status = "ambiguous" -> {"active_verify", "ask_user"}
    [] status = "unknown"   -> {"active_verify", "abstain"}

Ids(candidates) == {candidates[i].id : i \in DOMAIN candidates}

CandidateOf(candidates, id) == candidates[CHOOSE i \in DOMAIN candidates : candidates[i].id = id]

IsObject(candidate) == candidate.kind = "object_instance"

UniqueIds(seq) == \A i, j \in DOMAIN seq : seq[i].id = seq[j].id => i = j

-----------------------------------------------------------------------------
(* A candidate is [id, kind, place, prior, channels, constraints]; of the  *)
(* evidence in a channel there is [likelihood, reliability, available].    *)
ValidCandidate(candidate) ==
  /\ DOMAIN candidate.channels = Channel
  /\ candidate.prior > 0
  /\ \A ch \in Channel : candidate.channels[ch].likelihood > 0
  /\ ~ IsObject(candidate) =>
       /\ candidate.place = NoPlace
       /\ Range(candidate.constraints) \subseteq {"unknown"}

(* [candidates, weights, asked, topK, resolution, margin, unknownMass,     *)
(* onAmbiguous, onUnknown, scope, query, label]: weights has the weight of *)
(* every channel, and the thresholds are parts of Scale.                   *)
ValidRequest(request) ==
  LET candidates == request.candidates
  IN  /\ \A i \in DOMAIN candidates : ValidCandidate(candidates[i])
      /\ UniqueIds(candidates)
      /\ Cardinality({i \in DOMAIN candidates : ~ IsObject(candidates[i])}) = 1
      /\ \A i \in DOMAIN candidates : DOMAIN candidates[i].constraints = request.asked
      /\ DOMAIN request.weights = Channel
      /\ \A ch \in Channel : request.weights[ch] >= 0
      /\ request.onAmbiguous \in {"active_verify", "ask_user"}
      /\ request.onUnknown \in {"active_verify", "abstain"}
      /\ request.label = "JointPosteriorRequest"

UnknownId(candidates) ==
  candidates[CHOOSE i \in DOMAIN candidates : ~ IsObject(candidates[i])].id

(* [ranked, posterior, constraints, unknown, status, policy, scope,        *)
(* query]: the validator of the result, ...                                *)
ConsistentResult(result) ==
  /\ result.ranked # << >>
  /\ DOMAIN result.constraints = DOMAIN result.posterior
  /\ \A i \in DOMAIN result.ranked :
       LET item == result.ranked[i]
       IN  item.id \in DOMAIN result.posterior /\ item.probability = result.posterior[item.id]
  /\ result.policy \in Allowed(result.status)

(* ... and its binding to the request it answers.                          *)
BoundResult(request, result) ==
  LET candidates == request.candidates
  IN  /\ result.scope = request.scope
      /\ result.query = request.query
      /\ DOMAIN result.posterior = Ids(candidates)
      /\ \A id \in Ids(candidates) :
           result.constraints[id] = CandidateOf(candidates, id).constraints
      /\ UniqueIds(result.ranked)
      /\ \A i \in DOMAIN result.ranked :
           LET item == result.ranked[i]
           IN  /\ item.id \in Ids(candidates)
               /\ item.kind = CandidateOf(candidates, item.id).kind
               /\ item.place = CandidateOf(candidates, item.id).place
      /\ result.unknown = result.posterior[UnknownId(candidates)]

-----------------------------------------------------------------------------
(* An observation action is [id, contact, gate, model, outcomes, cost]:    *)
(* outcomes maps a label to the likelihood of each candidate.              *)
Approved(gate) == gate # NoGate /\ gate.granted /\ gate.safe /\ gate.risks = {}

ValidAction(action, ids) ==
  /\ \A label \in DOMAIN action.outcomes : DOMAIN action.outcomes[label] = ids
  /\ \A id \in ids :
       SumFunction([label \in DOMAIN action.outcomes |-> action.outcomes[label][id]]) = Scale
  /\ action.contact => Approved(action.gate)
  /\ action.gate # NoGate => action.gate.domain = action.model

ValidActions(actions, ids) ==
  UniqueIds(actions) /\ \A i \in DOMAIN actions : ValidAction(actions[i], ids)

(* An observation is [id, action, outcome, model, channel, likelihoods,    *)
(* reliability, scope, label]; its likelihoods are those that were planned *)
(* with.  How reliable it says it is, is up to it.                         *)
ValidObservation(request, ids, action, observation) ==
  /\ observation.scope = request.scope
  /\ observation.label = "VerificationObservation"
  /\ observation.action = action.id
  /\ observation.model = action.model
  /\ observation.outcome \in DOMAIN action.outcomes
  /\ DOMAIN observation.likelihoods = ids
  /\ observation.likelihoods = action.outcomes[observation.outcome]
  /\ \A id \in ids : observation.likelihoods[id] > 0

-----------------------------------------------------------------------------
(* A feedback record is [id, action, type, place, outcomes, goal,          *)
(* opportunity, from, recorded, until, scope, label]; NoPlace stands for   *)
(* an opportunity that is None, too.                                       *)
ValidFeedback(feedback) ==
  LET chance(outcome) ==
        IF outcome \in DOMAIN feedback.outcomes THEN feedback.outcomes[outcome] ELSE 0
  IN  /\ SumFunction(feedback.outcomes) = Scale
      /\ feedback.goal <= chance("success")
      /\ chance("not_found") > 0 => feedback.type = "search" /\ feedback.opportunity # NoPlace
      /\ chance("grasp_failed") > 0 => feedback.type = "grasp"
      /\ chance("object_slipped") > 0 => feedback.type \in {"grasp", "transfer", "place"}

(* An opportunity is [id, action, selected, time, recorded, scope].        *)
ValidOpportunity(execution, opportunity) ==
  /\ opportunity.recorded = opportunity.time
  /\ opportunity.action = execution.id
  /\ opportunity.selected

FeedbackFits(execution, feedback) ==
  /\ ValidFeedback(feedback)
  /\ feedback.label = "ExecutionFeedbackRecord"
  /\ feedback.from <= feedback.recorded /\ feedback.recorded < feedback.until
  /\ feedback.action = execution.id
  /\ feedback.type = execution.type
  /\ feedback.target = execution.target
  /\ feedback.place = execution.place
  /\ (feedback.type = "search") <=> (feedback.opportunity # NoPlace)
  /\ feedback.opportunity # NoPlace =>
       \E i \in DOMAIN execution.opportunities :
         LET opportunity == execution.opportunities[i]
         IN  /\ opportunity.id = feedback.opportunity
             /\ opportunity.time <= feedback.recorded
             /\ feedback.from <= opportunity.time /\ opportunity.time < feedback.until

(* GroundedTaskExecution: [id, target, type, place, model, opportunities,  *)
(* feedback].                                                              *)
ConsistentExecution(execution) ==
  LET opportunities == execution.opportunities
      feedback      == execution.feedback
  IN  /\ feedback # << >>
      /\ UniqueIds(opportunities)
      /\ (execution.type = "search") <=> (opportunities # << >>)
      /\ \A i \in DOMAIN opportunities : ValidOpportunity(execution, opportunities[i])
      /\ \A i \in DOMAIN feedback : FeedbackFits(execution, feedback[i])
      /\ \A i \in DOMAIN opportunities :
           \E j \in DOMAIN feedback : feedback[j].opportunity = opportunities[i].id

(* The package answers the call that was made, in the scope of the query.  *)
BoundExecution(request, target, execution) ==
  /\ execution.target = target.id
  /\ target.place # NoPlace
  /\ execution.place = target.place
  /\ \A i \in DOMAIN execution.opportunities : execution.opportunities[i].scope = request.scope
  /\ \A i \in DOMAIN execution.feedback : execution.feedback[i].scope = request.scope

(* An outcome model is [type, version, present, absent].                   *)
ValidModel(execution, feedback, model) ==
  /\ DOMAIN model.present = DOMAIN model.absent
  /\ SumFunction(model.present) = Scale /\ SumFunction(model.absent) = Scale
  /\ model.type = execution.type
  /\ model.version = execution.model
  /\ DOMAIN feedback.outcomes \subseteq DOMAIN model.present
=============================================================================
