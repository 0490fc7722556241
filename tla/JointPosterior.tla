-------------------------- MODULE JointPosterior --------------------------
(***************************************************************************)
(* The belief arithmetic of grounded search: JointPosteriorFusion.fuse,    *)
(* the observation planner, and how an observation or the feedback of an   *)
(* action turns one request into the next.                                 *)
(*                                                                         *)
(* fuse adds logarithms; here the weights are multiplied, and the belief   *)
(* is kept in lowest terms.  The entropies of the planner are real-valued: *)
(* the model knows which actions can tell candidates apart, and leaves     *)
(* open how those that can are ranked.                                     *)
(***************************************************************************)
EXTENDS GroundedContracts, Products

CONSTANT Huge  \* how far nextafter(0.0, 1.0) is from a probability that is not clamped

Gcd[p \in Nat \X Nat] == IF p[2] = 0 THEN p[1] ELSE Gcd[<<p[2], p[1] % p[2]>>]

LowestTerms(weights) ==
  LET d == FoldFunction(LAMBDA a, b : Gcd[<<a, b>>], 0, weights)
  IN  [id \in DOMAIN weights |-> weights[id] \div d]

Total(weights) == SumFunction(weights)

-----------------------------------------------------------------------------
Violated(candidate) == IsObject(candidate) /\ "violated" \in Range(candidate.constraints)

EffectiveWeight(weights, candidate, ch) ==
  weights[ch] * candidate.channels[ch].reliability * candidate.channels[ch].available

(* prior * likelihood ^ effective weight, over all channels; an object     *)
(* that violates a hard constraint is left out and keeps nothing.          *)
Score(weights, candidate) ==
  candidate.prior *
    ProductOf([ch \in Channel |->
                 Power(candidate.channels[ch].likelihood, EffectiveWeight(weights, candidate, ch))])

Posterior(request) ==
  LowestTerms([id \in Ids(request.candidates) |->
    LET candidate == CandidateOf(request.candidates, id)
    IN  IF Violated(candidate) THEN 0 ELSE Score(request.weights, candidate)])

(* sorted(..., reverse=True) keeps the order of equals.                    *)
Ahead(candidates, posterior, i, j) ==
  \/ posterior[candidates[i].id] > posterior[candidates[j].id]
  \/ posterior[candidates[i].id] = posterior[candidates[j].id] /\ i < j

(* The candidate in place k has k - 1 others ahead of it.                  *)
ByProbability(candidates, posterior, indexes) ==
  [k \in 1..Cardinality(indexes) |-> CHOOSE i \in indexes :
     Cardinality({j \in indexes : Ahead(candidates, posterior, j, i)}) = k - 1]

RankedIndexes(candidates, posterior) ==
  ByProbability(candidates, posterior, {i \in DOMAIN candidates : ~ Violated(candidates[i])})

RankedObjects(candidates, posterior, ranked) ==
  ByProbability(candidates, posterior, {i \in Range(ranked) : IsObject(candidates[i])})

FaultUndeterminedIgnored(request, posterior, ranked) ==
  LET candidates == request.candidates
      objects    == RankedObjects(candidates, posterior, ranked)
      chance(k)  == IF k \in DOMAIN objects THEN posterior[candidates[objects[k]].id] ELSE 0
      unknown    == posterior[UnknownId(candidates)]
      whole      == Total(posterior)
  IN  CASE Scale * unknown >= request.unknownMass * whole \/ unknown >= chance(1) -> "unknown"
        [] OTHER ->
             IF \/ Scale * chance(1) < request.resolution * whole
                \/ Scale * (chance(1) - chance(2)) < request.margin * whole
             THEN "ambiguous" ELSE "resolved"

(* Unknown mass first, then a best object that is undetermined, too        *)
(* improbable or too close to the second.                                  *)
Status(request, posterior, ranked) ==
  LET candidates == request.candidates
      objects    == RankedObjects(candidates, posterior, ranked)
      chance(k)  == IF k \in DOMAIN objects THEN posterior[candidates[objects[k]].id] ELSE 0
      unknown    == posterior[UnknownId(candidates)]
      whole      == Total(posterior)
  IN  CASE Scale * unknown >= request.unknownMass * whole \/ unknown >= chance(1) -> "unknown"
        [] OTHER ->
             IF \/ "unknown" \in Range(candidates[objects[1]].constraints)
                \/ Scale * chance(1) < request.resolution * whole
                \/ Scale * (chance(1) - chance(2)) < request.margin * whole
             THEN "ambiguous" ELSE "resolved"

PolicyFor(request, status) ==
  CASE status = "unknown"   -> request.onUnknown
    [] status = "ambiguous" -> request.onAmbiguous
    [] status = "resolved"  -> "return_top_k"

Fused(request, posterior, ranked) ==
  LET candidates == request.candidates
      returned   == SubSeq(ranked, 1, IF request.topK < Len(ranked) THEN request.topK ELSE Len(ranked))
      item(i)    == [id |-> candidates[i].id, kind |-> candidates[i].kind,
                     place |-> candidates[i].place, probability |-> posterior[candidates[i].id]]
      status     == Status(request, posterior, ranked)
  IN  [ranked |-> [k \in DOMAIN returned |-> item(returned[k])],
       posterior |-> posterior,
       constraints |-> [id \in Ids(candidates) |-> CandidateOf(candidates, id).constraints],
       unknown |-> posterior[UnknownId(candidates)],
       status |-> status, policy |-> PolicyFor(request, status),
       scope |-> request.scope, query |-> request.query]

(* What fuse may return: one result.                                       *)
Fusions(request) ==
  UNION {{Fused(request, posterior, ranked) : ranked \in {RankedIndexes(request.candidates, posterior)}}
           : posterior \in {Posterior(request)}}

-----------------------------------------------------------------------------
(* An action is informative when some outcome is more likely under one     *)
(* candidate that is still possible than under another: only then is its   *)
(* expected entropy below that of the prior.                               *)
Informative(belief, action) ==
  \E label \in DOMAIN action.outcomes, c, d \in DOMAIN belief :
    /\ belief[c] > 0 /\ belief[d] > 0
    /\ action.outcomes[label][c] # action.outcomes[label][d]

Bargains(belief, actions) ==
  {a \in actions : a.cost = 0 /\ Informative(belief, a)}

(* Rounding can leave a gain that is not quite zero, so an action that     *)
(* costs nothing may be selected for it, but never before a real bargain.  *)
Selectable(belief, actions) ==
  {a \in actions : \/ Informative(belief, a)
                   \/ a.cost = 0 /\ Bargains(belief, actions) = {}}

(* With no action at all, or with none of positive net value, it stops.    *)
MayStop(belief, actions) == Bargains(belief, actions) = {}

-----------------------------------------------------------------------------
Silenced(channels) == [ch \in Channel |-> [channels[ch] EXCEPT !.available = 0]]

(* What an observation says of a candidate, as evidence.                   *)
ObservedEvidence(observation, id) ==
  [likelihood |-> observation.likelihoods[id],
   reliability |-> observation.reliability, available |-> 1]

FaultOldEvidenceKept(request, result, observation) ==
  LET next(candidate) ==
        [candidate EXCEPT
           !.prior = result.posterior[candidate.id],
           !.channels = [@ EXCEPT ![observation.channel] = ObservedEvidence(observation, candidate.id)]]
  IN  [request EXCEPT !.candidates = [i \in DOMAIN @ |-> next(@[i])]]

(* The posterior becomes the prior, all evidence in it is silenced and the *)
(* observation is the only one that speaks, with the weight that the       *)
(* request gives its channel.                                              *)
RequestAfterObservation(request, result, observation) ==
  LET next(candidate) ==
        [candidate EXCEPT
           !.prior = result.posterior[candidate.id],
           !.channels = [Silenced(@) EXCEPT ![observation.channel] = ObservedEvidence(observation, candidate.id)]]
  IN  [request EXCEPT !.candidates = [i \in DOMAIN @ |-> next(@[i])]]

(* How likely the feedback is if the target is there, and if it is not.    *)
FeedbackLikelihood(feedback, distribution) ==
  SumFunction([outcome \in DOMAIN feedback.outcomes |->
                 feedback.outcomes[outcome] * distribution[outcome]])

(* update_target_presence on the odds of the target: the target is         *)
(* multiplied by one likelihood, everything else by the other.  What no    *)
(* distribution allows changes nothing; a certainty is clamped.            *)
PresenceUpdate(weights, target, present, absent) ==
  LET rest  == Total(weights) - weights[target]
      here  == weights[target] * present
      there == rest * absent
  IN  CASE here = 0 /\ there = 0 -> weights
        [] here = 0 /\ there # 0 -> [id \in DOMAIN weights |-> IF id = target THEN 1 ELSE Huge * weights[id]]
        [] here # 0 /\ there = 0 -> [weights EXCEPT ![target] = Huge * rest]
        [] here # 0 /\ there # 0 -> [id \in DOMAIN weights |->
                                      weights[id] * (IF id = target THEN present ELSE absent)]

RequestAfterPresenceUpdate(request, result, target, feedback, model) ==
  LET weights == LowestTerms(PresenceUpdate(result.posterior, target,
                               FeedbackLikelihood(feedback, model.present),
                               FeedbackLikelihood(feedback, model.absent)))
      next(candidate) ==
        [candidate EXCEPT !.prior = weights[candidate.id], !.channels = Silenced(@)]
  IN  [request EXCEPT !.candidates = [i \in DOMAIN @ |-> next(@[i])]]
=============================================================================
