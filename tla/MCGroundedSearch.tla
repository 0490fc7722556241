-------------------------- MODULE MCGroundedSearch --------------------------
(***************************************************************************)
(* Two objects and the unknown one; queries that are ambiguous, settled,   *)
(* undetermined or hopeless; observations and executions that fit, that    *)
(* were made for something else, and that are handed in again.             *)
(***************************************************************************)
EXTENDS ClosedLoop, GroundedEvidence

VARIABLE part  \* the loop, or one of the evidence modules: each is checked alone

Evidence(vision, habit) ==
  [vision |-> [likelihood |-> vision, reliability |-> 1, available |-> 1],
   habit  |-> [likelihood |-> habit, reliability |-> 1, available |-> 1]]

MCChannel == {"vision", "habit"}

C(id, prior, likelihood, constraint) ==
  [id |-> id, kind |-> IF id = "u" THEN "unknown" ELSE "object_instance",
   place |-> IF id = "u" THEN NoPlace ELSE id, prior |-> prior,
   channels |-> Evidence(likelihood, IF id = "a" THEN 6 ELSE 5),
   constraints |-> [constraint_ \in {"h"} |-> constraint]]

Q(candidates, onAmbiguous, onUnknown) ==
  [candidates |-> candidates, weights |-> [vision |-> 1, habit |-> 1],
   asked |-> {"h"}, topK |-> 2, resolution |-> 7, margin |-> 1,
   unknownMass |-> 4, onAmbiguous |-> onAmbiguous, onUnknown |-> onUnknown,
   scope |-> "s", query |-> "q", label |-> "JointPosteriorRequest"]

unknown(prior) == C("u", prior, 2, "unknown")

(* What is seen counts double, or not at all.                              *)
ambiguous == [Q(<<C("a", 4, 6, "satisfied"), C("b", 4, 5, "satisfied"), unknown(2)>>,
                "active_verify", "active_verify") EXCEPT !.weights.vision = 2]
blindfold == [ambiguous EXCEPT !.weights.vision = 0]
excluded  == Q(<<C("b", 4, 9, "violated"), C("a", 4, 6, "satisfied"), unknown(2)>>, "active_verify", "abstain")
settled   == Q(<<C("b", 2, 2, "satisfied"), C("a", 6, 8, "satisfied"), unknown(2)>>, "active_verify", "abstain")
open      == Q(<<C("a", 6, 8, "unknown"), C("b", 2, 2, "satisfied"), unknown(2)>>, "active_verify", "abstain")
asking    == [open EXCEPT !.onAmbiguous = "ask_user"]
hopeless  == [Q(<<C("a", 1, 1, "satisfied"), unknown(9)>>, "ask_user", "abstain") EXCEPT !.topK = 1]
malformed == [settled EXCEPT !.candidates[1].prior = 0]

MCRequest == {ambiguous, blindfold, excluded, settled, open, asking, hopeless, malformed}

(* Each outcome of a view in tenths for a, b and u.                        *)
Look(id, cost, a, b, u) ==
  [id |-> id, contact |-> FALSE, gate |-> NoGate, model |-> "m", cost |-> cost,
   outcomes |-> [yes |-> [a |-> a, b |-> b, u |-> u],
                 no  |-> [a |-> 10 - a, b |-> 10 - b, u |-> 10 - u]]]

near  == Look("near", 0, 9, 1, 5)
far   == Look("far", 1, 8, 4, 5)
blind == Look("blind", 0, 5, 5, 5)
touch == [near EXCEPT !.id = "touch", !.contact = TRUE]
safe  == [touch EXCEPT !.id = "safe", !.gate = [granted |-> TRUE, safe |-> TRUE, risks |-> {}, domain |-> "m"]]

MCProposal == {<<near, far>>, <<blind>>, <<safe>>, <<touch>>, << >>}

O(id, view, outcome, reliability) ==
  [id |-> id, action |-> view.id, outcome |-> outcome, model |-> "m", channel |-> "vision",
   likelihoods |-> view.outcomes[outcome], reliability |-> reliability,
   scope |-> "s", label |-> "VerificationObservation"]

o1 == O("o1", near, "yes", 1)
o2 == O("o2", far, "no", 2)
o3 == O("o3", safe, "yes", 0)

MCObservation == {o1, o2, o3, [o1 EXCEPT !.likelihoods.a = 10], [o2 EXCEPT !.scope = "t"]}

F(id, action, type, place, outcomes, goal, opportunity) ==
  [id |-> id, action |-> action, type |-> type, target |-> place, place |-> place,
   outcomes |-> outcomes, goal |-> goal, opportunity |-> opportunity,
   from |-> 1, recorded |-> 2, until |-> 3, scope |-> "s", label |-> "ExecutionFeedbackRecord"]

Opp(id, action) ==
  [id |-> id, action |-> action, selected |-> TRUE, time |-> 1, recorded |-> 1, scope |-> "s"]

missing == [not_found |-> 10, success |-> 0]
half    == [not_found |-> 5, success |-> 5]
done    == [success |-> 10, not_found |-> 0]

X(id, type, place, opportunities, feedback) ==
  [id |-> id, target |-> place, type |-> type, place |-> place,
   model |-> IF type = "search" THEN "v" ELSE "none", opportunities |-> opportunities, feedback |-> feedback]

twice  == X("x1", "search", "a", <<Opp("p1", "x1")>>,
            <<F("f1", "x1", "search", "a", missing, 0, "p1"), F("f2", "x1", "search", "a", half, 0, "p1")>>)
found  == X("x2", "search", "a", <<Opp("p2", "x2")>>, <<F("f3", "x2", "search", "a", done, 10, "p2")>>)
other  == X("x3", "search", "b", <<Opp("p3", "x3")>>, <<F("f4", "x3", "search", "b", missing, 0, "p3")>>)
grasp  == X("x4", "grasp", "a", << >>, <<F("f5", "x4", "grasp", "a", [grasp_failed |-> 10], 0, NoPlace)>>)
unseen == [twice EXCEPT !.opportunities = << >>]

MCExecution == {twice, found, other, grasp, unseen}

MCModel ==
  {[type |-> "search", version |-> "v",
    present |-> [not_found |-> 2, success |-> 8], absent |-> [not_found |-> 9, success |-> 1]],
   [type |-> "search", version |-> "v",
    present |-> [not_found |-> 0, success |-> 10], absent |-> [not_found |-> 10, success |-> 0]],
   [type |-> "grasp", version |-> "v", present |-> [success |-> 10], absent |-> [success |-> 10]]}

(* Somebody else commits records that the loop may want to commit.         *)
MCForeign == [key \in {<<"other", "copy">>} |-> <<Envelope(o2), Envelope(found.feedback[1])>>]

Prior(current) ==
  [prior |-> [current |-> current, gone |-> 10 - current],
   factors |-> [f \in {"sighting"} |-> [current |-> 2, gone |-> 1, weight |-> 0]], age |-> 0, staleAfter |-> 1,
   fresh |-> 7, usable |-> 5, contradicted |-> 2,
   contradiction |-> FALSE, historical |-> FALSE, superseded |-> FALSE]

(* The validator allows the thresholds to coincide.                        *)
MCClaim == {Prior(8), Prior(5), [Prior(5) EXCEPT !.usable = 7, !.contradicted = 7]}

MCFactorEvidence ==
  {[current |-> 9, gone |-> 1, weight |-> 1], [current |-> 1, gone |-> 6, weight |-> 1],
   [current |-> 2, gone |-> 8, weight |-> 0]}

Ask(required, tactile) ==
  [candidates |-> <<"a", "b">>, prior |-> [a |-> 5, b |-> 5], required |-> required,
   confirmation |-> 8, margin |-> 2, tactile |-> tactile]

MCInquiry == {Ask(1, FALSE), Ask(2, TRUE)}

Seen(cluster, quality, modality, a, b) ==
  [cluster |-> cluster, quality |-> quality, modality |-> modality,
   likelihoods |-> [a |-> a, b |-> b]]

MCView ==
  {Seen("k1", 1, "rgbd", 8, 1), Seen("k1", 2, "rgbd", 3, 2), Seen("k2", 1, "rgbd", 1, 7),
   Seen("k2", 2, "tactile", 9, 1), Seen("k3", 0, "rgbd", 1, 9)}

PartInit ==
  /\ LoopInit /\ EvidenceInit
  /\ part \in {"loop", "memory", "identity", "map"}
  /\ part # "loop" => ~ marks /\ sound
  /\ ~ sound => marks
  /\ part # "memory" => claim = Prior(8)
  /\ part # "identity" => inquiry = Ask(2, TRUE)

(* A fusion that is not sound is tried in one run, on a few requests.      *)
Tried == runs' <= 1 /\ asked' \in {NoResult, ambiguous, open, hopeless}

PartNext ==
  /\ UNCHANGED part
  /\ \/ part = "loop" /\ LoopNext /\ (sound \/ Tried) /\ UNCHANGED evidenceVars
     \/ part = "memory" /\ MemoryNext /\ UNCHANGED <<loopVars, identityVars, mapVars>>
     \/ part = "identity" /\ IdentityNext /\ UNCHANGED <<loopVars, memoryVars, mapVars>>
     \/ part = "map" /\ MapNext /\ UNCHANGED <<loopVars, memoryVars, identityVars>>

MCSpec == PartInit /\ [][PartNext]_<<part, loopVars, evidenceVars>> /\ WF_loopVars(Run /\ part = "loop")
=============================================================================
