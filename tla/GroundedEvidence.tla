-------------------------- MODULE GroundedEvidence --------------------------
(***************************************************************************)
(* The evidence modules beside the loop of grounded search:                *)
(*   MemoryReliabilityProjector   is a remembered claim still current?     *)
(*   MultiViewIdentityVerifier    which object do these views show?        *)
(*   LayeredSemanticMap           objects that move over static anchors.   *)
(* The first two are pure.  Their state here is the request that a caller  *)
(* makes again and again, as time passes and evidence comes in.            *)
(*                                                                         *)
(* As in JointPosterior, logarithms that are added are weights that are    *)
(* multiplied, and thresholds are parts of Whole.                          *)
(***************************************************************************)
EXTENDS Integers, Sequences, FiniteSets, SequencesExt, Products

CONSTANTS
  Whole,          \* a probability of one
  Claim,          \* memory requests, as first made
  Factor,         \* MemoryEvidenceFactor
  FactorEvidence, \* [current, gone, weight]
  MaxAge,         \* bound: how old a claim gets
  Inquiry,        \* identity requests without views
  View,           \* IdentityViewEvidence: [cluster, quality, modality, likelihoods]
  MaxViews,       \* bound
  Anchor, Frame, Thing,
  MaxRevision,    \* bound: how often objects are placed
  Root            \* parent_anchor_id is None

ASSUME RootAssumption == Root \notin Anchor

(* MemoryFactorEvidence and MemoryReliabilityRequest.                      *)
FactorWeights == [current : Nat \ {0}, gone : Nat \ {0}, weight : Nat]

TypedClaim(c) ==
  /\ c \in [prior : [current : Nat, gone : Nat], factors : {c.factors},
           age : Nat, staleAfter : Nat, fresh : Nat, usable : Nat, contradicted : Nat,
           contradiction : BOOLEAN, historical : BOOLEAN, superseded : BOOLEAN]
  /\ DOMAIN c.factors \subseteq Factor
  /\ c.factors \in [DOMAIN c.factors -> FactorWeights]

ASSUME ClaimAssumption ==
  /\ Whole \in Nat /\ IsFiniteSet(Factor)
  /\ \A e \in FactorEvidence : e \in FactorWeights
  /\ \A c \in Claim : TypedClaim(c)

ASSUME ViewAssumption ==
  /\ \A v \in View : v.quality \in Nat
  /\ \A q \in Inquiry : q.required \in Nat

VARIABLES
  claim,          \* the memory request
  inquiry, views, \* the identity request and its view_evidence
  static, dynamic, \* the two layers: anchor -> [parent, frame], thing -> [anchor, frame]
  staticRevision, dynamicRevision

memoryVars   == claim
identityVars == <<inquiry, views>>
mapVars      == <<static, dynamic, staticRevision, dynamicRevision>>
evidenceVars == <<memoryVars, identityVars, mapVars>>

-----------------------------------------------------------------------------
(* A claim is [prior: current and gone, factors, age, staleAfter, fresh,   *)
(* usable, contradicted, contradiction, historical, superseded]; the three *)
(* in the middle are thresholds.                                           *)
ValidClaim(c) ==
  /\ DOMAIN c.factors # {}
  /\ c.prior.current > 0 /\ c.prior.gone > 0
  /\ c.contradicted <= c.usable /\ c.usable <= c.fresh

EvidenceInit ==
  /\ claim \in {c \in Claim : ValidClaim(c)}
  /\ inquiry \in Inquiry /\ views = << >>
  /\ static = << >> /\ dynamic = << >> /\ staticRevision = 0 /\ dynamicRevision = 0

(* The odds that it is current; how old it is does not enter.              *)
Odds(c) ==
  [current |-> c.prior.current *
                 ProductOf([f \in DOMAIN c.factors |-> Power(c.factors[f].current, c.factors[f].weight)]),
   gone    |-> c.prior.gone *
                 ProductOf([f \in DOMAIN c.factors |-> Power(c.factors[f].gone, c.factors[f].weight)])]

AtLeast(odds, threshold) == Whole * odds.current >= threshold * (odds.current + odds.gone)
AtMost(odds, threshold)  == Whole * odds.current <= threshold * (odds.current + odds.gone)

(* project: what is known about the record comes before what is believed.  *)
MemoryStatus(c) ==
  CASE c.superseded -> "superseded"
    [] ~ c.superseded /\ c.historical -> "historical"
    [] OTHER ->
         CASE c.contradiction /\ AtMost(Odds(c), c.contradicted) -> "contradicted"
           [] OTHER ->
                CASE AtLeast(Odds(c), c.fresh) /\ c.age <= c.staleAfter -> "fresh"
                  [] AtLeast(Odds(c), c.usable) /\ ~ (AtLeast(Odds(c), c.fresh) /\ c.age <= c.staleAfter) -> "stale"
                  [] ~ AtLeast(Odds(c), c.usable) -> "uncertain"

Age == claim.age < MaxAge /\ claim' = [claim EXCEPT !.age = @ + 1]

SeeDirectly == claim.age > 0 /\ claim' = [claim EXCEPT !.age = 0]

Weigh(factor, evidence) ==
  /\ factor \notin DOMAIN claim.factors
  /\ claim' = [claim EXCEPT !.factors = [f \in DOMAIN @ \cup {factor} |->
                                           IF f = factor THEN evidence ELSE @[f]]]

Contradict == ~ claim.contradiction /\ claim' = [claim EXCEPT !.contradiction = TRUE]

KeepAsHistory == ~ claim.historical /\ claim' = [claim EXCEPT !.historical = TRUE]

Supersede == ~ claim.superseded /\ claim' = [claim EXCEPT !.superseded = TRUE]

MemoryNext ==
  \/ Age \/ SeeDirectly \/ Contradict \/ KeepAsHistory \/ Supersede
  \/ \E f \in Factor, e \in FactorEvidence : Weigh(f, e)

-----------------------------------------------------------------------------
(* An inquiry is [candidates, prior, required, confirmation, margin,       *)
(* tactile: allowed and safe].                                             *)
ValidInquiry(q, vs) ==
  /\ vs # << >>
  /\ \A i \in DOMAIN vs :
       /\ DOMAIN vs[i].likelihoods = ToSet(q.candidates)
       /\ vs[i].modality = "tactile" => q.tactile

Clusters(vs) == {vs[i].cluster : i \in DOMAIN vs}

(* One view speaks for its cluster: the best, and of these the first.      *)
BestOf(vs, cluster) ==
  vs[CHOOSE i \in DOMAIN vs :
       /\ vs[i].cluster = cluster
       /\ \A j \in DOMAIN vs : vs[j].cluster = cluster =>
            vs[j].quality < vs[i].quality \/ (vs[j].quality = vs[i].quality /\ i <= j)]

Used(vs) == {BestOf(vs, c) : c \in Clusters(vs)}

FaultEveryFrame(q, vs) ==
  [id \in ToSet(q.candidates) |->
     q.prior[id] * ProductOf([i \in DOMAIN vs |-> Power(vs[i].likelihoods[id], vs[i].quality)])]

IdentityWeights(q, vs) ==
  [id \in ToSet(q.candidates) |->
     q.prior[id] *
       ProductOf([c \in Clusters(vs) |-> Power(BestOf(vs, c).likelihoods[id], BestOf(vs, c).quality)])]

Ranking(q, weights) ==
  LET place(id) == CHOOSE i \in DOMAIN q.candidates : q.candidates[i] = id
      ahead(c, d) == weights[c] > weights[d] \/ (weights[c] = weights[d] /\ place(c) < place(d))
  IN  SetToSortSeq(ToSet(q.candidates), ahead)

(* verify: who is confirmed, or what to look with next.                    *)
Verdict(q, vs) ==
  LET weights == IdentityWeights(q, vs)
      ranked  == Ranking(q, weights)
      whole   == SumFunction(weights)
      sure    == /\ Cardinality(Clusters(vs)) >= q.required
                 /\ Whole * weights[ranked[1]] >= q.confirmation * whole
                 /\ Whole * (weights[ranked[1]] - weights[ranked[2]]) >= q.margin * whole
      touched == \E v \in Used(vs) : v.modality = "tactile"
  IN  IF sure THEN [confirmed |-> {ranked[1]}, next |-> "none"]
      ELSE [confirmed |-> {}, next |-> IF q.tactile /\ ~ touched THEN "tactile" ELSE "rgbd"]

AddView(v) ==
  /\ Len(views) < MaxViews
  /\ ValidInquiry(inquiry, Append(views, v))
  /\ views' = Append(views, v)
  /\ UNCHANGED inquiry

IdentityNext == \E v \in View : AddView(v)

-----------------------------------------------------------------------------
With(layer, key, value) == [k \in DOMAIN layer \cup {key} |-> IF k = key THEN value ELSE layer[k]]

FaultAnyParent(anchor, parent, frame) ==
  /\ anchor \notin DOMAIN static
  /\ parent \in DOMAIN static => static[parent].frame = frame

CanAnchor(anchor, parent, frame) ==
  /\ anchor \notin DOMAIN static
  /\ parent # Root => parent \in DOMAIN static /\ static[parent].frame = frame

AddStaticAnchor(anchor, parent, frame) ==
  /\ CanAnchor(anchor, parent, frame)
  /\ static' = With(static, anchor, [parent |-> parent, frame |-> frame])
  /\ staticRevision' = staticRevision + 1
  /\ UNCHANGED <<dynamic, dynamicRevision>>

CanPlace(anchor, frame) == anchor \in DOMAIN static /\ static[anchor].frame = frame

UpsertDynamicObject(thing, anchor, frame) ==
  /\ CanPlace(anchor, frame) /\ dynamicRevision < MaxRevision
  /\ dynamic' = With(dynamic, thing, [anchor |-> anchor, frame |-> frame])
  /\ dynamicRevision' = dynamicRevision + 1
  /\ UNCHANGED <<static, staticRevision>>

MoveDynamicObject(thing, anchor, frame) ==
  /\ thing \in DOMAIN dynamic
  /\ UpsertDynamicObject(thing, anchor, frame)

MapNext ==
  \E a \in Anchor, f \in Frame :
    \/ \E p \in Anchor \cup {Root} : AddStaticAnchor(a, p, f)
    \/ \E t \in Thing : UpsertDynamicObject(t, a, f) \/ MoveDynamicObject(t, a, f)

EvidenceNext ==
  \/ MemoryNext /\ UNCHANGED <<identityVars, mapVars>>
  \/ IdentityNext /\ UNCHANGED <<memoryVars, mapVars>>
  \/ MapNext /\ UNCHANGED <<memoryVars, identityVars>>

EvidenceSpec == EvidenceInit /\ [][EvidenceNext]_evidenceVars

-----------------------------------------------------------------------------
(* Time alone moves no belief and can only take a claim from fresh to      *)
(* stale: without new evidence a claim never becomes uncertain or          *)
(* contradicted, and never fresh again.                                    *)
AgeingOnlyMakesStale ==
  claim'.age > claim.age =>
    \/ MemoryStatus(claim') = MemoryStatus(claim)
    \/ MemoryStatus(claim) = "fresh" /\ MemoryStatus(claim') = "stale"

Standing(status) ==
  CASE status = "contradicted" -> 0
    [] status = "uncertain" -> 1
    [] status = "stale" -> 2
    [] status = "fresh" -> 3
    [] status \in {"historical", "superseded"} -> 4

(* Evidence never works against what it says: a factor that favours the    *)
(* claim leaves it standing at least as high, one that speaks against it   *)
(* at most as high, through all the thresholds of the cascade.             *)
EvidenceMovesTheStanding ==
  \A f \in DOMAIN claim'.factors \ DOMAIN claim.factors :
    LET e == claim'.factors[f]
    IN  /\ e.current >= e.gone => Standing(MemoryStatus(claim')) >= Standing(MemoryStatus(claim))
        /\ e.current <= e.gone => Standing(MemoryStatus(claim')) <= Standing(MemoryStatus(claim))

NoTies ==
  \A i, j \in DOMAIN views :
    views[i].cluster = views[j].cluster /\ views[i].quality = views[j].quality => i = j

(* The order in which the views came in does not decide who is confirmed,  *)
(* unless two views of a cluster are equally good.                         *)
VerdictIgnoresOrder ==
  (views # << >> /\ NoTies) => Verdict(inquiry, Reverse(views)) = Verdict(inquiry, views)

BestQuality(vs, cluster) == IF cluster \in Clusters(vs) THEN BestOf(vs, cluster).quality ELSE -1

(* More frames of views that were already counted are not more evidence: a *)
(* frame that is no better than the one its cluster has changes nothing,   *)
(* and nothing is confirmed before enough clusters have been seen.         *)
FramesAreNotViews ==
  views' # views =>
    /\ (views # << >> /\ Last(views').quality <= BestQuality(views, Last(views').cluster))
         => Verdict(inquiry, views') = Verdict(inquiry, views)
    /\ Cardinality(Clusters(views')) < inquiry.required => Verdict(inquiry, views').confirmed = {}

(* What is believed moves with evidence and with nothing else: neither     *)
(* time, nor another frame of a view, nor the order of views is evidence,  *)
(* and what is evidence moves the standing of a claim the way it says.     *)
OnlyEvidenceCounts ==
  [][AgeingOnlyMakesStale /\ EvidenceMovesTheStanding /\ FramesAreNotViews /\ VerdictIgnoresOrder']_<<memoryVars, identityVars>>

(* The anchors are trees: none stands on itself over its parents, and an   *)
(* anchor, its parent and the objects placed on it share one frame,        *)
(* whatever was added, placed and moved in between, and the revision of    *)
(* the static layer counts its anchors however often objects were moved.   *)
LayersFit ==
  /\ staticRevision = Cardinality(DOMAIN static)
  /\ \A group \in (SUBSET DOMAIN static) \ {{}} : \E a \in group : static[a].parent \notin group
  /\ \A a \in DOMAIN static :
       static[a].parent # Root => /\ static[a].parent \in DOMAIN static
                                  /\ static[static[a].parent].frame = static[a].frame
  /\ \A t \in DOMAIN dynamic :
       /\ dynamic[t].anchor \in DOMAIN static
       /\ static[dynamic[t].anchor].frame = dynamic[t].frame
=============================================================================
