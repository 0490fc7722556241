----------------------------- MODULE Hypergraph -----------------------------
(***************************************************************************)
(* The CounterfactualEventHypergraphEngine: branch makes a history of      *)
(* event hypotheses for the interval between two detections of an object,  *)
(* revise_actor_responsibility reweights them, retract gives some of them  *)
(* up, and rebuild makes a history of stored revisions.                    *)
(*                                                                         *)
(* The engine keeps no state: a history is an immutable value, and every   *)
(* operation returns a new one or raises.  Several holders keep histories, *)
(* extend them independently of each other and share the revisions.        *)
(***************************************************************************)
EXTENDS HypothesisContracts

CONSTANTS
  Holder, NoHistory,
  Detection,   \* [id, object, place, time, scope]
  NoPlace,     \* where the object of a detection result is that has none
  Prior,       \* actor priors: functions from actors, in parts of Scale
  Scale,       \* what the parameters of a call are fractions of
  Fraction,    \* the numerators of unresolved_probability and handoff_fraction
  Threshold,   \* those of retraction_threshold
  Evidence,    \* [id, cluster, meaning, ratio, object, scope, source, time]
  Unit,        \* a likelihood ratio of one
  Counter,     \* the counterevidence of retractions: sequences of evidence
  Target,      \* what retractions aim at: sets of chains
  Rounding,    \* how a sum of probabilities that are all there is compares to 1.0
  MaxMade,     \* bound: how many histories are made
  MaxRebuilt   \* bound: how many revisions a history is rebuilt from

ASSUME ScaleAssumption == Scale \in Nat \ {0} /\ Fraction \cup Threshold \subseteq Nat
ASSUME RoundingAssumption == Rounding \subseteq {"exact", "below", "above"}

ASSUME DetectionAssumption == \A d \in Detection : d.time \in Nat

ASSUME PriorAssumption ==
  \A prior \in Prior :
    IsFiniteSet(DOMAIN prior) /\ \A actor \in DOMAIN prior : prior[actor] \in Nat

(* A record of evidence is found by its id.                                *)
ASSUME EvidenceAssumption ==
  /\ Unit \in Nat \ {0}
  /\ \A e \in Evidence : \A actor \in DOMAIN e.ratio : e.ratio[actor] \in Nat
  /\ \A e, f \in Evidence : e.id = f.id => e = f

ASSUME CounterAssumption ==
  \A evidence \in Counter : evidence \in Seq(Range(evidence))

VARIABLES
  held,    \* the history each holder keeps
  made,    \* every history that was returned by branch, revise or retract
  answer   \* the last call, how it ended, and of a revision the contracts refused
           \* which hypotheses it leaves active and how its sum compares to 1.0

vars == <<held, made, answer>>

Ended(call, outcome) == [call |-> call, outcome |-> outcome, left |-> {}, sum |-> "exact"]

Init ==
  /\ held = [h \in Holder |-> NoHistory]
  /\ made = {}
  /\ answer = Ended("none", "none")

-----------------------------------------------------------------------------
(* A call that raises changes nothing: the checks of the engine raise      *)
(* ("refused"), or the contracts of what it constructs do ("contract").    *)
Raise(call, outcome) ==
  /\ answer' = Ended(call, outcome)
  /\ UNCHANGED <<held, made>>

Refuse(call, rev, rounding) ==
  /\ answer' = [Ended(call, "contract") EXCEPT !.left = rev.active, !.sum = rounding]
  /\ UNCHANGED <<held, made>>

Return(h, call, history) ==
  /\ held' = [held EXCEPT ![h] = history]
  /\ made' = made \cup {history}
  /\ answer' = Ended(call, "history")

(* Construct the revision and append it.  Of a sum that comes out below    *)
(* 1.0 the contracts say that "a fully retracted set must assign all mass  *)
(* to unresolved", and one above 1.0 is no Probability.                    *)
Submit(h, call, history, rounding) ==
  IF ValidRevision(Last(history)) /\ ValidHistory(history) /\ rounding = "exact"
  THEN Return(h, call, history)
  ELSE Refuse(call, Last(history), rounding)

(* Sums are rounded where mass of hypotheses is added to the unresolved    *)
(* one; only a sum that is everything there is gets compared exactly (the  *)
(* mass that is left active is taken to be far above a rounding error).    *)
RoundingOf(rev, moved) ==
  IF moved > 0 /\ rev.unresolved = rev.scale THEN Rounding ELSE {"exact"}

-----------------------------------------------------------------------------
EndpointsFit(before, after) ==
  /\ before.place # NoPlace /\ after.place # NoPlace
  /\ before.object = after.object
  /\ before.place # after.place
  /\ before.time < after.time
  /\ before.scope = after.scope

BranchFits(before, after, prior, unresolved, handoff) ==
  /\ EndpointsFit(before, after)
  /\ SumFunction(prior) = Scale
  /\ Cardinality(DOMAIN prior) >= 2
  /\ unresolved < Scale /\ handoff < Scale

(* A handoff needs both actors, a direct relocation one.                   *)
RawWeight(prior, handoff, chain) ==
  IF chain[1] = chain[2]
  THEN (Scale - handoff) * prior[chain[1]] * Scale
  ELSE handoff * prior[chain[1]] * prior[chain[2]]

BranchRevision(before, after, prior, unresolved, handoff) ==
  LET raw    == [chain \in Chains(DOMAIN prior) |-> RawWeight(prior, handoff, chain)]
      total  == SumFunction(raw)
      kept   == {chain \in DOMAIN raw : raw[chain] > 0}
      ends   == {before.id, after.id}
  IN  [before |-> before, after |-> after, no |-> 0, parent |-> NoParent, kind |-> "branch",
       mass |-> [chain \in kept |-> (Scale - unresolved) * raw[chain]],
       active |-> kept,
       unresolved |-> unresolved * total,
       scale |-> Scale * total,
       sources |-> [chain \in kept |-> ends],
       records |-> <<before.id, after.id>>, clusters |-> << >>, meanings |-> << >>]

Branch(h, before, after, prior, unresolved, handoff) ==
  IF BranchFits(before, after, prior, unresolved, handoff)
  THEN Submit(h, "branch", <<BranchRevision(before, after, prior, unresolved, handoff)>>, "exact")
  ELSE Raise("branch", "refused")

-----------------------------------------------------------------------------
(* An evidence record belongs to the object, the scope and one of the two  *)
(* detections of the set, at the time of that detection.                   *)
CitesEndpoint(rev, e) ==
  /\ e.object = rev.before.object
  /\ e.scope = rev.before.scope
  /\ \E endpoint \in {rev.before, rev.after} : e.source = endpoint.id /\ e.time = endpoint.time

FaultMeaningIgnored(history, pending, e) ==
  /\ e.id \notin Range(RecordsOf(history)) \cup {p.id : p \in pending}
  /\ e.cluster \notin Range(ClustersOf(history)) \cup {p.cluster : p \in pending}

(* Neither the record, nor its cluster, nor what it says was used before,  *)
(* in the history or by the evidence given before it in the same call.     *)
Fresh(history, pending, e) ==
  /\ e.id \notin Range(RecordsOf(history)) \cup {p.id : p \in pending}
  /\ e.cluster \notin Range(ClustersOf(history)) \cup {p.cluster : p \in pending}
  /\ e.meaning \notin Range(MeaningsOf(history)) \cup {p.meaning : p \in pending}

ValidEvidence(history, pending, e) == CitesEndpoint(Last(history), e) /\ Fresh(history, pending, e)

(* posterior / reference prior of an actor, one where the evidence is      *)
(* silent, in parts of Unit and with the sample weight already applied.    *)
Ratio(e, actor) == IF actor \in DOMAIN e.ratio THEN e.ratio[actor] ELSE Unit

(* The revision that follows the last one of a history, by evidence.       *)
Successor(history, kind, evidence, mass, unresolved, scale) ==
  LET current == Last(history)
      ids     == [i \in DOMAIN evidence |-> evidence[i].id]
  IN  [before |-> current.before, after |-> current.after,
       no |-> current.no + 1, parent |-> <<current>>, kind |-> kind,
       mass |-> mass, active |-> {chain \in DOMAIN mass : mass[chain] > 0},
       unresolved |-> unresolved, scale |-> scale,
       sources |-> [chain \in DOMAIN mass |-> current.sources[chain] \cup Range(ids)],
       records |-> ids,
       clusters |-> [i \in DOMAIN evidence |-> evidence[i].cluster],
       meanings |-> [i \in DOMAIN evidence |-> evidence[i].meaning]]

FaultRatioOfGiver(rev, e) ==
  [chain \in DOMAIN rev.mass |-> rev.mass[chain] * Ratio(e, chain[1])]
FaultSmoothed(rev, e) ==
  [chain \in DOMAIN rev.mass |-> (rev.mass[chain] + 1) * Ratio(e, Responsible(chain))]

(* Masses times likelihood ratios; the unresolved one counts as unknown.   *)
Reweighted(rev, e) == [chain \in DOMAIN rev.mass |-> rev.mass[chain] * Ratio(e, Responsible(chain))]
ReweightedUnresolved(rev, e) == rev.unresolved * Ratio(e, Unknown)

(* What falls below the threshold is moved to the unresolved mass.         *)
BelowThreshold(weight, total, threshold) ==
  {chain \in DOMAIN weight : weight[chain] * Scale < threshold * total}

FaultDividesByZero(total, part) == part

(* When the evidence leaves nothing at all, everything is unresolved.      *)
OrAllUnresolved(total, part) == IF total = 0 THEN 1 ELSE part

ReviseRevision(history, e, threshold) ==
  LET current == Last(history)
      weight  == Reweighted(current, e)
      rest    == ReweightedUnresolved(current, e)
      total   == rest + SumFunction(weight)
      dropped == BelowThreshold(weight, total, threshold)
      moved   == SumFunctionOnSet(weight, dropped)
      mass    == [chain \in DOMAIN weight |-> IF chain \in dropped THEN 0 ELSE weight[chain]]
  IN  [revision |-> Successor(history, "revise", <<e>>, mass,
                              OrAllUnresolved(total, rest + moved), OrAllUnresolved(total, total)),
       moved |-> moved]

Revise(h, e, threshold) ==
  /\ held[h] # NoHistory
  /\ IF ValidEvidence(held[h], {}, e) /\ threshold < Scale
     THEN LET result == ReviseRevision(held[h], e, threshold)
          IN  \E rounding \in RoundingOf(result.revision, result.moved) :
                Submit(h, "revise", Append(held[h], result.revision), rounding)
     ELSE Raise("revise", "refused")

-----------------------------------------------------------------------------
(* Every target must be active, and some of the evidence must say of the   *)
(* actor who is responsible for it that it was not them.                   *)
RetractFits(history, targets, evidence) ==
  /\ targets # {} /\ evidence # << >>
  /\ targets \subseteq Last(history).active
  /\ \A i \in DOMAIN evidence :
       ValidEvidence(history, {evidence[j] : j \in 1..(i - 1)}, evidence[i])
  /\ \A chain \in targets : \E i \in DOMAIN evidence : Ratio(evidence[i], Responsible(chain)) = 0

RetractRevision(history, targets, evidence) ==
  LET current == Last(history)
      mass    == [chain \in DOMAIN current.mass |->
                    IF chain \in targets THEN 0 ELSE current.mass[chain]]
      moved   == SumFunctionOnSet(current.mass, targets)
  IN  [revision |-> Successor(history, "retract", evidence, mass,
                              current.unresolved + moved, current.scale),
       moved |-> moved]

Retract(h, targets, evidence) ==
  /\ held[h] # NoHistory
  /\ IF RetractFits(held[h], targets, evidence)
     THEN LET result == RetractRevision(held[h], targets, evidence)
          IN  \E rounding \in RoundingOf(result.revision, result.moved) :
                Submit(h, "retract", Append(held[h], result.revision), rounding)
     ELSE Raise("retract", "refused")

-----------------------------------------------------------------------------
(* Revisions are stored and exchanged one by one.                          *)
Stored == {Last(history) : history \in made}

Rebuild(h, revisions) ==
  IF ValidHistory(revisions)
  THEN /\ held' = [held EXCEPT ![h] = revisions]
       /\ answer' = Ended("rebuild", "history")
       /\ UNCHANGED made
  ELSE Raise("rebuild", "refused")

Next ==
  \E h \in Holder :
    \/ /\ Cardinality(made) < MaxMade
       /\ \/ \E before, after \in Detection, prior \in Prior, unresolved, handoff \in Fraction :
               Branch(h, before, after, prior, unresolved, handoff)
          \/ \E e \in Evidence, threshold \in Threshold : Revise(h, e, threshold)
          \/ \E targets \in Target, evidence \in Counter : Retract(h, targets, evidence)
    \/ \E n \in 0..MaxRebuilt : \E revisions \in [1..n -> Stored] : Rebuild(h, revisions)

Spec == Init /\ [][Next]_vars

-----------------------------------------------------------------------------
Revision(rev) ==
  /\ rev.before \in Detection /\ rev.after \in Detection
  /\ rev.no \in Nat /\ rev.kind \in {"branch", "revise", "retract"}
  /\ DOMAIN rev.mass \subseteq DOMAIN rev.sources
  /\ \A chain \in DOMAIN rev.mass : rev.mass[chain] \in Nat
  /\ rev.active \subseteq DOMAIN rev.mass
  /\ rev.unresolved \in Nat /\ rev.scale \in Nat \ {0}

(* Every history that is kept or was made is a sequence of revisions, and  *)
(* every call ended in one of the ways a call of the engine can end        *)
(* (engine.py, contracts.py of the hypergraph).                            *)
HistoriesTypeOK ==
  /\ \A history \in made \cup (Range(held) \ {NoHistory}) :
       history # << >> /\ \A i \in DOMAIN history : Revision(history[i])
  /\ answer.outcome \in {"none", "history", "refused", "contract"}

(* Of what revise and retract construct from a valid history and evidence  *)
(* they have accepted, the contracts refuse nothing but revisions that     *)
(* leave no hypothesis active, and these only because their sum did not    *)
(* come out as 1.0 (contracts.py:176, base.py:12).  All others have masses *)
(* that sum to one, complete provenance and evidence that is used once.    *)
OnlyTheEmptiedIsRefused ==
  answer.call \in {"revise", "retract"} /\ answer.outcome = "contract" =>
    answer.left = {} /\ answer.sum # "exact"

(* Posteriors are Bayes' rule, whatever was dropped, retracted or rebuilt  *)
(* in between and in whatever order the evidence came: the odds between    *)
(* two hypotheses that are active are the odds of the branch times the     *)
(* likelihood ratios of the evidence the history was revised with, each    *)
(* taken once; and so are those between a hypothesis and the unresolved    *)
(* rest, as long as nothing was moved to the rest                          *)
(* (revise_actor_responsibility, retract).                                 *)
Used(rev) == CHOOSE e \in Evidence : e.id = rev.records[1]

RatiosUsed(history, actor) ==
  FoldFunction(LAMBDA a, b : a * b, 1,
    [i \in DOMAIN history |->
       IF history[i].kind = "revise" THEN Ratio(Used(history[i]), actor) ELSE 1])

NothingMoved(history) ==
  \A i \in 2..Len(history) :
    /\ history[i].kind = "revise"
    /\ \A chain \in history[i - 1].active \ history[i].active :
         Ratio(Used(history[i]), Responsible(chain)) = 0

OddsAreBayes ==
  \A history \in made :
    LET first == history[1]
        last  == Last(history)
        Expected(chain) == first.mass[chain] * RatiosUsed(history, Responsible(chain))
    IN  \A c \in last.active :
          /\ \A d \in last.active : last.mass[c] * Expected(d) = last.mass[d] * Expected(c)
          /\ NothingMoved(history) =>
               last.unresolved * Expected(c)
                 = last.mass[c] * first.unresolved * RatiosUsed(history, Unknown)

(* A hypothesis that was given up is never active again in a later         *)
(* revision of the history, whether the history was extended or rebuilt    *)
(* from stored revisions.                                                  *)
RetractedStays ==
  \A history \in made \cup (Range(held) \ {NoHistory}) :
    \A i, j \in DOMAIN history :
      i < j => history[j].active \subseteq history[i].active

(* The histories form a tree that only grows: evidence is used once along  *)
(* a history as a record, as a cluster and by its meaning, and rebuild     *)
(* accepts no mixture of revisions of several histories.                   *)
Uses(rev) ==
  ({"record"} \X Range(rev.records)) \cup ({"cluster"} \X Range(rev.clusters))
    \cup ({"meaning"} \X Range(rev.meanings))

Tree == INSTANCE RevisionTree

ImplementsTree == Tree!TreeSpec

(* A retraction whose targets are active and whose counterevidence is      *)
(* valid and says zero of every actor responsible for them is carried out  *)
(* (docs/architecture/cheh-first-hidden-event-vertical-slice.md:60).       *)
RetractionsSucceed == ~ (answer.call = "retract" /\ answer.outcome = "contract")
=============================================================================
