------------------------ MODULE HypothesisContracts ------------------------
(***************************************************************************)
(* The contracts of the counterfactual event hypergraph (CHEH): what a     *)
(* revision of an event hypothesis set, and a history of revisions, must   *)
(* satisfy to be constructed at all.                                       *)
(*                                                                         *)
(* A hypothesis is named by its chain <<a, b>>: a picked the object up and *)
(* b placed it, and a handed it over to b unless they are one.  Its        *)
(* posterior is mass[chain] / scale and what is left unexplained is        *)
(* unresolved / scale: the probabilities are exact rationals over the      *)
(* scale of their revision.  What binary floating point adds to that is    *)
(* the choice `rounding` of module Hypergraph.                             *)
(*                                                                         *)
(* A digest is taken to be injective: revision_id and                      *)
(* revision_content_sha256 are the revision, parent_revision_id is the     *)
(* parent itself, as a sequence of at most one, and hypothesis_set_id is   *)
(* the pair of detections.                                                 *)
(***************************************************************************)
EXTENDS Naturals, Sequences, FiniteSets, Functions, SequencesExt

CONSTANT Unknown   \* "unknown_actor"

(* parent_revision_id of a branch revision.                                *)
NoParent == << >>

(* The chains branch makes for a set of actors: each of them alone, and    *)
(* every two of them that are known by name.                               *)
Chains(actors) ==
  {<<a, a>> : a \in actors} \cup ((actors \ {Unknown}) \X (actors \ {Unknown}))

Responsible(chain) == chain[2]

(* Times are whole microseconds.  A timedelta times a float is rounded to  *)
(* the nearest of them, and a tie to the even one.                         *)
Nearest(n, d) ==
  LET below == n \div d
      rest  == n % d
  IN  IF 2 * rest < d \/ (2 * rest = d /\ below % 2 = 0) THEN below ELSE below + 1

(* Pick-up, carry and place, with the transfer in between when the actors  *)
(* differ, spread evenly over the interval.                                *)
StepTimes(chain, start, end) ==
  LET steps == IF chain[1] = chain[2] THEN 3 ELSE 4
  IN  [i \in 1..steps |-> start + Nearest((end - start) * i, steps + 1)]

TimesInside(times, start, end) ==
  /\ \A i \in DOMAIN times : start < times[i] /\ times[i] < end
  /\ \A i \in 1..(Len(times) - 1) : times[i] < times[i + 1]

-----------------------------------------------------------------------------
Endpoints(rev) == {rev.before.id, rev.after.id}

SumsToOne(rev) == rev.unresolved + SumFunction(rev.mass) = rev.scale

(* A hypothesis is active exactly when it has mass left.                   *)
StatusFollowsMass(rev) ==
  \A chain \in DOMAIN rev.mass : chain \in rev.active <=> rev.mass[chain] > 0

EvidenceAligned(rev) ==
  /\ IsInjective(rev.records) /\ IsInjective(rev.clusters) /\ IsInjective(rev.meanings)
  /\ IF rev.no = 0
     THEN /\ rev.clusters = << >> /\ rev.meanings = << >>
          /\ Endpoints(rev) \subseteq Range(rev.records)
     ELSE Len(rev.records) = Len(rev.clusters) /\ Len(rev.records) = Len(rev.meanings)

SourcesRetained(rev) ==
  \A chain \in DOMAIN rev.mass :
    Endpoints(rev) \cup Range(rev.records) \subseteq rev.sources[chain]

(* Everything EventHypothesisRevision and EventChainHypothesis validate    *)
(* that the arithmetic does not round.                                     *)
ValidRevision(rev) ==
  /\ Cardinality(DOMAIN rev.mass) >= 2
  /\ (rev.parent = NoParent) <=> (rev.no = 0)
  /\ rev.no = 0 => rev.kind = "branch"
  /\ SumsToOne(rev)
  /\ StatusFollowsMass(rev)
  /\ rev.active = {} => rev.unresolved = rev.scale
  /\ EvidenceAligned(rev)
  /\ SourcesRetained(rev)
  /\ \A chain \in DOMAIN rev.mass :
       TimesInside(StepTimes(chain, rev.before.time, rev.after.time),
                   rev.before.time, rev.after.time)

-----------------------------------------------------------------------------
(* consumed_evidence_record_ids and its two siblings.                      *)
RecordsOf(revisions)  == FlattenSeq([i \in DOMAIN revisions |-> revisions[i].records])
ClustersOf(revisions) == FlattenSeq([i \in DOMAIN revisions |-> revisions[i].clusters])
MeaningsOf(revisions) == FlattenSeq([i \in DOMAIN revisions |-> revisions[i].meanings])

FaultNumbersBind(previous, current) == current.no = previous.no + 1

ParentBound(previous, current) == current.parent = <<previous>>

(* The detections fix the object, the places, the interval and the scope.  *)
SameSet(previous, current) ==
  /\ current.before = previous.before /\ current.after = previous.after
  /\ DOMAIN current.mass = DOMAIN previous.mass

SourcesKept(previous, current) ==
  \A chain \in DOMAIN previous.mass : previous.sources[chain] \subseteq current.sources[chain]

(* Everything EventHypothesisHistory validates.                            *)
ValidHistory(revisions) ==
  /\ revisions # << >>
  /\ \A i \in DOMAIN revisions : revisions[i].no = i - 1
  /\ IsInjective(RecordsOf(revisions))
  /\ IsInjective(ClustersOf(revisions))
  /\ IsInjective(MeaningsOf(revisions))
  /\ \A i \in 1..(Len(revisions) - 1) :
       /\ ParentBound(revisions[i], revisions[i + 1])
       /\ SameSet(revisions[i], revisions[i + 1])
       /\ SourcesKept(revisions[i], revisions[i + 1])
=============================================================================
