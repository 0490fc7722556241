-------------------------- MODULE HypergraphProofs --------------------------
(***************************************************************************)
(* Proofs about the counterfactual event hypergraph, for any detections,   *)
(* priors, evidence and targets, any number of holders and histories of    *)
(* any length.                                                             *)
(***************************************************************************)
EXTENDS Hypergraph, DataLemmas

TypedRevision(rev) ==
  /\ Revision(rev)
  /\ IsFiniteSet(DOMAIN rev.mass)
  /\ IsList(rev.records) /\ IsList(rev.clusters) /\ IsList(rev.meanings)

(* What every history that was made satisfies.                             *)
SoundHistory(history) ==
  /\ IsList(history)
  /\ ValidHistory(history)
  /\ \A i \in 1..Len(history) : ValidRevision(history[i]) /\ TypedRevision(history[i])
  /\ \A i \in 1..(Len(history) - 1) : history[i + 1].active \subseteq history[i].active

(* The inductive invariant: every history that was made is sound, and      *)
(* every history that is held was made.                                    *)
HypergraphInv ==
  /\ \A history \in made : SoundHistory(history)
  /\ DOMAIN held = Holder
  /\ \A h \in Holder : held[h] # NoHistory => held[h] \in made
  /\ answer.outcome \in {"none", "history", "refused", "contract"}
  /\ OnlyTheEmptiedIsRefused

(* A sequence that is not empty has a last element, at its length.         *)
LEMMA LastFacts ==
  ASSUME NEW s, IsList(s), s # << >>
  PROVE  Len(s) \in Nat /\ Len(s) >= 1 /\ Len(s) \in 1..Len(s) /\ Last(s) = s[Len(s)]
<1>1. Len(s) \in Nat /\ Len(s) # 0
  BY ListFacts, EmptyList
<1> QED
  BY <1>1 DEF Last

(* The element appended is the last.                                       *)
LEMMA LastOfAppend ==
  ASSUME NEW s, IsList(s), NEW e
  PROVE  Last(Append(s, e)) = e /\ Append(s, e) # << >>
<1>1. IsList(Append(s, e)) /\ Len(Append(s, e)) = Len(s) + 1 /\ Append(s, e)[Len(s) + 1] = e
  BY AppendFacts
<1>2. Len(s) \in Nat
  BY ListFacts
<1> DEFINE t == Append(s, e)
<1>3. IsList(t) /\ Len(t) = Len(s) + 1 /\ t[Len(s) + 1] = e
  BY <1>1
<1> HIDE DEF t
<1>4. t # << >>
  BY <1>3, <1>2, EmptyList
<1>5. Last(t) = t[Len(t)]
  BY <1>3, <1>4, LastFacts
<1> QED
  BY <1>3, <1>4, <1>5 DEF t

(* What later lemmas use of a history: it is a sequence of revisions whose *)
(* last has hypotheses.                                                    *)
LEMMA SoundFacts ==
  ASSUME NEW history, SoundHistory(history)
  PROVE  /\ IsList(history) /\ history # << >>
         /\ Len(history) \in Nat /\ Len(history) >= 1 /\ DOMAIN history = 1..Len(history)
         /\ Last(history) = history[Len(history)]
         /\ ValidRevision(Last(history)) /\ TypedRevision(Last(history))
         /\ \A i \in 1..Len(history) : history[i].no = i - 1
<1>1. IsList(history) /\ history # << >>
  BY DEF SoundHistory, ValidHistory
<1>2. Len(history) \in Nat /\ DOMAIN history = 1..Len(history)
  BY <1>1, ListFacts
<1>3. Len(history) >= 1 /\ Len(history) \in 1..Len(history) /\ Last(history) = history[Len(history)]
  BY <1>1, LastFacts
<1> QED
  BY <1>1, <1>2, <1>3 DEF SoundHistory, ValidHistory

-----------------------------------------------------------------------------
(* A sequence of stored revisions that is a valid history is one of those  *)
(* that were made: its last revision names all that come before.           *)
LEMMA RebuiltIsMade ==
  ASSUME \A history \in made : SoundHistory(history),
         NEW n \in Nat, NEW revisions \in [1..n -> Stored], ValidHistory(revisions)
  PROVE  revisions \in made
<1>1. IsList(revisions) /\ Len(revisions) = n /\ revisions # << >>
  BY FunctionIsList DEF ValidHistory
<1>2. n >= 1 /\ n \in 1..n
  BY <1>1, LastFacts
<1>3. PICK history \in made : revisions[n] = Last(history)
  BY <1>2 DEF Stored
<1> DEFINE m == Len(history)
<1>4. /\ IsList(history) /\ m \in Nat /\ m >= 1 /\ Last(history) = history[m]
      /\ \A i \in 1..m : history[i].no = i - 1
      /\ ValidHistory(history)
  BY SoundFacts DEF SoundHistory
<1>5. m = n
  <2>1. revisions[n].no = n - 1
    BY <1>1, <1>2 DEF ValidHistory
  <2>2. history[m].no = m - 1
    BY <1>4
  <2> QED
    BY <1>2, <1>3, <1>4, <2>1, <2>2
<1> DEFINE N == {k \in Nat : k < n => revisions[n - k] = history[n - k]}
<1>6. 0 \in N
  BY <1>3, <1>4, <1>5
<1>7. ASSUME NEW k \in Nat, k \in N PROVE k + 1 \in N
  <2> SUFFICES ASSUME k + 1 < n PROVE revisions[n - (k + 1)] = history[n - (k + 1)]
    OBVIOUS
  <2> DEFINE i == n - (k + 1)
  <2>1. i \in 1..(n - 1) /\ i + 1 = n - k /\ k < n
    OBVIOUS
  <2>2. ParentBound(revisions[i], revisions[i + 1]) /\ ParentBound(history[i], history[i + 1])
    BY <1>1, <1>4, <1>5, <2>1 DEF ValidHistory
  <2>3. revisions[i + 1] = history[i + 1]
    BY <1>7, <2>1
  <2>4. <<revisions[i]>> = <<history[i]>>
    BY <2>2, <2>3 DEF ParentBound
  <2> QED
    BY <2>4
<1>8. Nat \subseteq N
  <2> HIDE DEF N
  <2> QED
    BY <1>6, <1>7, NatSetInduction
<1>9. ASSUME NEW i \in 1..n PROVE revisions[i] = history[i]
  <2>1. n - i \in Nat /\ n - i < n /\ n - (n - i) = i
    OBVIOUS
  <2>2. n - i \in N
    <3> HIDE DEF N
    <3> QED
      BY <1>8, <2>1
  <2> QED
    BY <2>1, <2>2
<1>10. revisions = history
  BY <1>1, <1>4, <1>5, <1>9, ListsEqual
<1> QED
  BY <1>10

(* What is rebuilt from stored revisions is sound.  In a sound history the *)
(* active hypotheses only get fewer.                                       *)
LEMMA ActiveShrinks ==
  ASSUME NEW history, SoundHistory(history)
  PROVE  \A i, j \in DOMAIN history : i < j => history[j].active \subseteq history[i].active
<1> DEFINE n == Len(history)
<1>1. n \in Nat /\ DOMAIN history = 1..n
  BY SoundFacts
<1> SUFFICES ASSUME NEW i \in 1..n
    PROVE  \A j \in 1..n : i < j => history[j].active \subseteq history[i].active
  BY <1>1
<1> DEFINE N == {k \in Nat : i + k <= n => history[i + k].active \subseteq history[i].active}
<1>2. 0 \in N
  OBVIOUS
<1>3. ASSUME NEW k \in Nat, k \in N PROVE k + 1 \in N
  <2> SUFFICES ASSUME i + (k + 1) <= n
      PROVE  history[i + (k + 1)].active \subseteq history[i].active
    OBVIOUS
  <2>1. i + k \in 1..(n - 1) /\ i + k <= n /\ i + (k + 1) = (i + k) + 1
    BY <1>1
  <2>2. history[(i + k) + 1].active \subseteq history[i + k].active
    BY <2>1 DEF SoundHistory
  <2>3. history[i + k].active \subseteq history[i].active
    BY <1>3, <2>1
  <2> QED
    BY <2>1, <2>2, <2>3
<1>4. Nat \subseteq N
  <2> HIDE DEF N
  <2> QED
    BY <1>2, <1>3, NatSetInduction
<1>5. ASSUME NEW j \in 1..n, i < j PROVE history[j].active \subseteq history[i].active
  <2>1. j - i \in Nat /\ i + (j - i) = j /\ i + (j - i) <= n
    BY <1>1, <1>5
  <2>2. j - i \in N
    <3> HIDE DEF N
    <3> QED
      BY <1>4, <2>1
  <2> QED
    BY <2>1, <2>2
<1> QED
  BY <1>5

-----------------------------------------------------------------------------
(* What revise and retract construct has in common.                        *)
Follows(history, rev) ==
  LET current == Last(history)
  IN  /\ rev.before = current.before /\ rev.after = current.after
      /\ rev.no = current.no + 1 /\ rev.parent = <<current>>
      /\ rev.kind \in {"revise", "retract"}
      /\ DOMAIN rev.mass = DOMAIN current.mass
      /\ \A chain \in DOMAIN rev.mass : rev.mass[chain] \in Nat
      /\ rev.active = {chain \in DOMAIN rev.mass : rev.mass[chain] > 0}
      /\ rev.active \subseteq current.active
      /\ rev.unresolved \in Nat /\ rev.scale \in Nat \ {0}
      /\ SumsToOne(rev)
      /\ DOMAIN rev.sources = DOMAIN rev.mass
      /\ \A chain \in DOMAIN rev.mass :
           rev.sources[chain] = current.sources[chain] \cup Range(rev.records)
      /\ IsList(rev.records) /\ IsList(rev.clusters) /\ IsList(rev.meanings)
      /\ rev.records # << >>
      /\ Len(rev.records) = Len(rev.clusters) /\ Len(rev.records) = Len(rev.meanings)
      /\ IsInjective(rev.records) /\ IsInjective(rev.clusters) /\ IsInjective(rev.meanings)
      /\ Range(rev.records) \cap Range(RecordsOf(history)) = {}
      /\ Range(rev.clusters) \cap Range(ClustersOf(history)) = {}
      /\ Range(rev.meanings) \cap Range(MeaningsOf(history)) = {}

(* A revision of which no hypothesis is active leaves everything           *)
(* unresolved.                                                             *)
LEMMA NothingActive ==
  ASSUME NEW rev, IsFiniteSet(DOMAIN rev.mass),
         \A chain \in DOMAIN rev.mass : rev.mass[chain] \in Nat,
         rev.active = {chain \in DOMAIN rev.mass : rev.mass[chain] > 0},
         rev.unresolved \in Nat, SumsToOne(rev), rev.active = {}
  PROVE  rev.unresolved = rev.scale
<1>1. \A chain \in DOMAIN rev.mass : rev.mass[chain] = 0
  OBVIOUS
<1>2. SumFunctionOnSet(rev.mass, DOMAIN rev.mass) = 0
  BY <1>1, SumOfZeros
<1> QED
  BY <1>2 DEF SumsToOne, SumFunction

(* What follows a sound history is a valid revision.                       *)
LEMMA FollowerIsValid ==
  ASSUME NEW history, SoundHistory(history), NEW rev, Follows(history, rev)
  PROVE  ValidRevision(rev) /\ TypedRevision(rev)
<1> DEFINE current == Last(history)
<1>1. ValidRevision(current) /\ TypedRevision(current)
  BY SoundFacts
<1>2. current.no \in Nat
  BY <1>1 DEF TypedRevision, Revision
<1> HIDE DEF current
<1>3. rev.no \in Nat /\ rev.no # 0 /\ rev.parent # NoParent
  <2>1. rev.parent = <<current>> /\ rev.no = current.no + 1
    BY DEF Follows, current
  <2>2. <<current>> # << >>
    OBVIOUS
  <2> QED
    BY <1>2, <2>1, <2>2 DEF NoParent
<1>4. IsFiniteSet(DOMAIN rev.mass) /\ Cardinality(DOMAIN rev.mass) >= 2
  BY <1>1 DEF Follows, TypedRevision, ValidRevision, current
<1>5. StatusFollowsMass(rev) /\ SumsToOne(rev)
  BY DEF Follows, StatusFollowsMass
<1>6. rev.active = {} => rev.unresolved = rev.scale
  BY <1>4, NothingActive DEF Follows
<1>7. EvidenceAligned(rev)
  BY <1>3 DEF Follows, EvidenceAligned
<1>8. SourcesRetained(rev)
  <2> SUFFICES ASSUME NEW chain \in DOMAIN rev.mass
      PROVE  Endpoints(rev) \cup Range(rev.records) \subseteq rev.sources[chain]
    BY DEF SourcesRetained
  <2>1. chain \in DOMAIN current.mass /\ Endpoints(rev) = Endpoints(current)
    BY DEF Follows, Endpoints, current
  <2>2. Endpoints(current) \subseteq current.sources[chain]
    BY <1>1, <2>1 DEF ValidRevision, SourcesRetained
  <2>3. rev.sources[chain] = current.sources[chain] \cup Range(rev.records)
    BY DEF Follows, current
  <2> QED
    BY <2>1, <2>2, <2>3
<1>9. \A chain \in DOMAIN rev.mass :
        TimesInside(StepTimes(chain, rev.before.time, rev.after.time),
                    rev.before.time, rev.after.time)
  <2>1. DOMAIN rev.mass = DOMAIN current.mass /\ rev.before = current.before /\ rev.after = current.after
    BY DEF Follows, current
  <2> QED
    BY <1>1, <2>1 DEF ValidRevision
<1>10. ValidRevision(rev)
  <2>1. (rev.parent = NoParent) <=> (rev.no = 0)
    BY <1>3
  <2>2. rev.no = 0 => rev.kind = "branch"
    BY <1>3
  <2> QED
    BY <1>4, <1>5, <1>6, <1>7, <1>8, <1>9, <2>1, <2>2 DEF ValidRevision
<1>11. Revision(rev)
  <2>1. rev.before \in Detection /\ rev.after \in Detection
    BY <1>1 DEF Follows, TypedRevision, Revision, current
  <2> QED
    BY <1>3, <2>1 DEF Follows, Revision
<1>12. TypedRevision(rev)
  BY <1>4, <1>11 DEF Follows, TypedRevision
<1> QED
  BY <1>10, <1>12

(* The flattened evidence of a history and one revision more.              *)
LEMMA EvidenceOfAppend ==
  ASSUME NEW history, SoundHistory(history), NEW rev,
         IsList(rev.records), IsList(rev.clusters), IsList(rev.meanings)
  PROVE  /\ RecordsOf(Append(history, rev)) = RecordsOf(history) \o rev.records
         /\ ClustersOf(Append(history, rev)) = ClustersOf(history) \o rev.clusters
         /\ MeaningsOf(Append(history, rev)) = MeaningsOf(history) \o rev.meanings
         /\ IsList(RecordsOf(history)) /\ IsList(ClustersOf(history)) /\ IsList(MeaningsOf(history))
<1> DEFINE n == Len(history)
           more == Append(history, rev)
           R(x) == [i \in DOMAIN x |-> x[i].records]
           C(x) == [i \in DOMAIN x |-> x[i].clusters]
           M(x) == [i \in DOMAIN x |-> x[i].meanings]
<1>1. /\ IsList(history) /\ n \in Nat /\ DOMAIN history = 1..n
      /\ DOMAIN more = 1..(n + 1) /\ \A i \in 1..n : more[i] = history[i]
      /\ more[n + 1] = rev
  BY SoundFacts, AppendFacts
<1>2. \A i \in 1..n : IsList(history[i].records) /\ IsList(history[i].clusters) /\ IsList(history[i].meanings)
  BY DEF SoundHistory, TypedRevision
<1> HIDE DEF n, more
<1>3. /\ IsList(R(history)) /\ Len(R(history)) = n
      /\ IsList(C(history)) /\ Len(C(history)) = n
      /\ IsList(M(history)) /\ Len(M(history)) = n
      /\ IsList(R(more)) /\ Len(R(more)) = n + 1
      /\ IsList(C(more)) /\ Len(C(more)) = n + 1
      /\ IsList(M(more)) /\ Len(M(more)) = n + 1
  <2>1. DOMAIN R(history) = 1..n /\ R(history) = [i \in 1..n |-> R(history)[i]]
    BY <1>1
  <2>2. DOMAIN C(history) = 1..n /\ C(history) = [i \in 1..n |-> C(history)[i]]
    BY <1>1
  <2>3. DOMAIN M(history) = 1..n /\ M(history) = [i \in 1..n |-> M(history)[i]]
    BY <1>1
  <2>4. DOMAIN R(more) = 1..(n + 1) /\ R(more) = [i \in 1..(n + 1) |-> R(more)[i]]
    BY <1>1
  <2>5. DOMAIN C(more) = 1..(n + 1) /\ C(more) = [i \in 1..(n + 1) |-> C(more)[i]]
    BY <1>1
  <2>6. DOMAIN M(more) = 1..(n + 1) /\ M(more) = [i \in 1..(n + 1) |-> M(more)[i]]
    BY <1>1
  <2>7. n \in Nat /\ n + 1 \in Nat
    BY <1>1
  <2> HIDE DEF R, C, M
  <2>8. IsList(R(history)) /\ Len(R(history)) = n /\ IsList(R(more)) /\ Len(R(more)) = n + 1
    BY <2>1, <2>4, <2>7, FunctionIsList
  <2>9. IsList(C(history)) /\ Len(C(history)) = n /\ IsList(C(more)) /\ Len(C(more)) = n + 1
    BY <2>2, <2>5, <2>7, FunctionIsList
  <2>10. IsList(M(history)) /\ Len(M(history)) = n /\ IsList(M(more)) /\ Len(M(more)) = n + 1
    BY <2>3, <2>6, <2>7, FunctionIsList
  <2> QED
    BY <2>8, <2>9, <2>10
<1>4. /\ \A i \in 1..n : R(more)[i] = history[i].records /\ R(history)[i] = history[i].records
      /\ \A i \in 1..n : C(more)[i] = history[i].clusters /\ C(history)[i] = history[i].clusters
      /\ \A i \in 1..n : M(more)[i] = history[i].meanings /\ M(history)[i] = history[i].meanings
      /\ R(more)[n + 1] = rev.records /\ C(more)[n + 1] = rev.clusters
      /\ M(more)[n + 1] = rev.meanings
  BY <1>1
<1>5. RecordsOf(history) = FlattenSeq(R(history)) /\ RecordsOf(more) = FlattenSeq(R(more))
  BY DEF RecordsOf
<1>6. ClustersOf(history) = FlattenSeq(C(history)) /\ ClustersOf(more) = FlattenSeq(C(more))
  BY DEF ClustersOf
<1>7. MeaningsOf(history) = FlattenSeq(M(history)) /\ MeaningsOf(more) = FlattenSeq(M(more))
  BY DEF MeaningsOf
<1> HIDE DEF R, C, M
<1>8. IsListOfLists(R(history)) /\ IsListOfLists(C(history)) /\ IsListOfLists(M(history))
  BY <1>2, <1>3, <1>4 DEF IsListOfLists
<1>10. R(more) = Append(R(history), rev.records)
  <2>1. /\ IsList(R(history)) /\ IsList(R(more)) /\ Len(R(more)) = Len(R(history)) + 1
        /\ \A i \in 1..Len(R(history)) : R(more)[i] = R(history)[i]
        /\ R(more)[Len(R(history)) + 1] = rev.records
    BY <1>3, <1>4
  <2> QED
    BY <2>1, AppendIs
<1>11. C(more) = Append(C(history), rev.clusters)
  <2>1. /\ IsList(C(history)) /\ IsList(C(more)) /\ Len(C(more)) = Len(C(history)) + 1
        /\ \A i \in 1..Len(C(history)) : C(more)[i] = C(history)[i]
        /\ C(more)[Len(C(history)) + 1] = rev.clusters
    BY <1>3, <1>4
  <2> QED
    BY <2>1, AppendIs
<1>12. M(more) = Append(M(history), rev.meanings)
  <2>1. /\ IsList(M(history)) /\ IsList(M(more)) /\ Len(M(more)) = Len(M(history)) + 1
        /\ \A i \in 1..Len(M(history)) : M(more)[i] = M(history)[i]
        /\ M(more)[Len(M(history)) + 1] = rev.meanings
    BY <1>3, <1>4
  <2> QED
    BY <2>1, AppendIs
<1>13. /\ FlattenSeq(R(more)) = FlattenSeq(R(history)) \o rev.records
       /\ FlattenSeq(C(more)) = FlattenSeq(C(history)) \o rev.clusters
       /\ FlattenSeq(M(more)) = FlattenSeq(M(history)) \o rev.meanings
  BY <1>8, <1>10, <1>11, <1>12, FlattenAppend
<1>14. /\ IsList(FlattenSeq(R(history))) /\ IsList(FlattenSeq(C(history)))
       /\ IsList(FlattenSeq(M(history)))
  BY <1>8, FlattenIsList
<1> QED
  BY <1>5, <1>6, <1>7, <1>13, <1>14 DEF more

(* A sound history with a revision that follows it is sound.               *)
LEMMA FollowerExtends ==
  ASSUME NEW history, SoundHistory(history), NEW rev, Follows(history, rev)
  PROVE  SoundHistory(Append(history, rev))
<1> DEFINE n == Len(history)
           current == Last(history)
           more == Append(history, rev)
<1>1. /\ IsList(history) /\ n \in Nat /\ n >= 1 /\ current = history[n]
      /\ \A i \in 1..n : history[i].no = i - 1
  BY SoundFacts
<1>2. /\ IsList(more) /\ Len(more) = n + 1 /\ DOMAIN more = 1..(n + 1)
      /\ \A i \in 1..n : more[i] = history[i]
      /\ more[n + 1] = rev
      /\ more # << >>
  BY <1>1, AppendFacts, LastOfAppend
<1>3. /\ IsInjective(RecordsOf(more)) /\ IsInjective(ClustersOf(more))
      /\ IsInjective(MeaningsOf(more))
  <2>1. /\ IsList(rev.records) /\ IsList(rev.clusters) /\ IsList(rev.meanings)
        /\ IsInjective(rev.records) /\ IsInjective(rev.clusters) /\ IsInjective(rev.meanings)
        /\ Range(RecordsOf(history)) \cap Range(rev.records) = {}
        /\ Range(ClustersOf(history)) \cap Range(rev.clusters) = {}
        /\ Range(MeaningsOf(history)) \cap Range(rev.meanings) = {}
    BY DEF Follows
  <2>2. /\ IsInjective(RecordsOf(history)) /\ IsInjective(ClustersOf(history))
        /\ IsInjective(MeaningsOf(history))
    BY DEF SoundHistory, ValidHistory
  <2>3. /\ RecordsOf(more) = RecordsOf(history) \o rev.records
        /\ ClustersOf(more) = ClustersOf(history) \o rev.clusters
        /\ MeaningsOf(more) = MeaningsOf(history) \o rev.meanings
        /\ IsList(RecordsOf(history)) /\ IsList(ClustersOf(history)) /\ IsList(MeaningsOf(history))
    BY <2>1, EvidenceOfAppend
  <2>4. IsInjective(RecordsOf(history) \o rev.records)
    BY <2>1, <2>2, <2>3, ConcatInjective
  <2>5. IsInjective(ClustersOf(history) \o rev.clusters)
    BY <2>1, <2>2, <2>3, ConcatInjective
  <2>6. IsInjective(MeaningsOf(history) \o rev.meanings)
    BY <2>1, <2>2, <2>3, ConcatInjective
  <2> HIDE DEF more
  <2> QED
    BY <2>3, <2>4, <2>5, <2>6
<1>4. /\ rev.no = n /\ ParentBound(current, rev) /\ SameSet(current, rev)
      /\ SourcesKept(current, rev) /\ rev.active \subseteq current.active
  <2>1. current.no = n - 1
    BY <1>1
  <2> HIDE DEF current, n
  <2>2. rev.no = n
    BY <1>1, <2>1 DEF Follows, current
  <2>3. SourcesKept(current, rev)
    BY DEF Follows, SourcesKept, current
  <2> QED
    BY <2>2, <2>3 DEF Follows, ParentBound, SameSet, current
<1>5. ValidRevision(rev) /\ TypedRevision(rev)
  BY FollowerIsValid
<1> HIDE DEF n, more, current
<1>6. ASSUME NEW i \in 1..(n + 1)
      PROVE  more[i].no = i - 1 /\ ValidRevision(more[i]) /\ TypedRevision(more[i])
  <2>1. CASE i \in 1..n
    BY <1>1, <1>2, <2>1 DEF SoundHistory, n
  <2>2. CASE i = n + 1
    BY <1>1, <1>2, <1>4, <1>5, <2>2
  <2> QED
    BY <1>1, <2>1, <2>2
<1>7. ASSUME NEW i \in 1..n
      PROVE  /\ ParentBound(more[i], more[i + 1]) /\ SameSet(more[i], more[i + 1])
             /\ SourcesKept(more[i], more[i + 1])
             /\ more[i + 1].active \subseteq more[i].active
  <2>1. CASE i \in 1..(n - 1)
    <3>1. i + 1 \in 1..n
      BY <1>1, <2>1
    <3>2. more[i] = history[i] /\ more[i + 1] = history[i + 1]
      BY <1>2, <3>1
    <3> QED
      BY <2>1, <3>2 DEF SoundHistory, ValidHistory, n
  <2>2. CASE i = n
    BY <1>1, <1>2, <1>4, <2>2
  <2> QED
    BY <1>1, <2>1, <2>2
<1>8. Len(more) - 1 = n
  BY <1>1, <1>2
<1>9. ValidHistory(more)
  BY <1>2, <1>3, <1>6, <1>7, <1>8 DEF ValidHistory
<1> QED
  BY <1>2, <1>6, <1>7, <1>8, <1>9 DEF SoundHistory, more

-----------------------------------------------------------------------------
(* Evidence of which every record is fresh, given those before it.         *)
FreshInOrder(history, evidence) ==
  \A i \in DOMAIN evidence : Fresh(history, {evidence[j] : j \in 1..(i - 1)}, evidence[i])

IdsIn(evidence)      == [i \in DOMAIN evidence |-> evidence[i].id]
ClustersIn(evidence) == [i \in DOMAIN evidence |-> evidence[i].cluster]
MeaningsIn(evidence) == [i \in DOMAIN evidence |-> evidence[i].meaning]

UsableEvidence(history, ids, clusters, meanings) ==
  /\ IsList(ids) /\ IsList(clusters) /\ IsList(meanings) /\ ids # << >>
  /\ Len(ids) = Len(clusters) /\ Len(ids) = Len(meanings)
  /\ IsInjective(ids) /\ IsInjective(clusters) /\ IsInjective(meanings)
  /\ Range(ids) \cap Range(RecordsOf(history)) = {}
  /\ Range(clusters) \cap Range(ClustersOf(history)) = {}
  /\ Range(meanings) \cap Range(MeaningsOf(history)) = {}

(* Evidence that is new to a history and in order can be used for its next *)
(* revision.                                                               *)
LEMMA FreshEvidence ==
  ASSUME NEW history, NEW evidence, IsList(evidence), evidence # << >>,
         FreshInOrder(history, evidence)
  PROVE  UsableEvidence(history, IdsIn(evidence), ClustersIn(evidence), MeaningsIn(evidence))
<1> DEFINE n == Len(evidence)
           ids == IdsIn(evidence)
           clusters == ClustersIn(evidence)
           meanings == MeaningsIn(evidence)
<1>1. n \in Nat /\ n >= 1 /\ DOMAIN evidence = 1..n
  BY LastFacts, ListFacts
<1> HIDE DEF n
<1>2. /\ DOMAIN ids = 1..n /\ DOMAIN clusters = 1..n /\ DOMAIN meanings = 1..n
      /\ ids = [i \in 1..n |-> ids[i]] /\ clusters = [i \in 1..n |-> clusters[i]]
      /\ meanings = [i \in 1..n |-> meanings[i]]
      /\ \A i \in 1..n : /\ ids[i] = evidence[i].id /\ clusters[i] = evidence[i].cluster
                          /\ meanings[i] = evidence[i].meaning
  BY <1>1 DEF IdsIn, ClustersIn, MeaningsIn
<1> HIDE DEF ids, clusters, meanings
<1>3. /\ IsList(ids) /\ Len(ids) = n /\ IsList(clusters) /\ Len(clusters) = n
      /\ IsList(meanings) /\ Len(meanings) = n
  BY <1>1, <1>2, FunctionIsList
<1>4. ids # << >>
  BY <1>1, <1>3, EmptyList
<1>5. ASSUME NEW i \in 1..n, NEW j \in 1..n, j < i
      PROVE  ids[i] # ids[j] /\ clusters[i] # clusters[j] /\ meanings[i] # meanings[j]
  <2>1. j \in 1..(i - 1)
    BY <1>1, <1>5
  <2>2. evidence[j] \in {evidence[k] : k \in 1..(i - 1)}
    BY <2>1
  <2>3. Fresh(history, {evidence[k] : k \in 1..(i - 1)}, evidence[i])
    BY <1>1 DEF FreshInOrder
  <2> QED
    BY <1>2, <2>2, <2>3 DEF Fresh
<1>6. ASSUME NEW i \in 1..n
      PROVE  /\ ids[i] \notin Range(RecordsOf(history))
             /\ clusters[i] \notin Range(ClustersOf(history))
             /\ meanings[i] \notin Range(MeaningsOf(history))
  <2>1. Fresh(history, {evidence[k] : k \in 1..(i - 1)}, evidence[i])
    BY <1>1 DEF FreshInOrder
  <2> QED
    BY <1>2, <2>1 DEF Fresh
<1>7. \A i, j \in 1..n : i = j \/ i < j \/ j < i
  BY <1>1
<1>8. IsInjective(ids) /\ IsInjective(clusters) /\ IsInjective(meanings)
  BY <1>2, <1>5, <1>7 DEF IsInjective
<1>9. /\ Range(ids) \cap Range(RecordsOf(history)) = {}
      /\ Range(clusters) \cap Range(ClustersOf(history)) = {}
      /\ Range(meanings) \cap Range(MeaningsOf(history)) = {}
  <2>1. ASSUME NEW x \in Range(ids) PROVE x \notin Range(RecordsOf(history))
    <3>1. PICK i \in 1..n : x = ids[i]
      BY <1>2 DEF Range
    <3> QED
      BY <1>6, <3>1
  <2>2. ASSUME NEW x \in Range(clusters) PROVE x \notin Range(ClustersOf(history))
    <3>1. PICK i \in 1..n : x = clusters[i]
      BY <1>2 DEF Range
    <3> QED
      BY <1>6, <3>1
  <2>3. ASSUME NEW x \in Range(meanings) PROVE x \notin Range(MeaningsOf(history))
    <3>1. PICK i \in 1..n : x = meanings[i]
      BY <1>2 DEF Range
    <3> QED
      BY <1>6, <3>1
  <2> QED
    BY <2>1, <2>2, <2>3
<1> QED
  BY <1>3, <1>4, <1>8, <1>9 DEF UsableEvidence, ids, clusters, meanings

(* A successor follows the history when its numbers are right.             *)
LEMMA SuccessorFollows ==
  ASSUME NEW history, NEW kind \in {"revise", "retract"},
         NEW evidence, IsList(evidence), evidence # << >>,
         FreshInOrder(history, evidence),
         NEW mass, DOMAIN mass = DOMAIN Last(history).mass,
         \A chain \in DOMAIN mass : mass[chain] \in Nat,
         \A chain \in DOMAIN mass : mass[chain] > 0 => chain \in Last(history).active,
         NEW unresolved \in Nat, NEW scale \in Nat \ {0},
         unresolved + SumFunction(mass) = scale
  PROVE  Follows(history, Successor(history, kind, evidence, mass, unresolved, scale))
<1> DEFINE rev == Successor(history, kind, evidence, mass, unresolved, scale)
<1>1. /\ rev.before = Last(history).before /\ rev.after = Last(history).after
      /\ rev.no = Last(history).no + 1 /\ rev.parent = <<Last(history)>>
      /\ rev.kind = kind /\ rev.mass = mass
      /\ rev.active = {chain \in DOMAIN mass : mass[chain] > 0}
      /\ rev.unresolved = unresolved /\ rev.scale = scale
      /\ rev.sources = [chain \in DOMAIN mass |-> Last(history).sources[chain] \cup Range(IdsIn(evidence))]
      /\ rev.records = IdsIn(evidence)
      /\ rev.clusters = ClustersIn(evidence)
      /\ rev.meanings = MeaningsIn(evidence)
  BY DEF Successor, IdsIn, ClustersIn, MeaningsIn
<1> HIDE DEF rev
<1>2. UsableEvidence(history, rev.records, rev.clusters, rev.meanings)
  BY <1>1, FreshEvidence
<1>3. SumsToOne(rev)
  BY <1>1 DEF SumsToOne
<1>4. /\ DOMAIN rev.sources = DOMAIN rev.mass
      /\ \A chain \in DOMAIN rev.mass :
           rev.sources[chain] = Last(history).sources[chain] \cup Range(rev.records)
  BY <1>1
<1>5. rev.active \subseteq Last(history).active
  BY <1>1
<1> QED
  BY <1>1, <1>2, <1>3, <1>4, <1>5 DEF Follows, UsableEvidence, rev

(* A likelihood ratio is a number.                                         *)
LEMMA RatioInNat ==
  ASSUME NEW e \in Evidence, NEW actor PROVE Ratio(e, actor) \in Nat
BY EvidenceAssumption DEF Ratio

(* Products of numbers: they are numbers, they commute, and they are       *)
(* positive exactly when both factors are.                                 *)
LEMMA TimesZero ==
  /\ \A a, b \in Nat : a * b \in Nat /\ a * b = b * a
  /\ \A a \in Nat : 0 * a = 0 /\ a * 0 = 0
  /\ \A a, b \in Nat : a * b > 0 => a > 0 /\ b > 0
  /\ \A a, b \in Nat : a > 0 /\ b > 0 => a * b > 0
OBVIOUS

(* The masses after a revision.                                            *)
LEMMA ReviseFacts ==
  ASSUME NEW history, SoundHistory(history), NEW e \in Evidence, NEW threshold \in Nat,
         NEW current, current = Last(history),
         NEW weight, weight = Reweighted(current, e),
         NEW rest, rest = ReweightedUnresolved(current, e),
         NEW total, total = rest + SumFunction(weight),
         NEW dropped, dropped = BelowThreshold(weight, total, threshold),
         NEW moved, moved = SumFunctionOnSet(weight, dropped),
         NEW mass, mass = [chain \in DOMAIN weight |-> IF chain \in dropped THEN 0 ELSE weight[chain]]
  PROVE  /\ DOMAIN weight = DOMAIN current.mass /\ DOMAIN mass = DOMAIN current.mass
         /\ \A chain \in DOMAIN weight :
              weight[chain] = current.mass[chain] * Ratio(e, Responsible(chain))
         /\ IsFiniteSet(DOMAIN weight) /\ dropped \in SUBSET DOMAIN weight
         /\ \A chain \in DOMAIN weight : weight[chain] \in Nat /\ current.mass[chain] \in Nat
         /\ \A chain \in DOMAIN mass : mass[chain] \in Nat
         /\ \A chain \in DOMAIN mass : mass[chain] > 0 => chain \in current.active
         /\ rest \in Nat /\ total \in Nat /\ moved \in Nat
         /\ rest + moved + SumFunction(mass) = total
         /\ total = 0 => SumFunction(mass) = 0
<1>1. ValidRevision(current) /\ TypedRevision(current)
  BY SoundFacts
<1>2. /\ DOMAIN weight = DOMAIN current.mass
      /\ \A chain \in DOMAIN weight :
           weight[chain] = current.mass[chain] * Ratio(e, Responsible(chain))
  BY DEF Reweighted
<1>3. \A chain \in DOMAIN weight : current.mass[chain] \in Nat /\ weight[chain] \in Nat
  <2> SUFFICES ASSUME NEW chain \in DOMAIN weight
      PROVE current.mass[chain] \in Nat /\ weight[chain] \in Nat
    OBVIOUS
  <2>1. current.mass[chain] \in Nat /\ Ratio(e, Responsible(chain)) \in Nat
    BY <1>1, <1>2, RatioInNat DEF TypedRevision, Revision
  <2> QED
    BY <1>2, <2>1, TimesZero
<1>4. rest \in Nat
  <2>1. current.unresolved \in Nat /\ Ratio(e, Unknown) \in Nat
    BY <1>1, RatioInNat DEF TypedRevision, Revision
  <2> QED
    BY <2>1, TimesZero DEF ReweightedUnresolved
<1>5. IsFiniteSet(DOMAIN weight) /\ dropped \in SUBSET DOMAIN weight
  BY <1>1, <1>2 DEF TypedRevision, BelowThreshold
<1>6. /\ DOMAIN mass = DOMAIN weight
      /\ \A chain \in DOMAIN weight : mass[chain] = IF chain \in dropped THEN 0 ELSE weight[chain]
  OBVIOUS
<1>7. \A chain \in DOMAIN mass : mass[chain] \in Nat
  BY <1>3, <1>6
<1>8. \A chain \in DOMAIN mass : mass[chain] > 0 => chain \in current.active
  <2> SUFFICES ASSUME NEW chain \in DOMAIN mass, mass[chain] > 0 PROVE chain \in current.active
    OBVIOUS
  <2>1. weight[chain] > 0
    BY <1>3, <1>6
  <2>2. current.mass[chain] \in Nat /\ Ratio(e, Responsible(chain)) \in Nat
    BY <1>3, <1>6, RatioInNat
  <2>3. current.mass[chain] > 0
    BY <1>2, <1>6, <2>1, <2>2, TimesZero
  <2> QED
    BY <1>1, <1>2, <1>6, <2>3 DEF ValidRevision, StatusFollowsMass
<1>9. SumFunctionOnSet(mass, DOMAIN weight) + moved = SumFunctionOnSet(weight, DOMAIN weight)
  BY <1>3, <1>5, <1>6, SumWithout
<1>10. /\ SumFunctionOnSet(weight, DOMAIN weight) \in Nat /\ moved \in Nat
       /\ SumFunctionOnSet(mass, DOMAIN weight) \in Nat
  <2>1. SumLaws(weight, DOMAIN weight) /\ SumLaws(mass, DOMAIN weight)
    BY <1>3, <1>5, <1>6, <1>7, SumStep
  <2> QED
    BY <1>5, <2>1 DEF SumLaws
<1>11. /\ SumFunction(weight) = SumFunctionOnSet(weight, DOMAIN weight)
       /\ SumFunction(mass) = SumFunctionOnSet(mass, DOMAIN weight)
  BY <1>6 DEF SumFunction
<1>12. rest + moved + SumFunction(mass) = total /\ total \in Nat /\ (total = 0 => SumFunction(mass) = 0)
  <2>1. total = rest + SumFunction(weight)
    OBVIOUS
  <2> DEFINE a == SumFunction(weight)
             b == SumFunction(mass)
  <2>2. a \in Nat /\ b \in Nat /\ b + moved = a /\ moved \in Nat /\ total = rest + a
    BY <1>9, <1>10, <1>11, <2>1
  <2> HIDE DEF a, b
  <2>3. rest + moved + b = total /\ total \in Nat /\ (total = 0 => b = 0)
    BY <1>4, <2>2
  <2> QED
    BY <2>3 DEF b
<1> QED
  BY <1>2, <1>3, <1>4, <1>5, <1>6, <1>7, <1>8, <1>10, <1>12

(* The revision that revise builds follows the history it revises.         *)
LEMMA ReviseFollows ==
  ASSUME NEW history, SoundHistory(history), NEW e \in Evidence, NEW threshold \in Nat,
         ValidEvidence(history, {}, e)
  PROVE  Follows(history, ReviseRevision(history, e, threshold).revision)
<1> DEFINE current == Last(history)
           weight  == Reweighted(current, e)
           rest    == ReweightedUnresolved(current, e)
           total   == rest + SumFunction(weight)
           dropped == BelowThreshold(weight, total, threshold)
           moved   == SumFunctionOnSet(weight, dropped)
           mass    == [chain \in DOMAIN weight |-> IF chain \in dropped THEN 0 ELSE weight[chain]]
           unresolved == OrAllUnresolved(total, rest + moved)
           scale   == OrAllUnresolved(total, total)
<1>1. ReviseRevision(history, e, threshold).revision
        = Successor(history, "revise", <<e>>, mass, unresolved, scale)
  BY DEF ReviseRevision
<1>2. /\ DOMAIN mass = DOMAIN current.mass
      /\ \A chain \in DOMAIN mass : mass[chain] \in Nat
      /\ \A chain \in DOMAIN mass : mass[chain] > 0 => chain \in current.active
      /\ rest \in Nat /\ total \in Nat /\ moved \in Nat
      /\ rest + moved + SumFunction(mass) = total
      /\ total = 0 => SumFunction(mass) = 0
  <2> HIDE DEF current, weight, rest, total, dropped, moved, mass
  <2>1. /\ current = Last(history) /\ weight = Reweighted(current, e)
        /\ rest = ReweightedUnresolved(current, e) /\ total = rest + SumFunction(weight)
        /\ dropped = BelowThreshold(weight, total, threshold)
        /\ moved = SumFunctionOnSet(weight, dropped)
        /\ mass = [chain \in DOMAIN weight |-> IF chain \in dropped THEN 0 ELSE weight[chain]]
    BY DEF current, weight, rest, total, dropped, moved, mass
  <2> QED
    BY <2>1, ReviseFacts
<1>3. /\ IsList(<<e>>) /\ <<e>> # << >> /\ DOMAIN <<e>> = {1} /\ <<e>>[1] = e
  <2>1. <<e>> \in Seq({e}) /\ <<e>> # << >>
    OBVIOUS
  <2> QED
    BY <2>1 DEF IsList
<1>4. FreshInOrder(history, <<e>>)
  <2>1. {<<e>>[j] : j \in 1..(1 - 1)} = {}
    OBVIOUS
  <2>2. Fresh(history, {}, e)
    BY DEF ValidEvidence
  <2> QED
    BY <1>3, <2>1, <2>2 DEF FreshInOrder
<1> HIDE DEF current, weight, rest, total, dropped, moved, mass
<1>5. unresolved \in Nat /\ scale \in Nat \ {0} /\ unresolved + SumFunction(mass) = scale
  <2>1. CASE total = 0
    BY <1>2, <2>1 DEF OrAllUnresolved
  <2>2. CASE total # 0
    <3>1. rest + moved + SumFunction(mass) = total
      BY <1>2
    <3> QED
      BY <1>2, <2>2, <3>1 DEF OrAllUnresolved
  <2> QED
    BY <2>1, <2>2
<1> HIDE DEF unresolved, scale
<1>6. DOMAIN mass = DOMAIN Last(history).mass
      /\ \A chain \in DOMAIN mass : mass[chain] > 0 => chain \in Last(history).active
  BY <1>2 DEF current
<1>7. Follows(history, Successor(history, "revise", <<e>>, mass, unresolved, scale))
  BY <1>2, <1>3, <1>4, <1>5, <1>6, SuccessorFollows
<1> QED
  BY <1>1, <1>7

(* The revision that retract builds follows the history it revises.        *)
LEMMA RetractFollows ==
  ASSUME NEW history, SoundHistory(history), NEW targets, NEW evidence \in Counter,
         RetractFits(history, targets, evidence)
  PROVE  Follows(history, RetractRevision(history, targets, evidence).revision)
<1> DEFINE current == Last(history)
           mass == [chain \in DOMAIN current.mass |->
                      IF chain \in targets THEN 0 ELSE current.mass[chain]]
           moved == SumFunctionOnSet(current.mass, targets)
           unresolved == current.unresolved + moved
<1>1. RetractRevision(history, targets, evidence).revision
        = Successor(history, "retract", evidence, mass, unresolved, current.scale)
  BY DEF RetractRevision
<1>2. ValidRevision(current) /\ TypedRevision(current)
  BY SoundFacts
<1>3. /\ IsFiniteSet(DOMAIN current.mass)
      /\ \A chain \in DOMAIN current.mass : current.mass[chain] \in Nat
      /\ current.unresolved \in Nat /\ current.scale \in Nat \ {0}
      /\ current.unresolved + SumFunction(current.mass) = current.scale
  BY <1>2 DEF TypedRevision, Revision, ValidRevision, SumsToOne
<1>4. targets \in SUBSET DOMAIN current.mass
  BY <1>2 DEF RetractFits, TypedRevision, Revision
<1>5. /\ DOMAIN mass = DOMAIN current.mass
      /\ \A chain \in DOMAIN mass : mass[chain] = IF chain \in targets THEN 0 ELSE current.mass[chain]
  OBVIOUS
<1> HIDE DEF mass
<1>6. /\ \A chain \in DOMAIN mass : mass[chain] \in Nat
      /\ \A chain \in DOMAIN mass : mass[chain] > 0 => chain \in current.active
  BY <1>2, <1>3, <1>5 DEF ValidRevision, StatusFollowsMass
<1>7. SumFunctionOnSet(mass, DOMAIN current.mass) + moved
        = SumFunctionOnSet(current.mass, DOMAIN current.mass)
  BY <1>3, <1>4, <1>5, SumWithout
<1>8. moved \in Nat /\ SumFunctionOnSet(mass, DOMAIN current.mass) \in Nat
  <2>1. SumLaws(current.mass, DOMAIN current.mass) /\ SumLaws(mass, DOMAIN current.mass)
    BY <1>3, <1>5, <1>6, SumStep
  <2> QED
    BY <1>4, <2>1 DEF SumLaws
<1>9. unresolved \in Nat /\ unresolved + SumFunction(mass) = current.scale
  BY <1>3, <1>5, <1>7, <1>8 DEF SumFunction
<1>10. IsList(evidence) /\ evidence # << >>
  BY CounterAssumption DEF IsList, RetractFits
<1>11. FreshInOrder(history, evidence)
  BY DEF RetractFits, ValidEvidence, FreshInOrder
<1> HIDE DEF unresolved
<1>12. Follows(history, Successor(history, "retract", evidence, mass, unresolved, current.scale))
  BY <1>3, <1>5, <1>6, <1>9, <1>10, <1>11, SuccessorFollows
<1> QED
  BY <1>1, <1>12

-----------------------------------------------------------------------------
(* The first revision of a history.                                        *)
LEMMA ChainsFinite ==
  ASSUME NEW actors, IsFiniteSet(actors)
  PROVE  IsFiniteSet(Chains(actors)) /\ Chains(actors) \subseteq actors \X actors
<1>1. Chains(actors) \subseteq actors \X actors
  BY DEF Chains
<1>2. IsFiniteSet(actors \X actors)
  BY FS_Product
<1> QED
  BY <1>1, <1>2, FS_Subset

(* The weight of a chain of transfers is a number.                         *)
LEMMA RawWeightInNat ==
  ASSUME NEW prior \in Prior, NEW handoff \in Nat, handoff < Scale,
         NEW chain \in Chains(DOMAIN prior)
  PROVE  RawWeight(prior, handoff, chain) \in Nat
<1>1. chain[1] \in DOMAIN prior /\ chain[2] \in DOMAIN prior
  BY DEF Chains
<1> DEFINE a == prior[chain[1]]
           b == prior[chain[2]]
           c == Scale - handoff
<1>2. a \in Nat /\ b \in Nat /\ c \in Nat /\ Scale \in Nat
  BY <1>1, PriorAssumption, ScaleAssumption
<1>3. RawWeight(prior, handoff, chain)
        = IF chain[1] = chain[2] THEN c * a * Scale ELSE handoff * a * b
  BY DEF RawWeight
<1> HIDE DEF a, b, c
<1>4. c * a * Scale \in Nat /\ handoff * a * b \in Nat
  BY <1>2, TimesZero
<1> QED
  BY <1>3, <1>4

(* The history that branch starts, when every check of it passes, is       *)
(* sound.                                                                  *)
LEMMA BranchIsSound ==
  ASSUME NEW before \in Detection, NEW after \in Detection, NEW prior \in Prior,
         NEW unresolved \in Fraction, NEW handoff \in Fraction,
         BranchFits(before, after, prior, unresolved, handoff),
         NEW rev, rev = BranchRevision(before, after, prior, unresolved, handoff),
         ValidRevision(rev), ValidHistory(<<rev>>)
  PROVE  SoundHistory(<<rev>>)
<1> DEFINE raw   == [chain \in Chains(DOMAIN prior) |-> RawWeight(prior, handoff, chain)]
           total == SumFunction(raw)
           kept  == {chain \in DOMAIN raw : raw[chain] > 0}
           share == Scale - unresolved
<1>1. /\ rev.before = before /\ rev.after = after /\ rev.no = 0 /\ rev.kind = "branch"
      /\ rev.mass = [chain \in kept |-> share * raw[chain]]
      /\ rev.active = kept /\ rev.unresolved = unresolved * total /\ rev.scale = Scale * total
      /\ rev.sources = [chain \in kept |-> {before.id, after.id}]
      /\ rev.records = <<before.id, after.id>> /\ rev.clusters = << >> /\ rev.meanings = << >>
  BY DEF BranchRevision
<1>2. /\ Scale \in Nat /\ Scale > 0 /\ unresolved \in Nat /\ handoff \in Nat
      /\ unresolved < Scale /\ handoff < Scale /\ share \in Nat
  BY ScaleAssumption DEF BranchFits
<1>3. IsFiniteSet(DOMAIN raw)
  BY PriorAssumption, ChainsFinite
<1>4. \A chain \in DOMAIN raw : raw[chain] \in Nat
  BY <1>2, RawWeightInNat
<1>5. IsFiniteSet(kept) /\ kept \subseteq DOMAIN raw
  BY <1>3, FS_Subset
<1> HIDE DEF raw
<1>6. total \in Nat
  <2>1. SumLaws(raw, DOMAIN raw)
    BY <1>3, <1>4, SumStep
  <2> QED
    BY <2>1 DEF SumLaws, SumFunction
<1>7. kept # {}
  <2>1. DOMAIN rev.mass = kept
    BY <1>1
  <2>2. Cardinality(kept) >= 2
    BY <2>1 DEF ValidRevision
  <2> HIDE DEF kept
  <2> QED
    BY <2>2, FS_EmptySet
<1>8. total > 0
  <2>1. PICK chain \in DOMAIN raw : raw[chain] > 0
    BY <1>7
  <2>2. raw[chain] <= total
    BY <1>3, <1>4, <2>1, SumBound DEF SumFunction
  <2> QED
    BY <1>4, <1>6, <2>1, <2>2
<1>9. \A chain \in kept : share * raw[chain] \in Nat
  BY <1>2, <1>4, <1>5, TimesZero
<1> HIDE DEF total, kept, share
<1>10. rev.unresolved \in Nat /\ rev.scale \in Nat \ {0}
  <2>1. unresolved * total \in Nat /\ Scale * total \in Nat /\ Scale * total > 0
    BY <1>2, <1>6, <1>8, TimesZero
  <2> QED
    BY <1>1, <2>1
<1>11. Revision(rev)
  BY <1>1, <1>9, <1>10 DEF Revision
<1>12. IsList(rev.records) /\ IsList(rev.clusters) /\ IsList(rev.meanings)
  <2>1. <<before.id, after.id>> \in Seq({before.id, after.id})
    OBVIOUS
  <2>2. rev.records = <<before.id, after.id>> /\ rev.clusters = << >> /\ rev.meanings = << >>
    BY <1>1
  <2> QED
    BY <2>1, <2>2, EmptyList DEF IsList
<1>13. TypedRevision(rev)
  <2>1. DOMAIN rev.mass = kept
    BY <1>1
  <2>2. IsFiniteSet(DOMAIN rev.mass)
    BY <1>5, <2>1
  <2> QED
    BY <1>11, <1>12, <2>2 DEF TypedRevision
<1>14. IsList(<<rev>>) /\ Len(<<rev>>) = 1 /\ <<rev>>[1] = rev
  <2>1. <<rev>> \in Seq({rev}) /\ Len(<<rev>>) = 1 /\ <<rev>>[1] = rev
    OBVIOUS
  <2> QED
    BY <2>1 DEF IsList
<1> QED
  BY <1>13, <1>14 DEF SoundHistory

-----------------------------------------------------------------------------
(* What is submitted is returned if it is valid and its sum exact, and     *)
(* refused by the contracts otherwise.                                     *)
LEMMA SubmitCases ==
  ASSUME NEW h, NEW call, NEW history, NEW rounding, Submit(h, call, history, rounding)
  PROVE  \/ /\ Refuse(call, Last(history), rounding)
            /\ ~ (ValidRevision(Last(history)) /\ ValidHistory(history)) \/ rounding # "exact"
         \/ /\ Return(h, call, history)
            /\ ValidRevision(Last(history)) /\ ValidHistory(history)
BY DEF Submit

(* An exception of the engine leaves the histories as they are.            *)
LEMMA RaiseKeepsInv ==
  ASSUME HypergraphInv, NEW call, Raise(call, "refused")
  PROVE  HypergraphInv'
<1>1. answer' = Ended(call, "refused") /\ held' = held /\ made' = made
  BY DEF Raise
<1>2. answer'.outcome = "refused"
  BY <1>1 DEF Ended
<1>3. OnlyTheEmptiedIsRefused'
  BY <1>2 DEF OnlyTheEmptiedIsRefused
<1> QED
  BY <1>1, <1>2, <1>3 DEF HypergraphInv

(* So does one of the contracts, which a revision that revise or retract   *)
(* made only meets when it leaves no hypothesis active.                    *)
LEMMA RefuseKeepsInv ==
  ASSUME HypergraphInv, NEW call, NEW rev, NEW rounding, Refuse(call, rev, rounding),
         call = "branch" \/ (rev.active = {} /\ rounding # "exact")
  PROVE  HypergraphInv'
<1>1. /\ answer' = [Ended(call, "contract") EXCEPT !.left = rev.active, !.sum = rounding]
      /\ held' = held /\ made' = made
  BY DEF Refuse
<1>2. /\ answer'.outcome = "contract" /\ answer'.call = call
      /\ answer'.left = rev.active /\ answer'.sum = rounding
  BY <1>1 DEF Ended
<1>3. OnlyTheEmptiedIsRefused'
  BY <1>2 DEF OnlyTheEmptiedIsRefused
<1> QED
  BY <1>1, <1>2, <1>3 DEF HypergraphInv

(* A sum that is compared with 1.0 is everything there is: what is         *)
(* unresolved is all, and no hypothesis has mass.                          *)
LEMMA ComparedIsEmptied ==
  ASSUME NEW history, SoundHistory(history), NEW rev, Follows(history, rev),
         NEW moved, NEW rounding \in RoundingOf(rev, moved), rounding # "exact"
  PROVE  rev.active = {}
<1>1. rev.unresolved = rev.scale
  BY DEF RoundingOf
<1>2. IsFiniteSet(DOMAIN rev.mass) /\ \A chain \in DOMAIN rev.mass : rev.mass[chain] \in Nat
  <2>1. TypedRevision(rev)
    BY FollowerIsValid
  <2> QED
    BY <2>1 DEF TypedRevision, Follows
<1> DEFINE mass == rev.mass
           sum == SumFunctionOnSet(mass, DOMAIN mass)
<1>3. sum \in Nat
  <2>1. SumLaws(mass, DOMAIN mass)
    BY <1>2, SumStep
  <2> QED
    BY <2>1 DEF SumLaws
<1>4. rev.unresolved + sum = rev.scale /\ rev.unresolved \in Nat
  BY DEF Follows, SumsToOne, SumFunction
<1>5. ASSUME NEW chain \in DOMAIN rev.mass PROVE ~ rev.mass[chain] > 0
  <2>1. mass[chain] <= sum
    BY <1>2, SumBound
  <2> HIDE DEF sum
  <2> QED
    BY <1>1, <1>2, <1>3, <1>4, <2>1
<1> QED
  BY <1>5 DEF Follows

(* Returning a sound history keeps the invariant.                          *)
LEMMA ReturnKeepsInv ==
  ASSUME HypergraphInv, NEW h \in Holder, NEW call, NEW history, SoundHistory(history),
         Return(h, call, history)
  PROVE  HypergraphInv'
<1>1. /\ held' = [held EXCEPT ![h] = history] /\ made' = made \cup {history}
      /\ answer' = Ended(call, "history")
  BY DEF Return
<1>2. answer'.outcome = "history"
  BY <1>1 DEF Ended
<1>3. OnlyTheEmptiedIsRefused'
  BY <1>2 DEF OnlyTheEmptiedIsRefused
<1>4. DOMAIN held' = Holder
  BY <1>1 DEF HypergraphInv
<1>5. ASSUME NEW g \in Holder, held'[g] # NoHistory PROVE held'[g] \in made'
  <2>1. CASE g = h
    BY <1>1, <2>1 DEF HypergraphInv
  <2>2. CASE g # h
    BY <1>1, <1>5, <2>2 DEF HypergraphInv
  <2> QED
    BY <2>1, <2>2
<1>6. \A x \in made' : SoundHistory(x)
  BY <1>1 DEF HypergraphInv
<1> QED
  BY <1>2, <1>3, <1>4, <1>5, <1>6 DEF HypergraphInv

(* A revision that follows the history it is appended to is accepted, or   *)
(* leaves no hypothesis active.                                            *)
LEMMA FollowerKeepsInv ==
  ASSUME HypergraphInv, NEW h \in Holder, held[h] # NoHistory,
         NEW call \in {"revise", "retract"}, NEW rev, Follows(held[h], rev),
         NEW moved, NEW rounding \in RoundingOf(rev, moved),
         Submit(h, call, Append(held[h], rev), rounding)
  PROVE  HypergraphInv'
<1> DEFINE more == Append(held[h], rev)
<1>1. SoundHistory(held[h])
  BY DEF HypergraphInv
<1>2. SoundHistory(more) /\ Last(more) = rev
  BY <1>1, FollowerExtends, LastOfAppend, SoundFacts
<1> HIDE DEF more
<1>3. ValidRevision(Last(more)) /\ ValidHistory(more)
  BY <1>1, <1>2, FollowerIsValid DEF SoundHistory
<1>4. CASE Refuse(call, Last(more), rounding) /\ rounding # "exact"
  <2>1. rev.active = {}
    BY <1>1, <1>4, ComparedIsEmptied
  <2> QED
    BY <1>2, <1>4, <2>1, RefuseKeepsInv
<1>5. CASE Return(h, call, more)
  BY <1>2, <1>5, ReturnKeepsInv
<1> QED
  BY <1>3, <1>4, <1>5, SubmitCases DEF more

(* branch keeps the invariant.                                             *)
LEMMA BranchKeepsInv ==
  ASSUME HypergraphInv, NEW h \in Holder,
         NEW before \in Detection, NEW after \in Detection, NEW prior \in Prior,
         NEW unresolved \in Fraction, NEW handoff \in Fraction,
         Branch(h, before, after, prior, unresolved, handoff)
  PROVE  HypergraphInv'
<1> DEFINE rev == BranchRevision(before, after, prior, unresolved, handoff)
<1>1. CASE ~ BranchFits(before, after, prior, unresolved, handoff)
  <2>1. Raise("branch", "refused")
    BY <1>1 DEF Branch
  <2> QED
    BY <2>1, RaiseKeepsInv
<1>2. CASE BranchFits(before, after, prior, unresolved, handoff)
  <2>1. Submit(h, "branch", <<rev>>, "exact")
    BY <1>2 DEF Branch
  <2>2. Last(<<rev>>) = rev
    BY DEF Last
  <2>3. CASE Refuse("branch", Last(<<rev>>), "exact")
    BY <2>3, RefuseKeepsInv
  <2>4. CASE /\ Return(h, "branch", <<rev>>)
             /\ ValidRevision(Last(<<rev>>)) /\ ValidHistory(<<rev>>)
    <3>1. SoundHistory(<<rev>>)
      BY <1>2, <2>2, <2>4, BranchIsSound
    <3> QED
      BY <2>4, <3>1, ReturnKeepsInv
  <2> HIDE DEF rev
  <2> QED
    BY <2>1, <2>3, <2>4, SubmitCases
<1> QED
  BY <1>1, <1>2

(* revise keeps the invariant.                                             *)
LEMMA ReviseKeepsInv ==
  ASSUME HypergraphInv, NEW h \in Holder, NEW e \in Evidence, NEW threshold \in Threshold,
         Revise(h, e, threshold)
  PROVE  HypergraphInv'
<1>1. CASE ~ (ValidEvidence(held[h], {}, e) /\ threshold < Scale)
  <2>1. Raise("revise", "refused")
    BY <1>1 DEF Revise
  <2> QED
    BY <2>1, RaiseKeepsInv
<1>2. CASE ValidEvidence(held[h], {}, e) /\ threshold < Scale
  <2> DEFINE rev == ReviseRevision(held[h], e, threshold).revision
             moved == ReviseRevision(held[h], e, threshold).moved
  <2>1. PICK rounding \in RoundingOf(rev, moved) :
          Submit(h, "revise", Append(held[h], rev), rounding)
    BY <1>2 DEF Revise
  <2>2. held[h] # NoHistory /\ SoundHistory(held[h]) /\ threshold \in Nat
    BY ScaleAssumption DEF Revise, HypergraphInv
  <2>3. Follows(held[h], rev)
    BY <1>2, <2>2, ReviseFollows
  <2> HIDE DEF rev, moved
  <2> QED
    BY <2>1, <2>2, <2>3, FollowerKeepsInv
<1> QED
  BY <1>1, <1>2

(* retract keeps the invariant.                                            *)
LEMMA RetractKeepsInv ==
  ASSUME HypergraphInv, NEW h \in Holder, NEW targets \in Target, NEW evidence \in Counter,
         Retract(h, targets, evidence)
  PROVE  HypergraphInv'
<1>1. CASE ~ RetractFits(held[h], targets, evidence)
  <2>1. Raise("retract", "refused")
    BY <1>1 DEF Retract
  <2> QED
    BY <2>1, RaiseKeepsInv
<1>2. CASE RetractFits(held[h], targets, evidence)
  <2> DEFINE rev == RetractRevision(held[h], targets, evidence).revision
             moved == RetractRevision(held[h], targets, evidence).moved
  <2>1. PICK rounding \in RoundingOf(rev, moved) :
          Submit(h, "retract", Append(held[h], rev), rounding)
    BY <1>2 DEF Retract
  <2>2. held[h] # NoHistory /\ SoundHistory(held[h])
    BY DEF Retract, HypergraphInv
  <2>3. Follows(held[h], rev)
    BY <1>2, <2>2, RetractFollows
  <2> HIDE DEF rev, moved
  <2> QED
    BY <2>1, <2>2, <2>3, FollowerKeepsInv
<1> QED
  BY <1>1, <1>2

(* Building a stored history again keeps the invariant.                    *)
LEMMA RebuildKeepsInv ==
  ASSUME HypergraphInv, NEW h \in Holder, NEW n \in 0..MaxRebuilt,
         NEW revisions \in [1..n -> Stored], Rebuild(h, revisions)
  PROVE  HypergraphInv'
<1>1. CASE ~ ValidHistory(revisions)
  <2>1. Raise("rebuild", "refused")
    BY <1>1 DEF Rebuild
  <2> QED
    BY <2>1, RaiseKeepsInv
<1>2. CASE ValidHistory(revisions)
  <2>1. /\ held' = [held EXCEPT ![h] = revisions] /\ made' = made
        /\ answer' = Ended("rebuild", "history")
    BY <1>2 DEF Rebuild
  <2>2. revisions \in made
    BY <1>2, RebuiltIsMade DEF HypergraphInv
  <2>3. answer'.call = "rebuild" /\ answer'.outcome = "history"
    BY <2>1 DEF Ended
  <2>4. OnlyTheEmptiedIsRefused'
    BY <2>3 DEF OnlyTheEmptiedIsRefused
  <2>5. DOMAIN held' = Holder
    BY <2>1 DEF HypergraphInv
  <2>6. ASSUME NEW g \in Holder, held'[g] # NoHistory PROVE held'[g] \in made'
    <3>1. CASE g = h
      BY <2>1, <2>2, <3>1 DEF HypergraphInv
    <3>2. CASE g # h
      BY <2>1, <2>6, <3>2 DEF HypergraphInv
    <3> QED
      BY <3>1, <3>2
  <2>7. \A x \in made' : SoundHistory(x)
    BY <2>1 DEF HypergraphInv
  <2> QED
    BY <2>3, <2>4, <2>5, <2>6, <2>7 DEF HypergraphInv
<1> QED
  BY <1>1, <1>2

(* The invariant holds in every reachable state: the histories are sound,  *)
(* and all that are held were made.                                        *)
THEOREM HistoriesAreSound == Spec => []HypergraphInv
<1>1. Init => HypergraphInv
  <2> SUFFICES ASSUME Init PROVE HypergraphInv
    OBVIOUS
  <2>1. /\ DOMAIN held = Holder /\ made = {} /\ answer.outcome = "none" /\ answer.call = "none"
        /\ \A h \in Holder : held[h] = NoHistory
    BY DEF Init, Ended
  <2> QED
    BY <2>1 DEF HypergraphInv, OnlyTheEmptiedIsRefused
<1>2. HypergraphInv /\ [Next]_vars => HypergraphInv'
  <2> SUFFICES ASSUME HypergraphInv, [Next]_vars PROVE HypergraphInv'
    OBVIOUS
  <2>1. CASE UNCHANGED vars
    <3>1. held' = held /\ made' = made /\ answer' = answer
      BY <2>1 DEF vars
    <3> QED
      BY <3>1 DEF HypergraphInv, OnlyTheEmptiedIsRefused
  <2>2. ASSUME NEW h \in Holder, NEW before \in Detection, NEW after \in Detection,
               NEW prior \in Prior, NEW unresolved \in Fraction, NEW handoff \in Fraction,
               Branch(h, before, after, prior, unresolved, handoff)
        PROVE  HypergraphInv'
    BY <2>2, BranchKeepsInv
  <2>3. ASSUME NEW h \in Holder, NEW e \in Evidence, NEW threshold \in Threshold,
               Revise(h, e, threshold)
        PROVE  HypergraphInv'
    BY <2>3, ReviseKeepsInv
  <2>4. ASSUME NEW h \in Holder, NEW targets \in Target, NEW evidence \in Counter,
               Retract(h, targets, evidence)
        PROVE  HypergraphInv'
    BY <2>4, RetractKeepsInv
  <2>5. ASSUME NEW h \in Holder, NEW n \in 0..MaxRebuilt, NEW revisions \in [1..n -> Stored],
               Rebuild(h, revisions)
        PROVE  HypergraphInv'
    BY <2>5, RebuildKeepsInv
  <2> QED
    BY <2>1, <2>2, <2>3, <2>4, <2>5, Zenon DEF Next
<1> QED
  BY <1>1, <1>2, PTL DEF Spec

(* What a holder holds is a sound history.                                 *)
LEMMA HeldIsSound ==
  ASSUME HypergraphInv
  PROVE  \A history \in made \cup (Range(held) \ {NoHistory}) : SoundHistory(history)
BY DEF HypergraphInv, Range

(* Every history is a sequence of revisions with non-negative masses over  *)
(* a positive scale, and every call ends in one of the ways it can         *)
(* (engine.py, contracts.py of the hypergraph).                            *)
THEOREM HypergraphTypeCorrect == Spec => []HistoriesTypeOK
<1>1. HypergraphInv => HistoriesTypeOK
  <2> SUFFICES ASSUME HypergraphInv PROVE HistoriesTypeOK
    OBVIOUS
  <2>1. ASSUME NEW history \in made \cup (Range(held) \ {NoHistory})
        PROVE  history # << >> /\ \A i \in DOMAIN history : Revision(history[i])
    <3>1. SoundHistory(history)
      BY HeldIsSound
    <3>2. history # << >> /\ DOMAIN history = 1..Len(history)
      BY <3>1, SoundFacts
    <3> QED
      BY <3>1, <3>2 DEF SoundHistory, TypedRevision
  <2> QED
    BY <2>1 DEF HypergraphInv, HistoriesTypeOK
<1> QED
  BY <1>1, HistoriesAreSound, PTL

(* Of what revise_actor_responsibility and retract construct, the          *)
(* contracts of revisions and histories refuse only revisions that leave   *)
(* no hypothesis active, and these only for a sum that is not 1.0.         *)
THEOREM OnlyEmptiedSetsAreRefused == Spec => []OnlyTheEmptiedIsRefused
<1>1. HypergraphInv => OnlyTheEmptiedIsRefused
  BY DEF HypergraphInv
<1> QED
  BY <1>1, HistoriesAreSound, PTL

(* A hypothesis that was given up is never active again, in any history    *)
(* that was made or rebuilt.                                               *)
THEOREM GivenUpForGood == Spec => []RetractedStays
<1>1. HypergraphInv => RetractedStays
  BY HeldIsSound, ActiveShrinks DEF RetractedStays
<1> QED
  BY <1>1, HistoriesAreSound, PTL

-----------------------------------------------------------------------------
(* In a sound history a revision consumes something, and nothing that was  *)
(* consumed before it.                                                     *)
LEMMA UsesAreFresh ==
  ASSUME NEW history, SoundHistory(history), NEW rev, Follows(history, rev)
  PROVE  /\ Uses(rev) # {}
         /\ \A i \in 1..Len(history) : Uses(history[i]) \cap Uses(rev) = {}
<1>1. Uses(rev) # {}
  <2>1. IsList(rev.records) /\ rev.records # << >>
    BY DEF Follows
  <2>2. 1 \in DOMAIN rev.records
    BY <2>1, LastFacts, ListFacts
  <2>3. <<"record", rev.records[1]>> \in Uses(rev)
    BY <2>2 DEF Uses, Range
  <2> QED
    BY <2>3
<1>2. ASSUME NEW i \in 1..Len(history) PROVE Uses(history[i]) \cap Uses(rev) = {}
  <2> DEFINE n == Len(history)
             R == [j \in DOMAIN history |-> history[j].records]
             C == [j \in DOMAIN history |-> history[j].clusters]
             M == [j \in DOMAIN history |-> history[j].meanings]
  <2>1. n \in Nat /\ DOMAIN history = 1..n
    BY SoundFacts
  <2>2. /\ DOMAIN R = 1..n /\ R = [j \in 1..n |-> R[j]]
        /\ DOMAIN C = 1..n /\ C = [j \in 1..n |-> C[j]]
        /\ DOMAIN M = 1..n /\ M = [j \in 1..n |-> M[j]]
        /\ \A j \in 1..n : /\ R[j] = history[j].records /\ C[j] = history[j].clusters
                            /\ M[j] = history[j].meanings
    BY <2>1
  <2>3. /\ RecordsOf(history) = FlattenSeq(R) /\ ClustersOf(history) = FlattenSeq(C)
        /\ MeaningsOf(history) = FlattenSeq(M)
    BY DEF RecordsOf, ClustersOf, MeaningsOf
  <2>4. \A j \in 1..n : /\ IsList(history[j].records) /\ IsList(history[j].clusters)
                        /\ IsList(history[j].meanings)
    BY DEF SoundHistory, TypedRevision
  <2> HIDE DEF n, R, C, M
  <2>5. /\ IsList(R) /\ Len(R) = n /\ IsList(C) /\ Len(C) = n /\ IsList(M) /\ Len(M) = n
    BY <2>1, <2>2, FunctionIsList
  <2>6. IsListOfLists(R) /\ IsListOfLists(C) /\ IsListOfLists(M)
    BY <2>2, <2>4, <2>5 DEF IsListOfLists
  <2>7. i \in 1..n
    BY DEF n
  <2>8. /\ Range(history[i].records) \subseteq Range(RecordsOf(history))
        /\ Range(history[i].clusters) \subseteq Range(ClustersOf(history))
        /\ Range(history[i].meanings) \subseteq Range(MeaningsOf(history))
    <3>1. Range(R[i]) \subseteq Range(FlattenSeq(R))
      BY <2>5, <2>6, <2>7, FlattenRange
    <3>2. Range(C[i]) \subseteq Range(FlattenSeq(C))
      BY <2>5, <2>6, <2>7, FlattenRange
    <3>3. Range(M[i]) \subseteq Range(FlattenSeq(M))
      BY <2>5, <2>6, <2>7, FlattenRange
    <3> QED
      BY <2>2, <2>3, <2>7, <3>1, <3>2, <3>3
  <2>9. /\ Range(rev.records) \cap Range(RecordsOf(history)) = {}
        /\ Range(rev.clusters) \cap Range(ClustersOf(history)) = {}
        /\ Range(rev.meanings) \cap Range(MeaningsOf(history)) = {}
    BY DEF Follows
  <2>10. /\ Range(rev.records) \cap Range(history[i].records) = {}
         /\ Range(rev.clusters) \cap Range(history[i].clusters) = {}
         /\ Range(rev.meanings) \cap Range(history[i].meanings) = {}
    BY <2>8, <2>9
  <2>11. "record" # "cluster" /\ "record" # "meaning" /\ "cluster" # "meaning"
    OBVIOUS
  <2> QED
    BY <2>10, <2>11 DEF Uses
<1> QED
  BY <1>1, <1>2

(* Submitting a revision that follows the history held extends that        *)
(* history in the tree, or changes nothing.                                *)
LEMMA FollowerIsExtension ==
  ASSUME HypergraphInv, NEW h \in Holder, held[h] # NoHistory,
         NEW call \in {"revise", "retract"}, NEW rev, Follows(held[h], rev),
         NEW rounding, Submit(h, call, Append(held[h], rev), rounding)
  PROVE  Tree!Extend(h) \/ UNCHANGED <<made, held>>
<1> DEFINE old == held[h]
           more == Append(held[h], rev)
<1>1. SoundHistory(old)
  BY DEF HypergraphInv
<1>2. CASE Refuse(call, Last(more), rounding)
  BY <1>2 DEF Refuse
<1>3. CASE Return(h, call, more)
  <2>1. made' = made \cup {more} /\ held' = [held EXCEPT ![h] = more]
    BY <1>3 DEF Return
  <2>2. IsList(old) /\ Len(old) \in Nat
    BY <1>1, SoundFacts
  <2>3. /\ Len(more) = Len(old) + 1 /\ \A i \in 1..Len(old) : more[i] = old[i]
        /\ more[Len(more)] = rev
    BY <2>2, AppendFacts
  <2>4. Uses(rev) # {} /\ \A i \in 1..Len(old) : Uses(old[i]) \cap Uses(rev) = {}
    BY <1>1, UsesAreFresh
  <2> HIDE DEF old, more
  <2>5. /\ Uses(more[Len(more)]) # {}
        /\ \A i \in 1..Len(old) : Uses(more[i]) \cap Uses(more[Len(more)]) = {}
    BY <2>3, <2>4
  <2>6. more \in made' /\ Tree!Grow(h, more)
    BY <2>1 DEF Tree!Grow
  <2> QED
    BY <2>3, <2>5, <2>6 DEF Tree!Extend, old
<1> HIDE DEF more
<1> QED
  BY <1>2, <1>3, SubmitCases DEF more

(* The histories form a tree that only grows: branch plants a history,     *)
(* revise and retract extend the one that is held by evidence it has not   *)
(* used, and rebuild fetches one that was made.                            *)
THEOREM HistoriesFormATree == Spec => ImplementsTree
<1>1. Init => Tree!Init
  BY DEF Init, Tree!Init
<1>2. HypergraphInv /\ [Next]_vars => [Tree!Next]_(Tree!treeVars)
  <2> SUFFICES ASSUME HypergraphInv, [Next]_vars
      PROVE  Tree!Next \/ UNCHANGED <<made, held>>
    BY DEF Tree!treeVars
  <2>1. CASE UNCHANGED vars
    BY <2>1 DEF vars
  <2>2. ASSUME NEW h \in Holder, NEW before \in Detection, NEW after \in Detection,
               NEW prior \in Prior, NEW unresolved \in Fraction, NEW handoff \in Fraction,
               Branch(h, before, after, prior, unresolved, handoff)
        PROVE  Tree!Plant(h) \/ UNCHANGED <<made, held>>
    <3> DEFINE rev == BranchRevision(before, after, prior, unresolved, handoff)
    <3>1. \/ Raise("branch", "refused") \/ Refuse("branch", Last(<<rev>>), "exact")
          \/ Return(h, "branch", <<rev>>)
      <4>1. Raise("branch", "refused") \/ Submit(h, "branch", <<rev>>, "exact")
        BY <2>2 DEF Branch
      <4> HIDE DEF rev
      <4> QED
        BY <4>1, SubmitCases
    <3>2. CASE Return(h, "branch", <<rev>>)
      <4> HIDE DEF rev
      <4>1. /\ <<rev>> \in made' /\ made' = made \cup {<<rev>>}
            /\ held' = [held EXCEPT ![h] = <<rev>>] /\ Len(<<rev>>) = 1
        BY <3>2 DEF Return
      <4> QED
        BY <4>1 DEF Tree!Plant, Tree!Grow
    <3> HIDE DEF rev
    <3> QED
      BY <3>1, <3>2 DEF Raise, Refuse
  <2>3. ASSUME NEW h \in Holder, NEW e \in Evidence, NEW threshold \in Threshold,
               Revise(h, e, threshold)
        PROVE  Tree!Extend(h) \/ UNCHANGED <<made, held>>
    <3>1. CASE ~ (ValidEvidence(held[h], {}, e) /\ threshold < Scale)
      BY <2>3, <3>1 DEF Revise, Raise
    <3>2. CASE ValidEvidence(held[h], {}, e) /\ threshold < Scale
      <4> DEFINE rev == ReviseRevision(held[h], e, threshold).revision
      <4>1. PICK rounding : Submit(h, "revise", Append(held[h], rev), rounding)
        BY <2>3, <3>2 DEF Revise
      <4>2. held[h] # NoHistory /\ SoundHistory(held[h]) /\ threshold \in Nat
        BY <2>3, ScaleAssumption DEF Revise, HypergraphInv
      <4>3. Follows(held[h], rev)
        BY <3>2, <4>2, ReviseFollows
      <4> HIDE DEF rev
      <4> QED
        BY <4>1, <4>2, <4>3, FollowerIsExtension
    <3> QED
      BY <3>1, <3>2
  <2>4. ASSUME NEW h \in Holder, NEW targets \in Target, NEW evidence \in Counter,
               Retract(h, targets, evidence)
        PROVE  Tree!Extend(h) \/ UNCHANGED <<made, held>>
    <3>1. CASE ~ RetractFits(held[h], targets, evidence)
      BY <2>4, <3>1 DEF Retract, Raise
    <3>2. CASE RetractFits(held[h], targets, evidence)
      <4> DEFINE rev == RetractRevision(held[h], targets, evidence).revision
      <4>1. PICK rounding : Submit(h, "retract", Append(held[h], rev), rounding)
        BY <2>4, <3>2 DEF Retract
      <4>2. held[h] # NoHistory /\ SoundHistory(held[h])
        BY <2>4 DEF Retract, HypergraphInv
      <4>3. Follows(held[h], rev)
        BY <3>2, <4>2, RetractFollows
      <4> HIDE DEF rev
      <4> QED
        BY <4>1, <4>2, <4>3, FollowerIsExtension
    <3> QED
      BY <3>1, <3>2
  <2>5. ASSUME NEW h \in Holder, NEW n \in 0..MaxRebuilt, NEW revisions \in [1..n -> Stored],
               Rebuild(h, revisions)
        PROVE  Tree!Fetch(h) \/ UNCHANGED <<made, held>>
    <3>1. CASE ~ ValidHistory(revisions)
      BY <2>5, <3>1 DEF Rebuild, Raise
    <3>2. CASE ValidHistory(revisions)
      <4>1. revisions \in made
        BY <3>2, RebuiltIsMade DEF HypergraphInv
      <4> QED
        BY <2>5, <3>2, <4>1 DEF Rebuild, Tree!Fetch
    <3> QED
      BY <3>1, <3>2
  <2>6. \A h \in Holder : Tree!Plant(h) \/ Tree!Extend(h) \/ Tree!Fetch(h) => Tree!Next
    BY DEF Tree!Next
  <2> QED
    BY <2>1, <2>2, <2>3, <2>4, <2>5, <2>6, Zenon DEF Next
<1> QED
  BY <1>1, <1>2, HistoriesAreSound, PTL DEF Spec, ImplementsTree, Tree!TreeSpec

-----------------------------------------------------------------------------
(* The evidence a revision was made by is known by its first record.       *)
EvidenceKnown(history) ==
  \A i \in 1..Len(history) :
    history[i].kind = "revise" => \E e \in Evidence : e.id = history[i].records[1]

RatioOf(rev, actor) == IF rev.kind = "revise" THEN Ratio(Used(rev), actor) ELSE 1

Expected(history, chain) == history[1].mass[chain] * RatiosUsed(history, Responsible(chain))

(* What OddsAreBayes says of one history.                                  *)
BayesOdds(history) ==
  \A c \in Last(history).active :
    /\ \A d \in Last(history).active :
         Last(history).mass[c] * Expected(history, d) = Last(history).mass[d] * Expected(history, c)
    /\ NothingMoved(history) =>
         Last(history).unresolved * Expected(history, c)
           = Last(history).mass[c] * history[1].unresolved * RatiosUsed(history, Unknown)

BayesInv == \A history \in made : EvidenceKnown(history) /\ BayesOdds(history)

(* The evidence that a revision names by its record is that evidence.      *)
LEMMA UsedIsIt ==
  ASSUME NEW rev, NEW e \in Evidence, rev.records[1] = e.id
  PROVE  Used(rev) = e
BY EvidenceAssumption DEF Used

(* The ratios used by a longer history are those of the shorter one times  *)
(* the ratio of its last revision.                                         *)
LEMMA RatiosOfAppend ==
  ASSUME NEW history, SoundHistory(history), EvidenceKnown(history),
         NEW rev, NEW actor, RatioOf(rev, actor) \in Nat
  PROVE  /\ RatiosUsed(history, actor) \in Nat
         /\ RatiosUsed(Append(history, rev), actor)
              = RatioOf(rev, actor) * RatiosUsed(history, actor)
<1> DEFINE n == Len(history)
           more == Append(history, rev)
           g == [i \in DOMAIN history |->
                   IF history[i].kind = "revise" THEN Ratio(Used(history[i]), actor) ELSE 1]
           f == [i \in DOMAIN more |->
                   IF more[i].kind = "revise" THEN Ratio(Used(more[i]), actor) ELSE 1]
<1>1. IsList(history) /\ n \in Nat /\ DOMAIN history = 1..n
  BY SoundFacts
<1>2. /\ DOMAIN more = 1..(n + 1) /\ more[n + 1] = rev
      /\ \A i \in 1..n : more[i] = history[i]
  BY <1>1, AppendFacts
<1>3. /\ RatiosUsed(history, actor) = FoldFunction(LAMBDA a, b : a * b, 1, g)
      /\ RatiosUsed(more, actor) = FoldFunction(LAMBDA a, b : a * b, 1, f)
  BY DEF RatiosUsed
<1> HIDE DEF n, more
<1>4. \A i \in 1..n : g[i] \in Nat
  <2> SUFFICES ASSUME NEW i \in 1..n PROVE g[i] \in Nat
    OBVIOUS
  <2>1. CASE history[i].kind = "revise"
    <3>1. PICK e \in Evidence : e.id = history[i].records[1]
      BY <2>1 DEF EvidenceKnown, n
    <3>2. Used(history[i]) = e
      BY <3>1, UsedIsIt
    <3>3. Ratio(e, actor) \in Nat
      BY RatioInNat
    <3> QED
      BY <1>1, <2>1, <3>2, <3>3
  <2>2. CASE history[i].kind # "revise"
    BY <1>1, <2>2
  <2> QED
    BY <2>1, <2>2
<1>5. DOMAIN g = 1..n /\ DOMAIN f = 1..(n + 1) /\ \A i \in 1..n : f[i] = g[i]
  BY <1>1, <1>2
<1>6. f[n + 1] = RatioOf(rev, actor)
  BY <1>1, <1>2 DEF RatioOf
<1> HIDE DEF f, g
<1>7. \A i \in 1..(n + 1) : f[i] \in Nat
  <2> SUFFICES ASSUME NEW i \in 1..(n + 1) PROVE f[i] \in Nat
    OBVIOUS
  <2>1. i \in 1..n \/ i = n + 1
    BY <1>1
  <2> QED
    BY <1>4, <1>5, <1>6, <2>1
<1>8. \A i \in 1..n : g[i] = f[i]
  BY <1>5
<1>9. /\ FoldFunction(LAMBDA a, b : a * b, 1, g) \in Nat
      /\ FoldFunction(LAMBDA a, b : a * b, 1, f)
           = f[n + 1] * FoldFunction(LAMBDA a, b : a * b, 1, g)
  BY <1>1, <1>5, <1>7, <1>8, ProductAppend
<1> QED
  BY <1>3, <1>6, <1>9 DEF more

(* Equal ratios, written as products, stay equal when one side's terms are *)
(* scaled by r and the other's by s.                                       *)
LEMMA CrossMultiply ==
  ASSUME NEW x \in Nat, NEW y \in Nat, NEW p \in Nat, NEW q \in Nat, NEW r \in Nat, NEW s \in Nat,
         x * q = y * p
  PROVE  (x * r) * (q * s) = (y * s) * (p * r)
<1>1. (x * r) * (q * s) = (x * q) * (r * s)
  OBVIOUS
<1>2. (y * s) * (p * r) = (y * p) * (r * s)
  OBVIOUS
<1> QED
  BY <1>1, <1>2

(* The same for a ratio that has one factor more.                          *)
LEMMA CrossMultiplyRest ==
  ASSUME NEW u \in Nat, NEW v \in Nat, NEW x \in Nat, NEW p \in Nat, NEW k \in Nat,
         NEW r \in Nat, NEW s \in Nat,
         u * p = x * v * k
  PROVE  (u * s) * (p * r) = (x * r) * v * (s * k)
<1>1. (u * s) * (p * r) = (u * p) * (r * s)
  OBVIOUS
<1>2. (x * r) * v * (s * k) = (x * v * k) * (r * s)
  OBVIOUS
<1> QED
  BY <1>1, <1>2

(* A revision appended leaves the first revision, and what is said of all  *)
(* revisions is said of the old ones and of the new one.                   *)
LEMMA FirstOfAppend ==
  ASSUME NEW history, SoundHistory(history), NEW rev
  PROVE  /\ Append(history, rev)[1] = history[1]
         /\ Last(Append(history, rev)) = rev
         /\ NothingMoved(Append(history, rev)) =>
              /\ NothingMoved(history) /\ rev.kind = "revise"
              /\ \A chain \in Last(history).active \ rev.active :
                   Ratio(Used(rev), Responsible(chain)) = 0
         /\ EvidenceKnown(history) =>
              (EvidenceKnown(Append(history, rev)) <=>
                 (rev.kind = "revise" => \E e \in Evidence : e.id = rev.records[1]))
<1> DEFINE n == Len(history)
           more == Append(history, rev)
<1>1. /\ IsList(history) /\ n \in Nat /\ n >= 1 /\ DOMAIN history = 1..n
      /\ Last(history) = history[n]
  BY SoundFacts
<1>2. /\ Len(more) = n + 1 /\ more[n + 1] = rev /\ Last(more) = rev
      /\ \A i \in 1..n : more[i] = history[i]
  BY <1>1, AppendFacts, LastOfAppend
<1> HIDE DEF n, more
<1>3. more[1] = history[1]
  BY <1>1, <1>2
<1>4. ASSUME NothingMoved(more)
      PROVE  /\ NothingMoved(history) /\ rev.kind = "revise"
             /\ \A chain \in Last(history).active \ rev.active :
                  Ratio(Used(rev), Responsible(chain)) = 0
  <2>1. \A i \in 2..(n + 1) :
          /\ more[i].kind = "revise"
          /\ \A chain \in more[i - 1].active \ more[i].active :
               Ratio(Used(more[i]), Responsible(chain)) = 0
    BY <1>2, <1>4 DEF NothingMoved
  <2>2. ASSUME NEW i \in 2..n
        PROVE  /\ history[i].kind = "revise"
               /\ \A chain \in history[i - 1].active \ history[i].active :
                    Ratio(Used(history[i]), Responsible(chain)) = 0
    <3>1. i \in 2..(n + 1) /\ i \in 1..n /\ i - 1 \in 1..n
      BY <1>1
    <3>2. more[i] = history[i] /\ more[i - 1] = history[i - 1]
      BY <1>2, <3>1
    <3> QED
      BY <2>1, <3>1, <3>2
  <2>3. n + 1 \in 2..(n + 1) /\ (n + 1) - 1 = n /\ n \in 1..n
    BY <1>1
  <2>4. /\ rev.kind = "revise"
        /\ \A chain \in more[n].active \ rev.active : Ratio(Used(rev), Responsible(chain)) = 0
    BY <1>2, <2>1, <2>3
  <2> QED
    BY <1>1, <1>2, <2>2, <2>3, <2>4 DEF NothingMoved, n
<1>5. ASSUME EvidenceKnown(history)
      PROVE  EvidenceKnown(more) <=>
               (rev.kind = "revise" => \E e \in Evidence : e.id = rev.records[1])
  <2>1. \A i \in 1..(n + 1) : i \in 1..n \/ i = n + 1
    BY <1>1
  <2>2. n + 1 \in 1..(n + 1)
    BY <1>1
  <2> QED
    BY <1>2, <1>5, <2>1, <2>2 DEF EvidenceKnown, n
<1> QED
  BY <1>2, <1>3, <1>4, <1>5 DEF more

(* The first revision of a sound history is typed.                         *)
LEMMA FirstIsTyped ==
  ASSUME NEW history, SoundHistory(history)
  PROVE  /\ TypedRevision(history[1])
         /\ DOMAIN Last(history).mass = DOMAIN history[1].mass
<1> DEFINE n == Len(history)
           N == {k \in Nat : k + 1 <= n => DOMAIN history[k + 1].mass = DOMAIN history[1].mass}
<1>1. n \in Nat /\ n >= 1 /\ Last(history) = history[n]
  BY SoundFacts
<1>2. 0 \in N
  OBVIOUS
<1>3. ASSUME NEW k \in Nat, k \in N PROVE k + 1 \in N
  <2> SUFFICES ASSUME (k + 1) + 1 <= n
      PROVE DOMAIN history[(k + 1) + 1].mass = DOMAIN history[1].mass
    OBVIOUS
  <2>1. k + 1 \in 1..(n - 1) /\ k + 1 <= n
    BY <1>1
  <2>2. SameSet(history[k + 1], history[(k + 1) + 1])
    BY <2>1 DEF SoundHistory, ValidHistory
  <2> QED
    BY <1>3, <2>1, <2>2 DEF SameSet
<1>4. Nat \subseteq N
  <2> HIDE DEF N
  <2> QED
    BY <1>2, <1>3, NatSetInduction
<1>5. n - 1 \in N
  <2>1. n - 1 \in Nat
    BY <1>1
  <2> HIDE DEF N
  <2> QED
    BY <1>4, <2>1
<1>6. (n - 1) + 1 = n /\ 1 \in 1..n
  BY <1>1
<1> QED
  BY <1>1, <1>5, <1>6 DEF SoundHistory

(* One revision more multiplies both sides of the odds by the same.        *)
LEMMA OddsOfAppend ==
  ASSUME NEW history, SoundHistory(history), EvidenceKnown(history), BayesOdds(history),
         NEW rev, rev.active \subseteq Last(history).active,
         \A actor : RatioOf(rev, actor) \in Nat,
         \A c \in rev.active :
           rev.mass[c] = Last(history).mass[c] * RatioOf(rev, Responsible(c)),
         rev.active # {} /\ NothingMoved(Append(history, rev)) =>
           rev.unresolved = Last(history).unresolved * RatioOf(rev, Unknown)
  PROVE  BayesOdds(Append(history, rev))
<1> DEFINE more == Append(history, rev)
           current == Last(history)
           first == history[1]
<1>1. more[1] = first /\ Last(more) = rev /\ (NothingMoved(more) => NothingMoved(history))
  BY FirstOfAppend
<1>2. \A actor : /\ RatiosUsed(history, actor) \in Nat
                 /\ RatiosUsed(more, actor) = RatioOf(rev, actor) * RatiosUsed(history, actor)
  BY RatiosOfAppend
<1>3. /\ \A c \in current.active :
           c \in DOMAIN current.mass /\ current.mass[c] \in Nat /\ first.mass[c] \in Nat
      /\ current.unresolved \in Nat /\ first.unresolved \in Nat
  <2>1. TypedRevision(current) /\ TypedRevision(first) /\ DOMAIN current.mass = DOMAIN first.mass
    BY SoundFacts, FirstIsTyped
  <2> HIDE DEF current, first
  <2> QED
    BY <2>1 DEF TypedRevision, Revision
<1> HIDE DEF more, first
<1>4. ASSUME NEW c \in rev.active
      PROVE  /\ c \in current.active
             /\ Expected(history, c) \in Nat
             /\ Expected(history, c) = first.mass[c] * RatiosUsed(history, Responsible(c))
             /\ Expected(more, c) = Expected(history, c) * RatioOf(rev, Responsible(c))
             /\ rev.mass[c] = current.mass[c] * RatioOf(rev, Responsible(c))
  <2> DEFINE m == first.mass[c]
             r == RatioOf(rev, Responsible(c))
             k == RatiosUsed(history, Responsible(c))
  <2>1. c \in current.active /\ m \in Nat /\ r \in Nat /\ k \in Nat
    BY <1>2, <1>3, <1>4
  <2>2. Expected(history, c) = m * k /\ Expected(more, c) = m * (r * k)
    BY <1>1, <1>2 DEF Expected, first
  <2>3. rev.mass[c] = current.mass[c] * r
    OBVIOUS
  <2> HIDE DEF m, r, k
  <2>4. m * k \in Nat /\ m * (r * k) = (m * k) * r
    BY <2>1
  <2> QED
    BY <2>1, <2>2, <2>3, <2>4 DEF m, r, k
<1>5. ASSUME NEW c \in rev.active, NEW d \in rev.active
      PROVE  rev.mass[c] * Expected(more, d) = rev.mass[d] * Expected(more, c)
  <2> DEFINE x == current.mass[c]
             y == current.mass[d]
             p == Expected(history, c)
             q == Expected(history, d)
             r == RatioOf(rev, Responsible(c))
             s == RatioOf(rev, Responsible(d))
  <2>1. x * q = y * p
    BY <1>4 DEF BayesOdds
  <2>2. x \in Nat /\ y \in Nat /\ p \in Nat /\ q \in Nat /\ r \in Nat /\ s \in Nat
    BY <1>3, <1>4
  <2>3. /\ rev.mass[c] = x * r /\ rev.mass[d] = y * s
        /\ Expected(more, c) = p * r /\ Expected(more, d) = q * s
    BY <1>4
  <2> HIDE DEF x, y, p, q, r, s
  <2>4. (x * r) * (q * s) = (y * s) * (p * r)
    BY <2>1, <2>2, CrossMultiply
  <2> QED
    BY <2>3, <2>4
<1>6. ASSUME NEW c \in rev.active, NothingMoved(more)
      PROVE  rev.unresolved * Expected(more, c)
               = rev.mass[c] * more[1].unresolved * RatiosUsed(more, Unknown)
  <2> DEFINE u == current.unresolved
             v == first.unresolved
             x == current.mass[c]
             p == Expected(history, c)
             k == RatiosUsed(history, Unknown)
             r == RatioOf(rev, Responsible(c))
             s == RatioOf(rev, Unknown)
  <2>1. u * p = x * v * k
    BY <1>1, <1>4, <1>6 DEF BayesOdds, first
  <2>2. u \in Nat /\ v \in Nat /\ x \in Nat /\ p \in Nat /\ k \in Nat /\ r \in Nat /\ s \in Nat
    BY <1>2, <1>3, <1>4
  <2>3. /\ rev.unresolved = u * s /\ Expected(more, c) = p * r /\ rev.mass[c] = x * r
        /\ more[1].unresolved = v /\ RatiosUsed(more, Unknown) = s * k
    BY <1>1, <1>2, <1>4, <1>6 DEF more
  <2> HIDE DEF u, v, x, p, k, r, s
  <2>4. (u * s) * (p * r) = (x * r) * v * (s * k)
    BY <2>1, <2>2, CrossMultiplyRest
  <2> QED
    BY <2>3, <2>4
<1>7. BayesOdds(more)
  BY <1>1, <1>5, <1>6 DEF BayesOdds
<1> QED
  BY <1>7 DEF more

-----------------------------------------------------------------------------
(* A branch has used no evidence yet.                                      *)
LEMMA BranchBayes ==
  ASSUME NEW rev, rev.kind = "branch", SoundHistory(<<rev>>)
  PROVE  EvidenceKnown(<<rev>>) /\ BayesOdds(<<rev>>)
<1> DEFINE history == <<rev>>
<1>1. Len(history) = 1 /\ DOMAIN history = 1..1 /\ history[1] = rev /\ Last(history) = rev
  BY DEF Last
<1>2. TypedRevision(rev)
  BY <1>1, SoundFacts
<1> HIDE DEF history
<1>3. EvidenceKnown(history)
  <2>1. \A i \in 1..1 : history[i].kind # "revise"
    BY <1>1
  <2> QED
    BY <1>1, <2>1 DEF EvidenceKnown
<1>4. ASSUME NEW actor PROVE RatiosUsed(history, actor) = 1
  <2> DEFINE f == [i \in DOMAIN history |->
                     IF history[i].kind = "revise" THEN Ratio(Used(history[i]), actor) ELSE 1]
  <2>1. DOMAIN f = 1..1 /\ f[1] = 1
    BY <1>1
  <2>2. RatiosUsed(history, actor) = FoldFunction(LAMBDA a, b : a * b, 1, f)
    BY DEF RatiosUsed
  <2> HIDE DEF f
  <2> QED
    BY <2>1, <2>2, ProductOfOne
<1>5. ASSUME NEW c \in rev.active
      PROVE rev.mass[c] \in Nat /\ Expected(history, c) = rev.mass[c]
  <2>1. rev.mass[c] \in Nat
    BY <1>2 DEF TypedRevision, Revision
  <2>2. Expected(history, c) = rev.mass[c] * 1
    BY <1>1, <1>4 DEF Expected
  <2> QED
    BY <2>1, <2>2
<1>6. ASSUME NEW c \in rev.active, NEW d \in rev.active
      PROVE  rev.mass[c] * Expected(history, d) = rev.mass[d] * Expected(history, c)
  <2>1. rev.mass[c] * rev.mass[d] = rev.mass[d] * rev.mass[c]
    BY <1>5, TimesZero
  <2> QED
    BY <1>5, <2>1
<1>7. ASSUME NEW c \in rev.active
      PROVE  rev.unresolved * Expected(history, c)
               = rev.mass[c] * history[1].unresolved * RatiosUsed(history, Unknown)
  <2> DEFINE u == rev.unresolved
             x == rev.mass[c]
  <2>1. u \in Nat /\ x \in Nat
    BY <1>2, <1>5 DEF TypedRevision, Revision
  <2>2. Expected(history, c) = x /\ history[1].unresolved = u /\ RatiosUsed(history, Unknown) = 1
    BY <1>1, <1>4, <1>5
  <2> HIDE DEF u, x
  <2>3. u * x = x * u * 1
    BY <2>1
  <2> QED
    BY <2>2, <2>3 DEF u, x
<1>8. BayesOdds(history)
  BY <1>1, <1>6, <1>7 DEF BayesOdds
<1> QED
  BY <1>3, <1>8 DEF history

(* A revision says of itself what it was made of.                          *)
MadeOf(rev, kind, evidence, mass, unresolved) ==
  /\ rev.kind = kind /\ rev.mass = mass /\ rev.unresolved = unresolved
  /\ rev.active = {chain \in DOMAIN mass : mass[chain] > 0}
  /\ rev.records = [i \in DOMAIN evidence |-> evidence[i].id]

(* The fields of a successor that the posterior odds depend on.            *)
LEMMA SuccessorSays ==
  ASSUME NEW history, NEW kind, NEW evidence, NEW mass, NEW unresolved, NEW scale
  PROVE  MadeOf(Successor(history, kind, evidence, mass, unresolved, scale),
                kind, evidence, mass, unresolved)
BY DEF Successor, MadeOf

(* What is left of a revision: an active hypothesis has its weight, and    *)
(* unless mass was moved the unresolved rest has its own.                  *)
LEMMA ReviseBayes ==
  ASSUME NEW history, SoundHistory(history), EvidenceKnown(history), BayesOdds(history),
         NEW e \in Evidence, NEW threshold \in Nat, ValidEvidence(history, {}, e)
  PROVE  LET more == Append(history, ReviseRevision(history, e, threshold).revision)
         IN  EvidenceKnown(more) /\ BayesOdds(more)
<1> DEFINE current == Last(history)
           weight  == Reweighted(current, e)
           rest    == ReweightedUnresolved(current, e)
           total   == rest + SumFunction(weight)
           dropped == BelowThreshold(weight, total, threshold)
           moved   == SumFunctionOnSet(weight, dropped)
           mass    == [chain \in DOMAIN weight |-> IF chain \in dropped THEN 0 ELSE weight[chain]]
           unresolved == OrAllUnresolved(total, rest + moved)
           rev     == ReviseRevision(history, e, threshold).revision
           more    == Append(history, rev)
<1>1. /\ rev.kind = "revise" /\ rev.records[1] = e.id /\ rev.mass = mass
      /\ rev.active = {chain \in DOMAIN mass : mass[chain] > 0}
      /\ rev.unresolved = unresolved
  <2>1. DOMAIN <<e>> = 1..1 /\ <<e>>[1] = e
    OBVIOUS
  <2>2. rev = Successor(history, "revise", <<e>>, mass, unresolved, OrAllUnresolved(total, total))
    BY DEF ReviseRevision
  <2> HIDE DEF rev, mass, unresolved, total
  <2>3. MadeOf(rev, "revise", <<e>>, mass, unresolved)
    BY <2>2, SuccessorSays
  <2>4. rev.records[1] = e.id
    BY <2>1, <2>3 DEF MadeOf
  <2> QED
    BY <2>3, <2>4 DEF MadeOf
<1>2. /\ DOMAIN mass = DOMAIN weight
      /\ \A chain \in DOMAIN weight : mass[chain] = IF chain \in dropped THEN 0 ELSE weight[chain]
  OBVIOUS
<1>3. /\ DOMAIN weight = DOMAIN current.mass
      /\ \A chain \in DOMAIN weight :
           weight[chain] = current.mass[chain] * Ratio(e, Responsible(chain))
      /\ IsFiniteSet(DOMAIN weight) /\ dropped \in SUBSET DOMAIN weight
      /\ \A chain \in DOMAIN weight : weight[chain] \in Nat /\ current.mass[chain] \in Nat
      /\ rest \in Nat /\ total \in Nat
  <2> HIDE DEF current, weight, rest, total, dropped, moved, mass
  <2>1. /\ current = Last(history) /\ weight = Reweighted(current, e)
        /\ rest = ReweightedUnresolved(current, e) /\ total = rest + SumFunction(weight)
        /\ dropped = BelowThreshold(weight, total, threshold)
        /\ moved = SumFunctionOnSet(weight, dropped)
        /\ mass = [chain \in DOMAIN weight |-> IF chain \in dropped THEN 0 ELSE weight[chain]]
    BY DEF current, weight, rest, total, dropped, moved, mass
  <2> QED
    BY <2>1, ReviseFacts
<1>4. Follows(history, rev)
  BY ReviseFollows
<1>5. rest = current.unresolved * Ratio(e, Unknown)
  BY DEF ReweightedUnresolved
<1>6. ValidRevision(current) /\ TypedRevision(current)
  BY SoundFacts
<1>7. total = rest + SumFunctionOnSet(weight, DOMAIN weight)
  BY DEF SumFunction
<1>8. moved = SumFunctionOnSet(weight, dropped) /\ unresolved = OrAllUnresolved(total, rest + moved)
  OBVIOUS
<1> HIDE DEF current, weight, rest, total, dropped, moved, mass, unresolved, rev
<1>9. Used(rev) = e /\ \A actor : RatioOf(rev, actor) = Ratio(e, actor)
  BY <1>1, UsedIsIt DEF RatioOf
<1>10. \A actor : RatioOf(rev, actor) \in Nat
  BY <1>9, RatioInNat
<1>11. ASSUME NEW c \in rev.active
       PROVE  /\ c \in DOMAIN weight /\ weight[c] > 0
              /\ rev.mass[c] = current.mass[c] * RatioOf(rev, Responsible(c))
  <2>1. c \in DOMAIN weight /\ mass[c] > 0
    BY <1>1, <1>2
  <2>2. mass[c] = weight[c]
    BY <1>2, <2>1
  <2> QED
    BY <1>1, <1>3, <1>9, <2>1, <2>2
<1>12. ASSUME rev.active # {}, NothingMoved(more)
       PROVE  rev.unresolved = current.unresolved * RatioOf(rev, Unknown)
  <2>1. PICK c \in rev.active : TRUE
    BY <1>12
  <2>2. total # 0
    <3> DEFINE sum == SumFunctionOnSet(weight, DOMAIN weight)
    <3>1. c \in DOMAIN weight /\ weight[c] > 0
      BY <1>11
    <3>2. weight[c] <= sum
      BY <1>3, <3>1, SumBound
    <3>3. sum \in Nat
      <4>1. SumLaws(weight, DOMAIN weight)
        BY <1>3, SumStep
      <4> QED
        BY <4>1 DEF SumLaws
    <3> HIDE DEF sum
    <3>4. total = rest + sum
      BY <1>7 DEF sum
    <3> QED
      BY <1>3, <3>1, <3>2, <3>3, <3>4
  <2>3. \A chain \in current.active \ rev.active : Ratio(e, Responsible(chain)) = 0
    <3> HIDE DEF more
    <3> QED
      BY <1>9, <1>12, FirstOfAppend DEF more, current
  <2>4. ASSUME NEW chain \in dropped PROVE weight[chain] = 0
    <3>1. chain \in DOMAIN weight /\ chain \in DOMAIN mass /\ mass[chain] = 0
      BY <1>2, <1>3
    <3>2. chain \notin rev.active
      BY <1>1, <3>1
    <3>3. CASE chain \in current.active
      <4>1. Ratio(e, Responsible(chain)) = 0
        BY <2>3, <3>2, <3>3
      <4> QED
        BY <1>3, <3>1, <4>1, TimesZero
    <3>4. CASE chain \notin current.active
      <4>1. ~ current.mass[chain] > 0
        BY <1>3, <1>6, <3>1, <3>4 DEF ValidRevision, StatusFollowsMass
      <4>2. current.mass[chain] = 0
        BY <1>3, <3>1, <4>1
      <4>3. Ratio(e, Responsible(chain)) \in Nat
        BY RatioInNat
      <4> QED
        BY <1>3, <3>1, <4>2, <4>3, TimesZero
    <3> QED
      BY <3>3, <3>4
  <2>5. moved = 0
    <3>1. IsFiniteSet(dropped)
      BY <1>3, FS_Subset
    <3> QED
      BY <1>8, <2>4, <3>1, SumOfZeros
  <2>6. unresolved = rest
    BY <1>3, <1>8, <2>2, <2>5 DEF OrAllUnresolved
  <2> QED
    BY <1>1, <1>5, <1>9, <2>6
<1>13. rev.active \subseteq current.active
  BY <1>4 DEF Follows, current
<1>14. EvidenceKnown(more)
  <2>1. \E f \in Evidence : f.id = rev.records[1]
    BY <1>1
  <2> QED
    BY <2>1, FirstOfAppend DEF more
<1>15. BayesOdds(more)
  <2>1. \A c \in rev.active : rev.mass[c] = Last(history).mass[c] * RatioOf(rev, Responsible(c))
    BY <1>11 DEF current
  <2>2. rev.active # {} /\ NothingMoved(Append(history, rev)) =>
          rev.unresolved = Last(history).unresolved * RatioOf(rev, Unknown)
    BY <1>12 DEF current, more
  <2>3. rev.active \subseteq Last(history).active
    BY <1>13 DEF current
  <2> QED
    BY <1>10, <2>1, <2>2, <2>3, OddsOfAppend DEF more
<1> QED
  BY <1>14, <1>15 DEF more, rev

(* A retraction keeps the odds of the hypotheses it leaves.                *)
LEMMA RetractBayes ==
  ASSUME NEW history, SoundHistory(history), EvidenceKnown(history), BayesOdds(history),
         NEW targets, NEW evidence \in Counter, RetractFits(history, targets, evidence)
  PROVE  LET more == Append(history, RetractRevision(history, targets, evidence).revision)
         IN  EvidenceKnown(more) /\ BayesOdds(more)
<1> DEFINE current == Last(history)
           mass == [chain \in DOMAIN current.mass |->
                      IF chain \in targets THEN 0 ELSE current.mass[chain]]
           rev  == RetractRevision(history, targets, evidence).revision
           more == Append(history, rev)
<1>1. /\ rev.kind = "retract" /\ rev.mass = mass
      /\ rev.active = {chain \in DOMAIN mass : mass[chain] > 0}
  BY DEF RetractRevision, Successor
<1>2. Follows(history, rev)
  BY RetractFollows
<1>3. TypedRevision(current)
  BY SoundFacts
<1>4. \A actor : RatioOf(rev, actor) = 1
  BY <1>1 DEF RatioOf
<1>5. /\ DOMAIN mass = DOMAIN current.mass
      /\ \A chain \in DOMAIN mass : mass[chain] = IF chain \in targets THEN 0 ELSE current.mass[chain]
  OBVIOUS
<1> HIDE DEF current, mass, rev
<1>6. ASSUME NEW c \in rev.active PROVE rev.mass[c] = current.mass[c] * RatioOf(rev, Responsible(c))
  <2>1. c \in DOMAIN current.mass /\ rev.mass[c] = current.mass[c]
    BY <1>1, <1>5
  <2>2. current.mass[c] \in Nat
    BY <1>3, <2>1 DEF TypedRevision, Revision
  <2>3. current.mass[c] * 1 = current.mass[c]
    BY <2>2
  <2> QED
    BY <1>4, <2>1, <2>3
<1>7. /\ EvidenceKnown(more) /\ ~ NothingMoved(more)
  BY <1>1, FirstOfAppend DEF more
<1>8. BayesOdds(more)
  <2>1. \A c \in rev.active : rev.mass[c] = Last(history).mass[c] * RatioOf(rev, Responsible(c))
    BY <1>6 DEF current
  <2>2. rev.active \subseteq Last(history).active
    BY <1>2 DEF Follows
  <2>3. \A actor : RatioOf(rev, actor) \in Nat
    BY <1>4
  <2> QED
    BY <1>7, <2>1, <2>2, <2>3, OddsOfAppend DEF more
<1> QED
  BY <1>7, <1>8 DEF more, rev

(* What a call adds to the histories that were made.                       *)
LEMMA SubmitKeepsBayes ==
  ASSUME BayesInv, NEW h, NEW call, NEW history, NEW rounding,
         Submit(h, call, history, rounding),
         ValidRevision(Last(history)) /\ ValidHistory(history) =>
           EvidenceKnown(history) /\ BayesOdds(history)
  PROVE  BayesInv'
<1>1. CASE made' = made
  BY <1>1 DEF BayesInv
<1>2. CASE /\ made' = made \cup {history}
           /\ ValidRevision(Last(history)) /\ ValidHistory(history)
  BY <1>2 DEF BayesInv
<1> QED
  BY <1>1, <1>2, SubmitCases DEF Refuse, Return

(* The odds between hypotheses that are active are those of the branch     *)
(* times the likelihood ratios of the evidence the history was revised     *)
(* with (revise_actor_responsibility, retract, rebuild).                   *)
THEOREM OddsFollowBayes == Spec => []OddsAreBayes
<1>1. Init => BayesInv
  BY DEF Init, BayesInv
<1>2. HypergraphInv /\ BayesInv /\ [Next]_vars => BayesInv'
  <2> SUFFICES ASSUME HypergraphInv, BayesInv, [Next]_vars PROVE BayesInv'
    OBVIOUS
  <2>1. CASE UNCHANGED vars
    BY <2>1 DEF vars, BayesInv
  <2>2. ASSUME NEW h \in Holder, NEW before \in Detection, NEW after \in Detection,
               NEW prior \in Prior, NEW unresolved \in Fraction, NEW handoff \in Fraction,
               Branch(h, before, after, prior, unresolved, handoff)
        PROVE  BayesInv'
    <3> DEFINE rev == BranchRevision(before, after, prior, unresolved, handoff)
    <3>1. CASE ~ BranchFits(before, after, prior, unresolved, handoff)
      BY <2>2, <3>1 DEF Branch, Raise, BayesInv
    <3>2. CASE BranchFits(before, after, prior, unresolved, handoff)
      <4>1. Submit(h, "branch", <<rev>>, "exact")
        BY <2>2, <3>2 DEF Branch
      <4>2. rev.kind = "branch" /\ Last(<<rev>>) = rev
        BY DEF BranchRevision, Last
      <4>3. ValidRevision(rev) /\ ValidHistory(<<rev>>) => SoundHistory(<<rev>>)
        BY <3>2, BranchIsSound
      <4> HIDE DEF rev
      <4>4. ValidRevision(Last(<<rev>>)) /\ ValidHistory(<<rev>>) =>
              EvidenceKnown(<<rev>>) /\ BayesOdds(<<rev>>)
        BY <4>2, <4>3, BranchBayes
      <4> QED
        BY <4>1, <4>4, SubmitKeepsBayes
    <3> QED
      BY <3>1, <3>2
  <2>3. ASSUME NEW h \in Holder, NEW e \in Evidence, NEW threshold \in Threshold,
               Revise(h, e, threshold)
        PROVE  BayesInv'
    <3>1. CASE ~ (ValidEvidence(held[h], {}, e) /\ threshold < Scale)
      BY <2>3, <3>1 DEF Revise, Raise, BayesInv
    <3>2. CASE ValidEvidence(held[h], {}, e) /\ threshold < Scale
      <4> DEFINE more == Append(held[h], ReviseRevision(held[h], e, threshold).revision)
      <4>1. PICK rounding : Submit(h, "revise", more, rounding)
        BY <2>3, <3>2 DEF Revise
      <4>2. /\ held[h] \in made /\ SoundHistory(held[h]) /\ threshold \in Nat
            /\ EvidenceKnown(held[h]) /\ BayesOdds(held[h])
        BY <2>3, ScaleAssumption DEF Revise, HypergraphInv, BayesInv
      <4>3. EvidenceKnown(more) /\ BayesOdds(more)
        BY <3>2, <4>2, ReviseBayes
      <4> HIDE DEF more
      <4> QED
        BY <4>1, <4>3, SubmitKeepsBayes
    <3> QED
      BY <3>1, <3>2
  <2>4. ASSUME NEW h \in Holder, NEW targets \in Target, NEW evidence \in Counter,
               Retract(h, targets, evidence)
        PROVE  BayesInv'
    <3>1. CASE ~ RetractFits(held[h], targets, evidence)
      BY <2>4, <3>1 DEF Retract, Raise, BayesInv
    <3>2. CASE RetractFits(held[h], targets, evidence)
      <4> DEFINE more == Append(held[h], RetractRevision(held[h], targets, evidence).revision)
      <4>1. PICK rounding : Submit(h, "retract", more, rounding)
        BY <2>4, <3>2 DEF Retract
      <4>2. /\ held[h] \in made /\ SoundHistory(held[h])
            /\ EvidenceKnown(held[h]) /\ BayesOdds(held[h])
        BY <2>4 DEF Retract, HypergraphInv, BayesInv
      <4>3. EvidenceKnown(more) /\ BayesOdds(more)
        BY <3>2, <4>2, RetractBayes
      <4> HIDE DEF more
      <4> QED
        BY <4>1, <4>3, SubmitKeepsBayes
    <3> QED
      BY <3>1, <3>2
  <2>5. ASSUME NEW h \in Holder, NEW n \in 0..MaxRebuilt, NEW revisions \in [1..n -> Stored],
               Rebuild(h, revisions)
        PROVE  BayesInv'
    <3>1. made' = made
      BY <2>5 DEF Rebuild, Raise
    <3> QED
      BY <3>1 DEF BayesInv
  <2> QED
    BY <2>1, <2>2, <2>3, <2>4, <2>5, Zenon DEF Next
<1>3. BayesInv => OddsAreBayes
  <2> SUFFICES ASSUME BayesInv, NEW history \in made
      PROVE  LET first == history[1]
                 last  == Last(history)
                 Odds(chain) == first.mass[chain] * RatiosUsed(history, Responsible(chain))
             IN  \A c \in last.active :
                   /\ \A d \in last.active : last.mass[c] * Odds(d) = last.mass[d] * Odds(c)
                   /\ NothingMoved(history) =>
                        last.unresolved * Odds(c)
                          = last.mass[c] * first.unresolved * RatiosUsed(history, Unknown)
    BY Zenon DEF OddsAreBayes
  <2>1. BayesOdds(history)
    BY DEF BayesInv
  <2> QED
    BY <2>1 DEF BayesOdds, Expected
<1> QED
  BY <1>1, <1>2, <1>3, HistoriesAreSound, PTL DEF Spec
=============================================================================
