--------------------------- MODULE HouseholdProofs ---------------------------
(***************************************************************************)
(* What the parts of the household benchmark promise, for any size of it:  *)
(*   - what was found invalid in the snapshot catalog stays invalid;       *)
(*   - the registries keep one link per pair at a time, the motions that   *)
(*     links stand for compose and are undone as motions are, and an       *)
(*     answer is that of a shortest path, there and back;                  *)
(*   - the plans of the routine generator are coherent, whatever changes   *)
(*     they contain and whatever is drawn;                                 *)
(*   - the simulator tells what the robot saw and nothing else, of any     *)
(*     plans that are chained, which generated plans are;                  *)
(*   - what is learned of habits is booked alike on all levels, of facts   *)
(*     alone, and moves no predictions but those it is about.              *)
(***************************************************************************)
EXTENDS Records, IdentityTimeFrames, RoutineGenerator, Simulator, HabitModel, DataLemmas

-----------------------------------------------------------------------------
(* M03, the snapshot catalog.                                              *)

(* A manifest has, among others, these fields.                             *)
ManifestShape(manifest) == {"id", "valid", "reasons"} \subseteq DOMAIN manifest

(* A manifest is stored under its own id, with a list of reasons, and is   *)
(* invalid exactly when there are some.                                    *)
CatalogInv ==
  \A id \in DOMAIN catalog :
    /\ ManifestShape(catalog[id])
    /\ catalog[id].id = id
    /\ catalog[id].reasons \in Seq(Reason)
    /\ ValidState(catalog[id])

(* Whatever was stored is replaced only by itself or by a manifest that is *)
(* invalid for one reason more.                                            *)
LEMMA OneReasonMore ==
  ASSUME CatalogInv, [CatalogNext]_catalog
  PROVE  CatalogInv' /\ InvalidStaysInvalid
<1>1. CASE UNCHANGED catalog
  <2>1. \A id \in DOMAIN catalog : IsPrefix(catalog[id].reasons, catalog[id].reasons)
    BY DEF CatalogInv, IsPrefix
  <2> QED
    BY <1>1, <2>1 DEF CatalogInv, InvalidStaysInvalid, ManifestShape, ValidState
<1>2. ASSUME NEW m \in Manifest, Add(m) PROVE CatalogInv' /\ InvalidStaysInvalid
  <2>1. CatalogInv'
    BY <1>2, ManifestAssumption DEF Add, CanAdd, Stored, CatalogInv, ManifestShape, ValidState
  <2>2. \A id \in DOMAIN catalog : id \in DOMAIN catalog' /\ catalog'[id] = catalog[id]
    BY <1>2 DEF Add, CanAdd, Stored
  <2>3. \A id \in DOMAIN catalog : IsPrefix(catalog[id].reasons, catalog[id].reasons)
    BY DEF CatalogInv, IsPrefix
  <2> QED
    BY <2>1, <2>2, <2>3 DEF InvalidStaysInvalid
<1>3. ASSUME NEW key \in DOMAIN catalog, NEW r \in Reason, Invalidate(key, r)
      PROVE  CatalogInv' /\ InvalidStaysInvalid
  <2> DEFINE old == catalog[key]
             new == [old EXCEPT !.valid = FALSE, !.reasons = Append(@, r)]
  <2>1. ManifestShape(old) /\ old.id = key
    BY DEF CatalogInv
  <2>2. /\ ManifestShape(new) /\ new.id = key
        /\ ~ new.valid /\ new.reasons = Append(old.reasons, r)
    <3> HIDE DEF old
    <3> QED
      BY <2>1 DEF ManifestShape
  <2>3. old.reasons \in Seq(Reason) /\ Append(old.reasons, r) \in Seq(Reason)
        /\ Append(old.reasons, r) # << >>
    <3>1. old.reasons \in Seq(Reason)
      BY DEF CatalogInv
    <3> HIDE DEF old
    <3> QED
      BY <3>1, AppendProperties
  <2>4. /\ DOMAIN catalog' = DOMAIN catalog
        /\ catalog'[key] = new
        /\ \A id \in DOMAIN catalog \ {key} : catalog'[id] = catalog[id]
    <3>1. Stored(new)
      BY <1>3 DEF Invalidate
    <3>2. new.id = key
      BY <2>2
    <3> QED
      BY <3>1, <3>2 DEF Stored
  <2> HIDE DEF old, new
  <2>5. CatalogInv'
    <3> SUFFICES ASSUME NEW id \in DOMAIN catalog
                 PROVE  /\ ManifestShape(catalog'[id]) /\ catalog'[id].id = id
                        /\ catalog'[id].reasons \in Seq(Reason) /\ ValidState(catalog'[id])
      BY <2>4 DEF CatalogInv
    <3>1. CASE id # key
      BY <3>1, <2>4 DEF CatalogInv
    <3>2. CASE id = key
      BY <3>2, <2>2, <2>3, <2>4 DEF ValidState
    <3> QED
      BY <3>1, <3>2
  <2>6. IsPrefix(old.reasons, Append(old.reasons, r))
    <3>1. /\ Len(Append(old.reasons, r)) = Len(old.reasons) + 1 /\ Len(old.reasons) \in Nat
          /\ \A i \in 1..Len(old.reasons) : Append(old.reasons, r)[i] = old.reasons[i]
      BY <2>3, AppendProperties
    <3> QED
      BY <3>1, <2>3 DEF IsPrefix
  <2>7. \A id \in DOMAIN catalog : IsPrefix(catalog[id].reasons, catalog[id].reasons)
    BY DEF CatalogInv, IsPrefix
  <2>8. ~ new.valid /\ new.reasons = Append(old.reasons, r) /\ old.reasons = catalog[key].reasons
    BY <2>2 DEF old
  <2> QED
    BY <2>4, <2>5, <2>6, <2>7, <2>8 DEF InvalidStaysInvalid
<1> QED
  BY <1>1, <1>2, <1>3 DEF CatalogNext

(* A snapshot that was found invalid stays invalid, for all the reasons it *)
(* was given, whoever adds its manifest again.                             *)
THEOREM InvalidSnapshotsStay == CatalogSpec => [][InvalidStaysInvalid]_catalog
<1>1. CatalogInit => CatalogInv
  BY DEF CatalogInit, CatalogInv
<1>2. CatalogInv /\ [CatalogNext]_catalog => CatalogInv' /\ InvalidStaysInvalid
  BY OneReasonMore
<1> QED
  BY <1>1, <1>2, PTL DEF CatalogSpec

-----------------------------------------------------------------------------
(* What is sorted.                                                         *)

AtPlace(R, S, k) == CHOOSE x \in S : Cardinality(BeforeIt(R, S, x)) = k - 1

(* A list that has at each place the member that as many are before is a   *)
(* list of all members, in order.                                          *)
LEMMA PickedInOrder ==
  ASSUME NEW S, NEW R, StrictOrder(R, S), NEW s, DOMAIN s = 1..Cardinality(S),
         \A k \in 1..Cardinality(S) : s[k] = AtPlace(R, S, k)
  PROVE  /\ Cardinality(S) \in Nat
         /\ \A k \in DOMAIN s : s[k] \in S
         /\ \A x \in S : \E k \in DOMAIN s : s[k] = x
         /\ \A i, j \in DOMAIN s : i < j <=> <<s[i], s[j]>> \in R
<1> DEFINE N == Cardinality(S)
           P(x) == Cardinality(BeforeIt(R, S, x))
<1>1. /\ N \in Nat
      /\ \A x \in S : P(x) \in 0..(N - 1)
      /\ \A x, y \in S : <<x, y>> \in R => P(x) < P(y)
      /\ \A k \in 1..N : \E x \in S : P(x) = k - 1
  BY PlacesInOrder
<1> HIDE DEF N
<1>2. \A k \in 1..N : s[k] \in S /\ P(s[k]) = k - 1
  <2>1. \A k \in 1..N : s[k] = CHOOSE x \in S : P(x) = k - 1
    BY DEF N, AtPlace
  <2> HIDE DEF P
  <2> QED
    BY <1>1, <2>1
<1> HIDE DEF P
<1>3. \A x, y \in S : P(x) = P(y) => x = y
  <2> SUFFICES ASSUME NEW x \in S, NEW y \in S, P(x) = P(y), x # y PROVE FALSE
    OBVIOUS
  <2>1. <<x, y>> \in R \/ <<y, x>> \in R
    BY DEF StrictOrder
  <2>2. P(x) < P(x)
    BY <1>1, <2>1
  <2>3. P(x) \in 0..(N - 1)
    BY <1>1
  <2> QED
    BY <1>1, <2>2, <2>3
<1>4. ASSUME NEW x \in S PROVE \E k \in DOMAIN s : s[k] = x
  <2> DEFINE k == P(x) + 1
  <2>1. k \in 1..N /\ P(x) = k - 1
    BY <1>1
  <2> HIDE DEF k
  <2>2. s[k] = x
    BY <1>2, <1>3, <2>1
  <2> QED
    BY <2>1, <2>2 DEF N
<1>5. ASSUME NEW i \in 1..N, NEW j \in 1..N PROVE i < j <=> <<s[i], s[j]>> \in R
  <2>1. s[i] \in S /\ s[j] \in S /\ P(s[i]) = i - 1 /\ P(s[j]) = j - 1 /\ i \in Int /\ j \in Int
    BY <1>1, <1>2
  <2>2. <<s[i], s[j]>> \in R => i < j
    BY <1>1, <2>1
  <2>3. <<s[j], s[i]>> \in R => j < i
    BY <1>1, <2>1
  <2>4. s[i] # s[j] => <<s[i], s[j]>> \in R \/ <<s[j], s[i]>> \in R
    BY <2>1 DEF StrictOrder
  <2>5. i < j => s[i] # s[j]
    BY <2>1
  <2> QED
    BY <2>1, <2>2, <2>3, <2>4, <2>5
<1> QED
  BY <1>1, <1>2, <1>4, <1>5 DEF N

(* What is sorted by rank is all there, in the order of the ranks.         *)
LEMMA InOrderFacts ==
  ASSUME NEW S, IsFiniteSet(S), NEW rank,
         \A x \in S : rank[x][1] \in Int /\ rank[x][2] \in Int,
         \A x, y \in S : rank[x][1] = rank[y][1] /\ rank[x][2] = rank[y][2] => x = y
  PROVE  LET s == InOrder(S, rank)
         IN  /\ Cardinality(S) \in Nat /\ DOMAIN s = 1..Cardinality(S)
             /\ \A k \in DOMAIN s : s[k] \in S
             /\ \A x \in S : \E k \in DOMAIN s : s[k] = x
             /\ \A i, j \in DOMAIN s : i < j <=> Precedes(rank[s[i]], rank[s[j]])
<1> DEFINE s == InOrder(S, rank)
           R == {p \in S \X S : Precedes(rank[p[1]], rank[p[2]])}
<1>1. \A x, y \in S : <<x, y>> \in R <=> Precedes(rank[x], rank[y])
  OBVIOUS
<1>2. \A x \in S : {y \in S : Precedes(rank[y], rank[x])} = BeforeIt(R, S, x)
  BY DEF BeforeIt
<1>3. DOMAIN s = 1..Cardinality(S)
  BY DEF InOrder
<1>4. \A k \in 1..Cardinality(S) :
        s[k] = CHOOSE x \in S : Cardinality({y \in S : Precedes(rank[y], rank[x])}) = k - 1
  BY DEF InOrder
<1> HIDE DEF s, R
<1>5. \A k \in 1..Cardinality(S) : s[k] = AtPlace(R, S, k)
  <2>1. ASSUME NEW k \in 1..Cardinality(S)
        PROVE  (CHOOSE x \in S : Cardinality({y \in S : Precedes(rank[y], rank[x])}) = k - 1) =
               (CHOOSE x \in S : Cardinality(BeforeIt(R, S, x)) = k - 1)
    BY <1>2
  <2> QED
    BY <1>4, <2>1 DEF AtPlace
<1>6. StrictOrder(R, S)
  <2>1. \A x \in S : <<x, x>> \notin R
    BY <1>1 DEF Precedes
  <2>2. ASSUME NEW x \in S, NEW y \in S, x # y PROVE <<x, y>> \in R \/ <<y, x>> \in R
    BY <1>1, <2>2 DEF Precedes
  <2>3. ASSUME NEW x \in S, NEW y \in S, NEW z \in S, <<x, y>> \in R, <<y, z>> \in R
        PROVE  <<x, z>> \in R
    BY <1>1, <2>3 DEF Precedes
  <2> QED
    BY <2>1, <2>2, <2>3 DEF StrictOrder
<1>7. /\ Cardinality(S) \in Nat
      /\ \A k \in DOMAIN s : s[k] \in S
      /\ \A x \in S : \E k \in DOMAIN s : s[k] = x
      /\ \A i, j \in DOMAIN s : i < j <=> <<s[i], s[j]>> \in R
  BY <1>3, <1>5, <1>6, PickedInOrder
<1> QED
  BY <1>1, <1>3, <1>7 DEF s

-----------------------------------------------------------------------------
(* M02, the registries.                                                    *)

(* What the registries keep of links: no two of one id, and no two between *)
(* the same nodes that are valid at the same time.                         *)
LinksInv(links, Kind) ==
  /\ IsList(links)
  /\ \A i \in DOMAIN links : links[i] \in Kind
  /\ \A i, j \in DOMAIN links : i # j =>
       links[i].id # links[j].id /\ ~ (SamePair(links[i], links[j]) /\ Overlap(links[i], links[j]))

(* Registering a link keeps what there is, and adds it when nothing speaks *)
(* against it.                                                             *)
LEMMA RegisteredFacts ==
  ASSUME NEW Kind, NEW links, LinksInv(links, Kind), NEW link \in Kind
  PROVE  LinksInv(Registered(links, link), Kind)
<1> DEFINE n == Len(links)
           next == Append(links, link)
           Taken == \E i \in DOMAIN links :
                      links[i].id = link.id \/ (SamePair(links[i], link) /\ Overlap(links[i], link))
<1>1. CASE Taken
  BY <1>1 DEF Registered
<1>2. CASE ~ Taken
  <2>1. Registered(links, link) = next
    BY <1>2 DEF Registered
  <2>2. IsList(links) /\ n \in Nat /\ DOMAIN links = 1..n
    BY ListFacts DEF LinksInv
  <2>3. /\ IsList(next) /\ DOMAIN next = 1..(n + 1) /\ next[n + 1] = link
        /\ \A i \in 1..n : next[i] = links[i]
    BY <2>2, AppendFacts, ListFacts
  <2>4. \A i \in 1..(n + 1) : i = n + 1 \/ i \in 1..n
    BY <2>2
  <2>5. \A a, b : (SamePair(a, b) /\ Overlap(a, b)) => (SamePair(b, a) /\ Overlap(b, a))
    BY DEF SamePair, Overlap
  <2> HIDE DEF next, n
  <2>6. \A i \in DOMAIN next : next[i] \in Kind
    BY <2>2, <2>3, <2>4 DEF LinksInv
  <2>7. ASSUME NEW i \in DOMAIN next, NEW j \in DOMAIN next, i # j
        PROVE  next[i].id # next[j].id /\ ~ (SamePair(next[i], next[j]) /\ Overlap(next[i], next[j]))
    <3>1. CASE i \in 1..n /\ j \in 1..n
      BY <2>2, <2>3, <2>7, <3>1 DEF LinksInv
    <3>2. CASE i \in 1..n /\ j = n + 1
      BY <1>2, <2>2, <2>3, <3>2
    <3>3. CASE i = n + 1 /\ j \in 1..n
      BY <1>2, <2>2, <2>3, <2>5, <3>3
    <3> QED
      BY <2>3, <2>4, <2>7, <3>1, <3>2, <3>3
  <2> QED
    BY <2>1, <2>3, <2>6, <2>7 DEF LinksInv
<1> QED
  BY <1>1, <1>2

(* What both registries of links keep.                                     *)
RegistriesInv == LinksInv(alignments, Alignment) /\ LinksInv(transforms, Transform)

(* And they do keep it.                                                    *)
LEMMA RegistriesKeepLinks ==
  (M02Init => RegistriesInv) /\ (RegistriesInv /\ [M02Next]_m02Vars => RegistriesInv')
<1>1. M02Init => RegistriesInv
  <2>1. IsList(<< >>) /\ Len(<< >>) = 0
    BY EmptyList
  <2>2. DOMAIN << >> = {}
    OBVIOUS
  <2> QED
    BY <2>1, <2>2 DEF M02Init, RegistriesInv, LinksInv
<1>2. ASSUME RegistriesInv, [M02Next]_m02Vars PROVE RegistriesInv'
  <2>1. ASSUME NEW l \in Alignment, RegisterAlignment(l) PROVE RegistriesInv'
    BY <1>2, <2>1, RegisteredFacts DEF RegisterAlignment, RegistriesInv
  <2>2. ASSUME NEW l \in Transform, RegisterTransform(l) PROVE RegistriesInv'
    BY <1>2, <2>2, RegisteredFacts DEF RegisterTransform, RegistriesInv
  <2>3. ASSUME NEW i \in Identity, RegisterIdentity(i) PROVE RegistriesInv'
    BY <1>2, <2>3 DEF RegisterIdentity, RegistriesInv
  <2>4. CASE UNCHANGED m02Vars
    BY <1>2, <2>4 DEF m02Vars, RegistriesInv
  <2> QED
    BY <1>2, <2>1, <2>2, <2>3, <2>4 DEF M02Next, IdentityRegistryNext, ClocksNext, FramesNext
<1> QED
  BY <1>1, <1>2

(* Two links between the same nodes are not valid at the same time.        *)
LEMMA LinksDiffer ==
  ASSUME NEW links, NEW Kind \in SUBSET (Alignment \cup Transform), LinksInv(links, Kind),
         NEW a \in ToSet(links), NEW b \in ToSet(links)
  PROVE  /\ a \in Kind
         /\ a.id = b.id => a = b
         /\ \A t \in Int : (SamePair(a, b) /\ ValidAt(a, t) /\ ValidAt(b, t)) => a = b
<1>1. PICK i \in DOMAIN links : a = links[i]
  BY DEF ToSet
<1>2. PICK j \in DOMAIN links : b = links[j]
  BY DEF ToSet
<1>3. a \in Kind /\ b \in Kind
  BY <1>1, <1>2 DEF LinksInv
<1>4. a.id = b.id => a = b
  BY <1>1, <1>2 DEF LinksInv
<1>5. ASSUME NEW t \in Int, SamePair(a, b), ValidAt(a, t), ValidAt(b, t) PROVE a = b
  <2>1. a.from \in Int /\ b.from \in Int /\ a.until \in Int /\ b.until \in Int
    BY <1>3, LinkAssumption
  <2>2. Overlap(a, b)
    BY <1>5, <2>1 DEF Overlap, ValidAt
  <2> QED
    BY <1>1, <1>2, <1>5, <2>2 DEF LinksInv
<1> QED
  BY <1>3, <1>4, <1>5

(* OneLinkPerPair, for any clocks and frames, registered in any order.     *)
LEMMA LinksArePairs == RegistriesInv => OneLinkPerPair
<1> SUFFICES ASSUME RegistriesInv, NEW links \in {alignments, transforms}, NEW a \in ToSet(links),
                    NEW b \in ToSet(links), NEW t \in Instant, SamePair(a, b), ValidAt(a, t),
                    ValidAt(b, t)
             PROVE  a = b
  BY DEF OneLinkPerPair
<1>1. PICK Kind \in SUBSET (Alignment \cup Transform) : LinksInv(links, Kind)
  BY DEF RegistriesInv
<1> QED
  BY <1>1, LinksDiffer, LinkAssumption

(* OneLinkPerPair: no two links between the same nodes are valid at once.  *)
THEOREM LinksSafety == M02Spec => []OneLinkPerPair
BY RegistriesKeepLinks, LinksArePairs, PTL DEF M02Spec

(* What an id resolves to it resolves to after the next step.              *)
LEMMA IdsStay ==
  ASSUME [M02Next]_m02Vars
  PROVE  IdsKeepTheirMeaning
<1>1. CASE UNCHANGED identities
  BY <1>1 DEF IdsKeepTheirMeaning, Resolve
<1>2. ASSUME NEW i \in Identity, RegisterIdentity(i) PROVE IdsKeepTheirMeaning
  <2>1. i.id \in DOMAIN identities => identities[i.id] = i
    BY <1>2 DEF RegisterIdentity, CanRegister
  <2>2. \A id \in DOMAIN identities : id \in DOMAIN identities' /\ identities'[id] = identities[id]
    BY <1>2, <2>1 DEF RegisterIdentity
  <2> QED
    BY <2>2 DEF IdsKeepTheirMeaning, Resolve
<1>3. CASE UNCHANGED m02Vars
  BY <1>1, <1>3 DEF m02Vars
<1> QED
  BY <1>1, <1>2, <1>3
     DEF M02Next, IdentityRegistryNext, ClocksNext, FramesNext, RegisterAlignment, RegisterTransform

(* Moving by one motion and then by another is moving by both of them.     *)
THEOREM MotionsCompose ==
  ASSUME NEW a \in Motions, NEW b \in Motions, NEW p \in Int \X Int
  PROVE  /\ Then(a, b) \in Motions
         /\ Moved(p, a) \in Int \X Int
         /\ Moved(p, Then(a, b)) = Moved(Moved(p, a), b)
<1>1. /\ a.turn \in 0..3 /\ a.x \in Int /\ a.y \in Int /\ a.slack \in Int
      /\ b.turn \in 0..3 /\ b.x \in Int /\ b.y \in Int /\ b.slack \in Int
      /\ p[1] \in Int /\ p[2] \in Int /\ p = <<p[1], p[2]>>
  BY DEF Motions
<1> QED
  BY <1>1 DEF Then, Moved, Rotated, Motions

(* Where a motion takes a point, and which motion it is backwards.         *)
LEMMA WhereTo ==
  ASSUME NEW m \in Motions, NEW u \in Int, NEW v \in Int
  PROVE  /\ m.turn = 0 => Moved(<<u, v>>, m) = <<u + m.x, v + m.y>>
         /\ m.turn = 1 => Moved(<<u, v>>, m) = <<-v + m.x, u + m.y>>
         /\ m.turn = 2 => Moved(<<u, v>>, m) = <<-u + m.x, -v + m.y>>
         /\ m.turn = 3 => Moved(<<u, v>>, m) = <<v + m.x, -u + m.y>>
BY DEF Motions, Moved, Rotated

(* What a motion did, it undoes backwards, in either order, and two of     *)
(* them are undone the other way round.                                    *)
THEOREM MotionsUndo ==
  ASSUME NEW a \in Motions, NEW b \in Motions, NEW p \in Int \X Int
  PROVE  /\ Backwards(a) \in Motions
         /\ Moved(Moved(p, a), Backwards(a)) = p
         /\ Moved(Moved(p, Backwards(a)), a) = p
         /\ a.slack = 0 => Then(a, Backwards(a)) = Still /\ Then(Backwards(a), a) = Still
         /\ Backwards(Then(a, b)) = Then(Backwards(b), Backwards(a))
<1>1. /\ a.turn \in {0, 1, 2, 3} /\ a.x \in Int /\ a.y \in Int /\ a.slack \in Int
      /\ b.turn \in {0, 1, 2, 3} /\ b.x \in Int /\ b.y \in Int /\ b.slack \in Int
  BY DEF Motions
<1>2. Backwards(a) \in Motions
  BY <1>1 DEF Backwards, Rotated, Motions
<1>3. ASSUME NEW u \in Int, NEW v \in Int
      PROVE  /\ Moved(Moved(<<u, v>>, a), Backwards(a)) = <<u, v>>
             /\ Moved(Moved(<<u, v>>, Backwards(a)), a) = <<u, v>>
  <2>1. CASE a.turn = 0
    <3>1. Backwards(a).turn = 0 /\ Backwards(a).x = -a.x /\ Backwards(a).y = -a.y
      BY <1>1, <2>1 DEF Backwards, Rotated
    <3>2. Moved(<<u, v>>, a) = <<u + a.x, v + a.y>>
      BY <1>1, <2>1, WhereTo
    <3>3. Moved(Moved(<<u, v>>, a), Backwards(a)) = <<u, v>>
      BY <1>1, <1>2, <3>1, <3>2, WhereTo
    <3>4. Moved(<<u, v>>, Backwards(a)) = <<u + (-a.x), v + (-a.y)>>
      BY <1>1, <1>2, <3>1, WhereTo
    <3>5. Moved(Moved(<<u, v>>, Backwards(a)), a) = <<u, v>>
      BY <1>1, <2>1, <3>4, WhereTo
    <3> QED
      BY <3>3, <3>5
  <2>2. CASE a.turn = 1
    <3>1. Backwards(a).turn = 3 /\ Backwards(a).x = -a.y /\ Backwards(a).y = a.x
      BY <1>1, <2>2 DEF Backwards, Rotated
    <3>2. Moved(<<u, v>>, a) = <<-v + a.x, u + a.y>>
      BY <1>1, <2>2, WhereTo
    <3>3. Moved(Moved(<<u, v>>, a), Backwards(a)) = <<u, v>>
      BY <1>1, <1>2, <3>1, <3>2, WhereTo
    <3>4. Moved(<<u, v>>, Backwards(a)) = <<v + (-a.y), -u + a.x>>
      BY <1>1, <1>2, <3>1, WhereTo
    <3>5. Moved(Moved(<<u, v>>, Backwards(a)), a) = <<u, v>>
      BY <1>1, <2>2, <3>4, WhereTo
    <3> QED
      BY <3>3, <3>5
  <2>3. CASE a.turn = 2
    <3>1. Backwards(a).turn = 2 /\ Backwards(a).x = a.x /\ Backwards(a).y = a.y
      BY <1>1, <2>3 DEF Backwards, Rotated
    <3>2. Moved(<<u, v>>, a) = <<-u + a.x, -v + a.y>>
      BY <1>1, <2>3, WhereTo
    <3>3. Moved(Moved(<<u, v>>, a), Backwards(a)) = <<u, v>>
      BY <1>1, <1>2, <3>1, <3>2, WhereTo
    <3>4. Moved(<<u, v>>, Backwards(a)) = <<-u + a.x, -v + a.y>>
      BY <1>1, <1>2, <3>1, WhereTo
    <3>5. Moved(Moved(<<u, v>>, Backwards(a)), a) = <<u, v>>
      BY <1>1, <2>3, <3>4, WhereTo
    <3> QED
      BY <3>3, <3>5
  <2>4. CASE a.turn = 3
    <3>1. Backwards(a).turn = 1 /\ Backwards(a).x = a.y /\ Backwards(a).y = -a.x
      BY <1>1, <2>4 DEF Backwards, Rotated
    <3>2. Moved(<<u, v>>, a) = <<v + a.x, -u + a.y>>
      BY <1>1, <2>4, WhereTo
    <3>3. Moved(Moved(<<u, v>>, a), Backwards(a)) = <<u, v>>
      BY <1>1, <1>2, <3>1, <3>2, WhereTo
    <3>4. Moved(<<u, v>>, Backwards(a)) = <<-v + a.y, u + (-a.x)>>
      BY <1>1, <1>2, <3>1, WhereTo
    <3>5. Moved(Moved(<<u, v>>, Backwards(a)), a) = <<u, v>>
      BY <1>1, <2>4, <3>4, WhereTo
    <3> QED
      BY <3>3, <3>5
  <2> QED
    BY <1>1, <2>1, <2>2, <2>3, <2>4
<1>4. Moved(Moved(p, a), Backwards(a)) = p /\ Moved(Moved(p, Backwards(a)), a) = p
  <2>1. PICK u \in Int, v \in Int : p = <<u, v>>
    OBVIOUS
  <2> QED
    BY <1>3, <2>1
<1>5. a.slack = 0 => Then(a, Backwards(a)) = Still
  BY <1>1 DEF Backwards, Then, Rotated, Still
<1>6. a.slack = 0 => Then(Backwards(a), a) = Still
  BY <1>1 DEF Backwards, Then, Rotated, Still
<1>7. Backwards(Then(a, b)) = Then(Backwards(b), Backwards(a))
  <2>1. CASE b.turn = 0
    BY <1>1, <2>1 DEF Backwards, Then, Rotated
  <2>2. CASE b.turn = 1
    BY <1>1, <2>2 DEF Backwards, Then, Rotated
  <2>3. CASE b.turn = 2
    BY <1>1, <2>3 DEF Backwards, Then, Rotated
  <2>4. CASE b.turn = 3
    BY <1>1, <2>4 DEF Backwards, Then, Rotated
  <2> QED
    BY <1>1, <2>1, <2>2, <2>3, <2>4
<1> QED
  BY <1>2, <1>4, <1>5, <1>6, <1>7

(* Turning a point gives a point.                                          *)
LEMMA TurnedPoint ==
  ASSUME NEW t \in {0, 1, 2, 3}, NEW x \in Int, NEW y \in Int
  PROVE  /\ Rotated(t, <<x, y>>)[1] \in Int
         /\ Rotated(t, <<x, y>>)[2] \in Int
         /\ Rotated(t, <<x, y>>) = <<Rotated(t, <<x, y>>)[1], Rotated(t, <<x, y>>)[2]>>
BY DEF Rotated

(* Turning is linear.                                                      *)
LEMMA TurnIsLinear ==
  ASSUME NEW t \in {0, 1, 2, 3}, NEW x \in Int, NEW y \in Int, NEW v \in Int, NEW w \in Int
  PROVE  Rotated(t, <<x + v, y + w>>) = <<Rotated(t, <<x, y>>)[1] + Rotated(t, <<v, w>>)[1],
                                          Rotated(t, <<x, y>>)[2] + Rotated(t, <<v, w>>)[2]>>
BY DEF Rotated

(* Two turns are one.                                                      *)
LEMMA TwoTurns ==
  ASSUME NEW t \in {0, 1, 2, 3}, NEW u \in {0, 1, 2, 3}, NEW x \in Int, NEW y \in Int
  PROVE  Rotated((t + u) % 4, <<x, y>>) = Rotated(u, Rotated(t, <<x, y>>))
<1>1. ASSUME NEW sum \in {0, 1, 2, 3}, (t + u) % 4 = sum
      PROVE  Rotated(sum, <<x, y>>) = Rotated(u, Rotated(t, <<x, y>>))
  <2>1. CASE t = 0
    BY <1>1, <2>1 DEF Rotated
  <2>2. CASE t = 1
    BY <1>1, <2>2 DEF Rotated
  <2>3. CASE t = 2
    BY <1>1, <2>3 DEF Rotated
  <2>4. CASE t = 3
    BY <1>1, <2>4 DEF Rotated
  <2> QED
    BY <2>1, <2>2, <2>3, <2>4
<1>2. (t + u) % 4 \in {0, 1, 2, 3}
  OBVIOUS
<1> QED
  BY <1>1, <1>2

(* Quarter turns add up in any order.                                      *)
LEMMA FourTurns ==
  ASSUME NEW t \in {0, 1, 2, 3}, NEW u \in {0, 1, 2, 3}, NEW v \in {0, 1, 2, 3},
         NEW tu, NEW uv, tu = (t + u) % 4, uv = (u + v) % 4
  PROVE  (tu + v) % 4 = (t + uv) % 4
<1>1. ASSUME NEW n \in 0..6 PROVE n % 4 = IF n < 4 THEN n ELSE n - 4
  OBVIOUS
<1>2. tu = IF t + u < 4 THEN t + u ELSE t + u - 4
  BY <1>1
<1>3. uv = IF u + v < 4 THEN u + v ELSE u + v - 4
  BY <1>1
<1>4. (tu + v) % 4 = IF tu + v < 4 THEN tu + v ELSE tu + v - 4
  BY <1>1, <1>2
<1>5. (t + uv) % 4 = IF t + uv < 4 THEN t + uv ELSE t + uv - 4
  BY <1>1, <1>3
<1> QED
  BY <1>2, <1>3, <1>4, <1>5

(* It does not matter which links of a path are composed first.            *)
THEOREM MotionsAssociate ==
  ASSUME NEW a \in Motions, NEW b \in Motions, NEW c \in Motions
  PROVE  Then(Then(a, b), c) = Then(a, Then(b, c))
<1>1. /\ a.turn \in {0, 1, 2, 3} /\ a.x \in Int /\ a.y \in Int /\ a.slack \in Int
      /\ b.turn \in {0, 1, 2, 3} /\ b.x \in Int /\ b.y \in Int /\ b.slack \in Int
      /\ c.turn \in {0, 1, 2, 3} /\ c.x \in Int /\ c.y \in Int /\ c.slack \in Int
  BY DEF Motions
<1> DEFINE p == Rotated(b.turn, <<a.x, a.y>>)
           q == Rotated(c.turn, <<b.x, b.y>>)
           r == Rotated(c.turn, p)
           ab == Then(a, b)
           bc == Then(b, c)
<1>2. p = <<p[1], p[2]>> /\ p[1] \in Int /\ p[2] \in Int
  BY <1>1, TurnedPoint
<1>3. q[1] \in Int /\ q[2] \in Int
  BY <1>1, TurnedPoint
<1>4. Rotated((b.turn + c.turn) % 4, <<a.x, a.y>>) = r
  BY <1>1, TwoTurns
<1>5. /\ ab.turn = (a.turn + b.turn) % 4 /\ ab.slack = a.slack + b.slack
      /\ ab.x = p[1] + b.x /\ ab.y = p[2] + b.y
  BY DEF Then
<1>6. /\ bc.turn = (b.turn + c.turn) % 4 /\ bc.slack = b.slack + c.slack
      /\ bc.x = q[1] + c.x /\ bc.y = q[2] + c.y
  BY DEF Then
<1>7. Rotated(c.turn, <<p[1], p[2]>>) = r
  BY <1>2
<1> HIDE DEF p
<1>8. r[1] \in Int /\ r[2] \in Int
  BY <1>1, <1>2, <1>7, TurnedPoint
<1>9. Rotated(c.turn, <<p[1] + b.x, p[2] + b.y>>) = <<r[1] + q[1], r[2] + q[2]>>
  BY <1>1, <1>2, <1>7, TurnIsLinear
<1> HIDE DEF q, r, ab, bc
<1>10. Then(ab, c) = [turn |-> (ab.turn + c.turn) % 4, x |-> (r[1] + q[1]) + c.x,
                      y |-> (r[2] + q[2]) + c.y, slack |-> ab.slack + c.slack]
  BY <1>5, <1>9 DEF Then
<1>11. Then(a, bc) = [turn |-> (a.turn + bc.turn) % 4, x |-> r[1] + bc.x, y |-> r[2] + bc.y,
                      slack |-> a.slack + bc.slack]
  <2>1. Rotated(bc.turn, <<a.x, a.y>>) = r
    BY <1>4, <1>6
  <2> QED
    BY <2>1, Zenon DEF Then
<1>12. (ab.turn + c.turn) % 4 = (a.turn + bc.turn) % 4
  BY ONLY <1>1, <1>5, <1>6, FourTurns
<1>13. /\ (r[1] + q[1]) + c.x = r[1] + bc.x /\ (r[2] + q[2]) + c.y = r[2] + bc.y
       /\ ab.slack + c.slack = a.slack + bc.slack
  BY <1>1, <1>3, <1>5, <1>6, <1>8
<1>14. Then(ab, c) = Then(a, bc)
  BY <1>10, <1>11, <1>12, <1>13
<1> QED
  BY <1>14 DEF ab, bc

(* RecordsKeepTheirMeaning, for any identities, manifests and reasons.     *)
THEOREM RecordsSafety == (M02Spec /\ CatalogSpec) => RecordsKeepTheirMeaning
<1>1. CatalogInit => CatalogInv
  BY DEF CatalogInit, CatalogInv
<1>2. CatalogInv /\ [CatalogNext]_catalog => CatalogInv' /\ InvalidStaysInvalid
  BY OneReasonMore
<1>3. [M02Next]_m02Vars => IdsKeepTheirMeaning
  BY IdsStay
<1> QED
  BY <1>1, <1>2, <1>3, PTL DEF M02Spec, CatalogSpec, RecordsKeepTheirMeaning

-----------------------------------------------------------------------------
(* M02, what the registries answer.                                        *)

(* Links that are valid at one time: an id names one of them, and there is *)
(* one between two nodes at most.                                          *)
Sound(live) ==
  /\ IsFiniteSet(live)
  /\ \A l \in live : /\ l.id \in Int /\ l.source \in Int /\ l.target \in Int /\ l.source # l.target
                     /\ l.from \in Int /\ l.until \in Int /\ l.motion \in Motions
  /\ \A a, b \in live : a.id = b.id => a = b
  /\ \A a, b \in live : {a.source, a.target} = {b.source, b.target} => a = b

(* The links that a question is about are such links.                      *)
LEMMA LiveIsSound ==
  ASSUME NEW links, NEW Kind \in SUBSET (Alignment \cup Transform), LinksInv(links, Kind),
         NEW household, NEW at \in Int
  PROVE  Sound(Live(links, household, at))
<1> DEFINE live == Live(links, household, at)
<1>1. /\ live \subseteq ToSet(links)
      /\ \A l \in live : l.household = household /\ ValidAt(l, at)
  BY DEF Live
<1> HIDE DEF live
<1>2. IsFiniteSet(ToSet(links))
  <2>1. Len(links) \in Nat /\ ToSet(links) = {links[i] : i \in 1..Len(links)}
    BY ListFacts DEF LinksInv, ToSet
  <2>2. IsFiniteSet(1..Len(links))
    BY <2>1, 1 \in Int, FS_Interval
  <2> QED
    BY <2>1, <2>2, ImageIsFinite
<1>3. IsFiniteSet(live)
  BY <1>1, <1>2, FS_Subset
<1>4. \A l \in live : l \in Alignment \cup Transform
  BY <1>1, LinksDiffer
<1>5. ASSUME NEW l \in live
      PROVE  /\ l.id \in Int /\ l.source \in Int /\ l.target \in Int /\ l.source # l.target
             /\ l.from \in Int /\ l.until \in Int /\ l.motion \in Motions
  BY <1>4, LinkAssumption
<1>6. ASSUME NEW a \in live, NEW b \in live PROVE a.id = b.id => a = b
  BY <1>1, LinksDiffer
<1>7. ASSUME NEW a \in live, NEW b \in live, {a.source, a.target} = {b.source, b.target} PROVE a = b
  <2>1. SamePair(a, b)
    BY <1>1, <1>7 DEF SamePair
  <2> QED
    BY <1>1, <2>1, LinksDiffer
<1> QED
  BY <1>3, <1>5, <1>6, <1>7 DEF Sound, live

(* Two nodes with a link between them.                                     *)
Near(live, x, y) == \E l \in live : {l.source, l.target} = {x, y}

(* A link as it is used from one of its ends leads to the other one.       *)
LEMMA EdgeLeads ==
  ASSUME NEW live, Sound(live), NEW l \in live, NEW x \in {l.source, l.target}
  PROVE  /\ {l.source, l.target} = {x, Edge(l, x).to}
         /\ Edge(l, x).to # x /\ Edge(l, x).to \in Int /\ Edge(l, x).id = l.id
         /\ Edge(l, x).from = l.from /\ Edge(l, x).until = l.until
         /\ Edge(l, x).motion \in Motions
<1>1. /\ l.source # l.target /\ l.source \in Int /\ l.target \in Int
      /\ l.motion \in Motions
  BY DEF Sound
<1>2. Backwards(l.motion) \in Motions
  <2>1. <<0, 0>> \in Int \X Int
    OBVIOUS
  <2> QED
    BY <1>1, <2>1, MotionsUndo
<1> QED
  BY <1>1, <1>2 DEF Edge

(* The edges of a node lead to those who are near.                         *)
LEMMA EdgesLead ==
  ASSUME NEW live, Sound(live), NEW x
  PROVE  /\ \A y : y \in Neighbours(live, x) <=> Near(live, x, y)
         /\ \A y \in Neighbours(live, x) :
              \E l \in live : /\ x \in {l.source, l.target} /\ EdgeTo(live, x, y) = Edge(l, x)
                              /\ Edge(l, x).to = y
<1>1. ASSUME NEW y, Near(live, x, y) PROVE y \in Neighbours(live, x)
  <2>1. PICK l \in live : {l.source, l.target} = {x, y}
    BY <1>1 DEF Near
  <2>2. x \in {l.source, l.target}
    BY <2>1
  <2>3. {l.source, l.target} = {x, Edge(l, x).to} /\ Edge(l, x).to # x
    BY <2>2, EdgeLeads
  <2>4. Edge(l, x).to = y
    BY <2>1, <2>3
  <2> QED
    BY <2>2, <2>4 DEF Neighbours, Edges
<1>2. ASSUME NEW y \in Neighbours(live, x)
      PROVE  /\ Near(live, x, y)
             /\ \E l \in live : /\ x \in {l.source, l.target} /\ EdgeTo(live, x, y) = Edge(l, x)
                                /\ Edge(l, x).to = y
  <2>1. PICK l \in live : x \in {l.source, l.target} /\ Edge(l, x).to = y
    BY DEF Neighbours, Edges
  <2>2. {l.source, l.target} = {x, y}
    BY <2>1, EdgeLeads
  <2>3. ASSUME NEW e \in Edges(live, x), e.to = y PROVE e = Edge(l, x)
    <3>1. PICK m \in live : x \in {m.source, m.target} /\ e = Edge(m, x)
      BY <2>3 DEF Edges
    <3>2. {m.source, m.target} = {x, y}
      BY <2>3, <3>1, EdgeLeads
    <3> QED
      BY <2>2, <3>1, <3>2 DEF Sound
  <2>4. Edge(l, x) \in Edges(live, x) /\ Edge(l, x).id \in Int
    BY <2>1, EdgeLeads DEF Edges, Sound
  <2>5. EdgeTo(live, x, y) = Edge(l, x)
    <3> DEFINE E == Edges(live, x)
               Is(e) == e.to = y /\ \A f \in E : f.to = y => e.id <= f.id
    <3>1. EdgeTo(live, x, y) = CHOOSE e \in E : Is(e)
      BY DEF EdgeTo
    <3>2. Is(Edge(l, x)) /\ Edge(l, x) \in E
      BY <2>1, <2>3, <2>4
    <3>3. \A e \in E : Is(e) => e = Edge(l, x)
      BY <2>3
    <3> HIDE DEF E, Is
    <3> QED
      BY <3>1, <3>2, <3>3
  <2> QED
    BY <2>1, <2>2, <2>5 DEF Near
<1> QED
  BY <1>1, <1>2

(* What goes n links far, which may stay where it is.                      *)
Goes(live, w, n) == \A k \in 1..n : w[k] = w[k - 1] \/ Near(live, w[k - 1], w[k])

Within(live, x, n, y) ==
  \E w : DOMAIN w = 0..n /\ w[0] = x /\ w[n] = y /\ Goes(live, w, n)

(* One link more.                                                          *)
LEMMA OneLinkFurther ==
  ASSUME NEW live, NEW x, NEW n \in Nat, NEW y
  PROVE  /\ Within(live, x, 0, y) <=> x = y
         /\ Within(live, x, n + 1, y) <=>
              \E z : Within(live, x, n, z) /\ (z = y \/ Near(live, z, y))
<1>1. Within(live, x, 0, y) => x = y
  BY DEF Within
<1>2. ASSUME x = y PROVE Within(live, x, 0, y)
  <2> DEFINE w == [k \in 0..0 |-> x]
  <2>1. DOMAIN w = 0..0 /\ w[0] = x /\ Goes(live, w, 0)
    BY DEF Goes
  <2> HIDE DEF w
  <2> QED
    BY <1>2, <2>1 DEF Within
<1>3. ASSUME Within(live, x, n + 1, y)
      PROVE  \E z : Within(live, x, n, z) /\ (z = y \/ Near(live, z, y))
  <2>1. PICK w : DOMAIN w = 0..(n + 1) /\ w[0] = x /\ w[n + 1] = y /\ Goes(live, w, n + 1)
    BY <1>3 DEF Within
  <2> DEFINE v == [k \in 0..n |-> w[k]]
  <2>2. DOMAIN v = 0..n /\ v[0] = x /\ v[n] = w[n] /\ \A k \in 0..n : v[k] = w[k]
    BY <2>1
  <2> HIDE DEF v
  <2>3. Goes(live, v, n)
    <3>1. \A k \in 1..n : k \in 1..(n + 1) /\ v[k] = w[k] /\ v[k - 1] = w[k - 1]
      BY <2>2
    <3> QED
      BY <2>1, <3>1 DEF Goes
  <2>4. w[n] = y \/ Near(live, w[n], y)
    <3>1. n + 1 \in 1..(n + 1) /\ (n + 1) - 1 = n
      OBVIOUS
    <3> QED
      BY <2>1, <3>1 DEF Goes
  <2> QED
    BY <2>2, <2>3, <2>4 DEF Within
<1>4. ASSUME NEW z, Within(live, x, n, z), z = y \/ Near(live, z, y)
      PROVE  Within(live, x, n + 1, y)
  <2>1. PICK w : DOMAIN w = 0..n /\ w[0] = x /\ w[n] = z /\ Goes(live, w, n)
    BY <1>4 DEF Within
  <2> DEFINE v == [k \in 0..(n + 1) |-> IF k = n + 1 THEN y ELSE w[k]]
  <2>2. DOMAIN v = 0..(n + 1) /\ v[0] = x /\ v[n + 1] = y /\ \A k \in 0..n : v[k] = w[k]
    BY <2>1
  <2> HIDE DEF v
  <2>3. Goes(live, v, n + 1)
    <3> SUFFICES ASSUME NEW k \in 1..(n + 1) PROVE v[k] = v[k - 1] \/ Near(live, v[k - 1], v[k])
      BY DEF Goes
    <3>1. CASE k = n + 1
      <4>1. v[k] = y /\ v[k - 1] = z
        BY <2>1, <2>2, <3>1
      <4> QED
        BY <1>4, <4>1
    <3>2. CASE k \in 1..n
      BY <2>1, <2>2, <3>2 DEF Goes
    <3> QED
      BY <3>1, <3>2
  <2> QED
    BY <2>2, <2>3 DEF Within
<1> QED
  BY <1>1, <1>2, <1>3, <1>4

(* There is a way back.                                                    *)
LEMMA WithinBack ==
  ASSUME NEW live, NEW x, NEW n \in Nat, NEW y, Within(live, x, n, y)
  PROVE  Within(live, y, n, x)
<1>1. PICK w : DOMAIN w = 0..n /\ w[0] = x /\ w[n] = y /\ Goes(live, w, n)
  BY DEF Within
<1> DEFINE v == [k \in 0..n |-> w[n - k]]
<1>2. DOMAIN v = 0..n /\ v[0] = y /\ v[n] = x /\ \A k \in 0..n : v[k] = w[n - k]
  BY <1>1
<1> HIDE DEF v
<1>3. \A a, b : Near(live, a, b) => Near(live, b, a)
  BY DEF Near
<1>4. Goes(live, v, n)
  <2> SUFFICES ASSUME NEW k \in 1..n PROVE v[k] = v[k - 1] \/ Near(live, v[k - 1], v[k])
    BY DEF Goes
  <2> DEFINE j == n - k + 1
  <2>1. j \in 1..n /\ v[k] = w[j - 1] /\ v[k - 1] = w[j]
    BY <1>2
  <2> HIDE DEF j
  <2> QED
    BY <1>1, <1>3, <2>1 DEF Goes
<1> QED
  BY <1>2, <1>4 DEF Within

(* Who is within n links is within more.                                   *)
LEMMA WithinMore ==
  ASSUME NEW live, NEW x, NEW n \in Nat, NEW m \in Nat, n <= m, NEW y, Within(live, x, n, y)
  PROVE  Within(live, x, m, y)
<1> DEFINE N == {d \in Nat : Within(live, x, n + d, y)}
<1>1. 0 \in N
  OBVIOUS
<1>2. ASSUME NEW d \in Nat, d \in N PROVE d + 1 \in N
  <2>1. n + d \in Nat /\ (n + d) + 1 = n + (d + 1)
    OBVIOUS
  <2> QED
    BY <1>2, <2>1, OneLinkFurther
<1> HIDE DEF N
<1>3. m - n \in N
  BY <1>1, <1>2, NatSetInduction
<1> QED
  BY <1>3 DEF N

(* Ball, the nodes within n links.                                         *)
LEMMA BallIs ==
  ASSUME NEW live, Sound(live), NEW x, NEW n \in 0..Rounds(live), Rounds(live) \in Nat
  PROVE  \A y : y \in Ball(live, x)[n] <=> Within(live, x, n, y)
<1> DEFINE last == Rounds(live)
           Wider(S) == S \cup UNION {{l.source, l.target} : l \in {v \in live : {v.source, v.target} \cap S # {}}}
           Solves(f, m) == \A k \in 0..m : f[k] = IF k = 0 THEN {x} ELSE Wider(f[k - 1])
           N == {m \in Nat : \E f : Solves(f, m)}
           Made(f) == f = [k \in 0..last |-> IF k = 0 THEN {x} ELSE Wider(f[k - 1])]
           ball == CHOOSE f : Made(f)
<1>1. Ball(live, x) = ball
  BY Zenon DEF Ball
<1>2. ASSUME NEW S, NEW y
      PROVE  y \in Wider(S) <=> \E z \in S : z = y \/ Near(live, z, y)
  <2>1. ASSUME y \in Wider(S) PROVE \E z \in S : z = y \/ Near(live, z, y)
    <3>1. CASE y \in S
      BY <3>1
    <3>2. CASE y \notin S
      <4>1. PICK l \in live : {l.source, l.target} \cap S # {} /\ y \in {l.source, l.target}
        BY <2>1, <3>2
      <4>2. PICK z \in S : z \in {l.source, l.target}
        BY <4>1
      <4>3. {l.source, l.target} = {z, y}
        BY <3>2, <4>1, <4>2
      <4> QED
        BY <4>2, <4>3 DEF Near
    <3> QED
      BY <3>1, <3>2
  <2>2. ASSUME NEW z \in S, Near(live, z, y) PROVE y \in Wider(S)
    <3>1. PICK l \in live : {l.source, l.target} = {z, y}
      BY <2>2 DEF Near
    <3>2. l \in {v \in live : {v.source, v.target} \cap S # {}} /\ y \in {l.source, l.target}
      BY <3>1
    <3> QED
      BY <3>2
  <2> QED
    BY <2>1, <2>2
<1> HIDE DEF Wider, last
<1>3. 0 \in N
  <2> DEFINE f == [k \in 0..0 |-> {x}]
  <2>1. Solves(f, 0)
    OBVIOUS
  <2> HIDE DEF f, Solves
  <2> QED
    BY <2>1
<1>4. ASSUME NEW m \in Nat, m \in N PROVE m + 1 \in N
  <2>1. PICK f : Solves(f, m)
    BY <1>4
  <2> DEFINE g == [k \in 0..(m + 1) |-> IF k = m + 1 THEN Wider(f[m]) ELSE f[k]]
  <2>2. \A k \in 0..m : g[k] = f[k]
    OBVIOUS
  <2>3. g[m + 1] = Wider(f[m])
    OBVIOUS
  <2> HIDE DEF g
  <2>4. ASSUME NEW k \in 0..(m + 1) PROVE g[k] = IF k = 0 THEN {x} ELSE Wider(g[k - 1])
    <3>1. CASE k = m + 1
      <4>1. k # 0 /\ k - 1 = m /\ m \in 0..m
        BY <3>1
      <4> QED
        BY <2>2, <2>3, <3>1, <4>1
    <3>2. CASE k \in 0..m
      <4>1. g[k] = f[k] /\ f[k] = IF k = 0 THEN {x} ELSE Wider(f[k - 1])
        BY <2>1, <2>2, <3>2
      <4>2. k # 0 => g[k - 1] = f[k - 1]
        BY <2>2, <3>2
      <4> QED
        BY <4>1, <4>2
    <3> QED
      BY <3>1, <3>2
  <2>5. Solves(g, m + 1)
    BY <2>4
  <2> HIDE DEF Solves
  <2> QED
    BY <2>5
<1>5. last \in Nat
  BY DEF last
<1>6. \E f : Solves(f, last)
  <2>1. last \in N
    <3> HIDE DEF N
    <3> QED
      BY <1>3, <1>4, <1>5, NatSetInduction
  <2> HIDE DEF Solves
  <2> QED
    BY <2>1
<1>7. Made(ball)
  <2>1. PICK f : Solves(f, last)
    BY <1>6
  <2> DEFINE g == [k \in 0..last |-> f[k]]
  <2>2. \A k \in 0..last : g[k] = f[k]
    OBVIOUS
  <2>3. \A k \in 0..last : k # 0 => g[k - 1] = f[k - 1]
    BY <1>5, <2>2
  <2>4. g = [k \in 0..last |-> g[k]]
    OBVIOUS
  <2> HIDE DEF g
  <2>5. \A k \in 0..last : g[k] = IF k = 0 THEN {x} ELSE Wider(g[k - 1])
    BY <2>1, <2>2, <2>3
  <2>6. Made(g)
    BY <2>4, <2>5
  <2> HIDE DEF Made
  <2> QED
    BY <2>6
<1>8. \A k \in 0..last : ball[k] = IF k = 0 THEN {x} ELSE Wider(ball[k - 1])
  <2> HIDE DEF ball
  <2> QED
    BY <1>7
<1> HIDE DEF ball, Made
<1> DEFINE W == {k \in Nat : k \in 0..last => \A y : y \in ball[k] <=> Within(live, x, k, y)}
<1>9. 0 \in W
  <2>1. 0 \in 0..last
    BY <1>5
  <2>2. ball[0] = {x}
    BY <1>8, <2>1
  <2>3. \A y : Within(live, x, 0, y) <=> x = y
    BY OneLinkFurther
  <2> QED
    BY <2>2, <2>3
<1>10. ASSUME NEW k \in Nat, k \in W PROVE k + 1 \in W
  <2> SUFFICES ASSUME k + 1 \in 0..last PROVE \A y : y \in ball[k + 1] <=> Within(live, x, k + 1, y)
    OBVIOUS
  <2>1. ball[k + 1] = Wider(ball[k])
    <3>1. k + 1 # 0 /\ (k + 1) - 1 = k
      OBVIOUS
    <3> QED
      BY <1>8, <3>1
  <2>2. k \in 0..last
    BY <1>5
  <2>3. \A y : y \in ball[k] <=> Within(live, x, k, y)
    BY <1>10, <2>2
  <2> SUFFICES ASSUME NEW y PROVE y \in ball[k + 1] <=> Within(live, x, k + 1, y)
    OBVIOUS
  <2>4. Within(live, x, k + 1, y) <=> \E z : Within(live, x, k, z) /\ (z = y \/ Near(live, z, y))
    BY OneLinkFurther
  <2> QED
    BY <1>2, <2>1, <2>3, <2>4
<1> HIDE DEF W
<1>11. n \in W
  BY <1>9, <1>10, NatSetInduction DEF last
<1> QED
  BY <1>1, <1>11 DEF W, last

(* A walk takes one link after the other, and leads over these paths.      *)
IsWalk(live, source, link, via, n) ==
  /\ n \in Nat /\ via[0] = Start(source)
  /\ \A k \in 1..n : /\ link[k] \in live
                     /\ via[k - 1].node \in {link[k].source, link[k].target}
                     /\ via[k] = Extended(via[k - 1], Edge(link[k], via[k - 1].node))

PathTo(live, source, p) ==
  \E link, via : IsWalk(live, source, link, via, Len(p.ids)) /\ via[Len(p.ids)] = p

(* What the paths of a walk are: each has the ids of the links so far.     *)
SoFar(path, link, k) ==
  /\ IsList(path.ids) /\ Len(path.ids) = k /\ path.motion \in Motions
  /\ \A i \in 1..k : path.ids[i] = link[i].id

(* And how one link changes it.                                            *)
OneLinkMore(l, before, after) ==
  /\ {l.source, l.target} = {before.node, after.node} /\ after.node # before.node
  /\ Edge(l, before.node).motion \in Motions
  /\ after.motion = Then(before.motion, Edge(l, before.node).motion)
  /\ after.from = IF before.ids = << >> THEN l.from ELSE Later(before.from, l.from)
  /\ after.until = IF before.ids = << >> THEN l.until ELSE Earlier(before.until, l.until)

(* This is what a walk does, link by link.                                 *)
LEMMA WalkFacts ==
  ASSUME NEW live, Sound(live), NEW source, NEW link, NEW via, NEW n,
         IsWalk(live, source, link, via, n)
  PROVE  /\ \A k \in 0..n : SoFar(via[k], link, k)
         /\ \A k \in 1..n : OneLinkMore(link[k], via[k - 1], via[k])
<1>1. n \in Nat /\ via[0] = Start(source)
  BY DEF IsWalk
<1>2. ASSUME NEW k \in 1..n
      PROVE  LET e == Edge(link[k], via[k - 1].node)
             IN  /\ link[k] \in live /\ via[k - 1].node \in {link[k].source, link[k].target}
                 /\ via[k].node = e.to /\ via[k].motion = Then(via[k - 1].motion, e.motion)
                 /\ via[k].ids = Append(via[k - 1].ids, e.id)
                 /\ via[k].from = IF via[k - 1].ids = << >> THEN e.from
                                  ELSE Later(via[k - 1].from, e.from)
                 /\ via[k].until = IF via[k - 1].ids = << >> THEN e.until
                                   ELSE Earlier(via[k - 1].until, e.until)
  <2>1. /\ link[k] \in live /\ via[k - 1].node \in {link[k].source, link[k].target}
        /\ via[k] = Extended(via[k - 1], Edge(link[k], via[k - 1].node))
    BY DEF IsWalk
  <2> QED
    BY <2>1 DEF Extended
<1>3. ASSUME NEW k \in 1..n
      PROVE  LET e == Edge(link[k], via[k - 1].node)
             IN  /\ {link[k].source, link[k].target} = {via[k - 1].node, e.to}
                 /\ e.to # via[k - 1].node /\ e.id = link[k].id /\ e.motion \in Motions
                 /\ e.from = link[k].from /\ e.until = link[k].until
  <2> DEFINE l == link[k]
             x == via[k - 1].node
  <2>1. l \in live /\ x \in {l.source, l.target}
    BY <1>2
  <2> HIDE DEF l, x
  <2>2. /\ {l.source, l.target} = {x, Edge(l, x).to}
        /\ Edge(l, x).to # x /\ Edge(l, x).id = l.id
        /\ Edge(l, x).from = l.from /\ Edge(l, x).until = l.until
        /\ Edge(l, x).motion \in Motions
    BY <2>1, EdgeLeads
  <2> QED
    BY <2>2 DEF l, x
<1> DEFINE OK(k) == /\ IsList(via[k].ids) /\ Len(via[k].ids) = k /\ via[k].motion \in Motions
                    /\ \A i \in 1..k : via[k].ids[i] = link[i].id
           W == {k \in Nat : k \in 0..n => OK(k)}
<1>4. 0 \in W
  <2>1. via[0].ids = << >> /\ via[0].motion = Still
    BY <1>1 DEF Start
  <2>2. Still \in Motions
    BY DEF Still, Motions
  <2> QED
    BY <2>1, <2>2, EmptyList
<1>5. ASSUME NEW k \in Nat, k \in W PROVE k + 1 \in W
  <2> SUFFICES ASSUME k + 1 \in 0..n PROVE OK(k + 1)
    OBVIOUS
  <2>1. k \in 0..n /\ k + 1 \in 1..n /\ (k + 1) - 1 = k
    BY <1>1
  <2>2. OK(k)
    BY <1>5, <2>1
  <2> DEFINE e == Edge(link[k + 1], via[k].node)
  <2>3. /\ via[k + 1].motion = Then(via[k].motion, e.motion)
        /\ via[k + 1].ids = Append(via[k].ids, e.id) /\ e.id = link[k + 1].id /\ e.motion \in Motions
    BY <1>2, <1>3, <2>1
  <2> HIDE DEF e
  <2>4. via[k + 1].motion \in Motions
    <3>1. <<0, 0>> \in Int \X Int
      OBVIOUS
    <3> QED
      BY <2>2, <2>3, <3>1, MotionsCompose
  <2>5. /\ IsList(via[k + 1].ids) /\ Len(via[k + 1].ids) = k + 1
        /\ \A i \in 1..k : via[k + 1].ids[i] = via[k].ids[i]
        /\ via[k + 1].ids[k + 1] = e.id
    BY <2>2, <2>3, AppendFacts
  <2>6. \A i \in 1..(k + 1) : i \in 1..k \/ i = k + 1
    OBVIOUS
  <2>7. \A i \in 1..(k + 1) : via[k + 1].ids[i] = link[i].id
    BY <2>2, <2>3, <2>5, <2>6
  <2> QED
    BY <2>4, <2>5, <2>7
<1> HIDE DEF W, OK
<1>6. \A k \in 0..n : OK(k)
  <2>1. Nat \subseteq W
    BY <1>4, <1>5, NatSetInduction
  <2> QED
    BY <1>1, <2>1 DEF W
<1>7. ASSUME NEW k \in 1..n PROVE OneLinkMore(link[k], via[k - 1], via[k])
  BY <1>2, <1>3 DEF OneLinkMore
<1> QED
  BY <1>6, <1>7 DEF OK, SoFar

(* The path that leads nowhere is one.                                     *)
LEMMA ShortestWalk ==
  ASSUME NEW live, NEW source
  PROVE  PathTo(live, source, Start(source)) /\ Len(Start(source).ids) = 0
<1> DEFINE via == [k \in 0..0 |-> Start(source)]
<1>1. Len(Start(source).ids) = 0
  BY EmptyList DEF Start
<1>2. via[0] = Start(source)
  OBVIOUS
<1> HIDE DEF via
<1>3. \A link : IsWalk(live, source, link, via, 0)
  BY <1>2 DEF IsWalk
<1> QED
  BY <1>1, <1>2, <1>3 DEF PathTo

(* And so is a path that goes one link further.                            *)
LEMMA LongerPath ==
  ASSUME NEW live, Sound(live), NEW source, NEW p, PathTo(live, source, p),
         NEW l \in live, p.node \in {l.source, l.target}
  PROVE  LET q == Extended(p, Edge(l, p.node))
         IN  PathTo(live, source, q) /\ Len(q.ids) = Len(p.ids) + 1 /\ q.node = Edge(l, p.node).to
<1> DEFINE q == Extended(p, Edge(l, p.node))
           n == Len(p.ids)
<1>1. PICK link, via : IsWalk(live, source, link, via, n) /\ via[n] = p
  BY DEF PathTo
<1>2. n \in Nat /\ IsList(p.ids)
  <2>1. n \in Nat /\ n \in 0..n
    BY <1>1 DEF IsWalk
  <2>2. SoFar(via[n], link, n)
    BY <1>1, <2>1, WalkFacts
  <2> QED
    BY <1>1, <2>1, <2>2 DEF SoFar
<1>3. q.ids = Append(p.ids, Edge(l, p.node).id) /\ q.node = Edge(l, p.node).to
  BY DEF Extended
<1>4. Len(q.ids) = n + 1
  BY <1>2, <1>3, AppendFacts
<1> HIDE DEF n
<1> DEFINE link2 == [k \in 1..(n + 1) |-> IF k = n + 1 THEN l ELSE link[k]]
           via2 == [k \in 0..(n + 1) |-> IF k = n + 1 THEN q ELSE via[k]]
<1>5. /\ link2[n + 1] = l /\ \A k \in 1..n : link2[k] = link[k]
  BY <1>2
<1>6. via2[n + 1] = q /\ \A k \in 0..n : via2[k] = via[k]
  BY <1>2
<1> HIDE DEF link2, via2
<1>7. IsWalk(live, source, link2, via2, n + 1)
  <2>1. ASSUME NEW k \in 1..(n + 1)
        PROVE  /\ link2[k] \in live
               /\ via2[k - 1].node \in {link2[k].source, link2[k].target}
               /\ via2[k] = Extended(via2[k - 1], Edge(link2[k], via2[k - 1].node))
    <3>1. CASE k = n + 1
      <4>1. via2[k - 1] = p /\ link2[k] = l /\ via2[k] = q
        BY <1>1, <1>2, <1>5, <1>6, <3>1
      <4> QED
        BY <4>1
    <3>2. CASE k \in 1..n
      <4>1. via2[k - 1] = via[k - 1] /\ via2[k] = via[k] /\ link2[k] = link[k]
        BY <1>2, <1>5, <1>6, <3>2
      <4> QED
        BY <1>1, <3>2, <4>1 DEF IsWalk
    <3> QED
      BY <1>2, <3>1, <3>2
  <2>2. via2[0] = Start(source)
    BY <1>1, <1>2, <1>6 DEF IsWalk
  <2> QED
    BY <1>2, <2>1, <2>2 DEF IsWalk
<1> HIDE DEF q
<1>8. PathTo(live, source, q)
  BY <1>4, <1>6, <1>7 DEF PathTo
<1> QED
  BY <1>3, <1>4, <1>8 DEF q, n

(* A path to a node to which none is shorter.                              *)
Nearest(live, source, p) ==
  /\ Within(live, source, Len(p.ids), p.node)
  /\ \A d \in 0..(Len(p.ids) - 1) : ~ Within(live, source, d, p.node)

(* The queue when k paths were taken from it: nearest paths, one to a      *)
(* node, short ones first and the others at most one link longer; and from *)
(* those that were taken it went on to all that is near.                   *)
QueueInv(live, source, k, paths) ==
  /\ IsList(paths) /\ 1 \in DOMAIN paths /\ paths[1] = Start(source)
  /\ \A i \in DOMAIN paths :
       PathTo(live, source, paths[i]) /\ Len(paths[i].ids) < i /\ Nearest(live, source, paths[i])
  /\ \A i, j \in DOMAIN paths : paths[i].node = paths[j].node => i = j
  /\ \A i, j \in DOMAIN paths : i < j => Len(paths[i].ids) <= Len(paths[j].ids)
  /\ \A i, j \in DOMAIN paths : k < i => Len(paths[j].ids) <= Len(paths[i].ids) + 1
  /\ \A i \in DOMAIN paths : i <= k => \A y : Near(live, paths[i].node, y) => y \in Visited(paths)

(* A path has a list of ids, and a motion.                                 *)
LEMMA PathLength ==
  ASSUME NEW live, Sound(live), NEW source, NEW p, PathTo(live, source, p)
  PROVE  Len(p.ids) \in Nat /\ IsList(p.ids) /\ p.motion \in Motions
<1>1. PICK link, via : IsWalk(live, source, link, via, Len(p.ids)) /\ via[Len(p.ids)] = p
  BY DEF PathTo
<1>2. Len(p.ids) \in Nat /\ Len(p.ids) \in 0..Len(p.ids)
  BY <1>1 DEF IsWalk
<1>3. SoFar(via[Len(p.ids)], link, Len(p.ids))
  BY <1>1, <1>2, WalkFacts
<1> QED
  BY <1>1, <1>2, <1>3 DEF SoFar

(* At first there is the path that leads nowhere.                          *)
LEMMA QueueAtFirst ==
  ASSUME NEW live, NEW source
  PROVE  QueueInv(live, source, 0, <<Start(source)>>)
<1> DEFINE paths == <<Start(source)>>
<1>1. IsList(paths) /\ DOMAIN paths = 1..1 /\ paths[1] = Start(source)
  <2>1. \A e : <<e>> \in Seq({e}) /\ Len(<<e>>) = 1 /\ <<e>>[1] = e
    OBVIOUS
  <2> HIDE DEF paths
  <2>2. paths \in Seq({Start(source)}) /\ Len(paths) = 1 /\ paths[1] = Start(source)
    BY <2>1 DEF paths
  <2>3. IsList(paths)
    BY <2>2 DEF IsList
  <2> QED
    BY <2>2, <2>3, ListFacts
<1>2. PathTo(live, source, Start(source)) /\ Len(Start(source).ids) = 0
  BY ShortestWalk
<1>3. Nearest(live, source, Start(source))
  <2>1. Within(live, source, 0, source)
    BY OneLinkFurther
  <2> QED
    BY <1>2, <2>1 DEF Nearest, Start
<1> HIDE DEF paths
<1>4. \A i \in DOMAIN paths : i = 1
  BY <1>1
<1> QED
  BY <1>1, <1>2, <1>3, <1>4 DEF QueueInv, paths

(* As long as all that wait are so far away, all that is nearer is there.  *)
LEMMA LevelsAreVisited ==
  ASSUME NEW live, Sound(live), NEW source, NEW k \in Nat, NEW paths,
         QueueInv(live, source, k, paths), NEW d \in Nat,
         \A i \in DOMAIN paths : k < i => d <= Len(paths[i].ids)
  PROVE  \A y : Within(live, source, d, y) => y \in Visited(paths)
<1> DEFINE W == {n \in Nat : n <= d => \A y : Within(live, source, n, y) => y \in Visited(paths)}
<1>1. /\ \A i \in DOMAIN paths :
           /\ Len(paths[i].ids) \in Nat /\ Nearest(live, source, paths[i])
           /\ i <= k => \A y : Near(live, paths[i].node, y) => y \in Visited(paths)
      /\ 1 \in DOMAIN paths /\ paths[1] = Start(source) /\ DOMAIN paths \subseteq Nat
  BY PathLength, ListFacts DEF QueueInv
<1>2. 0 \in W
  <2>1. source \in Visited(paths)
    BY <1>1 DEF Visited, ToSet, Start
  <2>2. \A y : Within(live, source, 0, y) <=> source = y
    BY OneLinkFurther
  <2> QED
    BY <2>1, <2>2
<1>3. ASSUME NEW n \in Nat, n \in W PROVE n + 1 \in W
  <2> SUFFICES ASSUME n + 1 <= d, NEW y, Within(live, source, n + 1, y) PROVE y \in Visited(paths)
    OBVIOUS
  <2>1. PICK z : Within(live, source, n, z) /\ (z = y \/ Near(live, z, y))
    BY OneLinkFurther
  <2>2. z \in Visited(paths)
    BY <1>3, <2>1
  <2>3. PICK i \in DOMAIN paths : paths[i].node = z
    BY <2>2 DEF Visited, ToSet
  <2>4. i <= k
    <3> SUFFICES ASSUME k < i PROVE FALSE
      BY <1>1
    <3>1. n + 1 <= Len(paths[i].ids) /\ Len(paths[i].ids) \in Nat
      BY <1>1
    <3>2. n \in 0..(Len(paths[i].ids) - 1)
      BY <3>1
    <3> QED
      BY <1>1, <2>1, <2>3, <3>2 DEF Nearest
  <2> QED
    BY <1>1, <2>1, <2>2, <2>3, <2>4
<1> HIDE DEF W
<1>4. d \in W
  BY <1>2, <1>3, NatSetInduction
<1> QED
  BY <1>4 DEF W

(* Where the search goes on: over one link to each node that is new.       *)
LEMMA OnwardsFacts ==
  ASSUME NEW live, Sound(live), NEW paths, NEW path
  PROVE  LET more == Onwards(live, paths, path)
         IN  /\ IsList(more)
             /\ \A i \in DOMAIN more :
                  /\ more[i].node \notin Visited(paths)
                  /\ \E l \in live : /\ path.node \in {l.source, l.target}
                                     /\ more[i] = Extended(path, Edge(l, path.node))
             /\ \A i, j \in DOMAIN more : more[i].node = more[j].node => i = j
             /\ \A y : Near(live, path.node, y) =>
                  y \in Visited(paths) \/ \E i \in DOMAIN more : more[i].node = y
<1> DEFINE x == path.node
           new == Neighbours(live, x) \ Visited(paths)
           rank == [n \in new |-> <<n, 0>>]
           order == InOrder(new, rank)
           more == Onwards(live, paths, path)
<1>1. /\ \A y : y \in Neighbours(live, x) <=> Near(live, x, y)
      /\ \A y \in Neighbours(live, x) :
           \E l \in live : /\ x \in {l.source, l.target} /\ EdgeTo(live, x, y) = Edge(l, x)
                           /\ Edge(l, x).to = y
  BY EdgesLead
<1>2. \A y \in new : y \in Int
  BY <1>1, EdgeLeads
<1>3. IsFiniteSet(new)
  <2> DEFINE ends == {l \in live : x \in {l.source, l.target}}
             to == [l \in live |-> Edge(l, x).to]
  <2>1. IsFiniteSet(ends)
    BY FS_Subset DEF Sound
  <2>2. \A y \in new : y \in {to[l] : l \in ends}
    BY <1>1
  <2> HIDE DEF ends, to, new
  <2>3. IsFiniteSet({to[l] : l \in ends})
    BY <2>1, ImageIsFinite
  <2>4. new \in SUBSET {to[l] : l \in ends}
    BY <2>2
  <2> QED
    BY <2>3, <2>4, FS_Subset
<1>4. more = [i \in DOMAIN order |-> Extended(path, EdgeTo(live, x, order[i]))]
  BY DEF Onwards
<1>5. /\ \A n \in new : rank[n][1] = n /\ rank[n][2] = 0
  OBVIOUS
<1> HIDE DEF new, rank
<1>6. /\ Cardinality(new) \in Nat /\ DOMAIN order = 1..Cardinality(new)
      /\ \A i \in DOMAIN order : order[i] \in new
      /\ \A n \in new : \E i \in DOMAIN order : order[i] = n
      /\ \A i, j \in DOMAIN order : i < j <=> Precedes(rank[order[i]], rank[order[j]])
  <2>1. /\ \A n \in new : rank[n][1] \in Int /\ rank[n][2] \in Int
        /\ \A m, n \in new : rank[m][1] = rank[n][1] /\ rank[m][2] = rank[n][2] => m = n
    BY <1>2, <1>5
  <2> QED
    BY <1>3, <2>1, InOrderFacts
<1> HIDE DEF order
<1>7. ASSUME NEW i \in DOMAIN order
      PROVE  /\ more[i].node = order[i]
             /\ \E l \in live : /\ x \in {l.source, l.target} /\ more[i] = Extended(path, Edge(l, x))
  <2>1. PICK l \in live : /\ x \in {l.source, l.target}
                          /\ EdgeTo(live, x, order[i]) = Edge(l, x) /\ Edge(l, x).to = order[i]
    BY <1>1, <1>6 DEF new
  <2>2. more[i] = Extended(path, Edge(l, x))
    BY <1>4, <2>1
  <2>3. more[i].node = Edge(l, x).to
    BY <2>2 DEF Extended
  <2> QED
    BY <2>1, <2>2, <2>3
<1>8. DOMAIN more = 1..Cardinality(new) /\ DOMAIN more = DOMAIN order
  BY <1>4, <1>6
<1>9. IsList(more)
  <2>1. more = [i \in 1..Cardinality(new) |-> more[i]]
    BY <1>4, <1>6
  <2> HIDE DEF more
  <2> QED
    BY <1>6, <1>8, <2>1, FunctionIsList
<1> HIDE DEF more
<1>10. ASSUME NEW i \in DOMAIN more, NEW j \in DOMAIN more, more[i].node = more[j].node PROVE i = j
  <2>1. order[i] = order[j] /\ i \in Nat /\ j \in Nat
    BY <1>6, <1>7, <1>8, <1>10
  <2>2. ~ Precedes(rank[order[i]], rank[order[i]])
    BY <1>2, <1>5, <1>6, <1>8 DEF Precedes
  <2>3. ~ (i < j) /\ ~ (j < i)
    BY <1>6, <1>8, <2>1, <2>2
  <2> QED
    BY <2>1, <2>3
<1>11. ASSUME NEW y, Near(live, x, y), y \notin Visited(paths)
       PROVE  \E i \in DOMAIN more : more[i].node = y
  <2>1. y \in new
    BY <1>1, <1>11 DEF new
  <2> QED
    BY <1>6, <1>7, <1>8, <2>1
<1>12. \A i \in DOMAIN more : more[i].node \notin Visited(paths)
  BY <1>6, <1>7, <1>8 DEF new
<1> QED
  BY <1>7, <1>8, <1>9, <1>10, <1>11, <1>12 DEF more, x

(* Whose paths are in the queue, taken from it or waiting.                 *)
LEMMA WhoIsVisited ==
  ASSUME NEW s PROVE \A y : y \in Visited(s) <=> \E i \in DOMAIN s : s[i].node = y
BY DEF Visited, ToSet

(* The paths that go on from the one that is taken keep the queue as it is *)
(* to be.                                                                  *)
LEMMA NextRound ==
  ASSUME NEW live, Sound(live), NEW source, NEW k \in Nat, NEW paths,
         QueueInv(live, source, k, paths), k + 1 \in DOMAIN paths
  PROVE  QueueInv(live, source, k + 1, paths \o Onwards(live, paths, paths[k + 1]))
<1> DEFINE p == paths[k + 1]
           L == Len(p.ids)
           n == Len(paths)
           more == Onwards(live, paths, p)
           m == Len(more)
           all == paths \o more
<1>1. /\ IsList(paths) /\ n \in Nat /\ DOMAIN paths = 1..n /\ k + 1 <= n
      /\ \A i \in 1..n : /\ PathTo(live, source, paths[i]) /\ Len(paths[i].ids) < i
                         /\ Nearest(live, source, paths[i]) /\ Len(paths[i].ids) \in Nat
  BY ListFacts, PathLength DEF QueueInv
<1>2. /\ IsList(more)
      /\ \A i \in DOMAIN more :
           /\ more[i].node \notin Visited(paths)
           /\ \E l \in live : p.node \in {l.source, l.target} /\ more[i] = Extended(p, Edge(l, p.node))
      /\ \A i, j \in DOMAIN more : more[i].node = more[j].node => i = j
      /\ \A y : Near(live, p.node, y) => y \in Visited(paths) \/ \E i \in DOMAIN more : more[i].node = y
  <2> HIDE DEF p
  <2> QED
    BY OnwardsFacts
<1>3. PathTo(live, source, p) /\ Nearest(live, source, p) /\ L \in Nat /\ L < k + 1
  BY <1>1
<1> HIDE DEF p, more, n
<1>4. m \in Nat /\ DOMAIN more = 1..m
  BY <1>2, ListFacts
<1>5. /\ IsList(all) /\ DOMAIN all = 1..(n + m)
      /\ \A i \in 1..n : all[i] = paths[i]
      /\ \A i \in 1..m : all[n + i] = more[i]
  BY <1>1, <1>2, ConcatFacts DEF n
<1> HIDE DEF all, m
<1>6. ASSUME NEW i \in DOMAIN all
      PROVE  \/ i \in 1..n /\ all[i] = paths[i]
             \/ \E j \in 1..m : i = n + j /\ all[i] = more[j]
  <2>1. CASE i \in 1..n
    BY <1>5, <2>1
  <2>2. CASE i \notin 1..n
    <3>1. i - n \in 1..m /\ i = n + (i - n)
      BY <1>1, <1>4, <1>5, <2>2
    <3> QED
      BY <1>5, <3>1
  <2> QED
    BY <2>1, <2>2
<1>7. \A y : Within(live, source, L, y) => y \in Visited(paths)
  <2>1. \A i \in DOMAIN paths : k < i => L <= Len(paths[i].ids)
    <3> SUFFICES ASSUME NEW i \in DOMAIN paths, k < i PROVE L <= Len(paths[i].ids)
      OBVIOUS
    <3>1. CASE i = k + 1
      BY <1>3, <3>1 DEF p
    <3>2. CASE k + 1 < i
      BY <3>2 DEF QueueInv, p
    <3> QED
      BY <1>1, <3>1, <3>2
  <2> HIDE DEF L
  <2> QED
    BY <1>3, <2>1, LevelsAreVisited
<1>8. ASSUME NEW j \in 1..m
      PROVE  /\ PathTo(live, source, more[j]) /\ Len(more[j].ids) = L + 1
             /\ Nearest(live, source, more[j]) /\ more[j].node \notin Visited(paths)
  <2>1. PICK l \in live : p.node \in {l.source, l.target} /\ more[j] = Extended(p, Edge(l, p.node))
    BY <1>2, <1>4
  <2>2. /\ PathTo(live, source, more[j]) /\ Len(more[j].ids) = L + 1
        /\ more[j].node = Edge(l, p.node).to
    BY <1>3, <2>1, LongerPath
  <2> DEFINE y == more[j].node
  <2>3. Near(live, p.node, y)
    BY <2>1, <2>2, EdgeLeads DEF Near
  <2>4. y \notin Visited(paths)
    BY <1>2, <1>4
  <2> HIDE DEF y, L
  <2>5. Within(live, source, L, p.node)
    BY <1>3 DEF Nearest, L
  <2>6. Within(live, source, L + 1, y)
    BY <1>3, <2>3, <2>5, OneLinkFurther
  <2>7. ASSUME NEW d \in 0..L PROVE ~ Within(live, source, d, y)
    BY <1>3, <1>7, <2>4, WithinMore
  <2>8. Nearest(live, source, more[j])
    BY <1>3, <2>2, <2>6, <2>7 DEF Nearest, y
  <2> QED
    BY <2>2, <2>4, <2>8 DEF y
<1> HIDE DEF L
<1>9. ASSUME NEW i \in DOMAIN all
      PROVE  /\ PathTo(live, source, all[i]) /\ Len(all[i].ids) < i /\ Nearest(live, source, all[i])
             /\ Len(all[i].ids) \in Nat
  <2>1. CASE i \in 1..n /\ all[i] = paths[i]
    BY <1>1, <2>1
  <2>2. CASE \E j \in 1..m : i = n + j /\ all[i] = more[j]
    <3>1. PICK j \in 1..m : i = n + j /\ all[i] = more[j]
      BY <2>2
    <3> QED
      BY <1>1, <1>3, <1>4, <1>8, <3>1
  <2> QED
    BY <1>6, <2>1, <2>2
<1>10. ASSUME NEW i \in 1..n
       PROVE  Len(paths[i].ids) <= L + 1 /\ (k + 1 < i => L <= Len(paths[i].ids))
  <2>1. /\ \A a, b \in 1..n : a < b => Len(paths[a].ids) <= Len(paths[b].ids)
        /\ \A a, b \in 1..n : k < a => Len(paths[b].ids) <= Len(paths[a].ids) + 1
    BY <1>1 DEF QueueInv
  <2>2. k + 1 \in 1..n /\ k < k + 1
    BY <1>1
  <2> QED
    BY <2>1, <2>2 DEF L, p
<1>11. ASSUME NEW i \in DOMAIN all, NEW j \in DOMAIN all
       PROVE  /\ all[i].node = all[j].node => i = j
              /\ i < j => Len(all[i].ids) <= Len(all[j].ids)
              /\ k + 1 < i => Len(all[j].ids) <= Len(all[i].ids) + 1
  <2>1. CASE i \in 1..n /\ all[i] = paths[i]
    <3>1. CASE j \in 1..n /\ all[j] = paths[j]
      BY <1>1, <2>1, <3>1 DEF QueueInv
    <3>2. CASE \E u \in 1..m : j = n + u /\ all[j] = more[u]
      <4>1. PICK u \in 1..m : j = n + u /\ all[j] = more[u]
        BY <3>2
      <4>2. Len(all[j].ids) = L + 1 /\ all[j].node \notin Visited(paths)
        BY <1>8, <4>1
      <4>3. all[i].node \in Visited(paths)
        BY <1>1, <2>1, WhoIsVisited
      <4>4. Len(paths[i].ids) <= L + 1 /\ (k + 1 < i => L <= Len(paths[i].ids))
        BY <1>10, <2>1
      <4> QED
        BY <1>1, <1>3, <2>1, <4>2, <4>3, <4>4
    <3> QED
      BY <1>6, <3>1, <3>2
  <2>2. CASE \E v \in 1..m : i = n + v /\ all[i] = more[v]
    <3>0. PICK v \in 1..m : i = n + v /\ all[i] = more[v]
      BY <2>2
    <3>a. Len(all[i].ids) = L + 1 /\ all[i].node \notin Visited(paths)
      BY <1>8, <3>0
    <3>1. CASE j \in 1..n /\ all[j] = paths[j]
      <4>1. all[j].node \in Visited(paths)
        BY <1>1, <3>1, WhoIsVisited
      <4>2. Len(paths[j].ids) <= L + 1
        BY <1>10, <3>1
      <4>3. ~ (i < j)
        BY <1>1, <1>4, <3>0, <3>1
      <4> QED
        BY <1>1, <1>3, <3>1, <3>a, <4>1, <4>2, <4>3
    <3>2. CASE \E u \in 1..m : j = n + u /\ all[j] = more[u]
      <4>1. PICK u \in 1..m : j = n + u /\ all[j] = more[u]
        BY <3>2
      <4>2. Len(all[j].ids) = L + 1
        BY <1>8, <4>1
      <4>3. all[i].node = all[j].node => v = u
        BY <1>2, <1>4, <3>0, <4>1
      <4> QED
        BY <1>3, <3>0, <3>a, <4>1, <4>2, <4>3
    <3> QED
      BY <1>6, <3>1, <3>2
  <2> QED
    BY <1>6, <2>1, <2>2
<1>12. ASSUME NEW i \in DOMAIN all, i <= k + 1, NEW y, Near(live, all[i].node, y)
       PROVE  y \in Visited(all)
  <2>1. i \in 1..n /\ all[i] = paths[i]
    BY <1>1, <1>5, <1>12
  <2>2. ASSUME y \in Visited(paths) PROVE y \in Visited(all)
    <3>1. PICK u \in DOMAIN paths : paths[u].node = y
      BY <2>2, WhoIsVisited
    <3>2. u \in DOMAIN all /\ all[u] = paths[u]
      BY <1>1, <1>4, <1>5
    <3> QED
      BY <3>1, <3>2, WhoIsVisited
  <2>3. CASE i <= k
    <3>1. y \in Visited(paths)
      BY <1>1, <1>12, <2>1, <2>3 DEF QueueInv
    <3> QED
      BY <2>2, <3>1
  <2>4. CASE i = k + 1
    <3>1. all[i] = p
      BY <2>1, <2>4 DEF p
    <3>2. y \in Visited(paths) \/ \E u \in DOMAIN more : more[u].node = y
      BY <1>2, <1>12, <3>1
    <3>3. ASSUME NEW u \in DOMAIN more, more[u].node = y PROVE y \in Visited(all)
      <4>1. n + u \in DOMAIN all /\ all[n + u] = more[u]
        BY <1>1, <1>4, <1>5
      <4> QED
        BY <3>3, <4>1, WhoIsVisited
    <3> QED
      BY <2>2, <3>2, <3>3
  <2> QED
    BY <1>1, <1>5, <1>12, <2>3, <2>4
<1>13. 1 \in DOMAIN all /\ all[1] = Start(source)
  BY <1>1, <1>4, <1>5 DEF QueueInv
<1>14. QueueInv(live, source, k + 1, all)
  BY <1>5, <1>9, <1>11, <1>12, <1>13 DEF QueueInv
<1> QED
  BY <1>14 DEF all, more, p

(* The paths of the queue are to different ends of links, so there are no  *)
(* more of them than rounds.                                               *)
LEMMA QueueSize ==
  ASSUME NEW live, Sound(live), NEW source, NEW k, NEW paths, QueueInv(live, source, k, paths)
  PROVE  Rounds(live) \in Nat /\ Len(paths) <= Rounds(live)
<1> DEFINE ends == {l.source : l \in live} \cup {l.target : l \in live}
           n == Len(paths)
<1>1. IsFiniteSet(ends)
  <2> DEFINE sourceOf == [l \in live |-> l.source]
             targetOf == [l \in live |-> l.target]
  <2>1. IsFiniteSet(live)
    BY DEF Sound
  <2>2. ends = {sourceOf[l] : l \in live} \cup {targetOf[l] : l \in live}
    OBVIOUS
  <2> HIDE DEF sourceOf, targetOf, ends
  <2>3. IsFiniteSet({sourceOf[l] : l \in live}) /\ IsFiniteSet({targetOf[l] : l \in live})
    BY <2>1, ImageIsFinite
  <2> QED
    BY <2>2, <2>3, FS_Union
<1>2. Rounds(live) = Cardinality(ends) + 1
  BY DEF Rounds
<1>3. \A l \in live : l.source \in ends /\ l.target \in ends
  OBVIOUS
<1> HIDE DEF ends
<1>4. Cardinality(ends) \in Nat
  BY <1>1, FS_CardinalityType
<1> DEFINE all == ends \cup {source}
<1>5. IsFiniteSet(all) /\ Cardinality(all) \in Nat /\ Cardinality(all) <= Rounds(live)
  <2>1. /\ IsFiniteSet(all)
        /\ Cardinality(all) = IF source \in ends THEN Cardinality(ends) ELSE Cardinality(ends) + 1
    BY <1>1, FS_AddElement
  <2> HIDE DEF all
  <2> QED
    BY <1>2, <1>4, <2>1
<1>6. n \in Nat /\ DOMAIN paths = 1..n
  BY ListFacts DEF QueueInv
<1> HIDE DEF n
<1>7. ASSUME NEW i \in 1..n PROVE paths[i].node \in all
  <2>1. PathTo(live, source, paths[i])
    BY <1>6 DEF QueueInv
  <2> DEFINE p == paths[i]
             d == Len(p.ids)
  <2>2. PICK link, via : IsWalk(live, source, link, via, d) /\ via[d] = p
    BY <2>1 DEF PathTo
  <2>3. d \in Nat
    BY <2>2 DEF IsWalk
  <2> HIDE DEF d, p
  <2>4. CASE d = 0
    <3>1. p.node = source
      BY <2>2, <2>4 DEF IsWalk, Start
    <3> QED
      BY <3>1 DEF p
  <2>5. CASE d # 0
    <3>1. d \in 1..d
      BY <2>3, <2>5
    <3>2. /\ link[d] \in live /\ {link[d].source, link[d].target} = {via[d - 1].node, via[d].node}
      <4>1. link[d] \in live
        BY <2>2, <3>1 DEF IsWalk
      <4>2. OneLinkMore(link[d], via[d - 1], via[d])
        BY <2>2, <3>1, WalkFacts
      <4> QED
        BY <4>1, <4>2 DEF OneLinkMore
    <3>3. p.node \in ends
      BY <1>3, <2>2, <3>2
    <3> QED
      BY <3>3 DEF p
  <2> QED
    BY <2>4, <2>5
<1>8. n <= Cardinality(all)
  <2> DEFINE f == [i \in 1..n |-> paths[i].node]
  <2>1. f \in [1..n -> all]
    BY <1>7
  <2>2. \A i, j \in 1..n : f[i] = f[j] => i = j
    BY <1>6 DEF QueueInv
  <2> HIDE DEF f, all
  <2>3. f \in Injection(1..n, all)
    BY <2>1, <2>2 DEF Injection, IsInjective
  <2>4. Cardinality(1..n) <= Cardinality(all)
    BY <1>5, <2>3, FS_Injection
  <2>5. Cardinality(1..n) = n
    BY <1>6, 1 \in Int, FS_Interval
  <2> QED
    BY <2>4, <2>5
<1> QED
  BY <1>2, <1>4, <1>5, <1>6, <1>8 DEF n

(* Queued is what its equations say.                                       *)
LEMMA QueuedIs ==
  ASSUME NEW live, NEW source, NEW target, Rounds(live) \in Nat
  PROVE  LET queued == Queued(live, source, target)
         IN  /\ queued[0] = <<Start(source)>>
             /\ \A k \in Nat : k + 1 <= Rounds(live) =>
                  queued[k + 1] =
                    IF k + 1 \in DOMAIN queued[k] /\ target \notin Visited(queued[k])
                    THEN queued[k] \o Onwards(live, queued[k], queued[k][k + 1])
                    ELSE queued[k]
<1> DEFINE last == Rounds(live)
           first == <<Start(source)>>
           Next(k, before) == IF k \in DOMAIN before /\ target \notin Visited(before)
                              THEN before \o Onwards(live, before, before[k])
                              ELSE before
           Solves(f, m) == \A k \in 0..m : f[k] = IF k = 0 THEN first ELSE Next(k, f[k - 1])
           N == {m \in Nat : \E f : Solves(f, m)}
           Made(f) == f = [k \in 0..last |-> IF k = 0 THEN first ELSE Next(k, f[k - 1])]
           queued == CHOOSE f : Made(f)
<1>1. Queued(live, source, target) = queued
  BY Zenon DEF Queued
<1> HIDE DEF Next, last, first
<1>2. 0 \in N
  <2> DEFINE f == [k \in 0..0 |-> first]
  <2>1. Solves(f, 0)
    OBVIOUS
  <2> HIDE DEF f, Solves
  <2> QED
    BY <2>1
<1>3. ASSUME NEW m \in Nat, m \in N PROVE m + 1 \in N
  <2>1. PICK f : Solves(f, m)
    BY <1>3
  <2> DEFINE g == [k \in 0..(m + 1) |-> IF k = m + 1 THEN Next(m + 1, f[m]) ELSE f[k]]
  <2>2. \A k \in 0..m : g[k] = f[k]
    OBVIOUS
  <2>3. g[m + 1] = Next(m + 1, f[m])
    OBVIOUS
  <2> HIDE DEF g
  <2>4. ASSUME NEW k \in 0..(m + 1) PROVE g[k] = IF k = 0 THEN first ELSE Next(k, g[k - 1])
    <3>1. CASE k = m + 1
      <4>1. k # 0 /\ k - 1 = m /\ m \in 0..m
        BY <3>1
      <4> QED
        BY <2>2, <2>3, <3>1, <4>1
    <3>2. CASE k \in 0..m
      <4>1. g[k] = f[k] /\ f[k] = IF k = 0 THEN first ELSE Next(k, f[k - 1])
        BY <2>1, <2>2, <3>2
      <4>2. k # 0 => g[k - 1] = f[k - 1]
        BY <2>2, <3>2
      <4> QED
        BY <4>1, <4>2
    <3> QED
      BY <3>1, <3>2
  <2>5. Solves(g, m + 1)
    BY <2>4
  <2> HIDE DEF Solves
  <2> QED
    BY <2>5
<1>4. last \in Nat
  BY DEF last
<1>5. \E f : Solves(f, last)
  <2>1. last \in N
    <3> HIDE DEF N
    <3> QED
      BY <1>2, <1>3, <1>4, NatSetInduction
  <2> HIDE DEF Solves
  <2> QED
    BY <2>1
<1>6. Made(queued)
  <2>1. PICK f : Solves(f, last)
    BY <1>5
  <2> DEFINE g == [k \in 0..last |-> f[k]]
  <2>2. \A k \in 0..last : g[k] = f[k]
    OBVIOUS
  <2>3. \A k \in 0..last : k # 0 => g[k - 1] = f[k - 1]
    BY <1>4, <2>2
  <2>4. g = [k \in 0..last |-> g[k]]
    OBVIOUS
  <2> HIDE DEF g
  <2>5. \A k \in 0..last : g[k] = IF k = 0 THEN first ELSE Next(k, g[k - 1])
    BY <2>1, <2>2, <2>3
  <2>6. Made(g)
    BY <2>4, <2>5
  <2> HIDE DEF Made
  <2> QED
    BY <2>6
<1>7. \A k \in 0..last : queued[k] = IF k = 0 THEN first ELSE Next(k, queued[k - 1])
  <2> HIDE DEF queued
  <2> QED
    BY <1>6
<1> HIDE DEF queued, Made
<1>8. queued[0] = first
  BY <1>4, <1>7
<1>9. ASSUME NEW k \in Nat, k + 1 <= last PROVE queued[k + 1] = Next(k + 1, queued[k])
  <2>1. k + 1 \in 0..last /\ k + 1 # 0 /\ (k + 1) - 1 = k
    BY <1>4, <1>9
  <2> QED
    BY <1>7, <2>1
<1> QED
  BY <1>1, <1>8, <1>9 DEF Next, last, first

(* So many rounds are enough: then a path to the target is among the       *)
(* paths, or all were taken.                                               *)
LEMMA QueueAtLast ==
  ASSUME NEW live, Sound(live), NEW source, NEW target
  PROVE  /\ Rounds(live) \in Nat
         /\ \E k \in Nat : LET paths == Queued(live, source, target)[Rounds(live)]
                           IN  /\ QueueInv(live, source, k, paths)
                               /\ target \in Visited(paths) \/ k + 1 \notin DOMAIN paths
<1> DEFINE last == Rounds(live)
           queued == Queued(live, source, target)
           OK(m, k) == /\ k <= m /\ QueueInv(live, source, k, queued[m])
                       /\ target \in Visited(queued[m]) \/ k = m \/ k + 1 \notin DOMAIN queued[m]
           W == {m \in Nat : m <= last => \E k \in Nat : OK(m, k)}
<1>1. last \in Nat
  BY QueueAtFirst, QueueSize
<1>2. /\ queued[0] = <<Start(source)>>
      /\ \A k \in Nat : k + 1 <= last =>
           queued[k + 1] = IF k + 1 \in DOMAIN queued[k] /\ target \notin Visited(queued[k])
                           THEN queued[k] \o Onwards(live, queued[k], queued[k][k + 1])
                           ELSE queued[k]
  BY <1>1, QueuedIs
<1> HIDE DEF last, queued
<1>3. 0 \in W
  <2>1. OK(0, 0)
    BY <1>2, QueueAtFirst
  <2> HIDE DEF OK
  <2> QED
    BY <2>1
<1>4. ASSUME NEW m \in Nat, m \in W PROVE m + 1 \in W
  <2> SUFFICES ASSUME m + 1 <= last PROVE \E k \in Nat : OK(m + 1, k)
    OBVIOUS
  <2>1. PICK k \in Nat : OK(m, k)
    <3>1. m <= last
      BY <1>1
    <3> HIDE DEF OK
    <3> QED
      BY <1>4, <3>1
  <2>2. CASE m + 1 \in DOMAIN queued[m] /\ target \notin Visited(queued[m])
    <3>1. k = m
      <4>1. Len(queued[m]) \in Nat /\ DOMAIN queued[m] = 1..Len(queued[m])
        BY <2>1, ListFacts DEF QueueInv
      <4> QED
        BY <2>1, <2>2, <4>1
    <3>2. QueueInv(live, source, m + 1, queued[m] \o Onwards(live, queued[m], queued[m][m + 1]))
      BY <2>1, <2>2, <3>1, NextRound
    <3>3. OK(m + 1, m + 1)
      BY <1>2, <2>2, <3>2
    <3> HIDE DEF OK
    <3> QED
      BY <3>3
  <2>3. CASE ~ (m + 1 \in DOMAIN queued[m] /\ target \notin Visited(queued[m]))
    <3>1. queued[m + 1] = queued[m]
      BY <1>2, <2>3
    <3>2. OK(m + 1, k)
      BY <2>1, <2>3, <3>1
    <3> HIDE DEF OK
    <3> QED
      BY <3>2
  <2> QED
    BY <2>2, <2>3
<1>5. last \in W
  <2> HIDE DEF W
  <2> QED
    BY <1>1, <1>3, <1>4, NatSetInduction
<1>6. PICK k \in Nat : OK(last, k)
  <2> HIDE DEF OK
  <2> QED
    BY <1>1, <1>5
<1>7. target \in Visited(queued[last]) \/ k + 1 \notin DOMAIN queued[last]
  <2>1. /\ Len(queued[last]) \in Nat /\ DOMAIN queued[last] = 1..Len(queued[last])
        /\ Len(queued[last]) <= last
    BY <1>6, ListFacts, QueueSize DEF QueueInv, last
  <2> QED
    BY <1>1, <1>6, <2>1
<1> QED
  BY <1>1, <1>6, <1>7 DEF last, queued

(* The search finds a path if there is one, and a nearest one.             *)
LEMMA SearchIs ==
  ASSUME NEW live, Sound(live), NEW source, NEW target, source # target
  PROVE  LET p == Search(live, source, target)
         IN  IF p = NoPath THEN \A d \in Nat : ~ Within(live, source, d, target)
             ELSE /\ PathTo(live, source, p) /\ Nearest(live, source, p) /\ p.node = target
                  /\ Len(p.ids) \in Nat \ {0} /\ Len(p.ids) < Rounds(live)
<1> DEFINE p == Search(live, source, target)
           paths == Queued(live, source, target)[Rounds(live)]
<1>1. Rounds(live) \in Nat
  BY QueueAtLast
<1>2. PICK k \in Nat : /\ QueueInv(live, source, k, paths)
                       /\ target \in Visited(paths) \/ k + 1 \notin DOMAIN paths
  BY QueueAtLast
<1>3. p = IF target \in Visited(paths) THEN CHOOSE q \in ToSet(paths) : q.node = target ELSE NoPath
  BY DEF Search
<1> HIDE DEF paths, p
<1>4. Len(paths) \in Nat /\ DOMAIN paths = 1..Len(paths) /\ Len(paths) <= Rounds(live)
  BY <1>2, ListFacts, QueueSize DEF QueueInv
<1>5. CASE target \notin Visited(paths)
  <2>1. p = NoPath
    BY <1>3, <1>5
  <2>2. ASSUME NEW d \in Nat, Within(live, source, d, target) PROVE FALSE
    <3>1. \A i \in DOMAIN paths : k < i => d <= Len(paths[i].ids)
      BY <1>2, <1>4, <1>5
    <3>2. target \in Visited(paths)
      BY <1>2, <2>2, <3>1, LevelsAreVisited
    <3> QED
      BY <1>5, <3>2
  <2> QED
    BY <2>1, <2>2 DEF p
<1>6. CASE target \in Visited(paths)
  <2>1. \E q \in ToSet(paths) : q.node = target
    BY <1>6 DEF Visited
  <2>2. p \in ToSet(paths) /\ p.node = target
    BY <1>3, <1>6, <2>1
  <2>3. PICK i \in DOMAIN paths : p = paths[i]
    BY <2>2 DEF ToSet
  <2>4. PathTo(live, source, p) /\ Nearest(live, source, p) /\ Len(p.ids) < i
    BY <1>2, <2>3 DEF QueueInv
  <2> DEFINE n == Len(p.ids)
  <2>5. PICK link, via : IsWalk(live, source, link, via, n) /\ via[n] = p
    BY <2>4 DEF PathTo
  <2>6. n \in Nat /\ via[0] = Start(source)
    BY <2>5 DEF IsWalk
  <2> HIDE DEF n
  <2>7. n # 0
    BY <2>2, <2>5, <2>6 DEF Start
  <2>8. p = Extended(via[n - 1], Edge(link[n], via[n - 1].node))
    <3>1. n \in 1..n
      BY <2>6, <2>7
    <3> QED
      BY <2>5, <3>1 DEF IsWalk
  <2>9. p # NoPath
    <3>1. "node" \in DOMAIN p
      BY <2>8 DEF Extended
    <3>2. "node" \notin DOMAIN NoPath
      <4>1. DOMAIN NoPath = {}
        BY DEF NoPath
      <4> QED
        BY <4>1
    <3> QED
      BY <3>1, <3>2
  <2>10. n < Rounds(live)
    BY <1>1, <1>4, <2>3, <2>4, <2>6 DEF n
  <2> QED
    BY <2>2, <2>4, <2>6, <2>7, <2>9, <2>10 DEF p, n
<1> QED
  BY <1>5, <1>6

(* A link is used along a path for as long as all links on it are valid.   *)
LEMMA WalkIsValid ==
  ASSUME NEW live, Sound(live), NEW source, NEW link, NEW via, NEW n \in Nat \ {0},
         IsWalk(live, source, link, via, n)
  PROVE  /\ via[n].from \in Int /\ via[n].until \in Int
         /\ \A t \in Int : ValidAt(via[n], t) <=> \A i \in 1..n : ValidAt(link[i], t)
<1> DEFINE OK(k) == /\ via[k].from \in Int /\ via[k].until \in Int
                    /\ \A t \in Int : ValidAt(via[k], t) <=> \A i \in 1..k : ValidAt(link[i], t)
           W == {k \in Nat : k + 1 <= n => OK(k + 1)}
<1>1. ASSUME NEW k \in 1..n
      PROVE  /\ link[k].from \in Int /\ link[k].until \in Int
             /\ k = 1 => via[k].from = link[k].from /\ via[k].until = link[k].until
             /\ k # 1 => /\ via[k].from = Later(via[k - 1].from, link[k].from)
                         /\ via[k].until = Earlier(via[k - 1].until, link[k].until)
  <2>1. link[k] \in live
    BY DEF IsWalk
  <2>2. OneLinkMore(link[k], via[k - 1], via[k])
    BY WalkFacts
  <2>3. k - 1 \in 0..n
    OBVIOUS
  <2>4. SoFar(via[k - 1], link, k - 1)
    BY <2>3, WalkFacts
  <2>5. via[k - 1].ids = << >> <=> k = 1
    <3>1. IsList(via[k - 1].ids) /\ Len(via[k - 1].ids) = k - 1
      BY <2>4 DEF SoFar
    <3> QED
      BY <3>1, EmptyList
  <2> QED
    BY <2>1, <2>2, <2>5 DEF OneLinkMore, Sound
<1>2. 0 \in W
  <2>1. 1 \in 1..n
    OBVIOUS
  <2>2. /\ via[1].from = link[1].from /\ via[1].until = link[1].until
        /\ link[1].from \in Int /\ link[1].until \in Int
    BY <1>1, <2>1
  <2> QED
    BY <2>2 DEF ValidAt
<1>3. ASSUME NEW k \in Nat, k \in W PROVE k + 1 \in W
  <2> SUFFICES ASSUME (k + 1) + 1 <= n PROVE OK((k + 1) + 1)
    OBVIOUS
  <2> DEFINE j == k + 1
             m == j + 1
  <2>1. OK(j) /\ j \in 1..n /\ m \in 1..n /\ m # 1 /\ m - 1 = j /\ j \in Nat
    BY <1>3
  <2>2. /\ via[m].from = Later(via[j].from, link[m].from)
        /\ via[m].until = Earlier(via[j].until, link[m].until)
        /\ link[m].from \in Int /\ link[m].until \in Int
    BY <1>1, <2>1
  <2>3. \A i : i \in 1..m <=> i \in 1..j \/ i = m
    BY <2>1
  <2> HIDE DEF j, m
  <2>4. ASSUME NEW t \in Int PROVE ValidAt(via[m], t) <=> ValidAt(via[j], t) /\ ValidAt(link[m], t)
    BY <2>1, <2>2 DEF ValidAt, Later, Earlier
  <2>5. via[m].from \in Int /\ via[m].until \in Int
    BY <2>1, <2>2 DEF Later, Earlier
  <2>6. OK(m)
    BY <2>1, <2>3, <2>4, <2>5
  <2> QED
    BY <2>6 DEF m, j
<1> HIDE DEF W, OK
<1>4. n - 1 \in W
  BY <1>2, <1>3, NatSetInduction
<1>5. OK(n)
  BY <1>4 DEF W
<1> QED
  BY <1>5 DEF OK

(* A motion without its uncertainty.                                       *)
Exact(m) == [turn |-> m.turn, x |-> m.x, y |-> m.y, slack |-> 0]

(* Composing and turning back do not depend on it.                         *)
LEMMA ExactMotions ==
  ASSUME NEW a \in Motions, NEW b \in Motions
  PROVE  /\ Exact(a) \in Motions /\ Exact(a).slack = 0 /\ Exact(Still) = Still
         /\ Exact(Then(a, b)) = Then(Exact(a), Exact(b))
         /\ Exact(Backwards(a)) = Backwards(Exact(a))
         /\ Then(a, Still) = a
         /\ a.slack = 0 => Exact(a) = a
<1>1. /\ a.turn \in {0, 1, 2, 3} /\ a.x \in Int /\ a.y \in Int /\ a.slack \in Int
      /\ a = [turn |-> a.turn, x |-> a.x, y |-> a.y, slack |-> a.slack]
      /\ b.turn \in {0, 1, 2, 3} /\ b.x \in Int /\ b.y \in Int /\ b.slack \in Int
  BY DEF Motions
<1>2. Exact(a) \in Motions /\ Exact(a).slack = 0 /\ Exact(Still) = Still
  BY <1>1 DEF Exact, Motions, Still
<1>3. Exact(Then(a, b)) = Then(Exact(a), Exact(b))
  BY DEF Exact, Then
<1>4. Exact(Backwards(a)) = Backwards(Exact(a))
  BY DEF Exact, Backwards
<1>5. Then(a, Still) = a
  BY <1>1 DEF Then, Still, Rotated
<1>6. a.slack = 0 => Exact(a) = a
  BY <1>1 DEF Exact
<1> QED
  BY <1>2, <1>3, <1>4, <1>5, <1>6

(* A link that is used there and back does nothing.                        *)
LEMMA EdgeBack ==
  ASSUME NEW live, Sound(live), NEW l \in live, NEW x, NEW y, x # y, {l.source, l.target} = {x, y}
  PROVE  /\ Edge(l, x).motion \in Motions /\ Edge(l, y).motion \in Motions
         /\ Then(Exact(Edge(l, x).motion), Exact(Edge(l, y).motion)) = Still
<1> DEFINE m == l.motion
           b == Backwards(m)
<1>1. m \in Motions
  BY DEF Sound
<1> HIDE DEF m
<1>2. <<0, 0>> \in Int \X Int
  OBVIOUS
<1>3. b \in Motions
  BY <1>1, <1>2, MotionsUndo
<1>4. Exact(m) \in Motions /\ Exact(m).slack = 0 /\ Exact(b) = Backwards(Exact(m))
  BY <1>1, ExactMotions
<1>5. Then(Exact(m), Exact(b)) = Still /\ Then(Exact(b), Exact(m)) = Still
  BY <1>2, <1>4, MotionsUndo
<1> HIDE DEF b
<1>6. \/ Edge(l, x).motion = m /\ Edge(l, y).motion = b
      \/ Edge(l, x).motion = b /\ Edge(l, y).motion = m
  BY DEF Edge, m, b
<1> QED
  BY <1>1, <1>3, <1>5, <1>6

(* Over the same links back it is at the same nodes, and undoes what was   *)
(* moved, also when other links are valid meanwhile.                       *)
LEMMA WalkBack ==
  ASSUME NEW live, Sound(live), NEW source, NEW link, NEW via, NEW n \in Nat,
         IsWalk(live, source, link, via, n), NEW live2, Sound(live2), NEW link2, NEW via2,
         IsWalk(live2, via[n].node, link2, via2, n), \A i \in 1..n : link2[i] = link[n + 1 - i]
  PROVE  Then(Exact(via[n].motion), Exact(via2[n].motion)) = Still
<1> DEFINE M(k) == Exact(via[k].motion)
           B(k) == Exact(via2[k].motion)
           OK(k) == via2[k].node = via[n - k].node /\ Then(M(n), B(k)) = M(n - k)
           W == {k \in Nat : k <= n => OK(k)}
<1>1. \A k \in 0..n : via[k].motion \in Motions /\ via2[k].motion \in Motions
  <2> SUFFICES ASSUME NEW k \in 0..n PROVE via[k].motion \in Motions /\ via2[k].motion \in Motions
    OBVIOUS
  <2>1. SoFar(via[k], link, k)
    BY WalkFacts
  <2>2. SoFar(via2[k], link2, k)
    BY WalkFacts
  <2> QED
    BY <2>1, <2>2 DEF SoFar
<1>2. \A k \in 0..n : M(k) \in Motions /\ B(k) \in Motions
  BY <1>1, ExactMotions
<1>3. via[0] = Start(source) /\ via2[0] = Start(via[n].node)
  BY DEF IsWalk
<1>4. 0 \in W
  <2>1. via2[0].node = via[n].node /\ via2[0].motion = Still /\ Still \in Motions
    BY <1>3 DEF Start, Still, Motions
  <2>2. B(0) = Still
    BY <2>1, ExactMotions
  <2>3. n \in 0..n
    OBVIOUS
  <2>4. Then(M(n), Still) = M(n)
    BY <1>2, <2>3, ExactMotions
  <2> HIDE DEF M, B
  <2> QED
    BY <2>1, <2>2, <2>4
<1>5. ASSUME NEW k \in Nat, k \in W PROVE k + 1 \in W
  <2> SUFFICES ASSUME k + 1 <= n PROVE OK(k + 1)
    OBVIOUS
  <2> DEFINE h == k + 1
             i == n - k
             j == i - 1
             l == link[i]
             x == via[j].node
             y == via[i].node
  <2>1. /\ OK(k) /\ h \in 1..n /\ h - 1 = k /\ i \in 1..n /\ n + 1 - h = i /\ n - h = j
        /\ k \in 0..n /\ j \in 0..n /\ i \in 0..n /\ h \in 0..n /\ n \in 0..n
    BY <1>5
  <2>2. link2[h] = l
    BY <2>1
  <2>3. OneLinkMore(l, via[j], via[i])
    BY <2>1, WalkFacts
  <2>4. OneLinkMore(l, via2[k], via2[h])
    BY <2>1, <2>2, WalkFacts
  <2>5. l \in live
    BY <2>1 DEF IsWalk
  <2> HIDE DEF h, i, j, l
  <2>6. {l.source, l.target} = {x, y} /\ x # y
    BY <2>3 DEF OneLinkMore
  <2>7. via2[k].node = y
    BY <2>1 DEF i
  <2>8. via2[h].node = x
    BY <2>4, <2>6, <2>7 DEF OneLinkMore
  <2>9. via[i].motion = Then(via[j].motion, Edge(l, x).motion)
    BY <2>3 DEF OneLinkMore
  <2>10. via2[h].motion = Then(via2[k].motion, Edge(l, y).motion)
    BY <2>4, <2>7 DEF OneLinkMore
  <2> DEFINE f == Exact(Edge(l, x).motion)
             g == Exact(Edge(l, y).motion)
  <2>11. /\ Edge(l, x).motion \in Motions /\ Edge(l, y).motion \in Motions
         /\ Then(f, g) = Still
    BY <2>5, <2>6, EdgeBack
  <2>12. f \in Motions /\ g \in Motions
    BY <2>11, ExactMotions
  <2>13. M(i) = Then(M(j), f)
    BY <1>1, <2>1, <2>9, <2>11, ExactMotions
  <2>14. B(h) = Then(B(k), g)
    BY <1>1, <2>1, <2>10, <2>11, ExactMotions
  <2>15. M(n) \in Motions /\ M(j) \in Motions /\ B(k) \in Motions
    BY <1>2, <2>1
  <2>16. Then(M(n), B(k)) = M(i)
    BY <2>1 DEF i
  <2> HIDE DEF M, B, f, g
  <2>17. Then(M(n), B(h)) = Then(Then(M(n), B(k)), g)
    BY <2>12, <2>14, <2>15, MotionsAssociate
  <2>18. Then(Then(M(j), f), g) = Then(M(j), Then(f, g))
    BY <2>12, <2>15, MotionsAssociate
  <2>19. Then(M(j), Still) = M(j)
    BY <2>15, ExactMotions
  <2>20. Then(M(n), B(h)) = M(j)
    BY <2>11, <2>13, <2>16, <2>17, <2>18, <2>19
  <2>21. OK(h)
    BY <2>1, <2>8, <2>20
  <2> QED
    BY <2>21 DEF h
<1> HIDE DEF W
<1>6. n \in W
  BY <1>4, <1>5, NatSetInduction
<1>7. Then(M(n), B(n)) = M(0)
  <2>1. OK(n) /\ n - n = 0
    BY <1>6 DEF W
  <2> QED
    BY <2>1
<1>8. M(0) = Still
  <2>1. via[0].motion = Still
    BY <1>3 DEF Start
  <2> QED
    BY <1>1, <2>1, ExactMotions
<1> QED
  BY <1>7, <1>8

(* What a registry answers is found among the links that are valid.        *)
LEMMA LookupIs ==
  ASSUME NEW links, NEW Kind \in SUBSET (Alignment \cup Transform), LinksInv(links, Kind),
         NEW household, NEW at \in Int, NEW source, NEW target, source # target
  PROVE  LET live == Live(links, household, at)
             p    == Lookup(links, source, target, household, at)
         IN  /\ Sound(live) /\ p = Search(live, source, target)
             /\ p = NoPath => \A d \in Nat : ~ Within(live, source, d, target)
             /\ p # NoPath =>
                  /\ PathTo(live, source, p) /\ Nearest(live, source, p) /\ p.node = target
                  /\ Len(p.ids) \in Nat \ {0} /\ Len(p.ids) < Rounds(live) /\ Rounds(live) \in Nat
<1> DEFINE live == Live(links, household, at)
           p == Search(live, source, target)
<1>1. Sound(live)
  BY LiveIsSound
<1> HIDE DEF live
<1>2. IF p = NoPath THEN \A d \in Nat : ~ Within(live, source, d, target)
      ELSE /\ PathTo(live, source, p) /\ Nearest(live, source, p) /\ p.node = target
           /\ Len(p.ids) \in Nat \ {0} /\ Len(p.ids) < Rounds(live)
  BY <1>1, SearchIs
<1>3. Rounds(live) \in Nat
  BY <1>1, QueueAtLast
<1> QED
  BY <1>1, <1>2, <1>3 DEF Lookup, live

(* There is a way back when there is one, and it is as long.               *)
LEMMA WayBack ==
  ASSUME NEW live, Sound(live), NEW source, NEW target, source # target
  PROVE  LET there == Search(live, source, target)
             back  == Search(live, target, source)
         IN  IF there = NoPath THEN back = NoPath
             ELSE back # NoPath /\ Len(back.ids) = Len(there.ids)
<1> DEFINE there == Search(live, source, target)
           back == Search(live, target, source)
<1>1. IF there = NoPath THEN \A d \in Nat : ~ Within(live, source, d, target)
      ELSE Nearest(live, source, there) /\ there.node = target /\ Len(there.ids) \in Nat
  BY SearchIs
<1>2. IF back = NoPath THEN \A d \in Nat : ~ Within(live, target, d, source)
      ELSE Nearest(live, target, back) /\ back.node = source /\ Len(back.ids) \in Nat
  BY SearchIs
<1> HIDE DEF there, back
<1>3. \A d \in Nat : Within(live, source, d, target) <=> Within(live, target, d, source)
  BY WithinBack
<1>4. there # NoPath => /\ Within(live, source, Len(there.ids), target)
                        /\ \A d \in 0..(Len(there.ids) - 1) : ~ Within(live, source, d, target)
  BY <1>1 DEF Nearest
<1>5. back # NoPath => /\ Within(live, target, Len(back.ids), source)
                       /\ \A d \in 0..(Len(back.ids) - 1) : ~ Within(live, target, d, source)
  BY <1>2 DEF Nearest
<1>6. ASSUME there # NoPath, back # NoPath PROVE Len(back.ids) = Len(there.ids)
  <2> DEFINE m == Len(there.ids)
             n == Len(back.ids)
  <2>1. m \in Nat /\ n \in Nat
    BY <1>1, <1>2, <1>6
  <2>2. ~ (m \in 0..(n - 1)) /\ ~ (n \in 0..(m - 1))
    BY <1>3, <1>4, <1>5, <1>6, <2>1
  <2> HIDE DEF m, n
  <2>3. m = n
    BY <2>1, <2>2
  <2> QED
    BY <2>3 DEF m, n
<1> QED
  BY <1>1, <1>2, <1>3, <1>4, <1>5, <1>6 DEF there, back

(* An id on a path stands for the link that was taken.                     *)
LEMMA LinksOnPath ==
  ASSUME NEW links, NEW Kind \in SUBSET (Alignment \cup Transform), LinksInv(links, Kind),
         NEW household, NEW at \in Int, NEW source, NEW p,
         PathTo(Live(links, household, at), source, p)
  PROVE  \E link, via :
           /\ IsWalk(Live(links, household, at), source, link, via, Len(p.ids))
           /\ via[Len(p.ids)] = p /\ Len(p.ids) \in Nat /\ DOMAIN p.ids = 1..Len(p.ids)
           /\ IsList(p.ids) /\ p.motion \in Motions
           /\ \A i \in 1..Len(p.ids) :
                /\ link[i] \in ToSet(links) /\ ValidAt(link[i], at) /\ link[i].id = p.ids[i]
                /\ LinkOf(links, p.ids[i]) = link[i]
<1> DEFINE live == Live(links, household, at)
           n == Len(p.ids)
<1>1. Sound(live)
  BY LiveIsSound
<1>2. \A l \in live : l \in ToSet(links) /\ ValidAt(l, at)
  BY DEF Live
<1> HIDE DEF live
<1>3. PICK link, via : IsWalk(live, source, link, via, n) /\ via[n] = p
  BY DEF PathTo, live
<1>4. n \in Nat /\ n \in 0..n
  BY <1>3 DEF IsWalk
<1>5. SoFar(via[n], link, n)
  BY <1>1, <1>3, <1>4, WalkFacts
<1>6. /\ IsList(p.ids) /\ p.motion \in Motions
      /\ \A i \in 1..n : p.ids[i] = link[i].id
  BY <1>3, <1>5 DEF SoFar
<1>7. DOMAIN p.ids = 1..n
  BY <1>6, ListFacts
<1> HIDE DEF n
<1>8. ASSUME NEW i \in 1..n
      PROVE  /\ link[i] \in ToSet(links) /\ ValidAt(link[i], at) /\ link[i].id = p.ids[i]
             /\ LinkOf(links, p.ids[i]) = link[i]
  <2>1. link[i] \in live
    BY <1>3 DEF IsWalk
  <2>2. link[i] \in ToSet(links) /\ ValidAt(link[i], at) /\ link[i].id = p.ids[i]
    BY <1>2, <1>6, <2>1
  <2>3. \A l \in ToSet(links) : l.id = p.ids[i] => l = link[i]
    <3> SUFFICES ASSUME NEW l \in ToSet(links), l.id = p.ids[i] PROVE l = link[i]
      OBVIOUS
    <3>1. l.id = link[i].id
      BY <2>2
    <3> DEFINE m == link[i]
    <3>2. m \in ToSet(links)
      BY <2>2
    <3> HIDE DEF m
    <3>3. l.id = m.id => l = m
      BY <3>2, LinksDiffer
    <3> QED
      BY <3>1, <3>3 DEF m
  <2> QED
    BY <2>2, <2>3 DEF LinkOf
<1> QED
  BY <1>3, <1>4, <1>6, <1>7, <1>8 DEF live, n

(* A registry finds a path whenever there is one, a shortest one, and says *)
(* for how long all the links on it are valid.                             *)
LEMMA AnswersAreFit ==
  ASSUME NEW links, NEW Kind \in SUBSET (Alignment \cup Transform), LinksInv(links, Kind),
         NEW q \in Queries(links)
  PROVE  AnswerFits(links, q)
<1> DEFINE s == q[1]
           t == q[2]
           h == q[3]
           at == q[4]
           live == Live(links, h, at)
           path == Lookup(links, s, t, h, at)
           n == Len(path.ids)
<1>1. s # t /\ at \in Instant /\ Instant \subseteq Int
  BY LinkAssumption DEF Queries
<1> HIDE DEF s, t, h, at
<1>2. /\ Sound(live)
      /\ path = NoPath => \A d \in Nat : ~ Within(live, s, d, t)
      /\ path # NoPath =>
           /\ PathTo(live, s, path) /\ Nearest(live, s, path) /\ path.node = t
           /\ n \in Nat \ {0} /\ n < Rounds(live)
  BY <1>1, LookupIs
<1>3. Rounds(live) \in Nat
  BY <1>2, QueueAtLast
<1>4. path = Answer(links, q)
  BY DEF Answer, s, t, h, at
<1> HIDE DEF path
<1>5. \A d \in 0..Rounds(live) : t \in Ball(live, s)[d] <=> Within(live, s, d, t)
  <2> HIDE DEF live
  <2> QED
    BY <1>2, <1>3, BallIs
<1>6. CASE path = NoPath
  <2>1. t \notin Ball(live, s)[Rounds(live)]
    BY <1>2, <1>3, <1>5, <1>6
  <2> QED
    BY <1>4, <1>6, <2>1 DEF AnswerFits, s, t, h, at
<1>7. CASE path # NoPath
  <2>1. n \in Nat \ {0} /\ n < Rounds(live) /\ n \in 0..Rounds(live) /\ n - 1 \in 0..Rounds(live)
    BY <1>2, <1>3, <1>7
  <2>2. Within(live, s, n, t) /\ ~ Within(live, s, n - 1, t)
    BY <1>2, <1>7, <2>1 DEF Nearest
  <2>3. t \in Ball(live, s)[n] /\ t \notin Ball(live, s)[n - 1]
    BY <1>5, <2>1, <2>2
  <2>4. PICK link, via :
          /\ IsWalk(live, s, link, via, n) /\ via[n] = path /\ DOMAIN path.ids = 1..n
          /\ \A i \in 1..n : LinkOf(links, path.ids[i]) = link[i]
    BY <1>1, <1>2, <1>7, LinksOnPath
  <2>5. \A u \in Int : ValidAt(path, u) <=> \A i \in 1..n : ValidAt(link[i], u)
    <3>1. IsWalk(live, s, link, via, n)
      BY <2>4
    <3> HIDE DEF n, live
    <3>2. \A u \in Int : ValidAt(via[n], u) <=> \A i \in 1..n : ValidAt(link[i], u)
      BY <1>2, <2>1, <3>1, WalkIsValid
    <3> QED
      BY <2>4, <3>2
  <2>6. ToSet(path.ids) = {path.ids[i] : i \in 1..n}
    BY <2>4 DEF ToSet
  <2>7. \A u \in Instant :
          ValidAt(path, u) <=> \A id \in ToSet(path.ids) : ValidAt(LinkOf(links, id), u)
    BY <1>1, <2>4, <2>5, <2>6
  <2> QED
    BY <1>4, <1>7, <2>3, <2>7 DEF AnswerFits, s, t, h, at
<1> QED
  BY <1>6, <1>7

(* Where a point is after one link more.                                   *)
OneLinkOn(links, id, at) ==
  LET link == LinkOf(links, id)
  IN  IF link.source = at.node
      THEN [node |-> link.target, p |-> Moved(at.p, link.motion)]
      ELSE [node |-> link.source, p |-> Moved(at.p, Backwards(link.motion))]

IsCarried(carried, links, node, ids, p) ==
  /\ carried[0] = [node |-> node, p |-> p]
  /\ \A k \in Nat : k + 1 <= Len(ids) => carried[k + 1] = OneLinkOn(links, ids[k + 1], carried[k])

(* Carried is what its equations say.                                      *)
LEMMA CarriedIs ==
  ASSUME NEW links, NEW node, NEW ids, Len(ids) \in Nat, NEW p
  PROVE  IsCarried(Carried(links, node, ids, p), links, node, ids, p)
<1> DEFINE last == Len(ids)
           first == [node |-> node, p |-> p]
           Next(k, at) == OneLinkOn(links, ids[k], at)
           Solves(f, m) == \A k \in 0..m : f[k] = IF k = 0 THEN first ELSE Next(k, f[k - 1])
           N == {m \in Nat : \E f : Solves(f, m)}
           Made(f) == f = [k \in 0..last |-> IF k = 0 THEN first ELSE Next(k, f[k - 1])]
           carried == CHOOSE f : Made(f)
<1>1. Carried(links, node, ids, p) = carried
  BY Zenon DEF Carried, OneLinkOn
<1> HIDE DEF Next, last, first
<1>2. 0 \in N
  <2> DEFINE f == [k \in 0..0 |-> first]
  <2>1. Solves(f, 0)
    OBVIOUS
  <2> HIDE DEF f, Solves
  <2> QED
    BY <2>1
<1>3. ASSUME NEW m \in Nat, m \in N PROVE m + 1 \in N
  <2>1. PICK f : Solves(f, m)
    BY <1>3
  <2> DEFINE g == [k \in 0..(m + 1) |-> IF k = m + 1 THEN Next(m + 1, f[m]) ELSE f[k]]
  <2>2. \A k \in 0..m : g[k] = f[k]
    OBVIOUS
  <2>3. g[m + 1] = Next(m + 1, f[m])
    OBVIOUS
  <2> HIDE DEF g
  <2>4. ASSUME NEW k \in 0..(m + 1) PROVE g[k] = IF k = 0 THEN first ELSE Next(k, g[k - 1])
    <3>1. CASE k = m + 1
      <4>1. k # 0 /\ k - 1 = m /\ m \in 0..m
        BY <3>1
      <4> QED
        BY <2>2, <2>3, <3>1, <4>1
    <3>2. CASE k \in 0..m
      <4>1. g[k] = f[k] /\ f[k] = IF k = 0 THEN first ELSE Next(k, f[k - 1])
        BY <2>1, <2>2, <3>2
      <4>2. k # 0 => g[k - 1] = f[k - 1]
        BY <2>2, <3>2
      <4> QED
        BY <4>1, <4>2
    <3> QED
      BY <3>1, <3>2
  <2>5. Solves(g, m + 1)
    BY <2>4
  <2> HIDE DEF Solves
  <2> QED
    BY <2>5
<1>4. last \in Nat
  BY DEF last
<1>5. \E f : Solves(f, last)
  <2>1. last \in N
    <3> HIDE DEF N
    <3> QED
      BY <1>2, <1>3, <1>4, NatSetInduction
  <2> HIDE DEF Solves
  <2> QED
    BY <2>1
<1>6. Made(carried)
  <2>1. PICK f : Solves(f, last)
    BY <1>5
  <2> DEFINE g == [k \in 0..last |-> f[k]]
  <2>2. \A k \in 0..last : g[k] = f[k]
    OBVIOUS
  <2>3. \A k \in 0..last : k # 0 => g[k - 1] = f[k - 1]
    BY <1>4, <2>2
  <2>4. g = [k \in 0..last |-> g[k]]
    OBVIOUS
  <2> HIDE DEF g
  <2>5. \A k \in 0..last : g[k] = IF k = 0 THEN first ELSE Next(k, g[k - 1])
    BY <2>1, <2>2, <2>3
  <2>6. Made(g)
    BY <2>4, <2>5
  <2> HIDE DEF Made
  <2> QED
    BY <2>6
<1>7. \A k \in 0..last : carried[k] = IF k = 0 THEN first ELSE Next(k, carried[k - 1])
  <2> HIDE DEF carried
  <2> QED
    BY <1>6
<1> HIDE DEF carried, Made
<1>8. carried[0] = first
  BY <1>4, <1>7
<1>9. ASSUME NEW k \in Nat, k + 1 <= last PROVE carried[k + 1] = Next(k + 1, carried[k])
  <2>1. k + 1 \in 0..last /\ k + 1 # 0 /\ (k + 1) - 1 = k
    BY <1>4, <1>9
  <2> QED
    BY <1>7, <2>1
<1> QED
  BY <1>1, <1>8, <1>9 DEF IsCarried, Next, last, first

(* A point that goes along a path comes to where the answer moves it.      *)
LEMMA PointGoesAlong ==
  ASSUME NEW links, NEW Kind \in SUBSET (Alignment \cup Transform), LinksInv(links, Kind),
         NEW household, NEW at \in Int, NEW source, NEW path,
         PathTo(Live(links, household, at), source, path), NEW p \in Int \X Int
  PROVE  Carried(links, source, path.ids, p)[Len(path.ids)] =
           [node |-> path.node, p |-> Moved(p, path.motion)]
<1> DEFINE live == Live(links, household, at)
           n == Len(path.ids)
           carried == Carried(links, source, path.ids, p)
<1>1. Sound(live)
  BY LiveIsSound
<1>2. PICK link, via :
        /\ IsWalk(live, source, link, via, n) /\ via[n] = path /\ n \in Nat
        /\ \A i \in 1..n : LinkOf(links, path.ids[i]) = link[i]
  BY LinksOnPath
<1>3. IsCarried(carried, links, source, path.ids, p)
  <2>1. Len(path.ids) \in Nat
    BY <1>2
  <2> QED
    BY <2>1, CarriedIs
<1> HIDE DEF live, n, carried
<1> DEFINE OK(k) == carried[k] = [node |-> via[k].node, p |-> Moved(p, via[k].motion)]
           W == {k \in Nat : k <= n => OK(k)}
<1>4. 0 \in W
  <2>1. via[0].node = source /\ via[0].motion = Still
    BY <1>2 DEF IsWalk, Start
  <2>2. Moved(p, Still) = p
    BY DEF Moved, Still, Rotated
  <2> QED
    BY <1>3, <2>1, <2>2 DEF IsCarried
<1>5. ASSUME NEW k \in Nat, k \in W PROVE k + 1 \in W
  <2> SUFFICES ASSUME k + 1 <= n PROVE OK(k + 1)
    OBVIOUS
  <2> DEFINE j == k + 1
             l == link[j]
             x == via[k].node
             e == Edge(l, x)
  <2>1. OK(k) /\ j \in 1..n /\ j - 1 = k /\ k \in 0..n /\ LinkOf(links, path.ids[j]) = l
    BY <1>2, <1>5
  <2>2. /\ l \in live /\ x \in {l.source, l.target} /\ via[j] = Extended(via[k], e)
    BY <1>2, <2>1 DEF IsWalk
  <2>3. OneLinkMore(l, via[k], via[j])
    <3>1. OneLinkMore(link[j], via[j - 1], via[j])
      BY <1>1, <1>2, <2>1, WalkFacts
    <3> QED
      BY <2>1, <3>1
  <2>4. SoFar(via[k], link, k)
    BY <1>1, <1>2, <2>1, WalkFacts
  <2>5. carried[j] = IF l.source = carried[k].node
                     THEN [node |-> l.target, p |-> Moved(carried[k].p, l.motion)]
                     ELSE [node |-> l.source, p |-> Moved(carried[k].p, Backwards(l.motion))]
    <3>1. carried[j] = OneLinkOn(links, path.ids[j], carried[k])
      BY <1>3 DEF IsCarried, n
    <3> QED
      BY <2>1, <3>1 DEF OneLinkOn
  <2>6. carried[k].node = x /\ carried[k].p = Moved(p, via[k].motion)
    BY <2>1
  <2> HIDE DEF j, l
  <2>7. carried[j] = [node |-> e.to, p |-> Moved(Moved(p, via[k].motion), e.motion)]
    BY <2>5, <2>6 DEF Edge
  <2>8. via[j].node = e.to /\ via[j].motion = Then(via[k].motion, e.motion)
    BY <2>2 DEF Extended
  <2>9. e.motion \in Motions /\ via[k].motion \in Motions
    BY <2>3, <2>4 DEF OneLinkMore, SoFar
  <2> HIDE DEF e
  <2>10. Moved(p, Then(via[k].motion, e.motion)) = Moved(Moved(p, via[k].motion), e.motion)
    BY <2>9, MotionsCompose
  <2>11. OK(j)
    BY <2>7, <2>8, <2>10
  <2> QED
    BY <2>11 DEF j
<1> HIDE DEF W, OK
<1>6. n \in W
  BY <1>2, <1>4, <1>5, NatSetInduction
<1>7. OK(n)
  BY <1>2, <1>6 DEF W
<1> QED
  BY <1>2, <1>7 DEF OK, carried, n

(* A path back over the same links undoes the path there, and is valid at  *)
(* the same times.                                                         *)
LEMMA PathBack ==
  ASSUME NEW links, NEW Kind \in SUBSET (Alignment \cup Transform), LinksInv(links, Kind),
         NEW household, NEW source, NEW target, NEW at \in Int, NEW at2 \in Int,
         NEW there, PathTo(Live(links, household, at), source, there), there.node = target,
         there.ids # << >>,
         NEW back, PathTo(Live(links, household, at2), target, back),
         back.ids = Reverse(there.ids)
  PROVE  /\ Then(Exact(there.motion), Exact(back.motion)) = Still
         /\ ValidAt(there, at) /\ {there.from, there.until, back.from, back.until} \subseteq Int
         /\ \A t \in Int : ValidAt(there, t) <=> ValidAt(back, t)
<1> DEFINE live == Live(links, household, at)
           live2 == Live(links, household, at2)
           n == Len(there.ids)
<1>1. Sound(live) /\ Sound(live2)
  BY LiveIsSound
<1>2. PICK link, via :
        /\ IsWalk(live, source, link, via, n)
        /\ via[n] = there /\ n \in Nat /\ DOMAIN there.ids = 1..n /\ IsList(there.ids)
        /\ \A i \in 1..n : ValidAt(link[i], at) /\ LinkOf(links, there.ids[i]) = link[i]
  BY LinksOnPath
<1>3. PICK link2, via2 :
        /\ IsWalk(live2, target, link2, via2, Len(back.ids)) /\ via2[Len(back.ids)] = back
        /\ \A i \in 1..Len(back.ids) : LinkOf(links, back.ids[i]) = link2[i]
  BY LinksOnPath
<1> HIDE DEF live, live2
<1>4. n # 0
  BY <1>2, EmptyList
<1>5. Len(back.ids) = n /\ \A i \in 1..n : back.ids[i] = there.ids[n + 1 - i]
  <2>1. back.ids = [i \in 1..n |-> there.ids[n - i + 1]]
    BY DEF Reverse
  <2> HIDE DEF n
  <2>2. Len(back.ids) = n
    <3> DEFINE b == back.ids
    <3>1. DOMAIN b = 1..n /\ b = [i \in 1..n |-> b[i]]
      BY <2>1
    <3> HIDE DEF b
    <3>2. Len(b) = n
      BY <1>2, <3>1, FunctionIsList
    <3> QED
      BY <3>2 DEF b
  <2>3. \A i \in 1..n : back.ids[i] = there.ids[n - i + 1] /\ n - i + 1 = n + 1 - i
    BY <1>2, <2>1
  <2> QED
    BY <2>2, <2>3
<1> HIDE DEF n
<1>6. IsWalk(live2, via[n].node, link2, via2, n) /\ via2[n] = back
  BY <1>2, <1>3, <1>5
<1>7. \A i \in 1..n : link2[i] = link[n + 1 - i]
  <2> SUFFICES ASSUME NEW i \in 1..n PROVE link2[i] = link[n + 1 - i]
    OBVIOUS
  <2>1. n + 1 - i \in 1..n
    BY <1>2
  <2>2. link2[i] = LinkOf(links, back.ids[i])
    BY <1>3, <1>5
  <2>3. link[n + 1 - i] = LinkOf(links, there.ids[n + 1 - i])
    BY <1>2, <2>1
  <2> QED
    BY <1>5, <2>2, <2>3
<1>8. Then(Exact(via[n].motion), Exact(via2[n].motion)) = Still
  <2>1. n \in Nat /\ IsWalk(live, source, link, via, n)
    BY <1>2
  <2>2. IsWalk(live2, via[n].node, link2, via2, n)
    BY <1>6
  <2> QED
    BY <1>1, <1>7, <2>1, <2>2, WalkBack
<1>9. /\ via[n].from \in Int /\ via[n].until \in Int
      /\ \A t \in Int : ValidAt(via[n], t) <=> \A i \in 1..n : ValidAt(link[i], t)
  <2>1. n \in Nat \ {0} /\ IsWalk(live, source, link, via, n)
    BY <1>2, <1>4
  <2> QED
    BY <1>1, <2>1, WalkIsValid
<1>10. /\ via2[n].from \in Int /\ via2[n].until \in Int
       /\ \A t \in Int : ValidAt(via2[n], t) <=> \A i \in 1..n : ValidAt(link2[i], t)
  <2>1. n \in Nat \ {0} /\ IsWalk(live2, via[n].node, link2, via2, n)
    BY <1>2, <1>4, <1>6
  <2> QED
    BY <1>1, <2>1, WalkIsValid
<1>11. \A t \in Int : (\A i \in 1..n : ValidAt(link[i], t)) <=> (\A i \in 1..n : ValidAt(link2[i], t))
  <2>1. \A i \in 1..n : n + 1 - i \in 1..n /\ n + 1 - (n + 1 - i) = i
    BY <1>2
  <2>2. \A i \in 1..n : link[i] = link2[n + 1 - i]
    BY <1>7, <2>1
  <2> QED
    BY <1>7, <2>1, <2>2
<1>12. \A t \in Int : ValidAt(there, t) <=> ValidAt(back, t)
  BY <1>2, <1>6, <1>9, <1>10, <1>11
<1>13. ValidAt(there, at)
  BY <1>2, <1>9
<1> QED
  BY <1>2, <1>6, <1>8, <1>9, <1>10, <1>12, <1>13

(* A path is exact, or without turns, if all links are.                    *)
LEMMA PathIsLikeLinks ==
  ASSUME NEW live, Sound(live), NEW source, NEW p, PathTo(live, source, p)
  PROVE  /\ (\A l \in live : l.motion.slack = 0) => p.motion.slack = 0
         /\ (\A l \in live : l.motion.turn = 0) => p.motion.turn = 0
<1> DEFINE n == Len(p.ids)
           Exactly == \A l \in live : l.motion.slack = 0
           Flat == \A l \in live : l.motion.turn = 0
<1>1. PICK link, via : IsWalk(live, source, link, via, n) /\ via[n] = p
  BY DEF PathTo
<1>2. n \in Nat /\ via[0] = Start(source)
  BY <1>1 DEF IsWalk
<1> HIDE DEF n
<1> DEFINE OK(k) == /\ Exactly => via[k].motion.slack = 0
                    /\ Flat => via[k].motion.turn = 0
           W == {k \in Nat : k <= n => OK(k)}
<1>3. 0 \in W
  BY <1>2 DEF Start, Still
<1>4. ASSUME NEW k \in Nat, k \in W PROVE k + 1 \in W
  <2> SUFFICES ASSUME k + 1 <= n PROVE OK(k + 1)
    OBVIOUS
  <2> DEFINE j == k + 1
             l == link[j]
             e == Edge(l, via[k].node)
  <2>1. OK(k) /\ j \in 1..n /\ j - 1 = k
    BY <1>2, <1>4
  <2>2. l \in live
    BY <1>1, <2>1 DEF IsWalk
  <2>3. via[j].motion = Then(via[k].motion, e.motion)
    <3>1. OneLinkMore(link[j], via[j - 1], via[j])
      BY <1>1, <2>1, WalkFacts
    <3> QED
      BY <2>1, <3>1 DEF OneLinkMore
  <2>4. /\ e.motion.slack = l.motion.slack
        /\ l.motion.turn = 0 => e.motion.turn = 0
    BY DEF Edge, Backwards
  <2> HIDE DEF j, l, e
  <2>5. OK(j)
    BY <2>1, <2>2, <2>3, <2>4 DEF Then
  <2> QED
    BY <2>5 DEF j
<1> HIDE DEF W, OK
<1>5. n \in W
  BY <1>2, <1>3, <1>4, NatSetInduction
<1>6. OK(n)
  BY <1>2, <1>5 DEF W
<1> QED
  BY <1>1, <1>6 DEF OK

(* A path to somewhere else has links.                                     *)
LEMMA PathHasLinks ==
  ASSUME NEW p, IsList(p.ids), Len(p.ids) \in Nat \ {0} PROVE p.ids # << >>
BY EmptyList

(* There and back between frames.                                          *)
LEMMA FramesBack == RegistriesInv => FramesGoBack
<1> SUFFICES ASSUME RegistriesInv, NEW q \in Queries(transforms)
             PROVE  LET there == Answer(transforms, q)
                        back  == Answer(transforms, <<q[2], q[1], q[3], q[4]>>)
                    IN  IF there = NoPath THEN back = NoPath
                        ELSE /\ back # NoPath /\ Len(back.ids) = Len(there.ids)
                             /\ back.ids = Reverse(there.ids) =>
                                  /\ Then(there.motion, back.motion) = Still
                                  /\ back.from = there.from /\ back.until = there.until
  BY DEF FramesGoBack
<1> DEFINE s == q[1]
           t == q[2]
           h == q[3]
           at == q[4]
           live == Live(transforms, h, at)
           there == Lookup(transforms, s, t, h, at)
           back == Lookup(transforms, t, s, h, at)
<1>1. s # t /\ at \in Int
  BY LinkAssumption DEF Queries
<1>2. there = Answer(transforms, q) /\ back = Answer(transforms, <<q[2], q[1], q[3], q[4]>>)
  BY DEF Answer
<1>3. LinksInv(transforms, Transform) /\ Transform \in SUBSET (Alignment \cup Transform)
  BY DEF RegistriesInv
<1> HIDE DEF s, t, h, at
<1>4. /\ Sound(live) /\ there = Search(live, s, t)
      /\ there # NoPath => /\ PathTo(live, s, there) /\ there.node = t
                           /\ Len(there.ids) \in Nat \ {0}
  BY <1>1, <1>3, LookupIs
<1>5. /\ back = Search(live, t, s)
      /\ back # NoPath => PathTo(live, t, back)
  BY <1>1, <1>3, LookupIs
<1>6. \A l \in live : l.motion.slack = 0
  <2>1. \A l \in live : l \in ToSet(transforms)
    BY DEF Live
  <2>2. \A l \in live : l \in Transform
    BY <1>3, <2>1 DEF LinksInv, ToSet
  <2> QED
    BY <2>2, LinkAssumption
<1>7. IF there = NoPath THEN back = NoPath ELSE back # NoPath /\ Len(back.ids) = Len(there.ids)
  <2> HIDE DEF live, there, back
  <2> QED
    BY <1>1, <1>4, <1>5, WayBack
<1>8. ASSUME there # NoPath, back # NoPath, back.ids = Reverse(there.ids)
      PROVE  /\ Then(there.motion, back.motion) = Still
             /\ back.from = there.from /\ back.until = there.until
  <2> HIDE DEF there, back
  <2>1. PathTo(live, s, there) /\ PathTo(live, t, back) /\ there.node = t
    BY <1>4, <1>5, <1>8
  <2>2. there.motion \in Motions /\ back.motion \in Motions /\ IsList(there.ids)
    <3> HIDE DEF live
    <3> QED
      BY <1>4, <2>1, PathLength
  <2>3. there.ids # << >>
    BY <1>4, <1>8, <2>2, PathHasLinks
  <2>4. /\ Then(Exact(there.motion), Exact(back.motion)) = Still
        /\ ValidAt(there, at) /\ {there.from, there.until, back.from, back.until} \subseteq Int
        /\ \A u \in Int : ValidAt(there, u) <=> ValidAt(back, u)
    BY <1>1, <1>3, <1>8, <2>1, <2>3, PathBack
  <2>5. there.motion.slack = 0 /\ back.motion.slack = 0
    <3> HIDE DEF live
    <3> QED
      BY <1>4, <1>6, <2>1, PathIsLikeLinks
  <2>6. Exact(there.motion) = there.motion /\ Exact(back.motion) = back.motion
    BY <2>2, <2>5, ExactMotions
  <2>7. back.from = there.from /\ back.until = there.until
    <3>1. /\ there.from \in Int /\ there.until \in Int /\ back.from \in Int /\ back.until \in Int
          /\ there.from < there.until /\ ValidAt(back, at)
      BY <1>1, <2>4 DEF ValidAt
    <3>2. ValidAt(back, there.from) /\ ValidAt(back, there.until - 1)
      BY <2>4, <3>1 DEF ValidAt
    <3>3. back.from < back.until
      BY <1>1, <3>1 DEF ValidAt
    <3>4. ValidAt(there, back.from) /\ ValidAt(there, back.until - 1)
      BY <2>4, <3>1, <3>3 DEF ValidAt
    <3> QED
      BY <3>1, <3>2, <3>4 DEF ValidAt
  <2> QED
    BY <2>4, <2>6, <2>7
<1> QED
  BY <1>2, <1>7, <1>8

(* There and back between clocks.                                          *)
LEMMA ClocksBack == RegistriesInv => ClocksGoBack
<1> SUFFICES ASSUME RegistriesInv, NEW q \in Queries(alignments),
                    Answer(alignments, q) # NoPath
             PROVE  LET there == Answer(alignments, q)
                        time  == Aligned(alignments, q[1], q[2], q[3], q[4])
                        back  == Answer(alignments, <<q[2], q[1], q[3], time>>)
                    IN  /\ (\A l \in ToSet(alignments) : ValidAt(l, time) = ValidAt(l, q[4])) =>
                             back # NoPath /\ Len(back.ids) = Len(there.ids)
                        /\ (back # NoPath /\ back.ids = Reverse(there.ids)) =>
                             Aligned(alignments, q[2], q[1], q[3], time) = q[4]
  BY DEF ClocksGoBack
<1> DEFINE s == q[1]
           t == q[2]
           h == q[3]
           at == q[4]
           time == Aligned(alignments, s, t, h, at)
           live == Live(alignments, h, at)
           live2 == Live(alignments, h, time)
           there == Lookup(alignments, s, t, h, at)
           back == Lookup(alignments, t, s, h, time)
<1>1. s # t /\ at \in Int
  BY LinkAssumption DEF Queries
<1>2. there = Answer(alignments, q) /\ back = Answer(alignments, <<q[2], q[1], q[3], time>>)
  BY DEF Answer
<1>3. LinksInv(alignments, Alignment) /\ Alignment \in SUBSET (Alignment \cup Transform)
  BY DEF RegistriesInv
<1> HIDE DEF s, t, h, at
<1>4. /\ Sound(live) /\ there = Search(live, s, t)
      /\ there # NoPath => /\ PathTo(live, s, there) /\ there.node = t
                           /\ Len(there.ids) \in Nat \ {0}
  BY <1>1, <1>3, LookupIs
<1>5. PathTo(live, s, there) /\ there.node = t /\ Len(there.ids) \in Nat \ {0}
  BY <1>2, <1>4
<1>6. there.motion \in Motions /\ IsList(there.ids)
  <2> HIDE DEF live, there
  <2> QED
    BY <1>4, <1>5, PathLength
<1>7. time = at + there.motion.x
  BY <1>1, <1>2 DEF Aligned
<1>8. time \in Int
  BY <1>1, <1>6, <1>7 DEF Motions
<1> HIDE DEF time
<1>9. /\ Sound(live2) /\ back = Search(live2, t, s)
      /\ back # NoPath => PathTo(live2, t, back)
  BY <1>1, <1>3, <1>8, LookupIs
<1>10. ASSUME \A l \in ToSet(alignments) : ValidAt(l, time) = ValidAt(l, at)
       PROVE  back # NoPath /\ Len(back.ids) = Len(there.ids)
  <2>1. live2 = live
    BY <1>10 DEF Live
  <2>2. there # NoPath
    BY <1>2
  <2> HIDE DEF live, live2, there, back
  <2> QED
    BY <1>1, <1>4, <1>9, <2>1, <2>2, WayBack
<1>11. ASSUME back # NoPath, back.ids = Reverse(there.ids)
       PROVE  Aligned(alignments, t, s, h, time) = at
  <2>1. PathTo(live2, t, back)
    BY <1>9, <1>11
  <2>2. Aligned(alignments, t, s, h, time) = time + back.motion.x
    BY <1>1, <1>11 DEF Aligned
  <2> HIDE DEF there, back
  <2>3. back.motion \in Motions
    <3> HIDE DEF live2
    <3> QED
      BY <1>9, <2>1, PathLength
  <2>4. back.motion.turn = 0
    <3>1. \A l \in live2 : l \in ToSet(alignments)
      BY DEF Live
    <3>2. \A l \in live2 : l \in Alignment
      BY <1>3, <3>1 DEF LinksInv, ToSet
    <3>3. \A l \in live2 : l.motion.turn = 0
      BY <3>2, LinkAssumption
    <3> HIDE DEF live2
    <3> QED
      BY <1>9, <2>1, <3>3, PathIsLikeLinks
  <2>5. there.ids # << >>
    BY <1>5, <1>6, PathHasLinks
  <2>6. Then(Exact(there.motion), Exact(back.motion)) = Still
    BY <1>1, <1>3, <1>5, <1>8, <1>11, <2>1, <2>5, PathBack
  <2>7. there.motion.x + back.motion.x = 0
    BY <1>6, <2>3, <2>4, <2>6 DEF Then, Exact, Still, Rotated, Motions
  <2>8. there.motion.x \in Int /\ back.motion.x \in Int
    BY <1>6, <2>3 DEF Motions
  <2> QED
    BY <1>1, <1>7, <2>2, <2>7, <2>8
<1> QED
  BY <1>2, <1>10, <1>11 DEF s, t, h, at, time

(* Every answer is right, whichever links there are.                       *)
LEMMA AnswersAreRight == RegistriesInv => AnswersFollowTheLinks
<1> SUFFICES ASSUME RegistriesInv PROVE AnswersFollowTheLinks
  OBVIOUS
<1>1. \A links \in {alignments, transforms} : \E Kind \in SUBSET (Alignment \cup Transform) :
        LinksInv(links, Kind)
  BY DEF RegistriesInv
<1>2. AnswersFit
  <2> SUFFICES ASSUME NEW links \in {alignments, transforms}, NEW q \in Queries(links)
               PROVE  AnswerFits(links, q)
    BY DEF AnswersFit
  <2>1. PICK Kind \in SUBSET (Alignment \cup Transform) : LinksInv(links, Kind)
    BY <1>1
  <2> QED
    BY <2>1, AnswersAreFit
<1>3. AnswersMoveAlongTheirPath
  <2> SUFFICES ASSUME NEW q \in Queries(transforms), Answer(transforms, q) # NoPath
               PROVE  LET path == Answer(transforms, q)
                      IN  Carried(transforms, q[1], path.ids, <<1, 0>>)[Len(path.ids)] =
                            [node |-> q[2], p |-> Moved(<<1, 0>>, path.motion)]
    BY DEF AnswersMoveAlongTheirPath
  <2> DEFINE s == q[1]
             t == q[2]
             h == q[3]
             at == q[4]
             path == Lookup(transforms, s, t, h, at)
  <2>1. s # t /\ at \in Int
    BY LinkAssumption DEF Queries
  <2>2. path = Answer(transforms, q)
    BY DEF Answer
  <2>3. LinksInv(transforms, Transform) /\ Transform \in SUBSET (Alignment \cup Transform)
    BY DEF RegistriesInv
  <2> HIDE DEF s, t, h, at
  <2>4. path # NoPath => PathTo(Live(transforms, h, at), s, path) /\ path.node = t
    BY <2>1, <2>3, LookupIs
  <2>5. PathTo(Live(transforms, h, at), s, path) /\ path.node = t
    BY <2>2, <2>4
  <2> HIDE DEF path
  <2> DEFINE p == <<1, 0>>
  <2>6. p \in Int \X Int
    OBVIOUS
  <2> HIDE DEF p
  <2>7. Carried(transforms, s, path.ids, p)[Len(path.ids)] =
          [node |-> path.node, p |-> Moved(p, path.motion)]
    BY <2>1, <2>3, <2>5, <2>6, PointGoesAlong
  <2> QED
    BY <2>2, <2>5, <2>7 DEF s, t, p
<1> QED
  BY <1>2, <1>3, LinksArePairs, FramesBack, ClocksBack DEF AnswersFollowTheLinks

(* Whatever was registered, no pair has two links that are valid at once,  *)
(* and an answer is that of a shortest path of valid links, for as long as *)
(* they are valid, and it moves what it is applied to along this path and  *)
(* back again.                                                             *)
THEOREM AnswersSafety == M02Spec => []AnswersFollowTheLinks
BY RegistriesKeepLinks, AnswersAreRight, PTL DEF M02Spec

-----------------------------------------------------------------------------
(* M30, the routine generator.                                             *)

(* Every event has one day, and one routine.                               *)
LEMMA OneDay ==
  ASSUME NEW start \in Int, NEW slot \in 0..(DayLength - 1), NEW day \in Nat
  PROVE  ((start + day * DayLength + slot) - start) \div DayLength = day
<1>1. DayLength \in Nat \ {0} /\ slot \in Nat /\ slot < DayLength
  BY DayAssumption
<1> DEFINE a == DayLength * day + slot
<1>2. a \in Nat /\ (start + day * DayLength + slot) - start = a
  <2>1. DayLength * day \in Nat /\ day * DayLength = DayLength * day
    BY <1>1
  <2> QED
    BY <1>1, <2>1
<1>3. a \div DayLength = day
  BY <1>1, <1>2, DivisionIsUnique
<1> QED
  BY <1>2, <1>3

(* The days of a plan, and that of an event.                               *)
DayOf(c, e) == (e.time - c.start) \div DayLength

Days(c) == 0..(c.duration - 1)

Proper(c) == TypedConfig(c) /\ ValidConfig(c)

(* An object has one routine.                                              *)
LEMMA OneRoutine ==
  ASSUME NEW c, Proper(c), NEW r \in ToSet(c.routines), NEW q \in ToSet(c.routines),
         r.object = q.object
  PROVE  r = q
BY DEF Proper, ValidConfig, ToSet

(* An event is of one day and one routine.                                 *)
LEMMA EventFacts ==
  ASSUME NEW c, Proper(c), NEW draws, NEW day \in Days(c), NEW r \in ToSet(c.routines)
  PROVE  LET e == PlacedOn(c, draws, day, r)
         IN  /\ e \in EventsOf(c, draws)
             /\ e.time = c.start + day * DayLength + r.slot /\ e.object = r.object
             /\ e.time \in Int /\ e.object \in Int
             /\ DayOf(c, e) = day
             /\ day \in Nat
<1> DEFINE e == PlacedOn(c, draws, day, r)
<1>1. e.time = c.start + day * DayLength + r.slot /\ e.object = r.object
  BY DEF PlacedOn
<1>2. e \in EventsOf(c, draws)
  BY DEF EventsOf, Days
<1>3. c.start \in Int /\ c.duration \in Int /\ r.object \in Int /\ r.slot \in 0..(DayLength - 1)
  BY DEF Proper, TypedConfig
<1>4. day \in Nat /\ DayLength \in Nat
  BY <1>3, DayAssumption DEF Days
<1> HIDE DEF e
<1>5. e.time \in Int
  BY <1>1, <1>3, <1>4
<1> QED
  BY <1>1, <1>2, <1>3, <1>4, <1>5, OneDay DEF e, DayOf

(* Two events of an object at one time are one event.                      *)
LEMMA OneEventAtATime ==
  ASSUME NEW c, Proper(c), NEW draws, NEW e \in EventsOf(c, draws), NEW f \in EventsOf(c, draws),
         e.time = f.time, e.object = f.object
  PROVE  e = f
<1>1. PICK day \in Days(c), r \in ToSet(c.routines) : e = PlacedOn(c, draws, day, r)
  BY DEF EventsOf, Days
<1>2. PICK day2 \in Days(c), q \in ToSet(c.routines) : f = PlacedOn(c, draws, day2, q)
  BY DEF EventsOf, Days
<1>3. e.object = r.object /\ DayOf(c, e) = day
  BY <1>1, EventFacts
<1>4. f.object = q.object /\ DayOf(c, f) = day2
  BY <1>2, EventFacts
<1>5. day = day2 /\ r.object = q.object
  BY <1>3, <1>4 DEF DayOf
<1> QED
  BY <1>1, <1>2, <1>5, OneRoutine

(* A plan lists its events, in the order of time.                          *)
LEMMA PlanFacts ==
  ASSUME NEW c, Proper(c), NEW draws
  PROVE  LET events == Generated(c, draws).events
         IN  /\ ToSet(events) = EventsOf(c, draws) /\ IsFiniteSet(ToSet(events))
             /\ \E n \in Nat : DOMAIN events = 1..n
             /\ \A i, j \in DOMAIN events : i < j <=>
                  Precedes(<<events[i].time, events[i].object>>, <<events[j].time, events[j].object>>)
<1> DEFINE E == EventsOf(c, draws)
           rank == [e \in E |-> <<e.time, e.object>>]
           events == Generated(c, draws).events
<1>1. events = InOrder(E, rank)
  BY DEF Generated
<1>2. IsFiniteSet(E)
  <2> DEFINE D == Days(c)
             Q == ToSet(c.routines)
             f == [p \in D \X Q |-> PlacedOn(c, draws, p[1], p[2])]
  <2>1. IsFiniteSet(D) /\ IsFiniteSet(Q)
    <3>1. 0 \in Int /\ c.duration - 1 \in Int /\ IsFiniteSet(Q)
      BY DEF Proper, TypedConfig
    <3> QED
      BY <3>1, FS_Interval DEF Days
  <2>2. IsFiniteSet(D \X Q)
    BY <2>1, FS_Product
  <2>3. IsFiniteSet({f[p] : p \in D \X Q})
    <3> HIDE DEF f
    <3> QED
      BY <2>2, ImageIsFinite
  <2>4. {f[p] : p \in D \X Q} = E
    <3>1. E = {PlacedOn(c, draws, day, r) : day \in D, r \in Q}
      BY DEF EventsOf, Days
    <3>2. \A day \in D, r \in Q : f[<<day, r>>] = PlacedOn(c, draws, day, r)
      OBVIOUS
    <3> HIDE DEF E, D, Q, f
    <3>3. ASSUME NEW x \in E PROVE x \in {f[p] : p \in D \X Q}
      <4>1. PICK day \in D, r \in Q : x = PlacedOn(c, draws, day, r)
        BY <3>1
      <4>2. <<day, r>> \in D \X Q /\ f[<<day, r>>] = x
        BY <3>2, <4>1
      <4> QED
        BY <4>2
    <3>4. ASSUME NEW p \in D \X Q PROVE f[p] \in E
      <4>1. PICK day \in D, r \in Q : p = <<day, r>>
        OBVIOUS
      <4>2. f[p] = PlacedOn(c, draws, day, r)
        BY <3>2, <4>1
      <4> QED
        BY <3>1, <4>2
    <3> QED
      BY <3>3, <3>4
  <2> QED
    BY <2>3, <2>4
<1>3. \A e \in E : e.time \in Int /\ e.object \in Int
  <2> SUFFICES ASSUME NEW e \in E PROVE e.time \in Int /\ e.object \in Int
    OBVIOUS
  <2>1. PICK day \in Days(c), r \in ToSet(c.routines) : e = PlacedOn(c, draws, day, r)
    BY DEF EventsOf, Days
  <2> QED
    BY <2>1, EventFacts
<1>4. \A e \in E : rank[e] = <<e.time, e.object>> /\ rank[e][1] = e.time /\ rank[e][2] = e.object
  OBVIOUS
<1>5. \A e, f \in E : e.time = f.time /\ e.object = f.object => e = f
  BY OneEventAtATime
<1> HIDE DEF E, rank, events
<1>6. /\ Cardinality(E) \in Nat /\ DOMAIN events = 1..Cardinality(E)
      /\ \A k \in DOMAIN events : events[k] \in E
      /\ \A x \in E : \E k \in DOMAIN events : events[k] = x
      /\ \A i, j \in DOMAIN events : i < j <=> Precedes(rank[events[i]], rank[events[j]])
  <2>1. /\ \A x \in E : rank[x][1] \in Int /\ rank[x][2] \in Int
        /\ \A x, y \in E : rank[x][1] = rank[y][1] /\ rank[x][2] = rank[y][2] => x = y
    BY <1>3, <1>4, <1>5
  <2> QED
    BY <1>1, <1>2, <2>1, InOrderFacts
<1>7. ToSet(events) = E
  BY <1>6 DEF ToSet
<1>8. \A i, j \in DOMAIN events : i < j <=>
        Precedes(<<events[i].time, events[i].object>>, <<events[j].time, events[j].object>>)
  BY <1>4, <1>6
<1>9. \E n \in Nat : DOMAIN events = 1..n
  BY <1>6
<1> QED
  BY <1>2, <1>7, <1>8, <1>9 DEF E, events

(* A change does not apply on the days outside it.                         *)
LEMMA OutsideNothingApplies ==
  ASSUME NEW change, change.from \in Nat, change.until # NoDay => change.until \in Nat,
         NEW day \in Nat, Outside(change, day), NEW draws
  PROVE  ~ ChangeApplies(draws, day, change)
<1>1. CASE day < change.from
  BY <1>1 DEF ChangeApplies
<1>2. CASE change.until # NoDay /\ day > change.until
  BY <1>2 DEF ChangeApplies
<1>3. CASE change.kind = "isolated_anomaly" /\ day # change.from
  BY <1>3 DEF ChangeApplies
<1> QED
  BY <1>1, <1>2, <1>3 DEF Outside

Without(c, change) == [c EXCEPT !.changes = @ \ {change}]

(* Without one of its changes a config is one.                             *)
LEMMA WithoutFacts ==
  ASSUME NEW c, Proper(c), NEW change \in c.changes
  PROVE  /\ Proper(Without(c, change))
         /\ Without(c, change).changes = c.changes \ {change}
         /\ Without(c, change).start = c.start
         /\ Without(c, change).duration = c.duration
         /\ Without(c, change).routines = c.routines
<1> DEFINE d == Without(c, change)
<1>1. /\ d.changes = c.changes \ {change} /\ d.start = c.start /\ d.duration = c.duration
      /\ d.routines = c.routines /\ DOMAIN d = DOMAIN c
  BY DEF Proper, TypedConfig, Without
<1> HIDE DEF d
<1>2. TypedConfig(d)
  BY <1>1 DEF Proper, TypedConfig
<1>3. ValidConfig(d)
  <2>1. ValidConfig(c)
    BY DEF Proper
  <2> QED
    BY <1>1, <2>1 DEF ValidConfig
<1> QED
  BY <1>1, <1>2, <1>3 DEF Proper, d

(* On the days outside a change the same happens without it.               *)
LEMMA SameWithout ==
  ASSUME NEW c, Proper(c), NEW change \in c.changes, NEW draws,
         NEW day \in Days(c), NEW r \in ToSet(c.routines), Outside(change, day)
  PROVE  What(PlacedOn(c, draws, day, r)) = What(PlacedOn(Without(c, change), draws, day, r))
<1> DEFINE d == Without(c, change)
           mine(b) == {x \in b.changes : x.object = r.object /\ ChangeApplies(draws, day, x)}
<1>1. d.changes = c.changes \ {change} /\ d.start = c.start
  BY WithoutFacts
<1>2. ~ ChangeApplies(draws, day, change)
  <2>1. change.from \in Nat /\ (change.until # NoDay => change.until \in Nat) /\ day \in Nat
    BY DEF Proper, TypedConfig, Days
  <2> QED
    BY <2>1, OutsideNothingApplies
<1>3. mine(d) = mine(c)
  <2> HIDE DEF d
  <2> QED
    BY <1>1, <1>2
<1>4. Applied(d, draws, day, r.object) = Applied(c, draws, day, r.object)
  <2>1. Applied(d, draws, day, r.object) = InOrder(mine(d), [x \in mine(d) |-> <<x.from, x.id>>])
    BY DEF Applied
  <2>2. Applied(c, draws, day, r.object) = InOrder(mine(c), [x \in mine(c) |-> <<x.from, x.id>>])
    BY DEF Applied
  <2> HIDE DEF mine
  <2> QED
    BY <1>3, <2>1, <2>2
<1>5. StateForDay(d, draws, day, r) = StateForDay(c, draws, day, r)
  BY <1>4 DEF StateForDay
<1> HIDE DEF d
<1>6. What(PlacedOn(c, draws, day, r)) = What(PlacedOn(d, draws, day, r))
  BY <1>1, <1>5 DEF What, PlacedOn
<1> QED
  BY <1>6 DEF d

(* What makes PlansAreCoherent inductive.                                  *)
PlanInv ==
  /\ config \in Config
  /\ plan # NoPlan => Proper(config) /\ plan = Generated(config, coin)

(* The story outside a change is the same with and without it.             *)
LEMMA StoriesAgree ==
  ASSUME NEW change \in config.changes, Proper(config)
  PROVE  Story(Generated(config, coin).events, change) =
           Story(Generated(Without(config, change), coin).events, change)
<1> DEFINE d == Without(config, change)
           E == EventsOf(config, coin)
           F == EventsOf(d, coin)
           Side(S) == {What(e) : e \in {x \in S : Outside(change, Day(x))}}
<1>1. /\ Proper(d) /\ d.start = config.start /\ d.duration = config.duration
      /\ d.routines = config.routines
  BY WithoutFacts
<1>2. Story(Generated(config, coin).events, change) = Side(E)
  <2>1. ToSet(Generated(config, coin).events) = E
    BY PlanFacts
  <2> QED
    BY <2>1, Zenon DEF Story
<1>3. Story(Generated(d, coin).events, change) = Side(F)
  <2>1. ToSet(Generated(d, coin).events) = F
    BY <1>1, PlanFacts
  <2> QED
    BY <2>1, Zenon DEF Story
<1> HIDE DEF d
<1>4. \A e : Day(e) = DayOf(config, e)
  BY DEF Day, DayOf
<1>5. \A e : DayOf(d, e) = DayOf(config, e)
  BY <1>1 DEF DayOf
<1>6. ASSUME NEW day \in Days(config), NEW r \in ToSet(config.routines)
      PROVE  LET e == PlacedOn(config, coin, day, r)
                 f == PlacedOn(d, coin, day, r)
             IN  /\ e \in E /\ f \in F /\ Day(e) = day /\ Day(f) = day
                 /\ Outside(change, day) => What(e) = What(f)
  <2>1. PlacedOn(config, coin, day, r) \in E /\ DayOf(config, PlacedOn(config, coin, day, r)) = day
    BY EventFacts
  <2>2. day \in Days(d) /\ r \in ToSet(d.routines)
    BY <1>1 DEF Days
  <2>3. PlacedOn(d, coin, day, r) \in F /\ DayOf(d, PlacedOn(d, coin, day, r)) = day
    BY <1>1, <2>2, EventFacts
  <2>4. Outside(change, day) =>
          What(PlacedOn(config, coin, day, r)) = What(PlacedOn(d, coin, day, r))
    BY SameWithout DEF d
  <2> HIDE DEF E, F
  <2> QED
    BY <1>4, <1>5, <2>1, <2>3, <2>4
<1>7. E = {PlacedOn(config, coin, day, r) : day \in Days(config), r \in ToSet(config.routines)}
      /\ F = {PlacedOn(d, coin, day, r) : day \in Days(config), r \in ToSet(config.routines)}
  BY <1>1 DEF EventsOf, Days
<1> HIDE DEF E, F
<1>8. ASSUME NEW w \in Side(E) PROVE w \in Side(F)
  <2>1. PICK e \in E : w = What(e) /\ Outside(change, Day(e))
    OBVIOUS
  <2>2. PICK day \in Days(config), r \in ToSet(config.routines) : e = PlacedOn(config, coin, day, r)
    BY <1>7
  <2> QED
    BY <1>6, <2>1, <2>2
<1>9. ASSUME NEW w \in Side(F) PROVE w \in Side(E)
  <2>1. PICK e \in F : w = What(e) /\ Outside(change, Day(e))
    OBVIOUS
  <2>2. PICK day \in Days(config), r \in ToSet(config.routines) : e = PlacedOn(d, coin, day, r)
    BY <1>7
  <2> QED
    BY <1>6, <2>1, <2>2
<1> HIDE DEF Side
<1>10. Side(E) = Side(F)
  BY <1>8, <1>9
<1> QED
  BY <1>2, <1>3, <1>10 DEF d

(* For one object, a later day is a later time.                            *)
LEMMA LaterDays ==
  ASSUME NEW start \in Int, NEW slot \in 0..(DayLength - 1), NEW a \in Nat, NEW b \in Nat
  PROVE  (start + a * DayLength + slot < start + b * DayLength + slot) <=> a < b
<1>1. DayLength \in Nat \ {0} /\ slot \in Nat
  BY DayAssumption
<1>2. a * DayLength \in Nat /\ b * DayLength \in Nat
  BY <1>1
<1>3. ASSUME NEW x \in Nat, NEW y \in Nat, x < y PROVE x * DayLength < y * DayLength
  <2>1. PICK d \in Nat : y = x + 1 + d
    <3>1. y - x - 1 \in Nat /\ y = x + 1 + (y - x - 1)
      BY <1>3
    <3> QED
      BY <3>1
  <2>2. y * DayLength = x * DayLength + DayLength + d * DayLength
    BY <1>1, <2>1
  <2>3. d * DayLength \in Nat /\ x * DayLength \in Nat
    BY <1>1
  <2> QED
    BY <1>1, <2>2, <2>3
<1>4. a < b => a * DayLength < b * DayLength
  BY <1>3
<1>5. b < a => b * DayLength < a * DayLength
  BY <1>3
<1>6. a * DayLength < b * DayLength <=> a < b
  BY <1>2, <1>4, <1>5
<1>7. (start + a * DayLength + slot < start + b * DayLength + slot) <=> a * DayLength < b * DayLength
  <2> HIDE DEF Proper
  <2>1. \A p, q \in Nat : (start + p + slot < start + q + slot) <=> p < q
    BY <1>1
  <2> QED
    BY <1>2, <2>1
<1> QED
  BY <1>6, <1>7

(* The event that puts an object somewhere takes it from where the latest  *)
(* event before put it, or from where it was at first.                     *)
LEMMA SourceFacts ==
  ASSUME NEW c, Proper(c), NEW draws, NEW e \in EventsOf(c, draws)
  PROVE  LET before == {f \in EventsOf(c, draws) : f.object = e.object /\ f.time < e.time}
         IN  IF before = {} THEN e.source = Generated(c, draws).initial[e.object]
             ELSE \E l \in before : (\A f \in before : f.time <= l.time) /\ l.destination = e.source
<1> DEFINE before == {f \in EventsOf(c, draws) : f.object = e.object /\ f.time < e.time}
           At(day, r) == PlacedOn(c, draws, day, r)
<1>1. PICK day \in Days(c), r \in ToSet(c.routines) : e = At(day, r)
  BY DEF EventsOf, Days
<1>2. c.start \in Int /\ r.slot \in 0..(DayLength - 1) /\ c.duration \in Int /\ DayLength \in Nat
  BY DayAssumption DEF Proper, TypedConfig
<1>3. day \in Nat /\ day \in 0..(c.duration - 1)
  BY <1>2 DEF Days
<1>4. e.object = r.object /\ e.time = c.start + day * DayLength + r.slot
  BY <1>1, EventFacts
<1>5. ASSUME NEW d \in Days(c)
      PROVE  /\ At(d, r) \in EventsOf(c, draws) /\ At(d, r).object = e.object /\ d \in Nat
             /\ At(d, r).time = c.start + d * DayLength + r.slot
             /\ At(d, r).destination = StateForDay(c, draws, d, r).destination
  <2>1. At(d, r).destination = StateForDay(c, draws, d, r).destination
    BY DEF PlacedOn
  <2> HIDE DEF At
  <2> QED
    BY <1>4, <2>1, EventFacts DEF At
<1>6. ASSUME NEW f \in before
      PROVE  \E d \in Days(c) : f = At(d, r) /\ d < day
  <2>1. PICK d \in Days(c), q \in ToSet(c.routines) : f = At(d, q)
    BY DEF EventsOf, Days
  <2>2. f.object = q.object
    BY <2>1, EventFacts
  <2>3. q = r
    BY <1>4, <2>2, OneRoutine
  <2>4. f.time = c.start + d * DayLength + r.slot /\ d \in Nat
    BY <2>1, <2>3, EventFacts
  <2>5. c.start + d * DayLength + r.slot < c.start + day * DayLength + r.slot
    BY <1>4, <2>4
  <2>6. d < day
    BY <1>2, <1>3, <2>4, <2>5, LaterDays
  <2> QED
    BY <2>1, <2>3, <2>6
<1>7. e.source = CurrentLocation(c, draws, day, r)
  BY <1>1 DEF PlacedOn
<1>8. CASE day = 0
  <2>1. before = {}
    <3> SUFFICES ASSUME NEW f \in before PROVE FALSE
      OBVIOUS
    <3>1. PICK d \in Days(c) : d < day
      BY <1>6
    <3> QED
      BY <1>2, <1>8, <3>1 DEF Days
  <2>2. e.source = r.initial
    BY <1>7, <1>8 DEF CurrentLocation
  <2>3. Generated(c, draws).initial[e.object] = r.initial
    <3> DEFINE routine(object) == CHOOSE x \in ToSet(c.routines) : x.object = object
    <3>1. Generated(c, draws).initial =
            [object \in {x.object : x \in ToSet(c.routines)} |-> routine(object).initial]
      BY DEF Generated
    <3>2. r.object \in {x.object : x \in ToSet(c.routines)}
      OBVIOUS
    <3>3. routine(r.object) \in ToSet(c.routines) /\ routine(r.object).object = r.object
      OBVIOUS
    <3>4. routine(r.object) = r
      <4> HIDE DEF routine
      <4> QED
        BY <3>3, OneRoutine
    <3> HIDE DEF routine
    <3> QED
      BY <1>4, <3>1, <3>2, <3>4
  <2> QED
    BY <2>1, <2>2, <2>3
<1>9. CASE day # 0
  <2>1. day - 1 \in Nat /\ day - 1 \in Days(c) /\ day - 1 < day
    BY <1>2, <1>3, <1>9 DEF Days
  <2> DEFINE l == At(day - 1, r)
  <2>2. l.destination = e.source
    <3>1. e.source = StateForDay(c, draws, day - 1, r).destination
      BY <1>7, <1>9 DEF CurrentLocation
    <3> QED
      BY <1>5, <2>1, <3>1
  <2>3. l \in before
    <3>1. /\ l \in EventsOf(c, draws) /\ l.object = e.object
          /\ l.time = c.start + (day - 1) * DayLength + r.slot
      BY <1>5, <2>1
    <3>2. c.start + (day - 1) * DayLength + r.slot < c.start + day * DayLength + r.slot
      BY <1>2, <1>3, <2>1, LaterDays
    <3> HIDE DEF l
    <3> QED
      BY <1>4, <3>1, <3>2
  <2>4. ASSUME NEW f \in before PROVE f.time <= l.time
    <3>1. PICK d \in Days(c) : f = At(d, r) /\ d < day
      BY <1>6
    <3>2. d \in Nat /\ f.time = c.start + d * DayLength + r.slot
      BY <1>5, <3>1
    <3>3. l.time = c.start + (day - 1) * DayLength + r.slot
      BY <1>5, <2>1
    <3>4. CASE d = day - 1
      <4>1. c.start + (day - 1) * DayLength + r.slot \in Int
        BY <1>2, <2>1
      <4> HIDE DEF l
      <4> QED
        BY <3>2, <3>3, <3>4, <4>1
    <3>5. CASE d < day - 1
      <4>1. c.start + d * DayLength + r.slot < c.start + (day - 1) * DayLength + r.slot
        BY <1>2, <2>1, <3>2, <3>5, LaterDays
      <4>2. c.start + (day - 1) * DayLength + r.slot \in Int /\ c.start + d * DayLength + r.slot \in Int
        BY <1>2, <2>1, <3>2
      <4> HIDE DEF l
      <4> QED
        BY <3>2, <3>3, <4>1, <4>2
    <3> QED
      BY <1>3, <3>1, <3>2, <3>4, <3>5
  <2> HIDE DEF l, before
  <2> QED
    BY <2>2, <2>3, <2>4 DEF before
<1> QED
  BY <1>8, <1>9

(* The source of the event at place i of plan p.                           *)
SourceIsRight(p, i) ==
  LET event   == p.events[i]
      earlier == {j \in 1..(i - 1) : p.events[j].object = event.object}
  IN  event.source = IF earlier = {} THEN p.initial[event.object]
                     ELSE p.events[Max(earlier)].destination

(* Every object is where the last event before put it.                     *)
LEMMA SourcesAreRight ==
  ASSUME NEW c, Proper(c), NEW draws, NEW p, p = Generated(c, draws),
         NEW i \in DOMAIN p.events
  PROVE  SourceIsRight(p, i)
<1> DEFINE ev == p.events
           e == ev[i]
           earlier == {j \in 1..(i - 1) : ev[j].object = e.object}
           before == {f \in EventsOf(c, draws) : f.object = e.object /\ f.time < e.time}
<1>1. PICK n \in Nat : DOMAIN ev = 1..n
  BY PlanFacts
<1>2. ToSet(ev) = EventsOf(c, draws)
  BY PlanFacts
<1>3. \A a, b \in DOMAIN ev : a < b <=>
        Precedes(<<ev[a].time, ev[a].object>>, <<ev[b].time, ev[b].object>>)
  BY PlanFacts
<1>4. \A j \in DOMAIN ev : ev[j] \in EventsOf(c, draws)
  BY <1>2 DEF ToSet
<1>5. \A x \in EventsOf(c, draws) : x.time \in Int /\ x.object \in Int
  <2> SUFFICES ASSUME NEW x \in EventsOf(c, draws) PROVE x.time \in Int /\ x.object \in Int
    OBVIOUS
  <2>1. PICK day \in Days(c), r \in ToSet(c.routines) : x = PlacedOn(c, draws, day, r)
    BY DEF EventsOf, Days
  <2> QED
    BY <2>1, EventFacts
<1>6. IF before = {} THEN e.source = Generated(c, draws).initial[e.object]
      ELSE \E l \in before : (\A f \in before : f.time <= l.time) /\ l.destination = e.source
  BY <1>4, SourceFacts
<1> HIDE DEF ev
<1>7. \A j \in DOMAIN ev : ev[j].object = e.object => (j < i <=> ev[j].time < e.time)
  <2> SUFFICES ASSUME NEW j \in DOMAIN ev, ev[j].object = e.object
               PROVE  j < i <=> ev[j].time < e.time
    OBVIOUS
  <2>1. ev[j].time \in Int /\ e.time \in Int /\ e.object \in Int /\ i \in DOMAIN ev
    BY <1>4, <1>5 DEF ev
  <2>2. j < i <=> Precedes(<<ev[j].time, ev[j].object>>, <<e.time, e.object>>)
    BY <1>3, <2>1
  <2> QED
    BY <2>1, <2>2 DEF Precedes
<1>8. \A a, b \in earlier : ev[b].time <= ev[a].time => b <= a
  <2> SUFFICES ASSUME NEW a \in earlier, NEW b \in earlier, ev[b].time <= ev[a].time, ~ (b <= a)
               PROVE  FALSE
    OBVIOUS
  <2>1. i \in 1..n
    BY <1>1 DEF ev
  <2>2. a \in DOMAIN ev /\ b \in DOMAIN ev /\ a < b /\ ev[a].object = ev[b].object
    BY <1>1, <2>1
  <2>3. /\ ev[a].time \in Int /\ ev[b].time \in Int /\ ev[a].object \in Int
    BY <1>4, <1>5, <2>2
  <2>4. Precedes(<<ev[a].time, ev[a].object>>, <<ev[b].time, ev[b].object>>)
    BY <1>3, <2>2
  <2> QED
    BY <2>2, <2>3, <2>4 DEF Precedes
<1>9. before = {ev[j] : j \in earlier}
  <2>0. i \in 1..n
    BY <1>1 DEF ev
  <2>1. ASSUME NEW f \in before PROVE f \in {ev[j] : j \in earlier}
    <3>1. PICK j \in DOMAIN ev : f = ev[j]
      BY <1>2 DEF ToSet
    <3>2. j < i
      BY <1>7, <3>1
    <3>3. j \in earlier
      BY <1>1, <2>0, <3>1, <3>2
    <3> QED
      BY <3>1, <3>3
  <2>2. ASSUME NEW j \in earlier PROVE ev[j] \in before
    <3>1. j \in DOMAIN ev /\ j < i
      BY <1>1, <2>0
    <3> QED
      BY <1>4, <1>7, <3>1
  <2> QED
    BY <2>1, <2>2
<1>10. e.source = IF earlier = {} THEN p.initial[e.object] ELSE ev[Max(earlier)].destination
  <2>1. CASE before = {}
    <3>1. earlier = {}
      BY <1>9, <2>1
    <3> QED
      BY <1>6, <2>1, <3>1
  <2>2. CASE before # {}
    <3>1. PICK l \in before : (\A f \in before : f.time <= l.time) /\ l.destination = e.source
      BY <1>6, <2>2
    <3>2. PICK m \in earlier : l = ev[m]
      BY <1>9
    <3> HIDE DEF before, e
    <3>3. \A j \in earlier : ev[j].time <= ev[m].time
      BY <1>9, <3>1, <3>2
    <3>4. \A j \in earlier : j <= m
      BY <1>8, <3>2, <3>3
    <3>5. \A j \in earlier : j \in Int
      BY <1>1 DEF ev
    <3>6. Max(earlier) = m
      <4> DEFINE S == earlier
      <4>1. \A j \in S : m >= j
        BY <3>4, <3>5
      <4>2. \A x \in S : (\A y \in S : x >= y) => x = m
        BY <3>2, <3>4, <3>5
      <4> HIDE DEF S
      <4>3. m \in S
        BY DEF S
      <4>4. (CHOOSE x \in S : \A y \in S : x >= y) = m
        BY <4>1, <4>2, <4>3
      <4> QED
        BY <4>4 DEF Max, S
    <3> HIDE DEF earlier
    <3> QED
      BY <3>1, <3>2, <3>6 DEF earlier
  <2> QED
    BY <2>1, <2>2
<1> QED
  BY <1>10 DEF ev, SourceIsRight

(* PlansAreCoherent, with any changes, of any length, whatever is drawn.   *)
THEOREM PlansSafety == RoutineSpec => []PlansAreCoherent
<1>1. RoutineInit => PlanInv
  BY DEF RoutineInit, PlanInv
<1>2. PlanInv /\ [RoutineNext]_routineVars => PlanInv'
  <2> SUFFICES ASSUME PlanInv, [RoutineNext]_routineVars PROVE PlanInv'
    OBVIOUS
  <2>1. CASE Generate
    <3>1. Proper(config)
      BY <2>1, ConfigAssumption DEF Generate, PlanInv, Proper
    <3>2. config' = config /\ coin' = coin /\ plan' = Generated(config, coin)
      BY <2>1 DEF Generate
    <3> QED
      BY <3>1, <3>2 DEF PlanInv
  <2>2. CASE UNCHANGED routineVars
    BY <2>2 DEF PlanInv, routineVars
  <2> QED
    BY <2>1, <2>2 DEF RoutineNext
<1>3. PlanInv => PlansAreCoherent
  <2> SUFFICES ASSUME PlanInv, plan # NoPlan PROVE PlansAreCoherent
    BY DEF PlansAreCoherent, ExceptionsPass, SourcesChain
  <2>1. Proper(config) /\ plan = Generated(config, coin)
    BY DEF PlanInv
  <2>2. ExceptionsPass
    <3>1. ASSUME NEW change \in config.changes
          PROVE  Story(plan.events, change) =
                   Story(Generated([config EXCEPT !.changes = @ \ {change}], coin).events, change)
      BY <2>1, StoriesAgree, Zenon DEF Without
    <3> QED
      BY <3>1, Zenon DEF ExceptionsPass
  <2>3. SourcesChain
    <3>1. ASSUME NEW i \in DOMAIN plan.events
          PROVE  SourceIsRight(plan, i)
      BY <2>1, SourcesAreRight
    <3> QED
      BY <3>1, Zenon DEF SourcesChain, SourceIsRight
  <2> QED
    BY <2>2, <2>3 DEF PlansAreCoherent
<1> QED
  BY <1>1, <1>2, <1>3, PTL DEF RoutineSpec

-----------------------------------------------------------------------------
(* M29, the simulator.                                                     *)

(* A call that runs: its policies have their types and are valid.          *)
LEMMA CallFacts ==
  ASSUME NEW c \in Call, CanRun(c), NEW l \in Lane
  PROVE  LET policy == c.policies[l]
             samples == policy.samples
         IN  /\ policy.coverage * policy.visible \in Nat
             /\ policy.coverage * policy.visible * policy.detect \in Nat
             /\ policy.strength * Part * Part \in Nat /\ policy.strength * Part * Part > 0
             /\ NoLocation \notin policy.located
             /\ Len(samples) \in Nat /\ DOMAIN samples = 1..Len(samples)
             /\ \A k \in DOMAIN samples : samples[k].time \in Int
             /\ Chained(c.plans[l])
<1> DEFINE policy == c.policies[l]
           samples == policy.samples
<1>1. Chained(c.plans[l]) /\ TypedPolicy(policy) /\ ValidPolicy(policy)
  BY CallAssumption DEF CanRun, Lane
<1> HIDE DEF policy
<1>2. /\ policy.coverage \in Nat /\ policy.visible \in Nat /\ policy.detect \in Nat
      /\ policy.strength \in Nat /\ policy.strength > 0 /\ NoLocation \notin policy.located
  BY <1>1 DEF TypedPolicy, ValidPolicy
<1>3. Len(samples) \in Nat /\ DOMAIN samples = 1..Len(samples)
  BY <1>1 DEF TypedPolicy
<1>4. \A k \in DOMAIN samples : samples[k].time \in Int
  BY <1>1 DEF TypedPolicy, ToSet
<1>5. \A a, b \in Nat : a * b \in Nat /\ (a > 0 /\ b > 0 => a * b > 0)
  OBVIOUS
<1>6. policy.coverage * policy.visible \in Nat
  BY <1>2, <1>5
<1>7. policy.coverage * policy.visible * policy.detect \in Nat
  BY <1>2, <1>5, <1>6
<1>8. policy.strength * Part \in Nat /\ policy.strength * Part > 0
  BY <1>2, <1>5, PartAssumption
<1>9. policy.strength * Part * Part \in Nat /\ policy.strength * Part * Part > 0
  BY <1>5, <1>8, PartAssumption
<1> QED
  BY <1>1, <1>2, <1>3, <1>4, <1>6, <1>7, <1>9 DEF policy

(* What a sample with certain draws adds.                                  *)
LEMMA ResultFacts ==
  ASSUME NEW c \in Call, CanRun(c), NEW l \in Lane, NEW k, NEW selected \in BOOLEAN, NEW v \in Draw
  PROVE  LET policy == c.policies[l]
             sample == policy.samples[k]
             place  == LocationAt(c.plans[l], policy.object, sample.time)
             o == Opportunity(c, l, k, selected)
             r == Result(c, l, o, sample, v)
         IN  /\ o.id = <<StreamId(c, l), k>> /\ o.time = sample.time /\ o.selected = selected
             /\ r.opportunity = o.id /\ r.recorded = o.time
             /\ (r.outcome = "not_observed") <=> ~ selected
             /\ (r.outcome = "detected") <=> (r.location # NoLocation)
             /\ (r.outcome = "verified_absence") <=> (r.strength > 0)
             /\ r.outcome = "detected" => r.location = place /\ place \in sample.sees
<1> DEFINE policy == c.policies[l]
           sample == policy.samples[k]
           place  == LocationAt(c.plans[l], policy.object, sample.time)
           o == Opportunity(c, l, k, selected)
           strength == policy.coverage * policy.visible * policy.detect
           bound == policy.strength * Part * Part
           present == InFrustum(policy, sample, place) /\ policy.coverage > 0
           outcome == Outcome(policy, selected, strength, present, v)
           r == Result(c, l, o, sample, v)
<1>1. strength \in Nat /\ bound \in Nat /\ bound > 0 /\ NoLocation \notin policy.located
  BY CallFacts
<1>2. /\ o.id = <<StreamId(c, l), k>> /\ o.time = sample.time /\ o.selected = selected
      /\ o.visible = policy.coverage * policy.visible /\ o.detect = policy.detect
  BY DEF Opportunity, PotentialVisibility
<1>3. /\ r.opportunity = o.id /\ r.recorded = sample.time /\ r.outcome = outcome
      /\ r.location = IF outcome = "detected" THEN place ELSE NoLocation
      /\ r.strength = IF outcome = "verified_absence" THEN strength ELSE 0
  <2> HIDE DEF o
  <2> QED
    BY <1>2 DEF Result
<1>4. /\ outcome = "not_observed" <=> ~ selected
      /\ outcome = "verified_absence" => strength >= bound
      /\ outcome = "detected" => present
  <2> HIDE DEF strength, present, policy
  <2> QED
    BY <1>1 DEF Outcome
<1>5. present => place \in policy.located /\ place \in sample.sees
  BY DEF InFrustum
<1> HIDE DEF policy, sample, place, strength, bound, present, outcome, o, r
<1>6. /\ (r.outcome = "detected") <=> (r.location # NoLocation)
      /\ r.outcome = "detected" => r.location = place /\ place \in sample.sees
  BY <1>1, <1>3, <1>4, <1>5
<1>7. (r.outcome = "verified_absence") <=> (r.strength > 0)
  BY <1>1, <1>3, <1>4
<1> QED
  BY <1>2, <1>3, <1>4, <1>6, <1>7 DEF policy, sample, place, outcome, o, r

(* What is drawn alike is told alike, except for a detection of what was   *)
(* moved differently.                                                      *)
LEMMA ToldAlike ==
  ASSUME NEW c \in Call, CanRun(c), c.kind = "ordinary", RunId(c, 1) = RunId(c, 2),
         NEW k, NEW selected \in BOOLEAN, NEW v \in Draw
  PROVE  LET sample(l) == c.policies[l].samples[k]
             moves(l) == MovesUntil(c.plans[l], c.policies[l].object, sample(l).time)
             o(l) == Opportunity(c, l, k, selected)
             r(l) == Result(c, l, o(l), sample(l), v)
         IN  /\ StreamId(c, 1) = StreamId(c, 2) /\ c.policies[1] = c.policies[2]
             /\ o(1) = o(2)
             /\ \/ r(1) = r(2)
                \/ /\ moves(1) # moves(2)
                   /\ \E l \in Lane : r(l).outcome = "detected"
<1> DEFINE policy == c.policies[1]
           sample == policy.samples[k]
           object == policy.object
           moves(l) == MovesUntil(c.plans[l], object, sample.time)
           place(l) == LocationAt(c.plans[l], object, sample.time)
           o == Opportunity(c, 1, k, selected)
           strength == o.visible * o.detect
           present(l) == InFrustum(policy, sample, place(l)) /\ policy.coverage > 0
           outcome(l) == Outcome(policy, o.selected, strength, present(l), v)
           r(l) == Result(c, l, o, sample, v)
<1>1. /\ c.policies[1] = c.policies[2] /\ c.plans[1].start = c.plans[2].start
      /\ c.plans[1].until = c.plans[2].until /\ c.plans[1].seed = c.plans[2].seed
      /\ c.plans[1].initial[object] = c.plans[2].initial[object]
  BY DEF RunId
<1>2. StreamId(c, 1) = StreamId(c, 2)
  BY <1>1 DEF StreamId
<1>3. Opportunity(c, 2, k, selected) = o
  BY <1>1, <1>2 DEF Opportunity, PotentialVisibility
<1>4. o.selected \in BOOLEAN
  BY DEF Opportunity
<1>5. moves(1) = moves(2) => place(1) = place(2)
  BY <1>1 DEF LocationAt
<1> HIDE DEF o
<1>6. ASSUME NEW l \in Lane
      PROVE  r(l) = [opportunity |-> o.id, outcome |-> outcome(l), recorded |-> sample.time,
                     location |-> IF outcome(l) = "detected" THEN place(l) ELSE NoLocation,
                     strength |-> IF outcome(l) = "verified_absence" THEN strength ELSE 0]
  <2>1. c.policies[l] = policy
    BY <1>1 DEF Lane
  <2> QED
    BY <2>1 DEF Result
<1>7. strength < policy.strength * Part * Part \/ strength >= policy.strength * Part * Part
  <2>1. 1 \in Lane
    BY DEF Lane
  <2>2. strength \in Nat /\ policy.strength * Part * Part \in Nat
    <3>1. strength = policy.coverage * policy.visible * policy.detect
      BY DEF o, Opportunity, PotentialVisibility
    <3> QED
      BY <2>1, <3>1, CallFacts
  <2> HIDE DEF strength, policy
  <2> QED
    BY <2>2
<1>8. outcome(1) = outcome(2) \/ (\E l \in Lane : outcome(l) = "detected")
  <2> HIDE DEF strength, present, policy
  <2>1. CASE ~ o.selected
    BY <2>1 DEF Outcome
  <2>2. CASE o.selected /\ strength < policy.strength * Part * Part
    BY <2>2 DEF Outcome
  <2>3. CASE o.selected /\ strength >= policy.strength * Part * Part /\
             ~ (strength < policy.strength * Part * Part)
    BY <2>3 DEF Outcome, Lane
  <2>4. ~ (strength >= policy.strength * Part * Part /\ strength < policy.strength * Part * Part)
    <3>1. 1 \in Lane
      BY DEF Lane
    <3>2. strength \in Nat /\ policy.strength * Part * Part \in Nat
      <4>1. strength = policy.coverage * policy.visible * policy.detect
        BY DEF o, Opportunity, PotentialVisibility, strength, policy
      <4> QED
        BY <3>1, <4>1, CallFacts DEF policy
    <3> QED
      BY <3>2
  <2> QED
    BY <1>4, <1>7, <2>1, <2>2, <2>3, <2>4
<1>9. \/ r(1) = r(2)
      \/ moves(1) # moves(2) /\ \E l \in Lane : r(l).outcome = "detected"
  <2> HIDE DEF moves, place, strength, r, outcome
  <2>1. 1 \in Lane /\ 2 \in Lane
    BY DEF Lane
  <2>2. \A l \in Lane : r(l).outcome = outcome(l)
    BY <1>6
  <2>3. CASE moves(1) = moves(2)
    <3>1. outcome(1) = outcome(2)
      BY <1>5, <2>3 DEF outcome, present
    <3> QED
      BY <1>5, <1>6, <2>1, <2>3, <3>1
  <2>4. CASE moves(1) # moves(2) /\ \E l \in Lane : outcome(l) = "detected"
    BY <2>2, <2>4
  <2>5. CASE outcome(1) = outcome(2) /\ ~ \E l \in Lane : outcome(l) = "detected"
    BY <1>6, <2>1, <2>5
  <2> QED
    BY <1>8, <2>3, <2>4, <2>5
<1>10. \A l \in Lane : c.policies[l] = policy /\ Opportunity(c, l, k, selected) = o
  BY <1>1, <1>3 DEF Lane, o
<1> QED
  BY <1>1, <1>2, <1>3, <1>9, <1>10 DEF o, Lane

(* The latest of the moves up to a time is what the next event goes on     *)
(* from.                                                                   *)
LEMMA NextMoveGoesOn ==
  ASSUME NEW p, Chained(p), NEW object, NEW t \in Int, NEW e \in ToSet(p.events),
         e.object = object, e.time > t,
         \A f \in ToSet(p.events) : f.object = object /\ f.time > t => e.time <= f.time
  PROVE  e.source = LocationAt(p, object, t)
<1> DEFINE before == {f \in ToSet(p.events) : f.object = e.object /\ f.time < e.time}
<1>1. e.source = IF before = {} THEN p.initial[e.object] ELSE Latest(before).destination
  BY DEF Chained
<1>2. \A f \in ToSet(p.events) : f.time \in Int
  BY DEF Chained
<1>3. before = MovesUntil(p, object, t)
  BY <1>2 DEF MovesUntil
<1> HIDE DEF before
<1> QED
  BY <1>1, <1>3 DEF LocationAt

(* What is told of the k-th sample of a run, by what was drawn for it.     *)
Told(c, drawn, l, k, r) == \E u, v \in Draw :
  LET selected == u < c.policies[l].selection
      opportunity == Opportunity(c, l, k, selected)
  IN  /\ <<StreamId(c, l), 2 * k - 1, u>> \in drawn /\ <<StreamId(c, l), 2 * k, v>> \in drawn
      /\ r.opportunities[k] = opportunity
      /\ r.results[k] = Result(c, l, opportunity, c.policies[l].samples[k], v)

(* A run that is under way, or through.                                    *)
LaneInv(c, drawn, l, r) ==
  /\ DOMAIN r = DOMAIN NotBegun
  /\ r.pc # "rejected"
  /\ IsList(r.opportunities) /\ IsList(r.results) /\ Len(r.opportunities) = Len(r.results)
  /\ Len(r.results) <= Len(c.policies[l].samples)
  /\ r.drawn = 2 * Len(r.results)
  /\ \A k \in 1..Len(r.results) : Told(c, drawn, l, k, r)

(* A stream has one value at every position.                               *)
OneValue(drawn) == \A d, e \in drawn : d[1] = e[1] /\ d[2] = e[2] => d[3] = e[3]

(* What makes OnlySightTells inductive.                                    *)
SimulatorInv ==
  /\ call \in Call /\ CanRun(call)
  /\ OneValue(stream)
  /\ DOMAIN run = Lane
  /\ \A l \in Lane : LaneInv(call, stream, l, run[l])

(* What is told is the result of some draw, selected or not.               *)
LEMMA ToldBy ==
  ASSUME NEW c, NEW drawn, NEW l, NEW k, NEW r, Told(c, drawn, l, k, r)
  PROVE  \E selected \in BOOLEAN, v \in Draw :
           LET opportunity == Opportunity(c, l, k, selected)
           IN  /\ r.opportunities[k] = opportunity
               /\ r.results[k] = Result(c, l, opportunity, c.policies[l].samples[k], v)
<1>1. PICK u \in Draw, v \in Draw :
        LET selected == u < c.policies[l].selection
            opportunity == Opportunity(c, l, k, selected)
        IN  /\ r.opportunities[k] = opportunity
            /\ r.results[k] = Result(c, l, opportunity, c.policies[l].samples[k], v)
  BY Zenon DEF Told
<1>2. (u < c.policies[l].selection) \in BOOLEAN
  OBVIOUS
<1> QED
  BY <1>1, <1>2, Zenon

(* What a run says of itself is valid.                                     *)
LEMMA RunIsValid ==
  ASSUME NEW c \in Call, CanRun(c), NEW drawn, NEW l \in Lane, NEW r, LaneInv(c, drawn, l, r)
  PROVE  ValidResult(r.opportunities, r.results)
<1>1. /\ Len(r.results) \in Nat /\ DOMAIN r.opportunities = 1..Len(r.results)
      /\ DOMAIN r.results = 1..Len(r.results)
  BY ListFacts DEF LaneInv
<1>2. ASSUME NEW k \in 1..Len(r.results)
      PROVE  /\ r.opportunities[k].id = <<StreamId(c, l), k>>
             /\ r.results[k].opportunity = r.opportunities[k].id
             /\ r.results[k].recorded = r.opportunities[k].time
             /\ (r.results[k].outcome = "not_observed") <=> ~ r.opportunities[k].selected
             /\ (r.results[k].outcome = "detected") <=> (r.results[k].location # NoLocation)
             /\ (r.results[k].outcome = "verified_absence") <=> (r.results[k].strength > 0)
  <2>1. \E selected \in BOOLEAN, v \in Draw :
          LET opportunity == Opportunity(c, l, k, selected)
          IN  /\ r.opportunities[k] = opportunity
              /\ r.results[k] = Result(c, l, opportunity, c.policies[l].samples[k], v)
    BY ToldBy DEF LaneInv
  <2>2. PICK selected \in BOOLEAN, v \in Draw :
          LET opportunity == Opportunity(c, l, k, selected)
          IN  /\ r.opportunities[k] = opportunity
              /\ r.results[k] = Result(c, l, opportunity, c.policies[l].samples[k], v)
    BY <2>1
  <2> QED
    BY <2>2, ResultFacts
<1>3. \A i, j \in 1..Len(r.results) : r.opportunities[i].id = r.opportunities[j].id => i = j
  BY <1>2
<1> QED
  BY <1>1, <1>2, <1>3 DEF ValidResult

(* What a run has was told.                                                *)
LEMMA SimulatorStep ==
  ASSUME SimulatorInv, [SimulatorNext]_simulatorVars
  PROVE  SimulatorInv'
<1>1. CASE UNCHANGED simulatorVars
  BY <1>1, Zenon DEF SimulatorInv, simulatorVars
<1>2. ASSUME NEW lane \in Lane, NEW now, DOMAIN now = DOMAIN NotBegun, now.pc # "rejected",
             now.drawn = run[lane].drawn, now.opportunities = run[lane].opportunities,
             now.results = run[lane].results,
             run' = [run EXCEPT ![lane] = now], UNCHANGED <<call, stream>>
      PROVE  SimulatorInv'
  <2>1. LaneInv(call, stream, lane, now)
    <3>1. LaneInv(call, stream, lane, run[lane])
      BY DEF SimulatorInv
    <3>2. \A k : Told(call, stream, lane, k, run[lane]) => Told(call, stream, lane, k, now)
      <4> SUFFICES ASSUME NEW k, Told(call, stream, lane, k, run[lane])
                   PROVE  Told(call, stream, lane, k, now)
        OBVIOUS
      <4> QED
        BY <1>2, Zenon DEF Told
    <3> QED
      BY <1>2, <3>1, <3>2 DEF LaneInv
  <2>2. DOMAIN run' = Lane
    BY <1>2 DEF SimulatorInv
  <2>3. \A l \in Lane : LaneInv(call, stream, l, run'[l])
    BY <1>2, <2>1 DEF SimulatorInv
  <2> QED
    BY <1>2, <2>2, <2>3, Zenon DEF SimulatorInv
<1>3. ASSUME NEW lane \in Lane PROVE DOMAIN run[lane] = {"pc", "drawn", "opportunities", "results"}
  BY DEF SimulatorInv, LaneInv, NotBegun
<1>4. ASSUME NEW lane \in Lane, NEW pc, pc # "rejected",
             run' = [run EXCEPT ![lane].pc = pc], UNCHANGED <<call, stream>>
      PROVE  SimulatorInv'
  <2> DEFINE now == [run[lane] EXCEPT !.pc = pc]
  <2>1. /\ DOMAIN now = DOMAIN NotBegun /\ now.pc = pc /\ now.drawn = run[lane].drawn
        /\ now.opportunities = run[lane].opportunities /\ now.results = run[lane].results
    BY <1>3 DEF NotBegun
  <2>2. run' = [run EXCEPT ![lane] = now]
    BY <1>4
  <2> HIDE DEF now
  <2> QED
    BY <1>2, <1>4, <2>1, <2>2
<1>5. ASSUME NEW lane \in Lane, Begin(lane) PROVE SimulatorInv'
  <2>1. PICK pc \in {"sampling", "raised"} : run' = [run EXCEPT ![lane].pc = pc]
    BY <1>5, Zenon DEF Begin
  <2> QED
    BY <1>4, <1>5, <2>1 DEF Begin
<1>6. ASSUME NEW lane \in Lane, SampleOutside(lane) PROVE SimulatorInv'
  BY <1>4, <1>6 DEF SampleOutside
<1>7. ASSUME NEW lane \in Lane, Finish(lane) PROVE SimulatorInv'
  <2>1. ValidResult(run[lane].opportunities, run[lane].results)
    BY RunIsValid DEF SimulatorInv
  <2>2. run' = [run EXCEPT ![lane].pc = "returned"] /\ UNCHANGED <<call, stream>>
    BY <1>7, <2>1 DEF Finish
  <2> QED
    BY <1>4, <2>2
<1>8. ASSUME NEW lane \in Lane, NEW u \in Draw, NEW v \in Draw, Sample(lane, u, v)
      PROVE  SimulatorInv'
  <2> DEFINE now == run[lane]
             n == Len(now.results)
             policy == call.policies[lane]
             id == StreamId(call, lane)
             o == Opportunity(call, lane, n + 1, u < policy.selection)
             x == Result(call, lane, o, policy.samples[n + 1], v)
             next == [now EXCEPT !.drawn = @ + 2, !.opportunities = Append(@, o),
                                 !.results = Append(@, x)]
  <2>1. /\ n + 1 <= Len(policy.samples)
        /\ Drawn(id, now.drawn + 1, u) /\ Drawn(id, now.drawn + 2, v)
        /\ stream' = stream \cup {<<id, now.drawn + 1, u>>, <<id, now.drawn + 2, v>>}
        /\ run' = [run EXCEPT ![lane] = next]
        /\ UNCHANGED call
    BY <1>8 DEF Sample, DrawsPerSample
  <2>2. LaneInv(call, stream, lane, now)
    BY DEF SimulatorInv
  <2>3. /\ IsList(now.opportunities) /\ IsList(now.results) /\ Len(now.opportunities) = n
        /\ n \in Nat /\ now.drawn = 2 * n
    BY <2>2, ListFacts DEF LaneInv
  <2>4. /\ DOMAIN next = DOMAIN NotBegun /\ next.pc = now.pc /\ next.drawn = now.drawn + 2
        /\ next.opportunities = Append(now.opportunities, o)
        /\ next.results = Append(now.results, x)
    <3> HIDE DEF o, x
    <3> QED
      BY <1>3 DEF NotBegun
  <2> HIDE DEF now, n, id, o, x, next
  <2>5. /\ IsList(next.opportunities) /\ IsList(next.results)
        /\ Len(next.opportunities) = n + 1 /\ Len(next.results) = n + 1
        /\ next.opportunities[n + 1] = o /\ next.results[n + 1] = x
        /\ \A k \in 1..n : next.opportunities[k] = now.opportunities[k]
        /\ \A k \in 1..n : next.results[k] = now.results[k]
    <3>1. /\ IsList(next.opportunities) /\ Len(next.opportunities) = n + 1
          /\ next.opportunities[n + 1] = o
          /\ \A k \in 1..n : next.opportunities[k] = now.opportunities[k]
      BY <2>3, <2>4, AppendFacts
    <3>2. /\ IsList(next.results) /\ Len(next.results) = n + 1 /\ next.results[n + 1] = x
          /\ \A k \in 1..n : next.results[k] = now.results[k]
      BY <2>3, <2>4, AppendFacts DEF n
    <3> QED
      BY <3>1, <3>2
  <2>6. \A l \in Lane : \A k, r : Told(call, stream, l, k, r) => Told(call, stream', l, k, r)
    <3> SUFFICES ASSUME NEW l \in Lane, NEW k, NEW r, Told(call, stream, l, k, r)
                 PROVE  Told(call, stream', l, k, r)
      OBVIOUS
    <3>1. \A d \in stream : d \in stream'
      BY <2>1
    <3> QED
      BY <3>1, Zenon DEF Told
  <2>7. Told(call, stream', lane, n + 1, next)
    <3>1. <<id, 2 * (n + 1) - 1, u>> \in stream' /\ <<id, 2 * (n + 1), v>> \in stream'
      <4>1. now.drawn + 1 = 2 * (n + 1) - 1 /\ now.drawn + 2 = 2 * (n + 1)
        BY <2>3
      <4> QED
        BY <2>1, <4>1
    <3> QED
      BY <2>5, <3>1 DEF Told, id, o, x
  <2>8. \A k \in 1..n : Told(call, stream', lane, k, next)
    <3> SUFFICES ASSUME NEW k \in 1..n PROVE Told(call, stream', lane, k, next)
      OBVIOUS
    <3>1. Told(call, stream', lane, k, now)
      BY <2>2, <2>6 DEF LaneInv, n
    <3> QED
      BY <2>5, <3>1 DEF Told
  <2>9. LaneInv(call, stream', lane, next)
    <3>1. \A k \in 1..Len(next.results) : k \in 1..n \/ k = n + 1
      BY <2>3, <2>5
    <3>2. \A k \in 1..Len(next.results) : Told(call, stream', lane, k, next)
      BY <2>7, <2>8, <3>1
    <3>3. next.drawn = 2 * Len(next.results)
      BY <2>3, <2>4, <2>5
    <3>4. now.pc # "rejected"
      BY <2>2 DEF LaneInv
    <3> QED
      BY <2>1, <2>4, <2>5, <3>2, <3>3, <3>4 DEF LaneInv
  <2>10. OneValue(stream')
    <3> DEFINE a == <<id, now.drawn + 1, u>>
               b == <<id, now.drawn + 2, v>>
    <3>1. OneValue(stream)
      BY DEF SimulatorInv
    <3>2. now.drawn + 1 # now.drawn + 2
      BY <2>3
    <3>3. \A d \in stream : /\ (d[1] = id /\ d[2] = now.drawn + 1) => d[3] = u
                            /\ (d[1] = id /\ d[2] = now.drawn + 2) => d[3] = v
      BY <2>1 DEF Drawn
    <3>4. stream' = stream \cup {a, b} /\ a[1] = id /\ a[2] = now.drawn + 1 /\ a[3] = u
          /\ b[1] = id /\ b[2] = now.drawn + 2 /\ b[3] = v
      BY <2>1
    <3> HIDE DEF a, b
    <3> QED
      BY <3>1, <3>2, <3>3, <3>4 DEF OneValue
  <2>11. DOMAIN run' = Lane
    BY <2>1 DEF SimulatorInv
  <2>12. \A l \in Lane : LaneInv(call, stream', l, run'[l])
    <3> SUFFICES ASSUME NEW l \in Lane PROVE LaneInv(call, stream', l, run'[l])
      OBVIOUS
    <3>1. CASE l = lane
      BY <2>1, <2>9, <3>1 DEF SimulatorInv
    <3>2. CASE l # lane
      <4>1. run'[l] = run[l]
        BY <2>1, <3>2
      <4>2. LaneInv(call, stream, l, run[l])
        BY DEF SimulatorInv
      <4> QED
        BY <2>6, <4>1, <4>2 DEF LaneInv
    <3> QED
      BY <3>1, <3>2
  <2> QED
    BY <2>1, <2>10, <2>11, <2>12, Zenon DEF SimulatorInv
<1> QED
  BY <1>1, <1>5, <1>6, <1>7, <1>8, Zenon DEF SimulatorNext

(* What runs that look alike from outside are told.                        *)
LEMMA NothingUnseen ==
  ASSUME SimulatorInv
  PROVE  NothingUnseenIsTold
<1> SUFFICES ASSUME call.kind = "ordinary", RunId(call, 1) = RunId(call, 2), NEW k \in Both
             PROVE  /\ run[1].opportunities[k] = run[2].opportunities[k]
                    /\ \/ run[1].results[k] = run[2].results[k]
                       \/ /\ Past(1, k) # Past(2, k)
                          /\ \E lane \in Lane : run[lane].results[k].outcome = "detected"
  BY Zenon DEF NothingUnseenIsTold
<1> DEFINE Tells(l, selected, v) ==
             /\ run[l].opportunities[k] = Opportunity(call, l, k, selected)
             /\ run[l].results[k] =
                  Result(call, l, Opportunity(call, l, k, selected), call.policies[l].samples[k], v)
<1>1. ASSUME NEW l \in Lane
      PROVE  \E u, v \in Draw :
               /\ <<StreamId(call, l), 2 * k - 1, u>> \in stream
               /\ <<StreamId(call, l), 2 * k, v>> \in stream
               /\ Tells(l, u < call.policies[l].selection, v)
  <2>1. LaneInv(call, stream, l, run[l])
    BY DEF SimulatorInv
  <2>2. k \in 1..Len(run[l].results)
    BY <2>1, ListFacts DEF LaneInv, Both, Lane
  <2> QED
    BY <2>1, <2>2, Zenon DEF LaneInv, Told
<1>2. 1 \in Lane /\ 2 \in Lane
  BY DEF Lane
<1> HIDE DEF Tells
<1>3. PICK u \in Draw, v \in Draw :
        /\ <<StreamId(call, 1), 2 * k - 1, u>> \in stream
        /\ <<StreamId(call, 1), 2 * k, v>> \in stream
        /\ Tells(1, u < call.policies[1].selection, v)
  BY <1>1, <1>2
<1>4. PICK w \in Draw, x \in Draw :
        /\ <<StreamId(call, 2), 2 * k - 1, w>> \in stream
        /\ <<StreamId(call, 2), 2 * k, x>> \in stream
        /\ Tells(2, w < call.policies[2].selection, x)
  BY <1>1, <1>2
<1>5. call \in Call /\ CanRun(call) /\ OneValue(stream)
  BY DEF SimulatorInv
<1>6. call.policies[1] = call.policies[2] /\ StreamId(call, 1) = StreamId(call, 2)
  BY DEF RunId, StreamId
<1>7. w = u /\ x = v
  BY <1>3, <1>4, <1>5, <1>6 DEF OneValue
<1>8. \E selected \in BOOLEAN : Tells(1, selected, v) /\ Tells(2, selected, v)
  <2>1. (u < call.policies[1].selection) \in BOOLEAN
    OBVIOUS
  <2>2. Tells(1, u < call.policies[1].selection, v) /\ Tells(2, u < call.policies[1].selection, v)
    BY <1>3, <1>4, <1>6, <1>7
  <2> QED
    BY <2>1, <2>2, Zenon
<1>9. PICK selected \in BOOLEAN : Tells(1, selected, v) /\ Tells(2, selected, v)
  BY <1>8
<1> DEFINE policy == call.policies[1]
           r(l) == Result(call, l, Opportunity(call, l, k, selected), policy.samples[k], v)
<1>10. /\ Opportunity(call, 1, k, selected) = Opportunity(call, 2, k, selected)
       /\ \/ r(1) = r(2)
          \/ Past(1, k) # Past(2, k) /\ \E l \in Lane : r(l).outcome = "detected"
  <2> DEFINE Alike(c) ==
               /\ Opportunity(c, 1, k, selected) = Opportunity(c, 2, k, selected)
               /\ \/ Result(c, 1, Opportunity(c, 1, k, selected), c.policies[1].samples[k], v) =
                       Result(c, 2, Opportunity(c, 2, k, selected), c.policies[2].samples[k], v)
                  \/ /\ MovesUntil(c.plans[1], c.policies[1].object, c.policies[1].samples[k].time) #
                           MovesUntil(c.plans[2], c.policies[2].object, c.policies[2].samples[k].time)
                     /\ \E l \in Lane :
                          Result(c, l, Opportunity(c, l, k, selected), c.policies[l].samples[k],
                                 v).outcome = "detected"
  <2>1. call.kind = "ordinary" /\ RunId(call, 1) = RunId(call, 2)
    OBVIOUS
  <2>2. Alike(call)
    BY <1>5, <2>1, ToldAlike
  <2>3. \A l \in Lane : call.policies[l] = policy
    BY <1>6 DEF Lane
  <2> QED
    BY <1>6, <2>2, <2>3, Zenon DEF Past
<1>11. \A l \in Lane : run[l].results[k] = r(l)
  BY <1>6, <1>9 DEF Lane, Tells
<1>12. run[1].opportunities[k] = run[2].opportunities[k]
  BY <1>9, <1>10 DEF Tells
<1> HIDE DEF r
<1> QED
  BY <1>2, <1>10, <1>11, <1>12

(* What is detected is true.                                               *)
LEMMA TrueDetections ==
  ASSUME SimulatorInv
  PROVE  DetectionsAreTrue
<1> SUFFICES ASSUME NEW l \in Lane, NEW k \in DOMAIN run[l].results,
                    run[l].results[k].outcome = "detected"
             PROVE  LET result == run[l].results[k]
                        policy == call.policies[l]
                        later  == {e \in ToSet(call.plans[l].events) :
                                     e.object = policy.object /\ e.time > policy.samples[k].time}
                    IN  /\ result.location \in policy.samples[k].sees
                        /\ \A e \in later : (\A f \in later : e.time <= f.time) =>
                             e.source = result.location
  BY Zenon DEF DetectionsAreTrue
<1> DEFINE result == run[l].results[k]
           policy == call.policies[l]
           t == policy.samples[k].time
           p == call.plans[l]
           later  == {e \in ToSet(p.events) : e.object = policy.object /\ e.time > t}
<1>1. LaneInv(call, stream, l, run[l]) /\ call \in Call /\ CanRun(call)
  BY DEF SimulatorInv
<1>2. k \in 1..Len(run[l].results) /\ Len(run[l].results) \in Nat
      /\ Len(run[l].results) <= Len(policy.samples)
  BY <1>1, ListFacts DEF LaneInv
<1>3. t \in Int /\ Chained(p)
  <2>1. /\ Len(policy.samples) \in Nat /\ DOMAIN policy.samples = 1..Len(policy.samples)
        /\ \A i \in DOMAIN policy.samples : policy.samples[i].time \in Int /\ Chained(p)
    BY <1>1, CallFacts
  <2> HIDE DEF policy
  <2>2. k \in DOMAIN policy.samples
    BY <1>2, <2>1
  <2> QED
    BY <2>1, <2>2
<1>4. PICK selected \in BOOLEAN, v \in Draw :
        result = Result(call, l, Opportunity(call, l, k, selected), policy.samples[k], v)
  <2>1. Told(call, stream, l, k, run[l])
    BY <1>1, <1>2 DEF LaneInv
  <2> QED
    BY <2>1, ToldBy
<1>5. result.location = LocationAt(p, policy.object, t) /\ result.location \in policy.samples[k].sees
  BY <1>1, <1>4, ResultFacts
<1>6. ASSUME NEW e \in later, \A f \in later : e.time <= f.time
      PROVE  e.source = LocationAt(p, policy.object, t)
  <2> HIDE DEF t, p
  <2> QED
    BY <1>3, <1>6, NextMoveGoesOn
<1> QED
  BY <1>5, <1>6

(* Before a run begins nothing was told.                                   *)
LEMMA SimulatorStart == SimulatorInit => SimulatorInv
<1> SUFFICES ASSUME SimulatorInit PROVE SimulatorInv
  OBVIOUS
<1>1. call \in Call /\ CanRun(call) /\ stream = {} /\ run = [lane \in Lane |-> NotBegun]
  BY DEF SimulatorInit
<1>2. ASSUME NEW l \in Lane PROVE LaneInv(call, stream, l, NotBegun)
  <2>1. Len(call.policies[l].samples) \in Nat
    BY <1>1, CallFacts
  <2> QED
    BY <2>1, EmptyList DEF LaneInv, NotBegun
<1> QED
  BY <1>1, <1>2 DEF SimulatorInv, OneValue

(* OnlySightTells, for any plans and policies, whatever is drawn.          *)
THEOREM SimulatorSafety == SimulatorSpec => []OnlySightTells
<1>1. SimulatorInit => SimulatorInv
  BY SimulatorStart
<1>2. SimulatorInv /\ [SimulatorNext]_simulatorVars => SimulatorInv'
  BY SimulatorStep
<1>3. SimulatorInv => OnlySightTells
  BY NothingUnseen, TrueDetections DEF SimulatorInv, LaneInv, ResultsAreValid, OnlySightTells
<1> QED
  BY <1>1, <1>2, <1>3, PTL DEF SimulatorSpec

(* Two policies that differ by how often they look are otherwise alike.    *)
LEMMA SameButSelection ==
  ASSUME NEW p, NEW q, TypedPolicy(p), TypedPolicy(q), SelectionOnly(p) = SelectionOnly(q)
  PROVE  /\ p.object = q.object /\ p.coverage = q.coverage /\ p.visible = q.visible
         /\ p.detect = q.detect /\ p.strength = q.strength /\ p.samples = q.samples
         /\ p.located = q.located
<1>1. \A f \in DOMAIN p \ {"selection"} : SelectionOnly(p)[f] = p[f]
  BY DEF SelectionOnly
<1>2. \A f \in DOMAIN q \ {"selection"} : SelectionOnly(q)[f] = q[f]
  BY DEF SelectionOnly
<1>3. \A f \in {"object", "coverage", "visible", "detect", "strength", "samples", "located"} :
        f \in DOMAIN p \ {"selection"} /\ f \in DOMAIN q \ {"selection"}
  BY DEF TypedPolicy
<1>4. \A f \in {"object", "coverage", "visible", "detect", "strength", "samples", "located"} : p[f] = q[f]
  BY <1>1, <1>2, <1>3
<1> QED
  BY <1>4

(* One household, one stream, and the same look at it: selected either     *)
(* way, the same is told.                                                  *)
LEMMA SelectedAlike ==
  ASSUME NEW c \in Call, CanRun(c), c.kind = "paired",
         SelectionOnly(c.policies[1]) = SelectionOnly(c.policies[2]), NEW k, NEW v
  PROVE  /\ StreamId(c, 1) = StreamId(c, 2)
         /\ Result(c, 1, Opportunity(c, 1, k, TRUE), c.policies[1].samples[k], v) =
              Result(c, 2, Opportunity(c, 2, k, TRUE), c.policies[2].samples[k], v)
<1> DEFINE p == c.policies[1]
           q == c.policies[2]
           o == Opportunity(c, 1, k, TRUE)
           w == Opportunity(c, 2, k, TRUE)
<1>1. /\ p.object = q.object /\ p.coverage = q.coverage /\ p.visible = q.visible
      /\ p.detect = q.detect /\ p.strength = q.strength /\ p.samples = q.samples
      /\ p.located = q.located
  BY CallAssumption, SameButSelection
<1>2. c.plans[1] = c.plans[2]
  BY DEF CanRun
<1>3. StreamId(c, 1) = StreamId(c, 2)
  BY <1>1, <1>2 DEF StreamId, ScheduleSignature
<1>4. o.id = w.id /\ o.visible = w.visible /\ o.detect = w.detect /\ o.selected = w.selected
  BY <1>1, <1>3 DEF Opportunity, PotentialVisibility
<1> HIDE DEF o, w
<1>5. \A x, s, y, z : Outcome(p, x, s, y, z) = Outcome(q, x, s, y, z)
  BY <1>1 DEF Outcome
<1>6. \A s, x : InFrustum(p, s, x) = InFrustum(q, s, x)
  BY <1>1 DEF InFrustum
<1>7. Result(c, 1, o, p.samples[k], v) = Result(c, 2, w, q.samples[k], v)
  BY <1>1, <1>2, <1>4, <1>5, <1>6 DEF Result
<1> QED
  BY <1>3, <1>7 DEF o, w

(* Who looks more often is told the same of what both look at.             *)
LEMMA PairedNest ==
  ASSUME SimulatorInv
  PROVE  PairedRunsNest
<1> SUFFICES ASSUME call.kind = "paired",
                    SelectionOnly(call.policies[1]) = SelectionOnly(call.policies[2]),
                    NEW k \in Both, NEW lane \in Lane,
                    call.policies[lane].selection <= call.policies[3 - lane].selection,
                    run[lane].opportunities[k].selected
             PROVE  run[lane].results[k] = run[3 - lane].results[k]
  BY Zenon DEF PairedRunsNest
<1> DEFINE other == 3 - lane
           Tells(l, selected, v) ==
             /\ run[l].opportunities[k] = Opportunity(call, l, k, selected)
             /\ run[l].results[k] =
                  Result(call, l, Opportunity(call, l, k, selected), call.policies[l].samples[k], v)
<1>1. ASSUME NEW l \in Lane
      PROVE  \E u, v \in Draw :
               /\ <<StreamId(call, l), 2 * k - 1, u>> \in stream
               /\ <<StreamId(call, l), 2 * k, v>> \in stream
               /\ Tells(l, u < call.policies[l].selection, v)
  <2>1. LaneInv(call, stream, l, run[l])
    BY DEF SimulatorInv
  <2>2. k \in 1..Len(run[l].results)
    BY <2>1, ListFacts DEF LaneInv, Both, Lane
  <2> QED
    BY <2>1, <2>2, Zenon DEF LaneInv, Told
<1>2. other \in Lane /\ ((lane = 1 /\ other = 2) \/ (lane = 2 /\ other = 1))
  BY DEF Lane
<1>3. call \in Call /\ CanRun(call) /\ OneValue(stream)
  BY DEF SimulatorInv
<1> HIDE DEF Tells, other
<1>4. PICK u \in Draw, v \in Draw :
        /\ <<StreamId(call, lane), 2 * k - 1, u>> \in stream
        /\ <<StreamId(call, lane), 2 * k, v>> \in stream
        /\ Tells(lane, u < call.policies[lane].selection, v)
  BY <1>1
<1>5. PICK w \in Draw, x \in Draw :
        /\ <<StreamId(call, other), 2 * k - 1, w>> \in stream
        /\ <<StreamId(call, other), 2 * k, x>> \in stream
        /\ Tells(other, w < call.policies[other].selection, x)
  BY <1>1, <1>2
<1>6. /\ StreamId(call, 1) = StreamId(call, 2)
      /\ Result(call, 1, Opportunity(call, 1, k, TRUE), call.policies[1].samples[k], v) =
           Result(call, 2, Opportunity(call, 2, k, TRUE), call.policies[2].samples[k], v)
  BY <1>3, SelectedAlike
<1>7. w = u /\ x = v
  BY <1>2, <1>3, <1>4, <1>5, <1>6 DEF OneValue
<1>8. u < call.policies[lane].selection
  <2>1. Opportunity(call, lane, k, u < call.policies[lane].selection).selected
    BY <1>4, Zenon DEF Tells
  <2>2. Opportunity(call, lane, k, u < call.policies[lane].selection).selected
          = (u < call.policies[lane].selection)
    BY DEF Opportunity
  <2> QED
    BY <2>1, <2>2
<1>9. u < call.policies[other].selection
  <2>1. u \in Nat /\ call.policies[lane].selection \in Nat /\ call.policies[other].selection \in Nat
    BY <1>2, <1>3, PartAssumption, CallAssumption DEF TypedPolicy, Lane
  <2> QED
    BY <1>8, <2>1 DEF other
<1>10. Tells(lane, TRUE, v) /\ Tells(other, TRUE, v)
  <2>1. (u < call.policies[lane].selection) = TRUE /\ (u < call.policies[other].selection) = TRUE
    BY <1>8, <1>9
  <2> QED
    BY <1>4, <1>5, <1>7, <2>1
<1> QED
  BY <1>2, <1>6, <1>10 DEF Tells, other

(* PairedRunsNest, a part of ScoresAreFair: whoever looks more often sees  *)
(* the same whenever both look.                                            *)
THEOREM PairedSafety == SimulatorSpec => []PairedRunsNest
<1>1. SimulatorInit => SimulatorInv
  BY SimulatorStart
<1>2. SimulatorInv /\ [SimulatorNext]_simulatorVars => SimulatorInv'
  BY SimulatorStep
<1>3. SimulatorInv => PairedRunsNest
  BY PairedNest
<1> QED
  BY <1>1, <1>2, <1>3, PTL DEF SimulatorSpec

(* What the routine generator generates is what the simulator relies on.   *)
THEOREM GeneratedIsChained ==
  ASSUME NEW c, TypedConfig(c), ValidConfig(c), NEW draws
  PROVE  Chained(Generated(c, draws))
<1> DEFINE E == EventsOf(c, draws)
           p == Generated(c, draws)
           before(e) == {f \in E : f.object = e.object /\ f.time < e.time}
<1>1. Proper(c)
  BY DEF Proper
<1>2. ToSet(p.events) = E
  BY <1>1, PlanFacts
<1>3. ASSUME NEW e \in E PROVE e.time \in Int
  <2>1. PICK day \in Days(c), r \in ToSet(c.routines) : e = PlacedOn(c, draws, day, r)
    BY DEF EventsOf, Days
  <2> QED
    BY <1>1, <2>1, EventFacts
<1>4. \A e, f \in E : f.object = e.object /\ f.time = e.time => f = e
  BY <1>1, OneEventAtATime
<1>5. ASSUME NEW e \in E
      PROVE  e.source = IF before(e) = {} THEN p.initial[e.object] ELSE Latest(before(e)).destination
  <2>1. IF before(e) = {} THEN e.source = p.initial[e.object]
        ELSE \E l \in before(e) :
               (\A f \in before(e) : f.time <= l.time) /\ l.destination = e.source
    BY <1>1, SourceFacts
  <2>2. CASE before(e) = {}
    BY <2>1, <2>2
  <2>3. CASE before(e) # {}
    <3>1. PICK l \in before(e) : (\A f \in before(e) : f.time <= l.time) /\ l.destination = e.source
      BY <2>1, <2>3
    <3>2. \A m \in before(e) : (\A f \in before(e) : f.time <= m.time) => m = l
      <4> SUFFICES ASSUME NEW m \in before(e), \A f \in before(e) : f.time <= m.time PROVE m = l
        OBVIOUS
      <4>1. m.time <= l.time /\ l.time <= m.time /\ m.time \in Int /\ l.time \in Int
        BY <1>3, <3>1
      <4> QED
        BY <1>4, <4>1
    <3> DEFINE S == before(e)
    <3>3. l \in S /\ (\A f \in S : f.time <= l.time)
          /\ \A m \in S : (\A f \in S : f.time <= m.time) => m = l
      BY <3>1, <3>2
    <3> HIDE DEF S, before
    <3>4. Latest(S) = l
      <4>1. (CHOOSE x \in S : \A f \in S : f.time <= x.time) = l
        BY <3>3
      <4> QED
        BY <4>1 DEF Latest
    <3> QED
      BY <2>3, <3>1, <3>4 DEF S
  <2> QED
    BY <2>2, <2>3
<1> HIDE DEF E, p
<1> QED
  BY <1>2, <1>3, <1>4, <1>5 DEF Chained, E, p

-----------------------------------------------------------------------------
(* M17, the habit model.                                                   *)

(* Counts of finitely many keys.                                           *)
IsCounts(counts) == IsFiniteSet(DOMAIN counts) /\ counts \in [DOMAIN counts -> Nat]

(* The keys' counts are larger by the amount, and no others.               *)
Adds(before, after, keys, amount) ==
  \A k : /\ Count(before, k) \in Nat
         /\ Count(after, k) = Count(before, k) + (IF k \in keys THEN amount[k] ELSE 0)

(* Plus adds an amount to the counts of the keys and leaves the others.    *)
LEMMA PlusFacts ==
  ASSUME NEW counts, IsCounts(counts), NEW keys, IsFiniteSet(keys),
         NEW amount, \A k \in keys : amount[k] \in Nat
  PROVE  /\ IsCounts(Plus(counts, keys, amount))
         /\ DOMAIN Plus(counts, keys, amount) = DOMAIN counts \cup keys
         /\ Adds(counts, Plus(counts, keys, amount), keys, amount)
<1> DEFINE p == Plus(counts, keys, amount)
<1>1. DOMAIN p = DOMAIN counts \cup keys
  BY DEF Plus
<1>2. IsFiniteSet(DOMAIN counts \cup keys)
  BY FS_Union DEF IsCounts
<1>3. \A k : Count(counts, k) \in Nat
  BY DEF Count, IsCounts
<1>4. \A k \in DOMAIN counts \cup keys :
        p[k] = Count(counts, k) + IF k \in keys THEN amount[k] ELSE 0
  BY DEF Plus
<1>5. \A k \in DOMAIN counts \cup keys : p[k] \in Nat
  BY <1>3, <1>4
<1>6. p \in [DOMAIN counts \cup keys -> Nat]
  <2>1. p = [k \in DOMAIN p |-> p[k]]
    BY DEF Plus
  <2> QED
    BY <1>1, <1>5, <2>1
<1>7. ASSUME NEW k
      PROVE Count(p, k) = Count(counts, k) + (IF k \in keys THEN amount[k] ELSE 0)
  <2> HIDE DEF p
  <2>1. CASE k \in DOMAIN counts \cup keys
    BY <1>1, <1>4, <2>1 DEF Count
  <2>2. CASE k \notin DOMAIN counts \cup keys
    BY <1>1, <2>2 DEF Count
  <2> QED
    BY <2>1, <2>2
<1> HIDE DEF p
<1>8. IsCounts(p)
  BY <1>1, <1>2, <1>6 DEF IsCounts
<1> QED
  BY <1>1, <1>3, <1>7, <1>8 DEF p, Adds

(* What is added to one count is added to the sum of all.                  *)
LEMMA PlusSum ==
  ASSUME NEW counts, IsCounts(counts), NEW key, NEW amount, amount[key] \in Nat
  PROVE  /\ SumFunction(counts) \in Nat
         /\ SumFunction(Plus(counts, {key}, amount)) = SumFunction(counts) + amount[key]
<1> DEFINE K == {key}
           D == DOMAIN counts \cup K
           p == Plus(counts, K, amount)
           f == [k \in D |-> Count(counts, k)]
           g == [k \in D |-> IF k \in K THEN amount[k] ELSE 0]
<1>1. IsFiniteSet(K) /\ key \in K /\ \A k \in K : k = key
  BY FS_Singleton
<1>2. \A k \in K : amount[k] \in Nat
  OBVIOUS
<1>3. IsCounts(p) /\ DOMAIN p = D /\ \A k : Count(counts, k) \in Nat
      /\ Count(p, k) = Count(counts, k) + (IF k \in K THEN amount[k] ELSE 0)
  <2> HIDE DEF K
  <2> QED
    BY <1>1, <1>2, PlusFacts DEF Adds, p
<1> HIDE DEF K, p
<1>4. \A k \in D : f[k] \in Nat /\ g[k] \in Nat /\ p[k] = f[k] + g[k]
  <2> SUFFICES ASSUME NEW k \in D PROVE f[k] \in Nat /\ g[k] \in Nat /\ p[k] = f[k] + g[k]
    OBVIOUS
  <2>1. f[k] = Count(counts, k) /\ g[k] = (IF k \in K THEN amount[k] ELSE 0)
    OBVIOUS
  <2>2. p[k] = Count(p, k)
    BY <1>3 DEF Count
  <2> QED
    BY <1>2, <1>3, <2>1, <2>2
<1>5. \A k \in DOMAIN counts : counts[k] \in Nat /\ f[k] = counts[k]
  BY DEF IsCounts, Count
<1>6. \A k \in D \ DOMAIN counts : f[k] = 0
  BY DEF Count
<1>7. key \in D /\ g[key] = amount[key] /\ \A k \in D : k # key => g[k] = 0
  BY <1>1
<1>8. IsFiniteSet(D) /\ IsFiniteSet(DOMAIN counts) /\ DOMAIN counts \in SUBSET D
  BY <1>1, FS_Union DEF IsCounts
<1> HIDE DEF D, f, g
<1>9. SumFunctionOnSet(p, D) = SumFunctionOnSet(f, D) + SumFunctionOnSet(g, D)
  BY <1>4, <1>8, SumAdded
<1>10. SumFunctionOnSet(g, D) = amount[key]
  <2>1. g[key] \in Nat
    BY <1>4, <1>7
  <2> QED
    BY <1>7, <1>8, <2>1, SumOfOne
<1>11. SumFunctionOnSet(f, D) = SumFunctionOnSet(f, DOMAIN counts)
  <2>1. \A k \in DOMAIN counts : f[k] \in Nat
    BY <1>5
  <2> QED
    BY <1>6, <1>8, <2>1, SumOfPart
<1>12. SumFunctionOnSet(f, DOMAIN counts) = SumFunctionOnSet(counts, DOMAIN counts)
  BY <1>5, <1>8, SumSame
<1>13. SumFunctionOnSet(counts, DOMAIN counts) \in Nat
  <2>1. SumLaws(counts, DOMAIN counts)
    BY <1>5, <1>8, SumStep
  <2> QED
    BY <2>1 DEF SumLaws
<1> QED
  BY <1>3, <1>9, <1>10, <1>11, <1>12, <1>13 DEF SumFunction, p, K

(* What a person is said to have done: with the part of the weight that is *)
(* their probability, if the evidence matches.                             *)
DoneBy(e, a, household, object, location) ==
  IF Matches(e, household, object, location) /\ a \in Persons(e)
  THEN e.weight * e.actors[a] ELSE 0

DoneByNobody(e, household, object, location) ==
  IF Matches(e, household, object, location) /\ UnknownActor \in DOMAIN e.actors
  THEN e.weight * e.actors[UnknownActor] ELSE 0

DoneAtAll(e, household, object, location) ==
  IF Matches(e, household, object, location) THEN e.weight * Sure ELSE 0

(* What was learned from: valid evidence that is not a prediction.         *)
Teaches(e) ==
  /\ e \in Evidence /\ ValidEvidence(e)
  /\ e.location \in Location /\ e.source # "model_prediction"

HabitInv ==
  /\ IsCounts(householdCounts) /\ IsCounts(personCounts) /\ IsCounts(contextCounts)
  /\ IsList(learned) /\ \A i \in DOMAIN learned : Teaches(learned[i])
  /\ LevelsAddUp
  /\ OnlyFactsTeach

(* There are finitely many actors.                                         *)
LEMMA FiniteActors == IsFiniteSet(Anybody)
BY HabitAssumption, FS_AddElement DEF Anybody

(* Evidence gives actors, of which there are finitely many, numbers.       *)
LEMMA EvidenceFacts ==
  ASSUME NEW e \in Evidence
  PROVE  /\ e.weight \in Nat /\ Sure \in Nat
         /\ IsFiniteSet(DOMAIN e.actors) /\ IsFiniteSet(Anybody)
         /\ \A a \in DOMAIN e.actors : e.actors[a] \in Nat /\ a \in Anybody
         /\ Persons(e) \subseteq DOMAIN e.actors \cap (Anybody \ {UnknownActor})
         /\ IsFiniteSet(Persons(e))
<1>1. /\ e.weight \in Nat /\ DOMAIN e.actors \subseteq Anybody
      /\ e.actors \in [DOMAIN e.actors -> Nat] /\ Sure \in Nat
  BY HabitAssumption DEF Anybody
<1>2. IsFiniteSet(Anybody)
  BY FiniteActors
<1>3. IsFiniteSet(DOMAIN e.actors)
  BY <1>1, <1>2, FS_Subset
<1>4. \A a \in DOMAIN e.actors : e.actors[a] \in Nat /\ a \in Anybody
  BY <1>1
<1>5. Persons(e) \subseteq DOMAIN e.actors \cap (Anybody \ {UnknownActor})
  BY <1>4 DEF Persons
<1>6. Persons(e) \subseteq DOMAIN e.actors
  BY <1>5
<1>7. IsFiniteSet(Persons(e))
  BY <1>3, <1>6, FS_Subset
<1> QED
  BY <1>1, <1>2, <1>3, <1>4, <1>5, <1>7

(* What was done was done by persons or by nobody known.                   *)
LEMMA SomebodyDidIt ==
  ASSUME NEW e \in Evidence, ValidEvidence(e), NEW h, NEW o, NEW l
  PROVE  /\ \A a \in Anybody : DoneBy(e, a, h, o, l) \in Nat
         /\ DoneByNobody(e, h, o, l) \in Nat
         /\ SumFunction([a \in Anybody |-> DoneBy(e, a, h, o, l)]) \in Nat
         /\ DoneAtAll(e, h, o, l) =
              SumFunction([a \in Anybody |-> DoneBy(e, a, h, o, l)]) + DoneByNobody(e, h, o, l)
<1> DEFINE D == DOMAIN e.actors
           P == Persons(e)
           w == e.weight
           s == [a \in D |-> w * e.actors[a]]
           f == [a \in Anybody |-> DoneBy(e, a, h, o, l)]
<1>1. /\ w \in Nat /\ Sure \in Nat /\ IsFiniteSet(D) /\ IsFiniteSet(Anybody)
      /\ \A a \in D : e.actors[a] \in Nat /\ a \in Anybody
      /\ P \subseteq D \cap (Anybody \ {UnknownActor}) /\ IsFiniteSet(P)
  BY EvidenceFacts
<1>2. \A a \in D : s[a] \in Nat /\ s[a] = w * e.actors[a]
  BY <1>1
<1>3. \A a \in Anybody : DoneBy(e, a, h, o, l) \in Nat
  BY <1>1 DEF DoneBy
<1>4. DoneByNobody(e, h, o, l) \in Nat
  BY <1>1 DEF DoneByNobody
<1>5. SumFunction(f) = SumFunctionOnSet(f, Anybody) /\ SumFunction(f) \in Nat
  <2>1. SumFunction(f) = SumFunctionOnSet(f, Anybody) /\ \A a \in Anybody : f[a] \in Nat
    BY <1>3 DEF SumFunction
  <2> HIDE DEF f
  <2>2. SumLaws(f, Anybody)
    BY <1>1, <2>1, SumStep
  <2> QED
    BY <2>1, <2>2 DEF SumLaws
<1>6. ASSUME ~Matches(e, h, o, l)
      PROVE  DoneAtAll(e, h, o, l) = SumFunction(f) + DoneByNobody(e, h, o, l)
  <2>1. DoneAtAll(e, h, o, l) = 0 /\ DoneByNobody(e, h, o, l) = 0 /\ \A a \in Anybody : f[a] = 0
    BY <1>6 DEF DoneAtAll, DoneByNobody, DoneBy
  <2> HIDE DEF f
  <2>2. SumFunctionOnSet(f, Anybody) = 0
    BY <1>1, <2>1, SumOfZeros
  <2> QED
    BY <1>5, <2>1, <2>2
<1>7. ASSUME Matches(e, h, o, l)
      PROVE  DoneAtAll(e, h, o, l) = SumFunction(f) + DoneByNobody(e, h, o, l)
  <2> DEFINE U == D \cap {UnknownActor}
  <2>1. SumFunctionOnSet(s, D) = w * Sure
    <3>1. SumFunctionOnSet(e.actors, D) = Sure
      BY DEF ValidEvidence, SumFunction
    <3> HIDE DEF s, D, w
    <3>2. SumFunctionOnSet(s, D) = w * SumFunctionOnSet(e.actors, D)
      BY <1>1, <1>2, SumScaled
    <3> QED
      BY <3>1, <3>2
  <2>2. /\ \A a \in D \ U : (a \in P /\ f[a] = s[a]) \/ (a \notin P /\ s[a] = 0)
        /\ \A a \in P : a \in D \ U /\ a \in Anybody /\ f[a] = s[a]
        /\ \A a \in Anybody \ P : f[a] = 0
    <3>1. \A a \in P : a \in D \ U /\ a \in Anybody /\ f[a] = s[a]
      BY <1>1, <1>7 DEF Persons, DoneBy
    <3>2. \A a \in Anybody \ P : f[a] = 0
      BY DEF DoneBy
    <3>3. \A a \in D \ U : a \notin P => s[a] = 0
      BY <1>1 DEF Persons
    <3> QED
      BY <3>1, <3>2, <3>3
  <2>3. SumFunctionOnSet(s, U) = DoneByNobody(e, h, o, l)
    <3>1. CASE UnknownActor \in D
      <4>1. UnknownActor \in U /\ \A a \in U : a # UnknownActor => s[a] = 0
        BY <3>1
      <4>2. IsFiniteSet(U) /\ s[UnknownActor] \in Nat
        BY <1>1, <1>2, <3>1, FS_Subset
      <4>3. SumFunctionOnSet(s, U) = s[UnknownActor]
        <5> HIDE DEF U, s
        <5> QED
          BY <4>1, <4>2, SumOfOne
      <4>4. DoneByNobody(e, h, o, l) = w * e.actors[UnknownActor]
        BY <1>7, <3>1 DEF DoneByNobody
      <4> QED
        BY <1>2, <3>1, <4>3, <4>4
    <3>2. CASE UnknownActor \notin D
      <4>1. U = {} /\ DoneByNobody(e, h, o, l) = 0
        BY <3>2 DEF DoneByNobody
      <4>2. IsFiniteSet(U) /\ \A a \in U : s[a] = 0
        BY <4>1, FS_EmptySet
      <4>3. SumFunctionOnSet(s, U) = 0
        <5> HIDE DEF U, s
        <5> QED
          BY <4>2, SumOfZeros
      <4> QED
        BY <4>1, <4>3
    <3> QED
      BY <3>1, <3>2
  <2>4. IsFiniteSet(D \ U) /\ U \in SUBSET D
    BY <1>1, FS_Difference
  <2>5. P \in SUBSET (D \ U) /\ P \in SUBSET Anybody
    BY <1>1, <2>2
  <2>6. DoneAtAll(e, h, o, l) = w * Sure
    BY <1>7 DEF DoneAtAll
  <2> HIDE DEF s, f, D, U, P, w
  <2>7. SumFunctionOnSet(s, D) = SumFunctionOnSet(s, U) + SumFunctionOnSet(s, D \ U)
    BY <1>1, <1>2, <2>4, SumParts
  <2>8. SumFunctionOnSet(s, D \ U) = SumFunctionOnSet(s, P)
    <3>1. \A a \in P : s[a] \in Nat
      BY <1>1, <1>2
    <3>2. \A a \in (D \ U) \ P : s[a] = 0
      BY <2>2
    <3> QED
      BY <2>4, <2>5, <3>1, <3>2, SumOfPart
  <2>9. SumFunctionOnSet(f, Anybody) = SumFunctionOnSet(f, P)
    <3>1. \A a \in P : f[a] \in Nat
      BY <1>1, <1>2, <2>2
    <3> QED
      BY <1>1, <2>2, <2>5, <3>1, SumOfPart
  <2>10. SumFunctionOnSet(f, P) = SumFunctionOnSet(s, P)
    <3>1. \A a \in P : s[a] \in Nat /\ f[a] = s[a]
      BY <1>1, <1>2, <2>2
    <3> QED
      BY <1>1, <3>1, SumSame
  <2> QED
    BY <1>4, <1>5, <2>1, <2>3, <2>6, <2>7, <2>8, <2>9, <2>10
<1> QED
  BY <1>3, <1>4, <1>5, <1>6, <1>7

(* What an update adds to each of the counts.                              *)
CountsMove(e) ==
  /\ \A h, o, l :
       /\ Count(householdCounts, <<h, o, l>>) \in Nat
       /\ Count(householdCounts', <<h, o, l>>) =
            Count(householdCounts, <<h, o, l>>) + DoneAtAll(e, h, o, l)
  /\ \A h, a, o, l :
       /\ Count(personCounts, <<h, a, o, l>>) \in Nat
       /\ Count(personCounts', <<h, a, o, l>>) =
            Count(personCounts, <<h, a, o, l>>) + DoneBy(e, a, h, o, l)
  /\ \A h, a, o, c, l :
       /\ Count(contextCounts, <<h, a, o, c, l>>) \in Nat
       /\ Count(contextCounts', <<h, a, o, c, l>>) =
            Count(contextCounts, <<h, a, o, c, l>>)
              + (IF c = e.context THEN DoneBy(e, a, h, o, l) ELSE 0)

(* An update adds to the counts what was done, and the evidence to what    *)
(* was learned from.                                                       *)
LEMMA UpdateAdds ==
  ASSUME HabitInv, NEW e \in Evidence, Update(e)
  PROVE  /\ Teaches(e) /\ e.weight \in Nat
         /\ IsCounts(householdCounts') /\ IsCounts(personCounts') /\ IsCounts(contextCounts')
         /\ CountsMove(e)
         /\ SumFunction(householdCounts) \in Nat
         /\ SumFunction(householdCounts') = SumFunction(householdCounts) + e.weight * Sure
         /\ learned' = Append(learned, e)
<1> DEFINE w == EffectiveTrainingWeight(e)
           hk == <<e.household, e.object, e.location>>
           hs == {hk}
           pk == [a \in Persons(e) |-> <<e.household, a, e.object, e.location>>]
           ck == [a \in Persons(e) |-> <<e.household, a, e.object, e.context, e.location>>]
           ps == {<<e.household, a, e.object, e.location>> : a \in Persons(e)}
           cs == {<<e.household, a, e.object, e.context, e.location>> : a \in Persons(e)}
           ha == [k \in hs |-> w * Sure]
           pa == [k \in ps |-> w * e.actors[k[2]]]
           ca == [k \in cs |-> w * e.actors[k[2]]]
<1>1. /\ Teaches(e) /\ w = e.weight
      /\ householdCounts' = Plus(householdCounts, hs, ha)
      /\ personCounts' = Plus(personCounts, ps, pa)
      /\ contextCounts' = Plus(contextCounts, cs, ca)
      /\ learned' = Append(learned, e)
  <2>1. /\ w > 0 /\ ValidEvidence(e) /\ e.location \in Location
        /\ householdCounts' = Plus(householdCounts, hs, ha)
        /\ personCounts' = Plus(personCounts, ps, pa)
        /\ contextCounts' = Plus(contextCounts, cs, ca)
        /\ learned' = Append(learned, e)
    BY Zenon DEF Update
  <2>2. e.source # "model_prediction" /\ w = e.weight
    BY <2>1 DEF EffectiveTrainingWeight
  <2> QED
    BY <2>1, <2>2 DEF Teaches
<1>2. /\ e.weight \in Nat /\ Sure \in Nat
      /\ \A a \in Persons(e) : e.actors[a] \in Nat
      /\ IsFiniteSet(Persons(e))
  BY EvidenceFacts
<1>3. IsCounts(householdCounts) /\ IsCounts(personCounts) /\ IsCounts(contextCounts)
  BY DEF HabitInv
<1>4. IsFiniteSet(hs) /\ IsFiniteSet(ps) /\ IsFiniteSet(cs)
  <2>1. IsFiniteSet(hs)
    BY FS_Singleton
  <2>2. ps = {pk[a] : a \in Persons(e)} /\ cs = {ck[a] : a \in Persons(e)}
    OBVIOUS
  <2> HIDE DEF ps, cs, hs, pk, ck
  <2> QED
    BY <1>2, <2>1, <2>2, ImageIsFinite
<1>5. \A k \in hs : ha[k] \in Nat
  BY <1>1, <1>2
<1>6. \A k \in ps : pa[k] \in Nat
  BY <1>1, <1>2
<1>7. \A k \in cs : ca[k] \in Nat
  BY <1>1, <1>2
<1>8. ASSUME NEW h, NEW o, NEW l
      PROVE  (IF <<h, o, l>> \in hs THEN ha[<<h, o, l>>] ELSE 0) = DoneAtAll(e, h, o, l)
  <2>1. <<h, o, l>> \in hs <=> Matches(e, h, o, l)
    BY DEF Matches
  <2>2. <<h, o, l>> \in hs => ha[<<h, o, l>>] = e.weight * Sure
    BY <1>1
  <2> QED
    BY <2>1, <2>2 DEF DoneAtAll
<1>9. ASSUME NEW h, NEW a, NEW o, NEW l
      PROVE  (IF <<h, a, o, l>> \in ps THEN pa[<<h, a, o, l>>] ELSE 0) = DoneBy(e, a, h, o, l)
  <2>1. <<h, a, o, l>> \in ps <=> Matches(e, h, o, l) /\ a \in Persons(e)
    BY DEF Matches
  <2>2. <<h, a, o, l>> \in ps => pa[<<h, a, o, l>>] = e.weight * e.actors[a]
    BY <1>1
  <2> QED
    BY <2>1, <2>2 DEF DoneBy
<1>10. ASSUME NEW h, NEW a, NEW o, NEW c, NEW l
      PROVE  (IF <<h, a, o, c, l>> \in cs THEN ca[<<h, a, o, c, l>>] ELSE 0) =
               (IF c = e.context THEN DoneBy(e, a, h, o, l) ELSE 0)
  <2>1. <<h, a, o, c, l>> \in cs <=> Matches(e, h, o, l) /\ a \in Persons(e) /\ c = e.context
    BY DEF Matches
  <2>2. <<h, a, o, c, l>> \in cs => ca[<<h, a, o, c, l>>] = e.weight * e.actors[a]
    BY <1>1
  <2> QED
    BY <2>1, <2>2 DEF DoneBy
<1>11. /\ SumFunction(householdCounts) \in Nat
       /\ SumFunction(householdCounts') = SumFunction(householdCounts) + e.weight * Sure
  <2>1. hk \in hs /\ ha[hk] = e.weight * Sure /\ ha[hk] \in Nat
    BY <1>1, <1>2
  <2>2. hs = {hk}
    OBVIOUS
  <2>3. householdCounts' = Plus(householdCounts, {hk}, ha) /\ IsCounts(householdCounts)
    BY <1>1, <1>3
  <2> HIDE DEF hs, ha, hk
  <2>4. /\ SumFunction(householdCounts) \in Nat
        /\ SumFunction(Plus(householdCounts, {hk}, ha)) = SumFunction(householdCounts) + ha[hk]
    BY <2>1, <2>3, PlusSum
  <2> QED
    BY <2>1, <2>3, <2>4
<1> HIDE DEF w, hs, hk, ps, cs, pk, ck, ha, pa, ca
<1>12. /\ IsCounts(householdCounts')
       /\ \A k : /\ Count(householdCounts, k) \in Nat
                 /\ Count(householdCounts', k) =
                      Count(householdCounts, k) + (IF k \in hs THEN ha[k] ELSE 0)
  <2>1. IsCounts(Plus(householdCounts, hs, ha)) /\ Adds(householdCounts, Plus(householdCounts, hs, ha), hs, ha)
    BY <1>3, <1>4, <1>5, PlusFacts
  <2> QED
    BY <1>1, <2>1 DEF Adds
<1>13. /\ IsCounts(personCounts')
       /\ \A k : /\ Count(personCounts, k) \in Nat
                 /\ Count(personCounts', k) =
                      Count(personCounts, k) + (IF k \in ps THEN pa[k] ELSE 0)
  <2>1. IsCounts(Plus(personCounts, ps, pa)) /\ Adds(personCounts, Plus(personCounts, ps, pa), ps, pa)
    BY <1>3, <1>4, <1>6, PlusFacts
  <2> QED
    BY <1>1, <2>1 DEF Adds
<1>14. /\ IsCounts(contextCounts')
       /\ \A k : /\ Count(contextCounts, k) \in Nat
                 /\ Count(contextCounts', k) =
                      Count(contextCounts, k) + (IF k \in cs THEN ca[k] ELSE 0)
  <2>1. IsCounts(Plus(contextCounts, cs, ca)) /\ Adds(contextCounts, Plus(contextCounts, cs, ca), cs, ca)
    BY <1>3, <1>4, <1>7, PlusFacts
  <2> QED
    BY <1>1, <2>1 DEF Adds
<1>15. ASSUME NEW h, NEW o, NEW l
       PROVE  /\ Count(householdCounts, <<h, o, l>>) \in Nat
              /\ Count(householdCounts', <<h, o, l>>) =
                   Count(householdCounts, <<h, o, l>>) + DoneAtAll(e, h, o, l)
  BY <1>8, <1>12
<1>16. ASSUME NEW h, NEW a, NEW o, NEW l
       PROVE  /\ Count(personCounts, <<h, a, o, l>>) \in Nat
              /\ Count(personCounts', <<h, a, o, l>>) =
                   Count(personCounts, <<h, a, o, l>>) + DoneBy(e, a, h, o, l)
  BY <1>9, <1>13
<1>17. ASSUME NEW h, NEW a, NEW o, NEW c, NEW l
       PROVE  /\ Count(contextCounts, <<h, a, o, c, l>>) \in Nat
              /\ Count(contextCounts', <<h, a, o, c, l>>) =
                   Count(contextCounts, <<h, a, o, c, l>>)
                     + (IF c = e.context THEN DoneBy(e, a, h, o, l) ELSE 0)
  BY <1>10, <1>14
<1> QED
  <2>1. CountsMove(e)
    BY <1>15, <1>16, <1>17 DEF CountsMove
  <2> QED
    BY <1>1, <1>2, <1>11, <1>12, <1>13, <1>14, <2>1

(* What is known of nobody in the list s.                                  *)
NobodysPart(s, h, o, l) == [i \in DOMAIN s |-> DoneByNobody(s[i], h, o, l)]

FactsPart(s) ==
  [i \in DOMAIN s |-> IF s[i].source = "model_prediction" THEN 0 ELSE s[i].weight * Sure]

(* One more piece of evidence is one more term of both sums over them.     *)
LEMMA OneMoreLearned ==
  ASSUME HabitInv, NEW e, Teaches(e), learned' = Append(learned, e)
  PROVE  /\ IsList(learned') /\ \A i \in DOMAIN learned' : Teaches(learned'[i])
         /\ \A h, o, l : /\ Unattributed(h, o, l) \in Nat
                         /\ Unattributed(h, o, l)' = Unattributed(h, o, l) + DoneByNobody(e, h, o, l)
         /\ SumFunction(FactsPart(learned)) \in Nat
         /\ SumFunction(FactsPart(learned)') = SumFunction(FactsPart(learned)) + e.weight * Sure
<1> DEFINE n == Len(learned)
           t == Append(learned, e)
<1>1. IsList(learned) /\ \A i \in DOMAIN learned : Teaches(learned[i])
  BY DEF HabitInv
<1>2. n \in Nat /\ DOMAIN learned = 1..n
  BY <1>1, ListFacts
<1>3. IsList(t) /\ DOMAIN t = 1..(n + 1) /\ t[n + 1] = e /\ \A i \in 1..n : t[i] = learned[i]
  BY <1>1, <1>2, AppendFacts, ListFacts
<1> HIDE DEF t, n
<1>4. \A i \in DOMAIN t : Teaches(t[i])
  <2> SUFFICES ASSUME NEW i \in 1..(n + 1) PROVE Teaches(t[i])
    BY <1>3
  <2>1. i = n + 1 \/ i \in 1..n
    BY <1>2
  <2> QED
    BY <1>1, <1>2, <1>3, <2>1
<1>5. \A d \in Evidence : d.weight \in Nat /\ Sure \in Nat
  BY EvidenceFacts
<1>6. ASSUME NEW h, NEW o, NEW l
      PROVE  /\ SumFunction(NobodysPart(learned, h, o, l)) \in Nat
             /\ SumFunction(NobodysPart(t, h, o, l)) =
                  SumFunction(NobodysPart(learned, h, o, l)) + DoneByNobody(e, h, o, l)
  <2> DEFINE f == NobodysPart(learned, h, o, l)
             g == NobodysPart(t, h, o, l)
  <2>1. \A d : Teaches(d) => DoneByNobody(d, h, o, l) \in Nat
    BY SomebodyDidIt DEF Teaches
  <2>2. /\ DOMAIN f = 1..n /\ DOMAIN g = 1..(n + 1)
        /\ \A i \in 1..n : f[i] = DoneByNobody(learned[i], h, o, l)
        /\ \A i \in 1..(n + 1) : g[i] = DoneByNobody(t[i], h, o, l)
    BY <1>2, <1>3 DEF NobodysPart
  <2>3. \A i \in 1..n : f[i] \in Nat /\ g[i] = f[i]
    BY <1>1, <1>2, <1>3, <2>1, <2>2
  <2>4. g[n + 1] \in Nat /\ g[n + 1] = DoneByNobody(e, h, o, l)
    BY <1>2, <1>3, <2>1, <2>2
  <2> HIDE DEF f, g
  <2>5. SumFunction(f) \in Nat /\ SumFunction(g) = SumFunction(f) + g[n + 1]
    BY <1>2, <2>2, <2>3, <2>4, SumOfLonger
  <2> QED
    BY <2>4, <2>5 DEF f, g
<1>7. /\ SumFunction(FactsPart(learned)) \in Nat
      /\ SumFunction(FactsPart(t)) = SumFunction(FactsPart(learned)) + e.weight * Sure
  <2> DEFINE f == FactsPart(learned)
             g == FactsPart(t)
  <2>1. \A d : Teaches(d) => d.source # "model_prediction" /\ d.weight * Sure \in Nat
    BY <1>5 DEF Teaches
  <2>2. DOMAIN f = 1..n /\ \A i \in 1..n : f[i] = learned[i].weight * Sure
    BY <1>1, <1>2, <2>1 DEF FactsPart
  <2>3. DOMAIN g = 1..(n + 1) /\ \A i \in 1..(n + 1) : g[i] = t[i].weight * Sure
    BY <1>3, <1>4, <2>1 DEF FactsPart
  <2>4. g[n + 1] \in Nat /\ g[n + 1] = e.weight * Sure
    <3>1. n + 1 \in 1..(n + 1) /\ t[n + 1] = e
      BY <1>2, <1>3
    <3> QED
      BY <2>1, <2>3, <3>1
  <2>5. \A i \in 1..n : f[i] \in Nat /\ g[i] = f[i]
    <3> SUFFICES ASSUME NEW i \in 1..n PROVE f[i] \in Nat /\ g[i] = f[i]
      OBVIOUS
    <3>1. t[i] = learned[i] /\ Teaches(learned[i]) /\ i \in 1..(n + 1)
      BY <1>1, <1>2, <1>3
    <3> HIDE DEF f, g
    <3> QED
      BY <2>1, <2>2, <2>3, <3>1
  <2> HIDE DEF f, g
  <2>6. SumFunction(f) \in Nat /\ SumFunction(g) = SumFunction(f) + g[n + 1]
    BY <1>2, <2>2, <2>3, <2>4, <2>5, SumOfLonger
  <2> QED
    BY <2>4, <2>6 DEF f, g
<1>8. learned' = t
  BY DEF t
<1>9. ASSUME NEW h, NEW o, NEW l
      PROVE  /\ Unattributed(h, o, l) = SumFunction(NobodysPart(learned, h, o, l))
             /\ Unattributed(h, o, l)' = SumFunction(NobodysPart(t, h, o, l))
  <2>1. Unattributed(h, o, l) = SumFunction(NobodysPart(learned, h, o, l))
    BY DEF Unattributed, NobodysPart, DoneByNobody
  <2>2. Unattributed(h, o, l)' = SumFunction(NobodysPart(learned', h, o, l))
    BY DEF Unattributed, NobodysPart, DoneByNobody
  <2> QED
    BY <1>8, <2>1, <2>2
<1>10. FactsPart(learned)' = FactsPart(t)
  BY <1>8 DEF FactsPart
<1>11. IsList(learned') /\ \A i \in DOMAIN learned' : Teaches(learned'[i])
  BY <1>3, <1>4, <1>8
<1>12. ASSUME NEW h, NEW o, NEW l
       PROVE  /\ Unattributed(h, o, l) \in Nat
              /\ Unattributed(h, o, l)' = Unattributed(h, o, l) + DoneByNobody(e, h, o, l)
  BY <1>6, <1>9
<1> QED
  BY <1>7, <1>10, <1>11, <1>12, Zenon

(* A person's counts in all contexts still add up.                         *)
LEMMA ContextsAddUp ==
  ASSUME HabitInv, NEW e \in Evidence, Update(e),
         NEW h \in Households, NEW o \in Objects, NEW l \in Location, NEW a \in Anybody
  PROVE  Count(personCounts', <<h, a, o, l>>) =
           SumFunction([c \in Contexts |-> Count(contextCounts', <<h, a, o, c, l>>)])
<1> DEFINE f == [c \in Contexts |-> Count(contextCounts, <<h, a, o, c, l>>)]
           d == [c \in Contexts |-> IF c = e.context THEN DoneBy(e, a, h, o, l) ELSE 0]
           g == [c \in Contexts |-> Count(contextCounts', <<h, a, o, c, l>>)]
<1>1. /\ Count(personCounts', <<h, a, o, l>>) =
           Count(personCounts, <<h, a, o, l>>) + DoneBy(e, a, h, o, l)
      /\ \A c : /\ Count(contextCounts, <<h, a, o, c, l>>) \in Nat
                /\ Count(contextCounts', <<h, a, o, c, l>>) =
                     Count(contextCounts, <<h, a, o, c, l>>)
                       + (IF c = e.context THEN DoneBy(e, a, h, o, l) ELSE 0)
      /\ Teaches(e)
  <2>1. Teaches(e) /\ CountsMove(e)
    BY UpdateAdds, Zenon
  <2> QED
    BY <2>1 DEF CountsMove
<1>2. Count(personCounts, <<h, a, o, l>>) = SumFunction(f)
  BY DEF HabitInv, LevelsAddUp
<1>3. IsFiniteSet(Contexts) /\ e.context \in Contexts
  BY HabitAssumption DEF Contexts
<1>4. DoneBy(e, a, h, o, l) \in Nat
  BY <1>1, SomebodyDidIt DEF Teaches
<1>5. \A c \in Contexts : f[c] \in Nat /\ d[c] \in Nat /\ g[c] = f[c] + d[c]
  BY <1>1, <1>4
<1>6. /\ d[e.context] = DoneBy(e, a, h, o, l) /\ d[e.context] \in Nat
      /\ \A c \in Contexts : c # e.context => d[c] = 0
  BY <1>3, <1>4
<1>7. /\ SumFunction(f) = SumFunctionOnSet(f, Contexts)
      /\ SumFunction(g) = SumFunctionOnSet(g, Contexts)
  BY DEF SumFunction
<1> HIDE DEF f, d, g
<1>8. SumFunctionOnSet(g, Contexts) = SumFunctionOnSet(f, Contexts) + SumFunctionOnSet(d, Contexts)
  BY <1>3, <1>5, SumAdded
<1>9. SumFunctionOnSet(d, Contexts) = DoneBy(e, a, h, o, l)
  BY <1>3, <1>6, SumOfOne
<1>10. SumFunction(g) = Count(personCounts', <<h, a, o, l>>)
  BY <1>1, <1>2, <1>7, <1>8, <1>9
<1> QED
  BY <1>10 DEF g

(* What was done in a household is still what its persons did and what     *)
(* nobody is known to have done.                                           *)
LEMMA PersonsAddUp ==
  ASSUME HabitInv, NEW e \in Evidence, Update(e),
         NEW h \in Households, NEW o \in Objects, NEW l \in Location
  PROVE  Count(householdCounts', <<h, o, l>>) =
           SumFunction([a \in Anybody |-> Count(personCounts', <<h, a, o, l>>)]) + Unattributed(h, o, l)'
<1> DEFINE f == [a \in Anybody |-> Count(personCounts, <<h, a, o, l>>)]
           d == [a \in Anybody |-> DoneBy(e, a, h, o, l)]
           g == [a \in Anybody |-> Count(personCounts', <<h, a, o, l>>)]
<1>1. /\ Teaches(e) /\ learned' = Append(learned, e)
      /\ Count(householdCounts, <<h, o, l>>) \in Nat
      /\ Count(householdCounts', <<h, o, l>>) =
           Count(householdCounts, <<h, o, l>>) + DoneAtAll(e, h, o, l)
      /\ \A a : /\ Count(personCounts, <<h, a, o, l>>) \in Nat
                /\ Count(personCounts', <<h, a, o, l>>) =
                     Count(personCounts, <<h, a, o, l>>) + DoneBy(e, a, h, o, l)
  <2>1. Teaches(e) /\ CountsMove(e) /\ learned' = Append(learned, e)
    BY UpdateAdds, Zenon
  <2> QED
    BY <2>1 DEF CountsMove
<1>2. Count(householdCounts, <<h, o, l>>) = SumFunction(f) + Unattributed(h, o, l)
  BY DEF HabitInv, LevelsAddUp
<1>3. /\ \A a \in Anybody : DoneBy(e, a, h, o, l) \in Nat
      /\ DoneByNobody(e, h, o, l) \in Nat
      /\ SumFunction(d) \in Nat
      /\ DoneAtAll(e, h, o, l) = SumFunction(d) + DoneByNobody(e, h, o, l)
  BY <1>1, SomebodyDidIt DEF Teaches
<1>4. \A a \in Anybody : f[a] \in Nat /\ d[a] \in Nat /\ g[a] = f[a] + d[a]
  BY <1>1, <1>3
<1>5. IsFiniteSet(Anybody)
  BY FiniteActors
<1>6. /\ SumFunction(f) = SumFunctionOnSet(f, Anybody) /\ SumFunction(d) = SumFunctionOnSet(d, Anybody)
      /\ SumFunction(g) = SumFunctionOnSet(g, Anybody)
  BY DEF SumFunction
<1> HIDE DEF f, d, g
<1>7. SumFunctionOnSet(g, Anybody) = SumFunctionOnSet(f, Anybody) + SumFunctionOnSet(d, Anybody)
  BY <1>4, <1>5, SumAdded
<1>8. SumFunction(f) \in Nat
  <2>1. SumLaws(f, Anybody)
    BY <1>4, <1>5, SumStep
  <2> QED
    BY <1>6, <2>1 DEF SumLaws
<1>9. /\ Unattributed(h, o, l) \in Nat
      /\ Unattributed(h, o, l)' = Unattributed(h, o, l) + DoneByNobody(e, h, o, l)
  BY <1>1, OneMoreLearned
<1>10. Count(householdCounts', <<h, o, l>>) = SumFunction(g) + Unattributed(h, o, l)'
  BY <1>1, <1>2, <1>3, <1>6, <1>7, <1>8, <1>9
<1> QED
  BY <1>10 DEF g

(* The invariant is kept.                                                  *)
LEMMA HabitStep == HabitInv /\ [HabitNext]_habitVars => HabitInv'
<1> SUFFICES ASSUME HabitInv, [HabitNext]_habitVars PROVE HabitInv'
  OBVIOUS
<1>1. ASSUME NEW e \in Evidence, Update(e) PROVE HabitInv'
  <2>1. /\ Teaches(e) /\ learned' = Append(learned, e)
        /\ IsCounts(householdCounts') /\ IsCounts(personCounts') /\ IsCounts(contextCounts')
        /\ SumFunction(householdCounts') = SumFunction(householdCounts) + e.weight * Sure
    BY <1>1, UpdateAdds, Zenon
  <2>2. IsList(learned') /\ \A i \in DOMAIN learned' : Teaches(learned'[i])
    BY <2>1, OneMoreLearned, Zenon
  <2>3. SumFunction(FactsPart(learned)') = SumFunction(FactsPart(learned)) + e.weight * Sure
    BY <2>1, OneMoreLearned, Zenon
  <2>4. OnlyFactsTeach'
    <3>1. SumFunction(householdCounts) = SumFunction(FactsPart(learned))
      BY Zenon DEF HabitInv, OnlyFactsTeach, FactsPart
    <3>2. SumFunction(householdCounts') = SumFunction(FactsPart(learned)')
      BY <2>1, <2>3, <3>1
    <3> QED
      BY <3>2, Zenon DEF OnlyFactsTeach, FactsPart
  <2>5. LevelsAddUp'
    <3> SUFFICES ASSUME NEW h \in Households, NEW o \in Objects, NEW l \in Location
        PROVE  /\ Count(householdCounts', <<h, o, l>>) =
                    SumFunction([a \in Anybody |-> Count(personCounts', <<h, a, o, l>>)])
                      + Unattributed(h, o, l)'
               /\ \A a \in Anybody :
                    Count(personCounts', <<h, a, o, l>>) =
                      SumFunction([c \in Contexts |-> Count(contextCounts', <<h, a, o, c, l>>)])
      BY Zenon DEF LevelsAddUp
    <3> QED
      BY <1>1, PersonsAddUp, ContextsAddUp, Zenon
  <2> QED
    BY <2>1, <2>2, <2>4, <2>5 DEF HabitInv
<1>2. ASSUME UNCHANGED habitVars PROVE HabitInv'
  <2>1. /\ householdCounts' = householdCounts /\ personCounts' = personCounts
        /\ contextCounts' = contextCounts /\ learned' = learned
    BY <1>2 DEF habitVars
  <2>2. LevelsAddUp'
    <3>1. \A h, o, l : Unattributed(h, o, l)' = Unattributed(h, o, l)
      BY <2>1 DEF Unattributed
    <3> SUFFICES ASSUME NEW h \in Households, NEW o \in Objects, NEW l \in Location
        PROVE  /\ Count(householdCounts', <<h, o, l>>) =
                    SumFunction([a \in Anybody |-> Count(personCounts', <<h, a, o, l>>)])
                      + Unattributed(h, o, l)'
               /\ \A a \in Anybody :
                    Count(personCounts', <<h, a, o, l>>) =
                      SumFunction([c \in Contexts |-> Count(contextCounts', <<h, a, o, c, l>>)])
      BY Zenon DEF LevelsAddUp
    <3>2. /\ Count(householdCounts, <<h, o, l>>) =
               SumFunction([a \in Anybody |-> Count(personCounts, <<h, a, o, l>>)])
                 + Unattributed(h, o, l)
          /\ \A a \in Anybody :
               Count(personCounts, <<h, a, o, l>>) =
                 SumFunction([c \in Contexts |-> Count(contextCounts, <<h, a, o, c, l>>)])
      BY DEF HabitInv, LevelsAddUp
    <3>3. Unattributed(h, o, l)' = Unattributed(h, o, l)
      BY <3>1
    <3> QED
      BY <2>1, <3>2, <3>3, Zenon
  <2>3. OnlyFactsTeach'
    BY <2>1, Zenon DEF HabitInv, OnlyFactsTeach
  <2> QED
    BY <2>1, <2>2, <2>3 DEF HabitInv
<1> QED
  BY <1>1, <1>2 DEF HabitNext

(* Nothing has been learned at first.                                      *)
LEMMA HabitStart == HabitInit => HabitInv
<1> SUFFICES ASSUME HabitInit PROVE HabitInv
  OBVIOUS
<1>1. /\ householdCounts = << >> /\ personCounts = << >> /\ contextCounts = << >> /\ learned = << >>
  BY DEF HabitInit
<1>2. DOMAIN << >> = {}
  OBVIOUS
<1>3. IsList(<< >>)
  BY EmptyList
<1>4. IsCounts(<< >>)
  BY <1>2, FS_EmptySet DEF IsCounts
<1>5. \A key : Count(<< >>, key) = 0
  BY <1>2 DEF Count
<1>6. ASSUME NEW f, DOMAIN f = {} PROVE SumFunction(f) = 0
  <2>1. SumFunctionOnSet(f, {}) = 0
    BY FS_EmptySet, SumOfZeros
  <2> QED
    BY <1>6, <2>1 DEF SumFunction
<1>7. ASSUME NEW f, IsFiniteSet(DOMAIN f), \A x \in DOMAIN f : f[x] = 0 PROVE SumFunction(f) = 0
  BY <1>7, SumOfZeros DEF SumFunction
<1>8. OnlyFactsTeach
  <2> DEFINE g == FactsPart(learned)
  <2>1. DOMAIN g = {}
    BY <1>1, <1>2 DEF FactsPart
  <2>2. SumFunction(householdCounts) = 0
    BY <1>1, <1>2, <1>6
  <2> HIDE DEF g
  <2>3. SumFunction(g) = 0
    BY <1>6, <2>1
  <2> QED
    BY <2>2, <2>3 DEF OnlyFactsTeach, FactsPart, g
<1>9. LevelsAddUp
  <2> SUFFICES ASSUME NEW h \in Households, NEW o \in Objects, NEW l \in Location
      PROVE  /\ Count(householdCounts, <<h, o, l>>) =
                  SumFunction([a \in Anybody |-> Count(personCounts, <<h, a, o, l>>)])
                    + Unattributed(h, o, l)
             /\ \A a \in Anybody :
                  Count(personCounts, <<h, a, o, l>>) =
                    SumFunction([c \in Contexts |-> Count(contextCounts, <<h, a, o, c, l>>)])
    BY Zenon DEF LevelsAddUp
  <2> DEFINE f == [a \in Anybody |-> Count(personCounts, <<h, a, o, l>>)]
             u == NobodysPart(learned, h, o, l)
             k(a) == [c \in Contexts |-> Count(contextCounts, <<h, a, o, c, l>>)]
  <2>1. IsFiniteSet(Anybody) /\ IsFiniteSet(Contexts)
    BY FiniteActors, HabitAssumption DEF Contexts
  <2>2. DOMAIN f = Anybody /\ \A a \in Anybody : f[a] = 0
    BY <1>1, <1>5
  <2>3. DOMAIN u = {}
    BY <1>1, <1>2 DEF NobodysPart
  <2>4. \A a : DOMAIN k(a) = Contexts /\ \A c \in Contexts : k(a)[c] = 0
    BY <1>1, <1>5
  <2>5. Unattributed(h, o, l) = SumFunction(u)
    BY DEF Unattributed, NobodysPart, DoneByNobody
  <2>6. \A key : Count(householdCounts, key) = 0 /\ Count(personCounts, key) = 0
    BY <1>1, <1>5
  <2> HIDE DEF f, u, k
  <2>7. SumFunction(f) = 0
    BY <1>7, <2>1, <2>2
  <2>8. SumFunction(u) = 0
    BY <1>6, <2>3
  <2>9. \A a \in Anybody : SumFunction(k(a)) = 0
    BY <1>7, <2>1, <2>4
  <2>10. Count(householdCounts, <<h, o, l>>) = SumFunction(f) + Unattributed(h, o, l)
    BY <2>5, <2>6, <2>7, <2>8
  <2>11. \A a \in Anybody : Count(personCounts, <<h, a, o, l>>) = SumFunction(k(a))
    BY <2>6, <2>9
  <2> QED
    BY <2>10, <2>11, Zenon DEF f, k
<1>10. \A i \in DOMAIN learned : Teaches(learned[i])
  BY <1>1, <1>2
<1> QED
  BY <1>1, <1>3, <1>4, <1>8, <1>9, <1>10 DEF HabitInv

(* What a location scores, before and after evidence.                      *)
LEMMA ScoreMoves ==
  ASSUME HabitInv, NEW e \in Evidence, Update(e),
         NEW h, NEW a, NEW o, NEW c, NEW l \in Location
  PROVE  /\ Scores(h, a, o, c)[l] \in Nat /\ Scores(h, a, o, c)'[l] \in Nat
         /\ Scores(h, a, o, c)[l] <= Scores(h, a, o, c)'[l]
         /\ ~Matches(e, h, o, l) => Scores(h, a, o, c)'[l] = Scores(h, a, o, c)[l]
<1> DEFINE n == Count(householdCounts, <<h, o, l>>)
           p == Count(personCounts, <<h, a, o, l>>)
           q == Count(contextCounts, <<h, a, o, c, l>>)
           m == Count(householdCounts', <<h, o, l>>)
           r == Count(personCounts', <<h, a, o, l>>)
           s == Count(contextCounts', <<h, a, o, c, l>>)
           z == Prior[l] * Sure * Sure
           x == DoneAtAll(e, h, o, l)
           y == DoneBy(e, a, h, o, l)
<1>1. /\ n \in Nat /\ m = n + x /\ p \in Nat /\ r = p + y
      /\ q \in Nat /\ s = q + (IF c = e.context THEN y ELSE 0)
      /\ e.weight \in Nat
  <2>1. e.weight \in Nat /\ CountsMove(e)
    BY UpdateAdds, Zenon
  <2> QED
    BY <2>1 DEF CountsMove
<1>2. Sure \in Nat /\ \A b \in Persons(e) : e.actors[b] \in Nat
  BY EvidenceFacts
<1>3. x \in Nat /\ y \in Nat /\ (~Matches(e, h, o, l) => x = 0 /\ y = 0)
  BY <1>1, <1>2 DEF DoneAtAll, DoneBy
<1>4. Weight.household \in Nat /\ Weight.person \in Nat /\ Weight.context \in Nat /\ Prior[l] \in Nat
  BY HabitAssumption
<1>5. z \in Nat
  BY <1>2, <1>4
<1>6. /\ Scores(h, a, o, c)[l] = z + Weight.household * n + Weight.person * p + Weight.context * q
      /\ Scores(h, a, o, c)'[l] = z + Weight.household * m + Weight.person * r + Weight.context * s
  BY DEF Scores
<1> HIDE DEF n, p, q, m, r, s, z, x, y
<1>7. m \in Nat /\ r \in Nat /\ s \in Nat /\ n <= m /\ p <= r /\ q <= s
      /\ (~Matches(e, h, o, l) => m = n /\ r = p /\ s = q)
  BY <1>1, <1>3
<1>8. /\ Weight.household * n \in Nat /\ Weight.household * m \in Nat
      /\ Weight.household * n <= Weight.household * m
  BY <1>1, <1>4, <1>7, TimesMonotone
<1>9. /\ Weight.person * p \in Nat /\ Weight.person * r \in Nat
      /\ Weight.person * p <= Weight.person * r
  BY <1>1, <1>4, <1>7, TimesMonotone
<1>10. /\ Weight.context * q \in Nat /\ Weight.context * s \in Nat
       /\ Weight.context * q <= Weight.context * s
  BY <1>1, <1>4, <1>7, TimesMonotone
<1>11. Scores(h, a, o, c)[l] \in Nat /\ Scores(h, a, o, c)'[l] \in Nat
       /\ Scores(h, a, o, c)[l] <= Scores(h, a, o, c)'[l]
  BY <1>5, <1>6, <1>8, <1>9, <1>10
<1>12. ~Matches(e, h, o, l) => Scores(h, a, o, c)'[l] = Scores(h, a, o, c)[l]
  BY <1>6, <1>7
<1> QED
  BY <1>11, <1>12

(* Evidence moves predictions only where it belongs.                       *)
LEMMA LocalStep == HabitInv /\ [HabitNext]_habitVars => LearningIsLocal
<1> SUFFICES ASSUME HabitInv, [HabitNext]_habitVars, learned' # learned,
                    NEW h \in Households, NEW a \in Actor, NEW o \in Objects, NEW c \in Contexts
    PROVE  IF h = Last(learned').household /\ o = Last(learned').object
           THEN \A l \in Location :
                  Scores(h, a, o, c)'[Last(learned').location] * Scores(h, a, o, c)[l] >=
                    Scores(h, a, o, c)[Last(learned').location] * Scores(h, a, o, c)'[l]
           ELSE Scores(h, a, o, c)' = Scores(h, a, o, c)
  BY Zenon DEF LearningIsLocal
<1>1. PICK e \in Evidence : Update(e)
  BY DEF HabitNext, habitVars
<1>2. Teaches(e) /\ learned' = Append(learned, e)
  BY <1>1, UpdateAdds, Zenon
<1>3. Last(learned') = e
  <2>1. IsList(learned)
    BY DEF HabitInv
  <2>2. Len(Append(learned, e)) = Len(learned) + 1 /\ Append(learned, e)[Len(learned) + 1] = e
    BY <2>1, AppendFacts
  <2> QED
    BY <1>2, <2>2 DEF Last
<1> DEFINE u == Scores(h, a, o, c)
           v == Scores(h, a, o, c)'
<1>4. \A l \in Location : /\ u[l] \in Nat /\ v[l] \in Nat /\ u[l] <= v[l]
                          /\ ~Matches(e, h, o, l) => v[l] = u[l]
  BY <1>1, ScoreMoves
<1>5. e.location \in Location
  BY <1>2 DEF Teaches
<1>6. u = [l \in Location |-> u[l]] /\ v = [l \in Location |-> v[l]]
  BY DEF Scores
<1> HIDE DEF u, v
<1>7. ASSUME h = e.household, o = e.object
      PROVE  \A l \in Location : v[e.location] * u[l] >= u[e.location] * v[l]
  <2> SUFFICES ASSUME NEW l \in Location PROVE v[e.location] * u[l] >= u[e.location] * v[l]
    OBVIOUS
  <2>1. CASE l = e.location
    <3>1. v[l] * u[l] = u[l] * v[l] /\ v[l] * u[l] \in Nat
      BY <1>4
    <3> QED
      BY <2>1, <3>1
  <2>2. CASE l # e.location
    <3>1. v[l] = u[l]
      BY <1>4, <2>2 DEF Matches
    <3>2. u[e.location] * u[l] \in Nat /\ v[e.location] * u[l] \in Nat
          /\ u[e.location] * u[l] <= v[e.location] * u[l]
      BY <1>4, <1>5, TimesMonotone
    <3> QED
      BY <3>1, <3>2
  <2> QED
    BY <2>1, <2>2
<1>8. ASSUME ~(h = e.household /\ o = e.object) PROVE v = u
  <2>1. \A l \in Location : v[l] = u[l]
    BY <1>4, <1>8 DEF Matches
  <2> QED
    BY <1>6, <2>1
<1> QED
  BY <1>3, <1>7, <1>8 DEF u, v

(* LearningIsSound, of any evidence: what is learned is booked alike on    *)
(* the levels of household, person and context, comes from no predictions  *)
(* of the model itself, makes no location less probable that it is about,  *)
(* and leaves all other households and objects as they were.               *)
THEOREM LearningSafety == HabitSpec => LearningIsSound
<1>1. HabitInit => HabitInv
  BY HabitStart
<1>2. HabitInv /\ [HabitNext]_habitVars => HabitInv'
  BY HabitStep
<1>3. HabitInv /\ [HabitNext]_habitVars => LearningIsLocal
  BY LocalStep
<1>4. HabitInv' => LevelsAddUp' /\ OnlyFactsTeach'
  BY DEF HabitInv
<1> QED
  BY <1>1, <1>2, <1>3, <1>4, PTL DEF HabitSpec, LearningIsSound
=============================================================================
