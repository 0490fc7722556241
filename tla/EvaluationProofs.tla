--------------------------- MODULE EvaluationProofs ---------------------------
(***************************************************************************)
(* What the evaluation of the household benchmark promises, for any number *)
(* of days and whatever is drawn:                                          *)
(*   - the cases of the shift scenarios pose the question they are         *)
(*     labelled with;                                                      *)
(*   - the scores of simulated runs are fair.                              *)
(***************************************************************************)
EXTENDS HouseholdProofs, ShiftScenarios, Evaluator

-----------------------------------------------------------------------------
(* The shift scenarios.                                                    *)

(* How many numbers there are from a to b.                                 *)
Between(a, b) == IF a > b THEN 0 ELSE b - a + 1

(* The numbers of an interval in their order.                              *)
LEMMA OrderOfInterval ==
  ASSUME NEW a \in Nat, NEW b \in Nat
  PROVE  LET order == InOrder(a..b, [k \in a..b |-> <<k, 0>>])
         IN  /\ Between(a, b) \in Nat /\ DOMAIN order = 1..Between(a, b)
             /\ \A k \in DOMAIN order : order[k] = a + k - 1 /\ order[k] \in a..b
<1> DEFINE S == a..b
           rank == [k \in S |-> <<k, 0>>]
           order == InOrder(S, rank)
           n == Between(a, b)
<1>1. /\ \A x, y \in Int : IsFiniteSet(x..y)
      /\ \A x, y \in Int : Cardinality(x..y) = IF x > y THEN 0 ELSE y - x + 1
  BY FS_Interval
<1>2. Cardinality(S) = n /\ n \in Nat
  BY <1>1 DEF Between
<1>3. \A x, y \in S : Precedes(rank[y], rank[x]) <=> y < x
  BY DEF Precedes
<1>4. \A x \in S : {y \in S : Precedes(rank[y], rank[x])} = a..(x - 1)
  <2> HIDE DEF rank
  <2>1. \A x \in S : {y \in S : Precedes(rank[y], rank[x])} = {y \in S : y < x}
    BY <1>3
  <2>2. \A x \in S : {y \in S : y < x} = a..(x - 1)
    OBVIOUS
  <2> QED
    BY <2>1, <2>2
<1>5. \A x \in S : Cardinality({y \in S : Precedes(rank[y], rank[x])}) = x - a
  <2> SUFFICES ASSUME NEW x \in S PROVE Cardinality(a..(x - 1)) = x - a
    BY <1>4
  <2>1. Cardinality(a..(x - 1)) = IF a > x - 1 THEN 0 ELSE (x - 1) - a + 1
    BY <1>1
  <2> QED
    BY <2>1
<1>6. /\ DOMAIN order = 1..n
      /\ \A k \in 1..n : order[k] = CHOOSE x \in S : Cardinality({y \in S : Precedes(rank[y], rank[x])}) = k - 1
  BY <1>2 DEF InOrder
<1> HIDE DEF rank, order
<1>7. ASSUME NEW k \in 1..n PROVE order[k] = a + k - 1 /\ order[k] \in S
  <2> DEFINE Is(x) == Cardinality({y \in S : Precedes(rank[y], rank[x])}) = k - 1
  <2>1. a + k - 1 \in S
    BY <1>2 DEF Between
  <2>2. \A x \in S : Is(x) <=> x = a + k - 1
    BY <1>2, <1>5
  <2>3. order[k] = CHOOSE x \in S : Is(x)
    BY <1>6
  <2> HIDE DEF Is
  <2> QED
    BY <2>1, <2>2, <2>3
<1> QED
  BY <1>2, <1>6, <1>7 DEF order, rank

(* What is picked of a list from one place to another.                     *)
LEMMA ThoseFacts ==
  ASSUME NEW list, NEW a \in Nat, NEW b \in Nat
  PROVE  /\ Between(a, b) \in Nat /\ IsList(Those(list, a..b)) /\ Len(Those(list, a..b)) = Between(a, b)
         /\ \A k \in 1..Between(a, b) : Those(list, a..b)[k] = list[a + k - 1]
<1> DEFINE order == InOrder(a..b, [k \in a..b |-> <<k, 0>>])
           t == Those(list, a..b)
<1>1. /\ Between(a, b) \in Nat /\ DOMAIN order = 1..Between(a, b)
      /\ \A k \in DOMAIN order : order[k] = a + k - 1
  BY OrderOfInterval
<1>2. t = [k \in DOMAIN order |-> list[order[k]]]
  BY DEF Those
<1> HIDE DEF order, t
<1>3. IsList(t) /\ Len(t) = Between(a, b)
  BY <1>1, <1>2, FunctionIsList
<1> QED
  BY <1>1, <1>2, <1>3 DEF t

(* The first m members of a list.                                          *)
LEMMA FirstPlaces ==
  ASSUME NEW list, NEW m \in Nat
  PROVE  /\ IsList(Those(list, 1..m)) /\ Len(Those(list, 1..m)) = m
         /\ \A k \in 1..m : Those(list, 1..m)[k] = list[k]
<1>1. Between(1, m) = m
  BY DEF Between
<1>2. IsList(Those(list, 1..m)) /\ Len(Those(list, 1..m)) = Between(1, m)
  <2>1. \A a \in Nat : IsList(Those(list, a..m)) /\ Len(Those(list, a..m)) = Between(a, m)
    BY ThoseFacts
  <2>2. 1 \in Nat
    OBVIOUS
  <2> QED
    BY <2>1, <2>2
<1>3. ASSUME NEW k \in 1..Between(1, m) PROVE Those(list, 1..m)[k] = list[1 + k - 1]
  BY ThoseFacts
<1>4. \A k \in 1..m : 1 + k - 1 = k
  OBVIOUS
<1> QED
  BY <1>1, <1>2, <1>3, <1>4

(* What is left of a list is what follows its first m members.             *)
LEMMA LastPlaces ==
  ASSUME NEW list, NEW m \in Nat, NEW n \in Nat, m < n
  PROVE  /\ IsList(Those(list, (m + 1)..n)) /\ Len(Those(list, (m + 1)..n)) = n - m
         /\ \A k \in 1..(n - m) : Those(list, (m + 1)..n)[k] = list[m + k]
<1>1. Between(m + 1, n) = n - m /\ m + 1 \in Nat
  BY DEF Between
<1>2. IsList(Those(list, (m + 1)..n)) /\ Len(Those(list, (m + 1)..n)) = Between(m + 1, n)
  <2>1. \A a \in Nat : IsList(Those(list, a..n)) /\ Len(Those(list, a..n)) = Between(a, n)
    BY ThoseFacts
  <2> QED
    BY <1>1, <2>1
<1>3. ASSUME NEW k \in 1..Between(m + 1, n) PROVE Those(list, (m + 1)..n)[k] = list[m + 1 + k - 1]
  BY <1>1, ThoseFacts
<1>4. \A k \in 1..(n - m) : m + 1 + k - 1 = m + k
  OBVIOUS
<1> QED
  BY <1>1, <1>2, <1>3, <1>4

(* A scenario whose validation accepts it.                                 *)
Posed(s) ==
  {s.duration, s.change, s.control, s.shifted, s.detect} \subseteq Nat /\ ValidScenario(s)

TabletRoutine ==
  [object |-> Tablet, actor |-> "owner", initial |-> "desk", habitual |-> "desk", slot |-> 1]

ConfigFor(s, cause) == RoutineConfig(s, Changes(s, cause))

(* Where the tablet is put on a day, and by whom.                          *)
PlaceOn(s, cause, day) ==
  IF cause # "observation_policy" /\ day >= s.change THEN "sofa" ELSE "desk"

ActorOn(s, cause, day) ==
  IF cause = "actor_mixture" /\ day >= s.change THEN "guest" ELSE "owner"

(* Days are longer than what happens and is looked at on one.              *)
LEMMA DaysApart ==
  ASSUME NEW a \in Nat, NEW b \in Nat
  PROVE  /\ a * DayLength \in Nat /\ b * DayLength \in Nat /\ DayLength \in Nat /\ 2 < DayLength
         /\ a < b => a * DayLength + DayLength <= b * DayLength
         /\ a * DayLength + 1 <= b * DayLength + 2 <=> a <= b
         /\ b * DayLength + 2 < a * DayLength <=> b < a
<1>1. DayLength \in Nat /\ 2 < DayLength
  BY DayAssumption, ScenarioAssumption
<1>2. a * DayLength \in Nat /\ b * DayLength \in Nat
  BY <1>1
<1>3. ASSUME NEW x \in Nat, NEW y \in Nat, x < y PROVE x * DayLength + DayLength <= y * DayLength
  <2>1. PICK d \in Nat : y = x + 1 + d
    <3>1. y - x - 1 \in Nat /\ y = x + 1 + (y - x - 1)
      BY <1>3
    <3> QED
      BY <3>1
  <2>2. y * DayLength = x * DayLength + DayLength + d * DayLength
    BY <1>1, <2>1
  <2>3. d * DayLength \in Nat /\ x * DayLength \in Nat
    BY <1>1
  <2> QED
    BY <1>1, <2>2, <2>3
<1>4. (a < b => a * DayLength + DayLength <= b * DayLength)
      /\ (b < a => b * DayLength + DayLength <= a * DayLength)
  BY <1>3
<1>5. a = b => a * DayLength = b * DayLength
  OBVIOUS
<1>6. a < b \/ b < a \/ a = b
  OBVIOUS
<1> DEFINE p == a * DayLength
           q == b * DayLength
<1> HIDE DEF p, q
<1>7. p \in Nat /\ q \in Nat /\ (a < b => p + DayLength <= q) /\ (b < a => q + DayLength <= p) /\ (a = b => p = q)
  BY <1>2, <1>4, <1>5 DEF p, q
<1>8. (p + 1 <= q + 2 <=> a <= b) /\ (q + 2 < p <=> b < a)
  BY <1>1, <1>6, <1>7
<1> QED
  BY <1>1, <1>2, <1>4, <1>8 DEF p, q

(* The configurations of a scenario are ones the generator accepts.        *)
LEMMA ConfigFacts ==
  ASSUME NEW s, Posed(s), NEW cause \in Cause
  PROVE  /\ Proper(ConfigFor(s, cause))
         /\ ConfigFor(s, cause).start = 0 /\ ConfigFor(s, cause).duration = s.duration
         /\ ConfigFor(s, cause).seed = 0 /\ ToSet(ConfigFor(s, cause).routines) = {TabletRoutine}
         /\ ConfigFor(s, cause).changes = Changes(s, cause)
<1> DEFINE c == ConfigFor(s, cause)
<1>1. c = [start |-> 0, duration |-> s.duration, seed |-> 0, changes |-> Changes(s, cause),
           routines |-> <<TabletRoutine>>]
  BY DEF ConfigFor, RoutineConfig, TabletRoutine
<1> HIDE DEF c
<1>2. ToSet(c.routines) = {TabletRoutine} /\ DOMAIN c.routines = {1} /\ c.routines[1] = TabletRoutine
  BY <1>1 DEF ToSet
<1>3. IsFiniteSet({TabletRoutine})
  BY FS_Singleton
<1>4. s.duration \in Nat /\ s.change \in Nat /\ 0 < s.change /\ s.change < s.duration
  BY DEF Posed, ValidScenario
<1>5. Changes(s, cause) \in {{}, {GuestComes(s)}, {HabitChanges(s)}}
  BY DEF Changes, Cause
<1>6. TypedConfig(c)
  <2>1. 1 \in 0..(DayLength - 1)
    BY DaysApart, 0 \in Nat
  <2>2. \A change \in c.changes : change.from \in Nat /\ change.until = NoDay
    BY <1>1, <1>4, <1>5 DEF GuestComes, HabitChanges, ChangeOf
  <2> QED
    BY <1>1, <1>2, <1>3, <1>4, <2>1, <2>2 DEF TypedConfig, TabletRoutine, Tablet
<1>7. ValidConfig(c)
  <2>1. \A change \in c.changes :
          change.until = NoDay /\ change.object = Tablet /\ change.from = s.change
            /\ (change.kind = "guest_contamination" => change.actor = "guest")
    BY <1>1, <1>5 DEF GuestComes, HabitChanges, ChangeOf
  <2>2. \A x, y \in c.changes : x = y
    BY <1>1, <1>5
  <2>3. c.routines # << >>
    BY <1>1
  <2>4. \A change \in c.changes : ValidChange(change) /\ change.from < c.duration
    BY <1>1, <1>4, <2>1, ScenarioAssumption DEF ValidChange
  <2>5. \A change \in c.changes : \E i \in DOMAIN c.routines : c.routines[i].object = change.object
    BY <1>2, <2>1 DEF TabletRoutine
  <2> QED
    BY <1>1, <1>2, <1>4, <2>2, <2>3, <2>4, <2>5 DEF ValidConfig
<1> QED
  BY <1>1, <1>2, <1>6, <1>7 DEF Proper, c

(* What no change or one change is in order.                               *)
LEMMA FewInOrder ==
  ASSUME NEW x, NEW rank, rank[x][1] \in Int, rank[x][2] \in Int
  PROVE  /\ InOrder({}, rank) = << >>
         /\ InOrder({x}, rank) # << >> /\ DOMAIN InOrder({x}, rank) = {1}
         /\ InOrder({x}, rank)[1] = x /\ Last(InOrder({x}, rank)) = x
<1>1. InOrder({}, rank) = << >>
  <2>1. Cardinality({}) = 0
    BY FS_EmptySet
  <2> QED
    BY <2>1 DEF InOrder
<1>2. Cardinality({x}) = 1
  BY FS_Singleton
<1> DEFINE S == {x}
           t == InOrder(S, rank)
           Is(e, k) == Cardinality({y \in S : Precedes(rank[y], rank[e])}) = k - 1
<1>3. Is(x, 1)
  <2>1. {y \in S : Precedes(rank[y], rank[x])} = {}
    BY DEF Precedes
  <2> QED
    BY <2>1, FS_EmptySet
<1>4. t = [i \in 1..Cardinality(S) |-> CHOOSE e \in S : Is(e, i)]
  BY DEF InOrder
<1>5. S = {x} /\ x \in S
  OBVIOUS
<1> HIDE DEF Is, S, t
<1>6. DOMAIN t = 1..1 /\ t = [i \in 1..1 |-> t[i]] /\ t[1] = x
  <2> DEFINE F(i) == CHOOSE e \in S : Is(e, i)
  <2>1. t = [i \in 1..1 |-> F(i)]
    BY <1>2, <1>4, <1>5
  <2>2. F(1) = x
    BY <1>3, <1>5
  <2> HIDE DEF F
  <2> QED
    BY <2>1, <2>2
<1> HIDE DEF t
<1>7. IsList(t) /\ Len(t) = 1
  BY <1>6, FunctionIsList
<1>8. t # << >>
  BY <1>6
<1> QED
  BY <1>1, <1>6, <1>7, <1>8 DEF t, S, Last

(* What the state of a day is.                                             *)
LEMMA StateOn ==
  ASSUME NEW s, Posed(s), NEW cause \in Cause, NEW day \in Nat
  PROVE  LET state == StateForDay(ConfigFor(s, cause), << >>, day, TabletRoutine)
         IN  state.destination = PlaceOn(s, cause, day) /\ state.actor = ActorOn(s, cause, day)
<1> DEFINE c == ConfigFor(s, cause)
           mine == {x \in c.changes : x.object = Tablet /\ ChangeApplies(<< >>, day, x)}
           rank == [x \in mine |-> <<x.from, x.id>>]
           applied == Applied(c, << >>, day, Tablet)
           state == StateForDay(c, << >>, day, TabletRoutine)
           overrides == {i \in DOMAIN applied : applied[i].actor # NoActor}
<1> SUFFICES state.destination = PlaceOn(s, cause, day) /\ state.actor = ActorOn(s, cause, day)
  OBVIOUS
<1>1. applied = InOrder(mine, rank)
  BY DEF Applied
<1>2. /\ state.destination = IF applied = << >> THEN "desk" ELSE Last(applied).target
      /\ state.actor = IF overrides = {} THEN "owner" ELSE applied[Max(overrides)].actor
  BY DEF StateForDay, StateUnder, TabletRoutine
<1>3. c.changes = Changes(s, cause) /\ s.change \in Nat
  BY ConfigFacts DEF Posed
<1> HIDE DEF c
<1>4. ASSUME NEW x \in {GuestComes(s), HabitChanges(s)}
      PROVE  /\ x.object = Tablet /\ x.target = "sofa" /\ x.from = s.change /\ x.id = 1
             /\ ChangeApplies(<< >>, day, x) <=> day >= s.change
  BY <1>3 DEF GuestComes, HabitChanges, ChangeOf, ChangeApplies
<1>5. CASE cause = "observation_policy" \/ day < s.change
  <2>1. mine = {}
    BY <1>3, <1>4, <1>5 DEF Changes, Cause
  <2>2. applied = << >>
    <3>1. \A r : InOrder({}, r) = << >>
      <4>1. Cardinality({}) = 0
        BY FS_EmptySet
      <4> QED
        BY <4>1 DEF InOrder
    <3> HIDE DEF mine, rank, applied
    <3> QED
      BY <1>1, <2>1, <3>1
  <2>3. overrides = {}
    BY <2>2
  <2> HIDE DEF overrides, applied, state
  <2> QED
    BY <1>2, <1>3, <1>5, <2>2, <2>3 DEF PlaceOn, ActorOn
<1>6. CASE cause # "observation_policy" /\ day >= s.change
  <2> DEFINE x == IF cause = "actor_mixture" THEN GuestComes(s) ELSE HabitChanges(s)
  <2>1. Changes(s, cause) = {x} /\ x \in {GuestComes(s), HabitChanges(s)}
    BY <1>6 DEF Changes, Cause
  <2> HIDE DEF x
  <2>2. mine = {x}
    BY <1>3, <1>4, <1>6, <2>1
  <2>3. rank[x] = <<s.change, 1>>
    BY <1>4, <2>1, <2>2
  <2> HIDE DEF mine, rank, state, applied, overrides
  <2>4. applied # << >> /\ DOMAIN applied = {1} /\ applied[1] = x /\ Last(applied) = x
    <3>1. rank[x][1] \in Int /\ rank[x][2] \in Int
      BY <1>3, <2>3
    <3> QED
      BY <1>1, <2>2, <3>1, FewInOrder
  <2>5. state.destination = "sofa"
    BY <1>2, <1>4, <2>1, <2>4
  <2>6. overrides = IF x.actor # NoActor THEN {1} ELSE {}
    BY <2>4 DEF overrides
  <2>7. Max({1}) = 1
    BY DEF Max
  <2>8. state.actor = IF x.actor # NoActor THEN x.actor ELSE "owner"
    BY <1>2, <2>4, <2>6, <2>7
  <2>9. x.actor = IF cause = "actor_mixture" THEN "guest" ELSE NoActor
    BY DEF x, GuestComes, HabitChanges, ChangeOf
  <2> QED
    BY <1>6, <2>5, <2>8, <2>9, ScenarioAssumption DEF PlaceOn, ActorOn
<1>7. day < s.change \/ day >= s.change
  BY <1>3
<1> QED
  BY <1>5, <1>6, <1>7

(* Whoever put the tablet last before it is looked at put it there that    *)
(* day.                                                                    *)
LEMMA TabletAt ==
  ASSUME NEW s, Posed(s), NEW cause \in Cause, NEW k \in 1..s.duration
  PROVE  LET told == PlanWith(s, Changes(s, cause))
             time == (k - 1) * DayLength + 2
         IN  /\ LocationAt(told, Tablet, time) = PlaceOn(s, cause, k - 1)
             /\ Latest(MovesUntil(told, Tablet, time)).actor = ActorOn(s, cause, k - 1)
<1> DEFINE c == ConfigFor(s, cause)
           told == PlanWith(s, Changes(s, cause))
           time == (k - 1) * DayLength + 2
           moves == MovesUntil(told, Tablet, time)
           last == PlacedOn(c, << >>, k - 1, TabletRoutine)
<1> SUFFICES /\ LocationAt(told, Tablet, time) = PlaceOn(s, cause, k - 1)
             /\ Latest(moves).actor = ActorOn(s, cause, k - 1)
  OBVIOUS
<1>1. /\ Proper(c) /\ c.start = 0 /\ c.duration = s.duration /\ ToSet(c.routines) = {TabletRoutine}
  BY ConfigFacts
<1>2. s.duration \in Nat /\ k - 1 \in Nat /\ k - 1 \in Days(c)
  BY <1>1 DEF Posed, Days
<1>3. told = Generated(c, << >>)
  BY DEF PlanWith, ConfigFor
<1>4. ToSet(told.events) = EventsOf(c, << >>)
  BY <1>1, <1>3, PlanFacts
<1>5. /\ last.destination = PlaceOn(s, cause, k - 1) /\ last.actor = ActorOn(s, cause, k - 1)
  BY <1>2, StateOn DEF PlacedOn
<1> HIDE DEF c
<1>6. ASSUME NEW day \in Days(c)
      PROVE  LET e == PlacedOn(c, << >>, day, TabletRoutine)
             IN  /\ e \in EventsOf(c, << >>) /\ e.object = Tablet
                 /\ e.time = day * DayLength + 1 /\ day \in Nat
  <2>1. TabletRoutine \in ToSet(c.routines) /\ TabletRoutine.slot = 1 /\ TabletRoutine.object = Tablet
    BY <1>1 DEF TabletRoutine
  <2> DEFINE e == PlacedOn(c, << >>, day, TabletRoutine)
  <2>2. /\ e \in EventsOf(c, << >>) /\ e.time = c.start + day * DayLength + TabletRoutine.slot
        /\ e.object = TabletRoutine.object /\ day \in Nat
    <3> DEFINE r == TabletRoutine
    <3> HIDE DEF r
    <3>1. r \in ToSet(c.routines)
      BY <2>1 DEF r
    <3>2. Proper(c)
      BY <1>1
    <3>3. ASSUME NEW d
          PROVE  /\ PlacedOn(c, d, day, r) \in EventsOf(c, d)
                 /\ PlacedOn(c, d, day, r).time = c.start + day * DayLength + r.slot
                 /\ PlacedOn(c, d, day, r).object = r.object /\ day \in Nat
      BY <3>1, <3>2, EventFacts
    <3> QED
      BY <3>3 DEF r
  <2>3. day * DayLength \in Nat
    BY <2>2, DaysApart
  <2> HIDE DEF e
  <2>4. e.time = day * DayLength + 1
    <3>1. \A x \in Nat : 0 + x + 1 = x + 1
      OBVIOUS
    <3> QED
      BY <1>1, <2>1, <2>2, <2>3, <3>1
  <2> QED
    BY <2>1, <2>2, <2>4 DEF e
<1>7. \A e \in EventsOf(c, << >>) : \E day \in Days(c) : e = PlacedOn(c, << >>, day, TabletRoutine)
  BY <1>1 DEF EventsOf, Days
<1>8. moves = {e \in EventsOf(c, << >>) : e.object = Tablet /\ e.time <= time}
  BY <1>4 DEF MovesUntil
<1>9. last \in moves
  <2>1. (k - 1) * DayLength \in Nat
    BY <1>2, DaysApart
  <2>2. last \in EventsOf(c, << >>) /\ last.object = Tablet /\ last.time = (k - 1) * DayLength + 1
    BY <1>2, <1>6
  <2> HIDE DEF last
  <2> QED
    BY <1>8, <2>1, <2>2
<1>10. ASSUME NEW e \in moves PROVE e.time \in Int /\ e.time <= last.time /\ last.time \in Int
  <2>1. PICK day \in Days(c) : e = PlacedOn(c, << >>, day, TabletRoutine)
    BY <1>7, <1>8
  <2>2. e.time = day * DayLength + 1 /\ day \in Nat
    BY <1>6, <2>1
  <2>3. day * DayLength + 1 <= (k - 1) * DayLength + 2
    BY <1>8, <2>2
  <2>4. day <= k - 1 /\ day * DayLength \in Nat /\ (k - 1) * DayLength \in Nat
    BY <1>2, <2>2, <2>3, DaysApart
  <2>5. day * DayLength <= (k - 1) * DayLength
    <3>1. day < k - 1 \/ day = k - 1
      BY <1>2, <2>2, <2>4
    <3>2. day < k - 1 => day * DayLength + DayLength <= (k - 1) * DayLength
      BY <1>2, <2>2, DaysApart
    <3> DEFINE p == day * DayLength
               q == (k - 1) * DayLength
    <3>3. p \in Nat /\ q \in Nat /\ DayLength \in Nat /\ (day < k - 1 => p + DayLength <= q)
          /\ (day = k - 1 => p = q)
      BY <2>4, <3>2, DayAssumption
    <3> HIDE DEF p, q
    <3>4. p <= q
      BY <3>1, <3>3
    <3> QED
      BY <3>4 DEF p, q
  <2>6. last.time = (k - 1) * DayLength + 1
    BY <1>2, <1>6
  <2> QED
    BY <2>2, <2>4, <2>5, <2>6
<1>11. \A e \in moves : e.time = last.time => e = last
  <2>1. last \in EventsOf(c, << >>) /\ last.object = Tablet
    BY <1>8, <1>9
  <2> HIDE DEF last, moves
  <2> QED
    BY <1>1, <1>8, <2>1, OneEventAtATime
<1>12. Latest(moves) = last
  <2> DEFINE Is(e) == \A other \in moves : other.time <= e.time
  <2>1. Is(last)
    BY <1>10
  <2>2. \A e \in moves : Is(e) => e = last
    BY <1>9, <1>10, <1>11
  <2>3. Latest(moves) = CHOOSE e \in moves : Is(e)
    BY DEF Latest
  <2> HIDE DEF Is, moves, last
  <2> QED
    BY <1>9, <2>1, <2>2, <2>3
<1>13. LocationAt(told, Tablet, time) = Latest(moves).destination
  BY <1>9 DEF LocationAt
<1> QED
  BY <1>5, <1>12, <1>13

(* What is told of the k-th day of a run that draws from the stream id,    *)
(* looks with probability sel, and where the tablet is.                    *)
LookTime(k) == (k - 1) * DayLength + 2

Looked(id, sel, k) == draws[id][2 * k - 1] < sel

View(s, id, sel, k) ==
  [id |-> <<id, k>>, time |-> LookTime(k), selected |-> Looked(id, sel, k), selection |-> sel,
   detect |-> s.detect, visible |-> Part * Part]

Met(s, id, sel, k) ==
  Outcome(Looking(s, sel), Looked(id, sel, k), Part * Part * s.detect, TRUE, draws[id][2 * k])

Finding(s, id, sel, place, k) ==
  [opportunity |-> <<id, k>>, outcome |-> Met(s, id, sel, k), recorded |-> LookTime(k),
   location |-> IF Met(s, id, sel, k) = "detected" THEN place ELSE NoLocation,
   strength |-> IF Met(s, id, sel, k) = "verified_absence" THEN Part * Part * s.detect ELSE 0]

Tells(seen, s, id, sel, place) ==
  /\ seen = [opportunities |-> seen.opportunities, results |-> seen.results]
  /\ IsList(seen.opportunities) /\ Len(seen.opportunities) = s.duration
  /\ IsList(seen.results) /\ Len(seen.results) = s.duration
  /\ \A k \in 1..s.duration :
       /\ seen.opportunities[k] = View(s, id, sel[k], k)
       /\ seen.results[k] = Finding(s, id, sel[k], place[k], k)

(* All runs of a kind draw from one stream.                                *)
StreamOf(s, kind) ==
  IF kind = "paired"
  THEN <<"paired", 0, s.duration * DayLength, 1, ScheduleSignature(Looking(s, s.control))>>
  ELSE <<"ordinary", 0, s.duration * DayLength, 0, Looking(s, s.control)>>

LaneSelection(s, kind, lane) == IF kind = "paired" /\ lane = 2 THEN s.shifted ELSE s.control

(* The stream does not tell one change from another, nor a lane from the   *)
(* other.                                                                  *)
LEMMA StreamFacts ==
  ASSUME NEW s, Posed(s), NEW cause \in Cause, NEW kind \in Kind, NEW lane \in Lane
  PROVE  StreamId(CallOf(s, kind, PlanWith(s, Changes(s, cause))), lane) = StreamOf(s, kind)
<1> DEFINE told == PlanWith(s, Changes(s, cause))
           c == CallOf(s, kind, told)
           policy == c.policies[lane]
<1>1. told.start = 0 /\ told.until = s.duration * DayLength /\ told.seed = 0
  <2>1. s.duration * DayLength \in Nat
    BY DaysApart DEF Posed
  <2>2. /\ told.start = 0 /\ told.until = 0 + s.duration * DayLength /\ told.seed = 0
    BY ConfigFacts DEF PlanWith, Generated, ConfigFor
  <2> QED
    BY <2>1, <2>2
<1> HIDE DEF told
<1>2. c.kind = kind /\ c.noise = 1 /\ c.plans[lane] = told
      /\ policy = Looking(s, LaneSelection(s, kind, lane))
  BY DEF CallOf, Lane, LaneSelection
<1>3. ScheduleSignature(Looking(s, LaneSelection(s, kind, lane))) = ScheduleSignature(Looking(s, s.control))
  BY DEF ScheduleSignature, Looking
<1> HIDE DEF c, policy
<1>4. CASE kind = "paired"
  <2>1. StreamId(c, lane) = <<"paired", 0, s.duration * DayLength, 1, ScheduleSignature(policy)>>
    BY <1>1, <1>2, <1>4 DEF StreamId, policy
  <2> QED
    BY <1>2, <1>3, <1>4, <2>1 DEF StreamOf, c, told
<1>5. CASE kind # "paired"
  <2>1. StreamId(c, lane) = <<"ordinary", 0, s.duration * DayLength, 0, policy>>
    BY <1>1, <1>2, <1>5 DEF StreamId, policy
  <2> QED
    BY <1>2, <1>5, <2>1 DEF StreamOf, LaneSelection, c, told
<1> QED
  BY <1>4, <1>5

(* What a run of a scenario tells.                                         *)
LEMMA SimulatedTells ==
  ASSUME NEW s, Posed(s), NEW cause \in Cause, NEW kind \in Kind, NEW lane \in Lane
  PROVE  Tells(Simulated(CallOf(s, kind, PlanWith(s, Changes(s, cause))), lane), s, StreamOf(s, kind),
               [k \in 1..s.duration |-> LaneSelection(s, kind, lane)],
               [k \in 1..s.duration |-> PlaceOn(s, cause, k - 1)])
<1> DEFINE told == PlanWith(s, Changes(s, cause))
           c == CallOf(s, kind, told)
           policy == c.policies[lane]
           sel == LaneSelection(s, kind, lane)
           id == StreamOf(s, kind)
           n == s.duration
           seen(k) == Opportunity(c, lane, k, draws[id][2 * k - 1] < policy.selection)
           views == [k \in DOMAIN policy.samples |-> seen(k)]
           simulated == Simulated(c, lane)
<1>1. c.plans[lane] = told /\ policy = Looking(s, sel)
  BY DEF CallOf, Lane, LaneSelection
<1>2. StreamId(c, lane) = id
  BY StreamFacts
<1>3. /\ n \in Nat
      /\ policy.object = Tablet /\ policy.selection = sel /\ policy.coverage = Part /\ policy.visible = Part
      /\ policy.detect = s.detect /\ policy.strength = 1 /\ policy.located = {"desk", "sofa"}
      /\ policy.samples = [day \in 1..n |-> [time |-> (day - 1) * DayLength + 2, sees |-> {"desk", "sofa"}]]
  BY <1>1 DEF Looking, Posed
<1>4. DOMAIN policy.samples = 1..n
  BY <1>3
<1>5. ASSUME NEW k \in 1..n
      PROVE  policy.samples[k].time = LookTime(k) /\ policy.samples[k].sees = {"desk", "sofa"}
  BY <1>3 DEF LookTime
<1>6. simulated = [opportunities |-> views,
                   results |-> [k \in DOMAIN policy.samples |->
                                  Result(c, lane, views[k], policy.samples[k], draws[id][2 * k])]]
  BY <1>2 DEF Simulated
<1> HIDE DEF told, c, policy, sel, id, n
<1>7. ASSUME NEW k \in 1..n PROVE views[k] = View(s, id, sel, k)
  <2>1. views[k] = seen(k)
    BY <1>4
  <2>2. seen(k) = View(s, id, sel, k)
    BY <1>2, <1>3, <1>5 DEF Opportunity, PotentialVisibility, View, Looked, policy
  <2> QED
    BY <2>1, <2>2
<1>8. ASSUME NEW k \in 1..n
      PROVE  Result(c, lane, View(s, id, sel, k), policy.samples[k], draws[id][2 * k])
               = Finding(s, id, sel, PlaceOn(s, cause, k - 1), k)
  <2> DEFINE place == PlaceOn(s, cause, k - 1)
  <2>1. LocationAt(c.plans[lane], policy.object, policy.samples[k].time) = place
    <3>1. LocationAt(told, Tablet, LookTime(k)) = place
      BY TabletAt DEF told, n, LookTime
    <3> QED
      BY <1>1, <1>3, <1>5, <3>1
  <2>2. place \in {"desk", "sofa"}
    BY DEF PlaceOn
  <2> HIDE DEF place
  <2>3. InFrustum(policy, policy.samples[k], place) /\ policy.coverage > 0
    BY <1>3, <1>5, <2>2, PartAssumption DEF InFrustum
  <2>4. Outcome(policy, Looked(id, sel, k), Part * Part * s.detect, TRUE, draws[id][2 * k]) = Met(s, id, sel, k)
    BY <1>1 DEF Met
  <2> DEFINE o == View(s, id, sel, k)
  <2>5. o.id = <<id, k>> /\ o.selected = Looked(id, sel, k) /\ o.visible * o.detect = Part * Part * s.detect
    BY DEF View
  <2> HIDE DEF o
  <2>6. Result(c, lane, o, policy.samples[k], draws[id][2 * k])
          = [opportunity |-> <<id, k>>, outcome |-> Met(s, id, sel, k), recorded |-> LookTime(k),
             location |-> IF Met(s, id, sel, k) = "detected" THEN place ELSE NoLocation,
             strength |-> IF Met(s, id, sel, k) = "verified_absence" THEN Part * Part * s.detect ELSE 0]
    <3> DEFINE present == InFrustum(policy, policy.samples[k], place) /\ policy.coverage > 0
               outcome == Outcome(policy, o.selected, o.visible * o.detect, present, draws[id][2 * k])
    <3>1. Result(c, lane, o, policy.samples[k], draws[id][2 * k])
            = [opportunity |-> o.id, outcome |-> outcome, recorded |-> policy.samples[k].time,
               location |-> IF outcome = "detected" THEN place ELSE NoLocation,
               strength |-> IF outcome = "verified_absence" THEN o.visible * o.detect ELSE 0]
      BY <2>1 DEF Result, policy
    <3>2. present = TRUE
      BY <2>3
    <3>3. outcome = Met(s, id, sel, k)
      BY <2>4, <2>5, <3>2
    <3> HIDE DEF outcome, present
    <3> QED
      BY <1>5, <2>5, <3>1, <3>3
  <2> QED
    BY <2>6 DEF o, place, Finding
<1> DEFINE found == [k \in DOMAIN policy.samples |->
                       Result(c, lane, views[k], policy.samples[k], draws[id][2 * k])]
<1>9. \A k \in 1..n : found[k] = Finding(s, id, sel, PlaceOn(s, cause, k - 1), k)
  <2> SUFFICES ASSUME NEW k \in 1..n PROVE found[k] = Finding(s, id, sel, PlaceOn(s, cause, k - 1), k)
    OBVIOUS
  <2>1. found[k] = Result(c, lane, views[k], policy.samples[k], draws[id][2 * k])
    BY <1>4
  <2> QED
    BY <1>7, <1>8, <2>1
<1>10. /\ IsList(views) /\ Len(views) = n /\ IsList(found) /\ Len(found) = n
  <2>1. DOMAIN views = 1..n /\ views = [k \in 1..n |-> views[k]]
    BY <1>4
  <2>2. DOMAIN found = 1..n /\ found = [k \in 1..n |-> found[k]]
    BY <1>4
  <2> HIDE DEF views, found
  <2> QED
    BY <1>3, <2>1, <2>2, FunctionIsList
<1>11. simulated.opportunities = views /\ simulated.results = found
       /\ simulated = [opportunities |-> views, results |-> found]
  BY <1>6
<1> HIDE DEF views, found, simulated
<1>12. /\ \A k \in 1..n : [j \in 1..n |-> sel][k] = sel
       /\ \A k \in 1..n : [j \in 1..n |-> PlaceOn(s, cause, j - 1)][k] = PlaceOn(s, cause, k - 1)
  OBVIOUS
<1>13. Tells(simulated, s, id, [k \in 1..n |-> sel], [k \in 1..n |-> PlaceOn(s, cause, k - 1)])
  BY <1>7, <1>9, <1>10, <1>11, <1>12 DEF Tells, n
<1> QED
  BY <1>13 DEF simulated, c, told, id, sel, n

(* The days up to the change, and those since.                             *)
LEMMA DaysBefore ==
  ASSUME NEW s, Posed(s), NEW k \in 1..s.duration
  PROVE  /\ LookTime(k) \in Nat /\ ChangeTime(s) \in Nat
         /\ LookTime(k) < ChangeTime(s) <=> k <= s.change
         /\ LookTime(k) >= ChangeTime(s) <=> k > s.change
<1>1. s.change \in Nat /\ s.duration \in Nat /\ k - 1 \in Nat /\ k \in Nat
  BY DEF Posed
<1>2. /\ (k - 1) * DayLength \in Nat /\ s.change * DayLength \in Nat
      /\ (k - 1) * DayLength + 2 < s.change * DayLength <=> k - 1 < s.change
  BY <1>1, DaysApart
<1> DEFINE p == (k - 1) * DayLength
           q == s.change * DayLength
<1>3. LookTime(k) = p + 2 /\ ChangeTime(s) = q
  BY DEF LookTime, ChangeTime
<1>4. p \in Nat /\ q \in Nat /\ (p + 2 < q <=> k - 1 < s.change)
  BY <1>2
<1> HIDE DEF p, q
<1> QED
  BY <1>1, <1>3, <1>4

(* What a run told before the change is what it told on the first days,    *)
(* and what it told since then is the rest.                                *)
LEMMA BeforeAndSince ==
  ASSUME NEW s, Posed(s), NEW id, NEW sel, NEW place, NEW seen, Tells(seen, s, id, sel, place)
  PROVE  LET first == Before(seen, ChangeTime(s))
             rest == Since(seen, ChangeTime(s))
         IN  /\ IsList(first.opportunities) /\ Len(first.opportunities) = s.change
             /\ IsList(first.results) /\ Len(first.results) = s.change
             /\ \A k \in 1..s.change : /\ first.opportunities[k] = seen.opportunities[k]
                                       /\ first.results[k] = seen.results[k]
             /\ IsList(rest.opportunities) /\ Len(rest.opportunities) = s.duration - s.change
             /\ IsList(rest.results) /\ Len(rest.results) = s.duration - s.change
             /\ \A k \in 1..(s.duration - s.change) :
                  /\ rest.opportunities[k] = seen.opportunities[s.change + k]
                  /\ rest.results[k] = seen.results[s.change + k]
<1> DEFINE m == s.change
           n == s.duration
           t == ChangeTime(s)
           O == seen.opportunities
           R == seen.results
           first == Before(seen, t)
           rest == Since(seen, t)
<1>1. m \in Nat /\ n \in Nat /\ 0 < m /\ m < n /\ m + 1 \in Nat
  BY DEF Posed, ValidScenario
<1>2. DOMAIN O = 1..n /\ DOMAIN R = 1..n
  BY ListFacts DEF Tells
<1>3. \A k \in 1..n : O[k].time = LookTime(k) /\ R[k].recorded = LookTime(k)
  <2> SUFFICES ASSUME NEW k \in 1..n PROVE O[k].time = LookTime(k) /\ R[k].recorded = LookTime(k)
    OBVIOUS
  <2>1. O[k] = View(s, id, sel[k], k) /\ R[k] = Finding(s, id, sel[k], place[k], k)
    BY DEF Tells
  <2>2. View(s, id, sel[k], k).time = LookTime(k)
    BY DEF View
  <2>3. Finding(s, id, sel[k], place[k], k).recorded = LookTime(k)
    BY DEF Finding
  <2> QED
    BY <2>1, <2>2, <2>3
<1>4. \A k \in 1..n : (LookTime(k) < t <=> k <= m) /\ (LookTime(k) >= t <=> k > m)
  BY DaysBefore
<1>5. /\ first = [opportunities |-> Those(O, {k \in DOMAIN O : O[k].time < t}),
                  results |-> Those(R, {k \in DOMAIN R : R[k].recorded < t})]
      /\ rest = [opportunities |-> Those(O, {k \in DOMAIN O : O[k].time >= t}),
                 results |-> Those(R, {k \in DOMAIN R : R[k].recorded >= t})]
  BY DEF Before, Since
<1> HIDE DEF m, n, t, O, R, first, rest
<1>6. /\ {k \in DOMAIN O : O[k].time < t} = 1..m /\ {k \in DOMAIN R : R[k].recorded < t} = 1..m
  BY <1>1, <1>2, <1>3, <1>4
<1>7. /\ {k \in DOMAIN O : O[k].time >= t} = (m + 1)..n /\ {k \in DOMAIN R : R[k].recorded >= t} = (m + 1)..n
  <2>1. \A k \in 1..n : k > m <=> k \in (m + 1)..n
    BY <1>1
  <2>2. (m + 1)..n \subseteq 1..n
    BY <1>1
  <2> QED
    BY <1>2, <1>3, <1>4, <2>1, <2>2
<1>8. /\ first.opportunities = Those(O, 1..m) /\ first.results = Those(R, 1..m)
      /\ rest.opportunities = Those(O, (m + 1)..n) /\ rest.results = Those(R, (m + 1)..n)
  BY <1>5, <1>6, <1>7
<1>9. ASSUME NEW list
       PROVE  /\ IsList(Those(list, 1..m)) /\ Len(Those(list, 1..m)) = m
              /\ \A k \in 1..m : Those(list, 1..m)[k] = list[k]
              /\ IsList(Those(list, (m + 1)..n)) /\ Len(Those(list, (m + 1)..n)) = n - m
              /\ \A k \in 1..(n - m) : Those(list, (m + 1)..n)[k] = list[m + k]
  <2>1. /\ IsList(Those(list, 1..m)) /\ Len(Those(list, 1..m)) = m
        /\ \A k \in 1..m : Those(list, 1..m)[k] = list[k]
    BY <1>1, FirstPlaces
  <2>2. /\ IsList(Those(list, (m + 1)..n)) /\ Len(Those(list, (m + 1)..n)) = n - m
        /\ \A k \in 1..(n - m) : Those(list, (m + 1)..n)[k] = list[m + k]
    <3>1. m \in Nat /\ n \in Nat /\ m < n
      BY <1>1
    <3> QED
      BY <3>1, LastPlaces
  <2> QED
    BY <2>1, <2>2
<1> QED
  BY <1>8, <1>9 DEF m, n, O, R, first, rest, t

(* One way until the change and another one since.                         *)
Changed(s, early, late) == [k \in 1..s.duration |-> IF k <= s.change THEN early[k] ELSE late[k]]

(* What is spliced tells of the first run and then of the second one.      *)
LEMMA SplicedTells ==
  ASSUME NEW s, Posed(s), NEW id, NEW sel, NEW place, NEW sel2, NEW place2, NEW before, NEW after,
         Tells(before, s, id, sel, place), Tells(after, s, id, sel2, place2)
  PROVE  Tells(Spliced(before, after, ChangeTime(s)), s, id, Changed(s, sel, sel2),
               Changed(s, place, place2))
<1> DEFINE m == s.change
           n == s.duration
           first == Before(before, ChangeTime(s))
           rest == Since(after, ChangeTime(s))
           seen == Spliced(before, after, ChangeTime(s))
<1>1. m \in Nat /\ n \in Nat /\ m < n
  BY DEF Posed, ValidScenario
<1>2. seen = [opportunities |-> first.opportunities \o rest.opportunities,
              results |-> first.results \o rest.results]
  BY DEF Spliced
<1>3. /\ IsList(first.opportunities) /\ Len(first.opportunities) = m
      /\ IsList(first.results) /\ Len(first.results) = m
      /\ \A k \in 1..m : /\ first.opportunities[k] = before.opportunities[k]
                         /\ first.results[k] = before.results[k]
  BY BeforeAndSince
<1>4. /\ IsList(rest.opportunities) /\ Len(rest.opportunities) = n - m
      /\ IsList(rest.results) /\ Len(rest.results) = n - m
      /\ \A k \in 1..(n - m) : /\ rest.opportunities[k] = after.opportunities[m + k]
                               /\ rest.results[k] = after.results[m + k]
  BY BeforeAndSince
<1>5. /\ \A k \in 1..n : /\ before.opportunities[k] = View(s, id, sel[k], k)
                         /\ before.results[k] = Finding(s, id, sel[k], place[k], k)
      /\ \A k \in 1..n : /\ after.opportunities[k] = View(s, id, sel2[k], k)
                         /\ after.results[k] = Finding(s, id, sel2[k], place2[k], k)
  BY DEF Tells
<1> HIDE DEF m, n, first, rest, seen
<1>6. /\ seen = [opportunities |-> seen.opportunities, results |-> seen.results]
      /\ seen.opportunities = first.opportunities \o rest.opportunities
      /\ seen.results = first.results \o rest.results
  BY <1>2
<1>7. m + (n - m) = n
  BY <1>1
<1>8. /\ IsList(seen.opportunities) /\ Len(seen.opportunities) = n
      /\ \A k \in 1..m : seen.opportunities[k] = first.opportunities[k]
      /\ \A k \in 1..(n - m) : seen.opportunities[m + k] = rest.opportunities[k]
  <2> DEFINE a == first.opportunities
             b == rest.opportunities
  <2>1. IsList(a) /\ IsList(b) /\ Len(a) = m /\ Len(b) = n - m /\ seen.opportunities = a \o b
    BY <1>3, <1>4, <1>6
  <2> HIDE DEF a, b
  <2>2. /\ IsList(a \o b) /\ Len(a \o b) = Len(a) + Len(b)
        /\ \A i \in 1..Len(a) : (a \o b)[i] = a[i]
        /\ \A i \in 1..Len(b) : (a \o b)[Len(a) + i] = b[i]
    <3>1. IsList(a) /\ IsList(b)
      BY <2>1
    <3> QED
      BY <3>1, ConcatFacts
  <2>3. /\ IsList(seen.opportunities) /\ Len(seen.opportunities) = n
        /\ \A k \in 1..m : seen.opportunities[k] = a[k]
        /\ \A k \in 1..(n - m) : seen.opportunities[m + k] = b[k]
    BY <1>7, <2>1, <2>2
  <2> QED
    BY <2>3 DEF a, b
<1>9. /\ IsList(seen.results) /\ Len(seen.results) = n
      /\ \A k \in 1..m : seen.results[k] = first.results[k]
      /\ \A k \in 1..(n - m) : seen.results[m + k] = rest.results[k]
  <2> DEFINE a == first.results
             b == rest.results
  <2>1. IsList(a) /\ IsList(b) /\ Len(a) = m /\ Len(b) = n - m /\ seen.results = a \o b
    BY <1>3, <1>4, <1>6
  <2> HIDE DEF a, b
  <2>2. /\ IsList(a \o b) /\ Len(a \o b) = Len(a) + Len(b)
        /\ \A i \in 1..Len(a) : (a \o b)[i] = a[i]
        /\ \A i \in 1..Len(b) : (a \o b)[Len(a) + i] = b[i]
    <3>1. IsList(a) /\ IsList(b)
      BY <2>1
    <3> QED
      BY <3>1, ConcatFacts
  <2>3. /\ IsList(seen.results) /\ Len(seen.results) = n
        /\ \A k \in 1..m : seen.results[k] = a[k]
        /\ \A k \in 1..(n - m) : seen.results[m + k] = b[k]
    BY <1>7, <2>1, <2>2
  <2> QED
    BY <2>3 DEF a, b
<1>10. ASSUME NEW k \in 1..n
       PROVE  /\ seen.opportunities[k] = View(s, id, Changed(s, sel, sel2)[k], k)
              /\ seen.results[k] = Finding(s, id, Changed(s, sel, sel2)[k], Changed(s, place, place2)[k], k)
  <2>1. /\ Changed(s, sel, sel2)[k] = IF k <= m THEN sel[k] ELSE sel2[k]
        /\ Changed(s, place, place2)[k] = IF k <= m THEN place[k] ELSE place2[k]
    BY DEF Changed, m, n
  <2>2. CASE k <= m
    <3>1. k \in 1..m
      BY <2>2
    <3> QED
      BY <1>3, <1>5, <1>8, <1>9, <2>1, <2>2, <3>1
  <2>3. CASE k > m
    <3> DEFINE j == k - m
    <3>1. j \in 1..(n - m) /\ m + j = k /\ ~ k <= m
      BY <1>1, <2>3
    <3> HIDE DEF j
    <3> QED
      BY <1>4, <1>5, <1>8, <1>9, <2>1, <3>1
  <2> QED
    BY <1>1, <2>2, <2>3
<1> QED
  BY <1>6, <1>8, <1>9, <1>10 DEF Tells, seen, n

(* What was detected since the change.                                     *)
Hits(s, seen) ==
  {r \in ToSet(seen.results) : r.outcome = "detected" /\ r.recorded >= ChangeTime(s)}

(* A detection since the change is what is found on a day after it.        *)
LEMMA HitsAre ==
  ASSUME NEW s, Posed(s), NEW id, NEW sel, NEW place, NEW seen, Tells(seen, s, id, sel, place)
  PROVE  \A r : r \in Hits(s, seen) <=>
           \E k \in (s.change + 1)..s.duration :
             Met(s, id, sel[k], k) = "detected" /\ r = Finding(s, id, sel[k], place[k], k)
<1> DEFINE n == s.duration
           m == s.change
<1>1. n \in Nat /\ m \in Nat
  BY DEF Posed
<1>2. ToSet(seen.results) = {seen.results[k] : k \in 1..n}
  BY ListFacts DEF Tells, ToSet
<1>3. \A k \in 1..n : /\ seen.results[k] = Finding(s, id, sel[k], place[k], k)
                      /\ seen.results[k].outcome = Met(s, id, sel[k], k)
                      /\ seen.results[k].recorded = LookTime(k)
  BY DEF Tells, Finding
<1>4. \A k \in 1..n : LookTime(k) >= ChangeTime(s) <=> k \in (m + 1)..n
  <2> SUFFICES ASSUME NEW k \in 1..n PROVE LookTime(k) >= ChangeTime(s) <=> k \in (m + 1)..n
    OBVIOUS
  <2>1. LookTime(k) >= ChangeTime(s) <=> k > m
    BY DaysBefore
  <2> QED
    BY <1>1, <2>1
<1>5. (m + 1)..n \subseteq 1..n
  BY <1>1
<1> HIDE DEF n, m
<1> SUFFICES ASSUME NEW r
             PROVE  r \in Hits(s, seen) <=>
                      \E k \in (m + 1)..n :
                        Met(s, id, sel[k], k) = "detected" /\ r = Finding(s, id, sel[k], place[k], k)
  BY DEF m, n
<1>6. r \in Hits(s, seen) =>
        \E k \in (m + 1)..n : Met(s, id, sel[k], k) = "detected" /\ r = Finding(s, id, sel[k], place[k], k)
  BY <1>2, <1>3, <1>4 DEF Hits
<1>7. ASSUME NEW k \in (m + 1)..n, Met(s, id, sel[k], k) = "detected", r = Finding(s, id, sel[k], place[k], k)
      PROVE  r \in Hits(s, seen)
  <2>1. k \in 1..n
    BY <1>5
  <2> QED
    BY <1>2, <1>3, <1>4, <1>7, <2>1 DEF Hits
<1> QED
  BY <1>6, <1>7

(* All evidence about the second of two runs is about what is spliced.     *)
LEMMA CitedIsAll ==
  ASSUME NEW s, Posed(s), NEW id, NEW sel, NEW place, NEW sel2, NEW place2, NEW before, NEW after,
         Tells(before, s, id, sel, place), Tells(after, s, id, sel2, place2), NEW actor, NEW track
  PROVE  LET seen == Spliced(before, after, ChangeTime(s))
         IN  Cited(ActorEvidence(after, actor, track, ChangeTime(s)), seen)
               = ActorEvidence(seen, actor, track, ChangeTime(s))
<1> DEFINE seen == Spliced(before, after, ChangeTime(s))
           sel3 == Changed(s, sel, sel2)
           place3 == Changed(s, place, place2)
<1>1. Tells(seen, s, id, sel3, place3)
  BY SplicedTells
<1>2. \A k \in (s.change + 1)..s.duration : sel3[k] = sel2[k] /\ place3[k] = place2[k]
  BY DEF Changed, Posed
<1> HIDE DEF seen, sel3, place3
<1>3. Hits(s, seen) = Hits(s, after)
  <2>1. \A r : r \in Hits(s, after) <=>
          \E k \in (s.change + 1)..s.duration :
            Met(s, id, sel2[k], k) = "detected" /\ r = Finding(s, id, sel2[k], place2[k], k)
    BY HitsAre
  <2>2. \A r : r \in Hits(s, seen) <=>
          \E k \in (s.change + 1)..s.duration :
            Met(s, id, sel3[k], k) = "detected" /\ r = Finding(s, id, sel3[k], place3[k], k)
    BY <1>1, HitsAre
  <2>3. \A r : r \in Hits(s, seen) <=> r \in Hits(s, after)
    BY <1>2, <2>1, <2>2
  <2> QED
    BY <2>3
<1>4. \A any : ActorEvidence(any, actor, track, ChangeTime(s)) =
        IF track = "none" THEN {}
        ELSE {[detection |-> r, named |-> actor, track |-> track] : r \in Hits(s, any)}
  BY DEF ActorEvidence, Hits
<1>5. Hits(s, seen) \subseteq ToSet(seen.results)
  BY DEF Hits
<1>6. Cited(ActorEvidence(after, actor, track, ChangeTime(s)), seen)
        = ActorEvidence(seen, actor, track, ChangeTime(s))
  <2>1. ActorEvidence(after, actor, track, ChangeTime(s)) = ActorEvidence(seen, actor, track, ChangeTime(s))
    BY <1>3, <1>4
  <2>2. \A e \in ActorEvidence(seen, actor, track, ChangeTime(s)) : e.detection \in ToSet(seen.results)
    BY <1>4, <1>5
  <2> QED
    BY <2>1, <2>2 DEF Cited
<1> QED
  BY <1>6 DEF seen

(* Nothing but the arguments of Tells is told.                             *)
LEMMA TellsOnce ==
  ASSUME NEW s, NEW id, NEW sel, NEW place, NEW one, NEW other,
         Tells(one, s, id, sel, place), Tells(other, s, id, sel, place)
  PROVE  one = other
<1>1. one.opportunities = other.opportunities
  <2>1. /\ IsList(one.opportunities) /\ IsList(other.opportunities)
        /\ Len(one.opportunities) = s.duration /\ Len(other.opportunities) = s.duration
        /\ \A k \in 1..s.duration : one.opportunities[k] = other.opportunities[k]
    BY DEF Tells
  <2> QED
    BY <2>1, ListsEqual
<1>2. one.results = other.results
  <2>1. /\ IsList(one.results) /\ IsList(other.results)
        /\ Len(one.results) = s.duration /\ Len(other.results) = s.duration
        /\ \A k \in 1..s.duration : one.results[k] = other.results[k]
    BY DEF Tells
  <2> QED
    BY <2>1, ListsEqual
<1> QED
  BY <1>1, <1>2 DEF Tells

(* What is told of causes that set in together.                            *)
SelectionOf(s, causes) ==
  [k \in 1..s.duration |->
     IF "observation_policy" \in causes /\ k > s.change THEN s.shifted ELSE s.control]

PlaceOf(s, causes) ==
  [k \in 1..s.duration |-> IF causes # {"observation_policy"} /\ k > s.change THEN "sofa" ELSE "desk"]

KindOf(causes) == IF "observation_policy" \in causes THEN "paired" ELSE "ordinary"

TellsOf(seen, s, causes) ==
  Tells(seen, s, StreamOf(s, KindOf(causes)), SelectionOf(s, causes), PlaceOf(s, causes))

(* What is told in the run that nothing happens in.                        *)
TellsOfNone(seen, s, causes) ==
  Tells(seen, s, StreamOf(s, KindOf(causes)), [k \in 1..s.duration |-> s.control],
        [k \in 1..s.duration |-> "desk"])

(* What is made of a scenario.                                             *)
AllRuns ==
  [r \in Kind \X Cause \X Lane |-> Simulated(CallOf(scenario, r[1], plans[r[2]]), r[3])]

SuiteWith(track) ==
  [track |-> track, cases |-> [cause \in Cause |-> CaseOf(scenario, cause, track)]]

AllOnline == [causes \in Families |-> OnlineCase(scenario, causes)]

AnswersWith(minds) ==
  [minds |-> minds, given |-> [cause \in Cause |-> Attributed(suite.cases[cause], minds)]]

(* A scenario and all that was made of it.                                 *)
ShiftInv ==
  /\ Posed(scenario)
  /\ plans = [cause \in Cause |-> PlanWith(scenario, Changes(scenario, cause))]
  /\ draws \in [Streams(scenario, plans) -> [1..(2 * scenario.duration) -> Draw]]
  /\ runs = Nothing => suite = Nothing /\ online = Nothing
  /\ runs # Nothing => runs = AllRuns
  /\ suite = Nothing => answers = Nothing
  /\ suite # Nothing => \E track \in Track : suite = SuiteWith(track)
  /\ online # Nothing => online = AllOnline
  /\ answers # Nothing => \E minds \in BOOLEAN : answers = AnswersWith(minds)

(* The scenario is one that its validation accepts.                        *)
LEMMA ShiftInitInv == ShiftInit => ShiftInv
<1> SUFFICES ASSUME ShiftInit PROVE ShiftInv
  OBVIOUS
<1>1. Posed(scenario)
  BY ScenarioAssumption DEF ShiftInit, Posed
<1> QED
  BY <1>1 DEF ShiftInit, ShiftInv

(* Every step makes its part of what there is already.                     *)
LEMMA ShiftNextInv == ShiftInv /\ [ShiftNext]_shiftVars => ShiftInv'
<1> SUFFICES ASSUME ShiftInv, [ShiftNext]_shiftVars PROVE ShiftInv'
  OBVIOUS
<1>1. ASSUME UNCHANGED <<scenario, plans, draws>> PROVE AllRuns' = AllRuns
  BY <1>1 DEF AllRuns, Simulated
<1>2. ASSUME UNCHANGED <<scenario, plans, draws, runs>>
      PROVE  (\A track : SuiteWith(track)' = SuiteWith(track)) /\ AllOnline' = AllOnline
  BY <1>2 DEF SuiteWith, AllOnline, CaseOf, OnlineCase, Ordinary, Paired
<1>3. ASSUME UNCHANGED suite PROVE \A minds : AnswersWith(minds)' = AnswersWith(minds)
  BY <1>3 DEF AnswersWith
<1>4. ASSUME UNCHANGED <<scenario, plans, draws>>
      PROVE  /\ Posed(scenario)'
             /\ (plans = [cause \in Cause |-> PlanWith(scenario, Changes(scenario, cause))])'
             /\ (draws \in [Streams(scenario, plans) -> [1..(2 * scenario.duration) -> Draw]])'
  BY <1>4 DEF ShiftInv
<1>5. CASE Simulate
  <2>1. UNCHANGED <<scenario, plans, draws, suite, online, answers>> /\ runs = Nothing
    BY <1>5 DEF Simulate
  <2>2. suite = Nothing /\ online = Nothing /\ answers = Nothing
    BY <2>1 DEF ShiftInv
  <2>3. runs' = AllRuns'
    BY <1>1, <1>5, <2>1 DEF Simulate, AllRuns
  <2> QED
    BY <1>4, <2>1, <2>2, <2>3 DEF ShiftInv
<1>6. ASSUME NEW track \in Track, GenerateSuite(track) PROVE ShiftInv'
  <2>1. UNCHANGED <<scenario, plans, draws, runs, online, answers>>
        /\ runs # Nothing /\ suite = Nothing /\ online = Nothing
    BY <1>6 DEF GenerateSuite
  <2>2. answers = Nothing /\ runs = AllRuns
    BY <2>1 DEF ShiftInv
  <2>3. suite' = SuiteWith(track)'
    BY <1>2, <1>6, <2>1 DEF GenerateSuite, SuiteWith
  <2>4. runs' = AllRuns'
    BY <1>1, <2>1, <2>2
  <2> QED
    BY <1>4, <2>1, <2>2, <2>3, <2>4 DEF ShiftInv
<1>7. CASE GenerateOnline
  <2>1. UNCHANGED <<scenario, plans, draws, runs, suite, answers>>
        /\ runs # Nothing /\ suite = Nothing /\ online = Nothing
    BY <1>7 DEF GenerateOnline
  <2>2. answers = Nothing /\ runs = AllRuns
    BY <2>1 DEF ShiftInv
  <2>3. online' = AllOnline'
    BY <1>2, <1>7, <2>1 DEF GenerateOnline, AllOnline
  <2>4. runs' = AllRuns'
    BY <1>1, <2>1, <2>2
  <2> QED
    BY <1>4, <2>1, <2>2, <2>3, <2>4 DEF ShiftInv
<1>8. ASSUME UNCHANGED <<scenario, plans, draws, runs, suite, online>>
      PROVE  /\ runs' = Nothing => suite' = Nothing /\ online' = Nothing
             /\ runs' # Nothing => runs' = AllRuns'
             /\ suite' # Nothing => \E track \in Track : suite' = SuiteWith(track)'
             /\ online' # Nothing => online' = AllOnline'
  <2>1. AllRuns' = AllRuns /\ AllOnline' = AllOnline /\ \A track : SuiteWith(track)' = SuiteWith(track)
    BY <1>1, <1>2, <1>8
  <2> QED
    BY <1>8, <2>1 DEF ShiftInv
<1>9. ASSUME NEW minds \in BOOLEAN, Attribute(minds) PROVE ShiftInv'
  <2>1. UNCHANGED <<scenario, plans, draws, runs, suite, online>> /\ suite # Nothing
    BY <1>9 DEF Attribute
  <2>2. answers' = AnswersWith(minds)'
    BY <1>3, <1>9, <2>1 DEF Attribute, AnswersWith
  <2> QED
    BY <1>4, <1>8, <2>1, <2>2 DEF ShiftInv
<1>10. CASE UNCHANGED shiftVars
  <2>1. UNCHANGED <<scenario, plans, draws, runs, suite, online, answers>>
    BY <1>10 DEF shiftVars
  <2>2. \A minds : AnswersWith(minds)' = AnswersWith(minds)
    BY <1>3, <2>1
  <2>3. /\ suite' = Nothing => answers' = Nothing
        /\ answers' # Nothing => \E minds \in BOOLEAN : answers' = AnswersWith(minds)'
    BY <2>1, <2>2 DEF ShiftInv
  <2> QED
    BY <1>4, <1>8, <2>1, <2>3 DEF ShiftInv
<1> QED
  BY <1>5, <1>6, <1>7, <1>9, <1>10 DEF ShiftNext

(* What a run of the scenario told.                                        *)
LEMMA RunTells ==
  ASSUME ShiftInv, runs # Nothing, NEW kind \in Kind, NEW cause \in Cause, NEW lane \in Lane
  PROVE  Tells(runs[<<kind, cause, lane>>], scenario, StreamOf(scenario, kind),
               [k \in 1..scenario.duration |-> LaneSelection(scenario, kind, lane)],
               [k \in 1..scenario.duration |-> PlaceOn(scenario, cause, k - 1)])
<1>1. Posed(scenario) /\ runs = AllRuns /\ plans[cause] = PlanWith(scenario, Changes(scenario, cause))
  BY DEF ShiftInv
<1> DEFINE r == <<kind, cause, lane>>
<1>2. r \in Kind \X Cause \X Lane /\ r[1] = kind /\ r[2] = cause /\ r[3] = lane
  OBVIOUS
<1>3. runs[r] = Simulated(CallOf(scenario, r[1], plans[r[2]]), r[3])
  BY <1>1, <1>2 DEF AllRuns
<1>4. runs[r] = Simulated(CallOf(scenario, kind, PlanWith(scenario, Changes(scenario, cause))), lane)
  BY <1>1, <1>2, <1>3
<1> HIDE DEF r
<1>5. Tells(runs[r], scenario, StreamOf(scenario, kind),
            [k \in 1..scenario.duration |-> LaneSelection(scenario, kind, lane)],
            [k \in 1..scenario.duration |-> PlaceOn(scenario, cause, k - 1)])
  BY <1>1, <1>4, SimulatedTells
<1> QED
  BY <1>5 DEF r

(* The places of a run.                                                    *)
LEMMA PlacesOfRuns ==
  ASSUME NEW s, Posed(s), NEW cause \in Cause
  PROVE  /\ [k \in 1..s.duration |-> PlaceOn(s, cause, k - 1)] = PlaceOf(s, {cause})
         /\ [k \in 1..s.duration |-> PlaceOn(s, "observation_policy", k - 1)]
              = [k \in 1..s.duration |-> "desk"]
<1>1. s.change \in Nat /\ s.duration \in Nat
  BY DEF Posed
<1>2. \A k \in 1..s.duration : k - 1 >= s.change <=> k > s.change
  BY <1>1
<1>3. \A k \in 1..s.duration :
        PlaceOn(s, cause, k - 1) = IF {cause} # {"observation_policy"} /\ k > s.change THEN "sofa" ELSE "desk"
  BY <1>2 DEF PlaceOn
<1>4. \A k \in 1..s.duration : PlaceOn(s, "observation_policy", k - 1) = "desk"
  BY DEF PlaceOn
<1>5. [k \in 1..s.duration |-> PlaceOn(s, cause, k - 1)] = PlaceOf(s, {cause})
  BY <1>3 DEF PlaceOf
<1>6. [k \in 1..s.duration |-> PlaceOn(s, "observation_policy", k - 1)] = [k \in 1..s.duration |-> "desk"]
  BY <1>4
<1> QED
  BY <1>5, <1>6

(* What is spliced of a run without the change and one with it, or of both *)
(* lanes of one run.                                                       *)
LEMMA SplicedOfRuns ==
  ASSUME NEW s, Posed(s), NEW causes, "observation_policy" \in causes, NEW sofa \in {"desk", "sofa"},
         sofa = (IF causes = {"observation_policy"} THEN "desk" ELSE "sofa"),
         NEW before, NEW after,
         Tells(before, s, StreamOf(s, "paired"), [k \in 1..s.duration |-> s.control],
               [k \in 1..s.duration |-> IF k > s.change THEN sofa ELSE "desk"]),
         Tells(after, s, StreamOf(s, "paired"), [k \in 1..s.duration |-> s.shifted],
               [k \in 1..s.duration |-> IF k > s.change THEN sofa ELSE "desk"])
  PROVE  /\ TellsOf(Spliced(before, after, ChangeTime(s)), s, causes)
         /\ \A actor, track :
              Cited(ActorEvidence(after, actor, track, ChangeTime(s)), Spliced(before, after, ChangeTime(s)))
                = ActorEvidence(Spliced(before, after, ChangeTime(s)), actor, track, ChangeTime(s))
<1> DEFINE sel1 == [k \in 1..s.duration |-> s.control]
           sel2 == [k \in 1..s.duration |-> s.shifted]
           place == [k \in 1..s.duration |-> IF k > s.change THEN sofa ELSE "desk"]
           id == StreamOf(s, "paired")
<1>1. Changed(s, sel1, sel2) = SelectionOf(s, causes)
  <2>1. s.change \in Nat /\ s.duration \in Nat
    BY DEF Posed
  <2>2. \A k \in 1..s.duration : ~ k <= s.change <=> k > s.change
    BY <2>1
  <2>3. \A k \in 1..s.duration : sel1[k] = s.control /\ sel2[k] = s.shifted
    OBVIOUS
  <2> HIDE DEF sel1, sel2
  <2> QED
    BY <2>2, <2>3 DEF SelectionOf, Changed
<1>2. Changed(s, place, place) = PlaceOf(s, causes)
  BY DEF Changed, PlaceOf
<1>3. Tells(before, s, id, sel1, place) /\ Tells(after, s, id, sel2, place)
  OBVIOUS
<1> HIDE DEF sel1, sel2, place
<1>4. Tells(Spliced(before, after, ChangeTime(s)), s, id, Changed(s, sel1, sel2), Changed(s, place, place))
  BY <1>3, SplicedTells
<1>5. ASSUME NEW actor, NEW track
      PROVE  Cited(ActorEvidence(after, actor, track, ChangeTime(s)), Spliced(before, after, ChangeTime(s)))
               = ActorEvidence(Spliced(before, after, ChangeTime(s)), actor, track, ChangeTime(s))
  BY <1>3, CitedIsAll
<1> QED
  BY <1>1, <1>2, <1>4, <1>5 DEF TellsOf, KindOf

ActorOf(cause) == IF cause = "actor_mixture" THEN "guest" ELSE "owner"

(* What a case of the suite tells, and the evidence of actors it comes     *)
(* with.                                                                   *)
LEMMA CaseFacts ==
  ASSUME ShiftInv, runs # Nothing, NEW cause \in Cause, NEW track
  PROVE  LET case == CaseOf(scenario, cause, track)
         IN  /\ TellsOfNone(case.control, scenario, {cause})
             /\ TellsOf(case.shifted, scenario, {cause})
             /\ case.time = ChangeTime(scenario) /\ case.cause = cause
             /\ case.controlEvidence = ActorEvidence(case.control, "owner", track, ChangeTime(scenario))
             /\ case.shiftedEvidence
                  = ActorEvidence(case.shifted, ActorOf(cause), track, ChangeTime(scenario))
<1> DEFINE s == scenario
           w == "observation_policy"
           case == CaseOf(s, cause, track)
<1>1. Posed(s) /\ w \in Cause /\ "paired" \in Kind /\ "ordinary" \in Kind /\ 1 \in Lane /\ 2 \in Lane
  BY DEF ShiftInv, Cause, Kind, Lane
<1>2. /\ case.time = ChangeTime(s) /\ case.cause = cause
      /\ case.controlEvidence = ActorEvidence(case.control, "owner", track, ChangeTime(s))
      /\ case.control = IF cause = w THEN Paired(cause, 1) ELSE Ordinary(w)
      /\ cause # w => /\ case.shifted = Ordinary(cause)
                      /\ case.shiftedEvidence = ActorEvidence(case.shifted, ActorOf(cause), track, ChangeTime(s))
      /\ cause = w =>
           /\ case.shifted = Spliced(Paired(cause, 1), Paired(cause, 2), ChangeTime(s))
           /\ case.shiftedEvidence =
                Cited(ActorEvidence(Paired(cause, 2), ActorOf(cause), track, ChangeTime(s)), case.shifted)
  BY DEF CaseOf, ActorOf
<1> HIDE DEF case
<1>3. /\ \A c \in Cause : Tells(Ordinary(c), s, StreamOf(s, "ordinary"),
                                [k \in 1..s.duration |-> LaneSelection(s, "ordinary", 1)],
                                [k \in 1..s.duration |-> PlaceOn(s, c, k - 1)])
      /\ \A lane \in Lane : Tells(Paired(w, lane), s, StreamOf(s, "paired"),
                                  [k \in 1..s.duration |-> LaneSelection(s, "paired", lane)],
                                  [k \in 1..s.duration |-> PlaceOn(s, w, k - 1)])
  BY <1>1, RunTells DEF Ordinary, Paired
<1>4. /\ LaneSelection(s, "ordinary", 1) = s.control /\ LaneSelection(s, "paired", 1) = s.control
      /\ LaneSelection(s, "paired", 2) = s.shifted
  BY DEF LaneSelection
<1>5. [k \in 1..s.duration |-> PlaceOn(s, w, k - 1)] = [k \in 1..s.duration |-> "desk"]
  BY <1>1, PlacesOfRuns
<1>6. CASE cause = w
  <2>1. KindOf({cause}) = "paired" /\ {cause} = {w} /\ w \in {cause}
    BY <1>6 DEF KindOf
  <2>2. TellsOfNone(case.control, s, {cause})
    BY <1>1, <1>2, <1>3, <1>4, <1>5, <1>6, <2>1 DEF TellsOfNone
  <2>3. [k \in 1..s.duration |-> "desk"] = [k \in 1..s.duration |-> IF k > s.change THEN "desk" ELSE "desk"]
    OBVIOUS
  <2>4. /\ Tells(Paired(w, 1), s, StreamOf(s, "paired"), [k \in 1..s.duration |-> s.control],
                 [k \in 1..s.duration |-> IF k > s.change THEN "desk" ELSE "desk"])
        /\ Tells(Paired(w, 2), s, StreamOf(s, "paired"), [k \in 1..s.duration |-> s.shifted],
                 [k \in 1..s.duration |-> IF k > s.change THEN "desk" ELSE "desk"])
    BY <1>1, <1>3, <1>4, <1>5, <2>3
  <2>5. /\ TellsOf(case.shifted, s, {cause})
        /\ case.shiftedEvidence = ActorEvidence(case.shifted, ActorOf(cause), track, ChangeTime(s))
    <3> DEFINE b == Paired(w, 1)
               a == Paired(w, 2)
               seen == Spliced(b, a, ChangeTime(s))
    <3>1. "desk" \in {"desk", "sofa"} /\ "desk" = (IF {cause} = {w} THEN "desk" ELSE "sofa")
      BY <2>1
    <3>2. Posed(s) /\ w \in {cause}
      BY <1>1, <2>1
    <3>3. /\ TellsOf(seen, s, {cause})
          /\ \A actor, kind : Cited(ActorEvidence(a, actor, kind, ChangeTime(s)), seen)
                               = ActorEvidence(seen, actor, kind, ChangeTime(s))
      BY <2>4, <3>1, <3>2, SplicedOfRuns
    <3>4. case.shifted = seen
          /\ case.shiftedEvidence = Cited(ActorEvidence(a, ActorOf(cause), track, ChangeTime(s)), seen)
      BY <1>2, <1>6
    <3> HIDE DEF a, b, seen
    <3> QED
      BY <3>3, <3>4
  <2> QED
    BY <1>2, <2>2, <2>5 DEF case
<1>7. CASE cause # w
  <2>1. KindOf({cause}) = "ordinary" /\ w \notin {cause}
    BY <1>7 DEF KindOf
  <2>2. TellsOfNone(case.control, s, {cause})
    BY <1>1, <1>2, <1>3, <1>4, <1>5, <1>7, <2>1 DEF TellsOfNone
  <2>3. SelectionOf(s, {cause}) = [k \in 1..s.duration |-> s.control]
    BY <2>1 DEF SelectionOf
  <2>4. [k \in 1..s.duration |-> PlaceOn(s, cause, k - 1)] = PlaceOf(s, {cause})
    BY <1>1, PlacesOfRuns
  <2>5. TellsOf(case.shifted, s, {cause})
    <3>1. Tells(Ordinary(cause), s, StreamOf(s, "ordinary"),
                [k \in 1..s.duration |-> LaneSelection(s, "ordinary", 1)],
                [k \in 1..s.duration |-> PlaceOn(s, cause, k - 1)])
      BY <1>3
    <3>2. [k \in 1..s.duration |-> LaneSelection(s, "ordinary", 1)] = [k \in 1..s.duration |-> s.control]
      BY <1>4
    <3>3. Tells(Ordinary(cause), s, StreamOf(s, "ordinary"), SelectionOf(s, {cause}), PlaceOf(s, {cause}))
      BY <2>3, <2>4, <3>1, <3>2
    <3>4. case.shifted = Ordinary(cause)
      BY <1>2, <1>7
    <3> QED
      BY <2>1, <3>3, <3>4 DEF TellsOf
  <2> QED
    BY <1>2, <1>7, <2>2, <2>5 DEF case
<1> QED
  BY <1>6, <1>7

(* What a case of the online suite tells.                                  *)
LEMMA OnlineFacts ==
  ASSUME ShiftInv, runs # Nothing, NEW causes \in Families
  PROVE  LET case == OnlineCase(scenario, causes)
         IN  /\ TellsOf(case.seen, scenario, causes)
             /\ case.evidence
                  = ActorEvidence(case.seen, ActorAfter(causes), "controlled_noise", ChangeTime(scenario))
<1> DEFINE s == scenario
           case == OnlineCase(s, causes)
           cn == "controlled_noise"
           w == "observation_policy"
           am == "actor_mixture"
           oh == "owner_habit_regime"
<1>1. Posed(s) /\ "paired" \in Kind /\ 1 \in Lane /\ 2 \in Lane
  BY DEF ShiftInv, Kind, Lane
<1>2. \A x : Cardinality({x}) = 1
  BY FS_Singleton
<1>3. ASSUME NEW cause \in Cause, causes = {cause}
      PROVE  /\ TellsOf(case.seen, s, causes)
             /\ case.evidence = ActorEvidence(case.seen, ActorAfter(causes), cn, ChangeTime(s))
  <2>1. (CHOOSE x \in {cause} : TRUE) = cause
    OBVIOUS
  <2> DEFINE offline == CaseOf(s, cause, cn)
  <2>2. case.seen = offline.shifted /\ case.evidence = offline.shiftedEvidence
    BY <1>2, <1>3, <2>1 DEF OnlineCase
  <2>3. /\ TellsOf(offline.shifted, s, {cause})
        /\ offline.shiftedEvidence = ActorEvidence(offline.shifted, ActorOf(cause), cn, ChangeTime(s))
    BY CaseFacts
  <2>4. ActorAfter(causes) = ActorOf(cause)
    BY <1>3 DEF ActorAfter, ActorOf
  <2> QED
    BY <1>3, <2>2, <2>3, <2>4
<1>4. ASSUME NEW change \in {am, oh}, causes = {w, change}
      PROVE  /\ TellsOf(case.seen, s, causes)
             /\ case.evidence = ActorEvidence(case.seen, ActorAfter(causes), cn, ChangeTime(s))
  <2>1. Cardinality(causes) # 1
    <3>1. w # change
      OBVIOUS
    <3>2. Cardinality({w} \cup {change}) = Cardinality({w}) + 1
      BY <3>1, FS_AddElement, FS_Singleton
    <3>3. causes = {w} \cup {change} /\ Cardinality({w}) = 1
      BY <1>2, <1>4
    <3> QED
      BY <3>2, <3>3
  <2>2. (IF am \in causes THEN am ELSE oh) = change
    BY <1>4
  <2>3. /\ case.seen = Spliced(Paired(change, 1), Paired(change, 2), ChangeTime(s))
        /\ case.evidence = Cited(ActorEvidence(Paired(change, 2), ActorAfter(causes), cn, ChangeTime(s)), case.seen)
    BY <2>1, <2>2 DEF OnlineCase
  <2>4. change \in Cause
    BY DEF Cause
  <2>5. \A lane \in Lane : Tells(Paired(change, lane), s, StreamOf(s, "paired"),
                                 [k \in 1..s.duration |-> LaneSelection(s, "paired", lane)],
                                 [k \in 1..s.duration |-> PlaceOn(s, change, k - 1)])
    BY <1>1, <2>4, RunTells DEF Paired
  <2>6. LaneSelection(s, "paired", 1) = s.control /\ LaneSelection(s, "paired", 2) = s.shifted
    BY DEF LaneSelection
  <2>7. [k \in 1..s.duration |-> PlaceOn(s, change, k - 1)]
          = [k \in 1..s.duration |-> IF k > s.change THEN "sofa" ELSE "desk"]
    <3>1. [k \in 1..s.duration |-> PlaceOn(s, change, k - 1)] = PlaceOf(s, {change})
      BY <1>1, <2>4, PlacesOfRuns
    <3>2. {change} # {w}
      OBVIOUS
    <3> QED
      BY <3>1, <3>2 DEF PlaceOf
  <2>8. /\ Tells(Paired(change, 1), s, StreamOf(s, "paired"), [k \in 1..s.duration |-> s.control],
                 [k \in 1..s.duration |-> IF k > s.change THEN "sofa" ELSE "desk"])
        /\ Tells(Paired(change, 2), s, StreamOf(s, "paired"), [k \in 1..s.duration |-> s.shifted],
                 [k \in 1..s.duration |-> IF k > s.change THEN "sofa" ELSE "desk"])
    BY <1>1, <2>5, <2>6, <2>7
  <2>9. causes # {w} /\ w \in causes
    BY <1>4
  <2> HIDE DEF case
  <2> QED
    <3> DEFINE b == Paired(change, 1)
               a == Paired(change, 2)
               seen == Spliced(b, a, ChangeTime(s))
    <3>1. "sofa" \in {"desk", "sofa"} /\ "sofa" = (IF causes = {w} THEN "desk" ELSE "sofa")
      BY <2>9
    <3>2. Posed(s) /\ w \in causes
      BY <1>1, <2>9
    <3>3. /\ TellsOf(seen, s, causes)
          /\ \A actor, kind : Cited(ActorEvidence(a, actor, kind, ChangeTime(s)), seen)
                               = ActorEvidence(seen, actor, kind, ChangeTime(s))
      BY <2>8, <3>1, <3>2, SplicedOfRuns
    <3>4. case.seen = seen
          /\ case.evidence = Cited(ActorEvidence(a, ActorAfter(causes), cn, ChangeTime(s)), seen)
      BY <2>3
    <3> HIDE DEF a, b, seen
    <3> QED
      BY <3>3, <3>4
<1>5. \/ \E cause \in Cause : causes = {cause}
      \/ \E change \in {am, oh} : causes = {w, change}
  BY DEF Families, Cause
<1> QED
  BY <1>3, <1>4, <1>5

(* What is told passes the validation of a visible run, and all evidence   *)
(* about it is of its detections.                                          *)
LEMMA TellsValid ==
  ASSUME NEW s, Posed(s), NEW id, NEW sel, NEW place, NEW seen, Tells(seen, s, id, sel, place)
  PROVE  /\ ValidVisible(seen) /\ Sessions(seen) = {id}
         /\ \A actor, track, time : ValidEvidenceFor(ActorEvidence(seen, actor, track, time), seen)
<1> DEFINE n == s.duration
           O == seen.opportunities
           R == seen.results
<1>1. n \in Nat /\ 1 \in 1..n
  BY DEF Posed, ValidScenario
<1>2. DOMAIN O = 1..n /\ DOMAIN R = 1..n /\ Len(O) = n /\ Len(R) = n
  BY ListFacts DEF Tells
<1>3. \A k \in 1..n : O[k].id = <<id, k>> /\ R[k].opportunity = <<id, k>>
  <2> SUFFICES ASSUME NEW k \in 1..n PROVE O[k].id = <<id, k>> /\ R[k].opportunity = <<id, k>>
    OBVIOUS
  <2>1. O[k] = View(s, id, sel[k], k) /\ R[k] = Finding(s, id, sel[k], place[k], k)
    BY DEF Tells
  <2> QED
    BY <2>1 DEF View, Finding
<1>4. ToSet(O) = {O[k] : k \in 1..n} /\ ToSet(R) = {R[k] : k \in 1..n}
  BY <1>2 DEF ToSet
<1>5. {o.id : o \in ToSet(O)} = {<<id, k>> : k \in 1..n}
  <2> HIDE DEF O, R, n
  <2>1. {o.id : o \in ToSet(O)} = {O[k].id : k \in 1..n}
    BY <1>4
  <2> QED
    BY <1>3, <2>1
<1>6. {r.opportunity : r \in ToSet(R)} = {<<id, k>> : k \in 1..n}
  <2> HIDE DEF O, R, n
  <2>1. {r.opportunity : r \in ToSet(R)} = {R[k].opportunity : k \in 1..n}
    BY <1>4
  <2> QED
    BY <1>3, <2>1
<1>7. {o.id[1] : o \in ToSet(O)} = {id}
  <2>1. \A o \in ToSet(O) : o.id[1] = id
    BY <1>3, <1>4
  <2>2. O[1] \in ToSet(O)
    BY <1>1, <1>4
  <2> QED
    BY <2>1, <2>2
<1>8. ValidVisible(seen)
  <2>1. \A i, j \in 1..n : O[i].id = O[j].id => i = j
    BY <1>3
  <2>2. \A i, j \in 1..n : R[i] = R[j] => i = j
    <3>1. \A i, j \in 1..n : R[i].opportunity = R[j].opportunity => i = j
      BY <1>3
    <3> QED
      BY <3>1
  <2> QED
    BY <1>2, <1>5, <1>6, <2>1, <2>2 DEF ValidVisible
<1>9. \A actor, track, time : ValidEvidenceFor(ActorEvidence(seen, actor, track, time), seen)
  BY DEF ValidEvidenceFor, ActorEvidence
<1> QED
  BY <1>7, <1>8, <1>9 DEF Sessions

(* A pair of configurations differs in what the cause names.               *)
LEMMA OneFactorDiffers ==
  ASSUME NEW s, Posed(s), NEW cause \in Cause
  PROVE  LET before == Factors(RoutineConfig(s, {}), s.control, s.control)
             after  == Factors(RoutineConfig(s, Changes(s, cause)), s.control,
                               IF cause = "observation_policy" THEN s.shifted ELSE s.control)
         IN  {f \in DOMAIN before : before[f] # after[f]} = {FactorOf(cause)}
<1> DEFINE w == "observation_policy"
           c0 == RoutineConfig(s, {})
           c1 == RoutineConfig(s, Changes(s, cause))
           late == IF cause = w THEN s.shifted ELSE s.control
           before == Factors(c0, s.control, s.control)
           after == Factors(c1, s.control, late)
<1> SUFFICES {f \in DOMAIN before : before[f] # after[f]} = {FactorOf(cause)}
  OBVIOUS
<1>1. s.control # s.shifted
  BY DEF Posed, ValidScenario
<1>2. /\ DOMAIN before = {"observation_process", "actor_mixture", "owner_habit_regime"}
      /\ before["observation_process"] = <<s.control, s.control>>
      /\ after["observation_process"] = <<s.control, late>>
      /\ before["actor_mixture"] = ActorFactor(c0) /\ after["actor_mixture"] = ActorFactor(c1)
      /\ before["owner_habit_regime"] = OwnerHabitFactor(c0)
      /\ after["owner_habit_regime"] = OwnerHabitFactor(c1)
  BY DEF Factors
<1>3. c0.routines = c1.routines /\ c0.changes = {} /\ c1.changes = Changes(s, cause)
  BY DEF RoutineConfig
<1>4. /\ GuestComes(s).actor = "guest" /\ HabitChanges(s).actor = NoActor /\ NoActor # "guest"
  BY ScenarioAssumption DEF GuestComes, HabitChanges, ChangeOf
<1> DEFINE A(c) == {<<x.object, x.from, x.until, x.actor>> : x \in {y \in c.changes : y.actor # NoActor}}
           H(c) == {<<x.kind, x.object, x.from, x.until, x.target>> :
                      x \in {y \in c.changes : y.actor = NoActor}}
<1>5. A(c0) = {} /\ H(c0) = {}
  BY <1>3
<1>6. (A(c1) = {} <=> cause # "actor_mixture") /\ (H(c1) = {} <=> cause # "owner_habit_regime")
  BY <1>3, <1>4 DEF Changes, Cause
<1>7. ActorFactor(c0) = ActorFactor(c1) <=> cause # "actor_mixture"
  <2>1. \A c : ActorFactor(c) = <<[i \in DOMAIN c.routines |-> c.routines[i].actor], A(c)>>
    BY DEF ActorFactor
  <2> HIDE DEF A, c0, c1
  <2> QED
    BY <1>3, <1>5, <1>6, <2>1
<1>8. OwnerHabitFactor(c0) = OwnerHabitFactor(c1) <=> cause # "owner_habit_regime"
  <2>1. \A c : OwnerHabitFactor(c)
                 = <<[i \in DOMAIN c.routines |-> <<c.routines[i].actor, c.routines[i].habitual>>], H(c)>>
    BY DEF OwnerHabitFactor
  <2> HIDE DEF H, c0, c1
  <2> QED
    BY <1>3, <1>5, <1>6, <2>1
<1>9. FactorOf(cause) = IF cause = w THEN "observation_process" ELSE cause
  BY DEF FactorOf, Cause
<1>10. <<s.control, s.control>> = <<s.control, late>> <=> cause # w
  BY <1>1
<1> HIDE DEF before, after, late, c0, c1
<1> QED
  BY <1>2, <1>7, <1>8, <1>9, <1>10 DEF Cause

(* Every case that is generated passes its validation.                     *)
LEMMA CasesAreBuilt == ShiftInv => EveryCaseIsBuilt
<1> SUFFICES ASSUME ShiftInv, suite # Nothing, NEW cause \in Cause PROVE ValidCase(suite.cases[cause])
  BY DEF EveryCaseIsBuilt
<1>1. PICK track \in Track : suite = SuiteWith(track)
  BY DEF ShiftInv
<1> DEFINE case == CaseOf(scenario, cause, track)
           id == StreamOf(scenario, KindOf({cause}))
<1>2. suite.cases[cause] = case
  BY <1>1 DEF SuiteWith
<1>3. Posed(scenario) /\ runs # Nothing
  BY DEF ShiftInv
<1>4. /\ TellsOfNone(case.control, scenario, {cause}) /\ TellsOf(case.shifted, scenario, {cause})
      /\ case.cause = cause
      /\ case.controlEvidence = ActorEvidence(case.control, "owner", track, ChangeTime(scenario))
      /\ case.shiftedEvidence
           = ActorEvidence(case.shifted, ActorOf(cause), track, ChangeTime(scenario))
  BY <1>3, CaseFacts
<1>5. {f \in DOMAIN case.controlFactors : case.controlFactors[f] # case.shiftedFactors[f]} = {FactorOf(cause)}
  <2>1. /\ case.controlFactors = Factors(RoutineConfig(scenario, {}), scenario.control, scenario.control)
        /\ case.shiftedFactors =
             Factors(RoutineConfig(scenario, Changes(scenario, cause)), scenario.control,
                     IF cause = "observation_policy" THEN scenario.shifted ELSE scenario.control)
    BY DEF CaseOf
  <2> HIDE DEF case
  <2> QED
    BY <1>3, <2>1, OneFactorDiffers
<1> HIDE DEF case
<1>6. /\ ValidVisible(case.control) /\ Sessions(case.control) = {id}
      /\ ValidEvidenceFor(case.controlEvidence, case.control)
  BY <1>3, <1>4, TellsValid DEF TellsOfNone
<1>7. /\ ValidVisible(case.shifted) /\ Sessions(case.shifted) = {id}
      /\ ValidEvidenceFor(case.shiftedEvidence, case.shifted)
  BY <1>3, <1>4, TellsValid DEF TellsOf
<1>8. Cardinality({id}) = 1
  BY FS_Singleton
<1> HIDE DEF id
<1> QED
  BY <1>2, <1>4, <1>5, <1>6, <1>7, <1>8 DEF ValidCase

(* Until the change a pair tells the same.                                 *)
LEMMA PairsAgree == ShiftInv => PairsAgreeBeforeTheChange
<1> SUFFICES ASSUME ShiftInv, suite # Nothing, NEW cause \in Cause
             PROVE  Before(suite.cases[cause].control, suite.cases[cause].time)
                      = Before(suite.cases[cause].shifted, suite.cases[cause].time)
  BY DEF PairsAgreeBeforeTheChange
<1>1. PICK track \in Track : suite = SuiteWith(track)
  BY DEF ShiftInv
<1> DEFINE case == CaseOf(scenario, cause, track)
           s == scenario
           id == StreamOf(s, KindOf({cause}))
           t == ChangeTime(s)
           one == Before(case.control, t)
           other == Before(case.shifted, t)
<1>2. suite.cases[cause] = case
  BY <1>1 DEF SuiteWith
<1>3. Posed(s) /\ runs # Nothing
  BY DEF ShiftInv
<1>4. TellsOfNone(case.control, s, {cause}) /\ TellsOf(case.shifted, s, {cause}) /\ case.time = t
  BY <1>3, CaseFacts
<1>5. s.change \in Nat /\ s.duration \in Nat /\ s.change < s.duration
  BY <1>3 DEF Posed, ValidScenario
<1> HIDE DEF case
<1>6. /\ IsList(one.opportunities) /\ Len(one.opportunities) = s.change
      /\ IsList(one.results) /\ Len(one.results) = s.change
      /\ \A k \in 1..s.change : /\ one.opportunities[k] = case.control.opportunities[k]
                                /\ one.results[k] = case.control.results[k]
  BY <1>3, <1>4, BeforeAndSince DEF TellsOfNone
<1>7. /\ IsList(other.opportunities) /\ Len(other.opportunities) = s.change
      /\ IsList(other.results) /\ Len(other.results) = s.change
      /\ \A k \in 1..s.change : /\ other.opportunities[k] = case.shifted.opportunities[k]
                                /\ other.results[k] = case.shifted.results[k]
  BY <1>3, <1>4, BeforeAndSince DEF TellsOf
<1>8. ASSUME NEW k \in 1..s.change
      PROVE  /\ case.control.opportunities[k] = case.shifted.opportunities[k]
             /\ case.control.results[k] = case.shifted.results[k]
  <2>1. k \in 1..s.duration /\ ~ k > s.change
    BY <1>5
  <2>2. /\ case.control.opportunities[k] = View(s, id, s.control, k)
        /\ case.control.results[k] = Finding(s, id, s.control, "desk", k)
    BY <1>4, <2>1 DEF TellsOfNone, Tells
  <2>3. SelectionOf(s, {cause})[k] = s.control /\ PlaceOf(s, {cause})[k] = "desk"
    BY <2>1 DEF SelectionOf, PlaceOf
  <2>4. /\ case.shifted.opportunities[k] = View(s, id, s.control, k)
        /\ case.shifted.results[k] = Finding(s, id, s.control, "desk", k)
    BY <1>4, <2>1, <2>3 DEF TellsOf, Tells
  <2> QED
    BY <2>2, <2>4
<1> HIDE DEF one, other
<1>9. one.opportunities = other.opportunities
  <2>1. Len(one.opportunities) = Len(other.opportunities)
    BY <1>6, <1>7
  <2>2. ASSUME NEW k \in 1..Len(one.opportunities)
        PROVE  one.opportunities[k] = other.opportunities[k]
    <3>1. k \in 1..s.change
      BY <1>6
    <3>2. one.opportunities[k] = case.control.opportunities[k]
      BY <1>6, <3>1
    <3>3. other.opportunities[k] = case.shifted.opportunities[k]
      BY <1>7, <3>1
    <3> QED
      BY <1>8, <3>1, <3>2, <3>3
  <2>3. IsList(one.opportunities) /\ IsList(other.opportunities)
    BY <1>6, <1>7
  <2> QED
    BY <2>1, <2>2, <2>3, ListsEqual
<1>10. one.results = other.results
  <2>1. Len(one.results) = Len(other.results)
    BY <1>6, <1>7
  <2>2. ASSUME NEW k \in 1..Len(one.results)
        PROVE  one.results[k] = other.results[k]
    <3>1. k \in 1..s.change
      BY <1>6
    <3>2. one.results[k] = case.control.results[k]
      BY <1>6, <3>1
    <3>3. other.results[k] = case.shifted.results[k]
      BY <1>7, <3>1
    <3> QED
      BY <1>8, <3>1, <3>2, <3>3
  <2>3. IsList(one.results) /\ IsList(other.results)
    BY <1>6, <1>7
  <2> QED
    BY <2>1, <2>2, <2>3, ListsEqual
<1>11. \A seen : Before(seen, t) = [opportunities |-> Before(seen, t).opportunities,
                                    results |-> Before(seen, t).results]
  BY DEF Before
<1>12. one = other
  BY <1>9, <1>10, <1>11 DEF one, other
<1> QED
  BY <1>2, <1>4, <1>12 DEF one, other

(* Evidence names who put the tablet where it was detected: there is some  *)
(* since the change only, and from then on one actor.                      *)
LEMMA EvidenceIsRight == ShiftInv => EvidenceNamesWhoMovedIt
<1> SUFFICES ASSUME ShiftInv, suite # Nothing, NEW cause \in Cause,
                    NEW e \in suite.cases[cause].shiftedEvidence
             PROVE  e.named = LastMover(cause, e.detection.recorded)
  BY DEF EvidenceNamesWhoMovedIt
<1>1. PICK track \in Track : suite = SuiteWith(track)
  BY DEF ShiftInv
<1> DEFINE case == CaseOf(scenario, cause, track)
           s == scenario
           id == StreamOf(s, KindOf({cause}))
           sel == SelectionOf(s, {cause})
           place == PlaceOf(s, {cause})
<1>2. suite.cases[cause] = case
  BY <1>1 DEF SuiteWith
<1>3. Posed(s) /\ runs # Nothing /\ plans[cause] = PlanWith(s, Changes(s, cause))
  BY DEF ShiftInv
<1>4. /\ TellsOf(case.shifted, s, {cause})
      /\ case.shiftedEvidence = ActorEvidence(case.shifted, ActorOf(cause), track, ChangeTime(s))
  BY <1>3, CaseFacts
<1> HIDE DEF case
<1>5. e.named = ActorOf(cause) /\ e.detection \in Hits(s, case.shifted)
  BY <1>2, <1>4 DEF ActorEvidence, Hits
<1>6. PICK k \in (s.change + 1)..s.duration : e.detection = Finding(s, id, sel[k], place[k], k)
  <2>1. Tells(case.shifted, s, id, sel, place)
    BY <1>4 DEF TellsOf
  <2> HIDE DEF id, sel, place
  <2> QED
    BY <1>3, <1>5, <2>1, HitsAre
<1>7. s.change \in Nat /\ s.duration \in Nat
  BY <1>3 DEF Posed
<1>8. k \in 1..s.duration /\ k - 1 >= s.change
  BY <1>7
<1>9. e.detection.recorded = LookTime(k)
  BY <1>6 DEF Finding
<1>10. Latest(MovesUntil(PlanWith(s, Changes(s, cause)), Tablet, LookTime(k))).actor = ActorOn(s, cause, k - 1)
  BY <1>3, <1>8, TabletAt DEF LookTime
<1>11. ActorOn(s, cause, k - 1) = ActorOf(cause)
  BY <1>8 DEF ActorOn, ActorOf
<1> QED
  BY <1>3, <1>5, <1>9, <1>10, <1>11 DEF LastMover

(* Whoever it was, the runs of both changes tell the same.                 *)
LEMMA TheyLookAlike == ShiftInv => WithoutActorsTheyLookAlike
<1> DEFINE am == "actor_mixture"
           oh == "owner_habit_regime"
<1> SUFFICES ASSUME ShiftInv, suite # Nothing
             PROVE  /\ suite.cases[am].control = suite.cases[oh].control
                    /\ suite.cases[am].shifted = suite.cases[oh].shifted
  BY DEF WithoutActorsTheyLookAlike
<1>1. PICK track \in Track : suite = SuiteWith(track)
  BY DEF ShiftInv
<1>2. am \in Cause /\ oh \in Cause /\ runs # Nothing
  BY DEF ShiftInv, Cause
<1> DEFINE one == CaseOf(scenario, am, track)
           other == CaseOf(scenario, oh, track)
<1>3. suite.cases[am] = one /\ suite.cases[oh] = other
  BY <1>1, <1>2 DEF SuiteWith
<1>4. /\ TellsOfNone(one.control, scenario, {am}) /\ TellsOf(one.shifted, scenario, {am})
      /\ TellsOfNone(other.control, scenario, {oh}) /\ TellsOf(other.shifted, scenario, {oh})
  BY <1>2, CaseFacts
<1> HIDE DEF one, other
<1>5. KindOf({am}) = KindOf({oh}) /\ SelectionOf(scenario, {am}) = SelectionOf(scenario, {oh})
      /\ PlaceOf(scenario, {am}) = PlaceOf(scenario, {oh})
  BY DEF KindOf, SelectionOf, PlaceOf
<1>6. one.control = other.control
  BY <1>4, <1>5, TellsOnce DEF TellsOfNone
<1>7. one.shifted = other.shifted
  BY <1>4, <1>5, TellsOnce DEF TellsOf
<1> QED
  BY <1>3, <1>6, <1>7

(* Where something is more everywhere, and there is something, the sum is. *)
LEMMA MassCompared ==
  ASSUME NEW S, IsFiniteSet(S), NEW f, NEW g, DOMAIN f = S, DOMAIN g = S,
         \A x \in S : f[x] \in Nat /\ g[x] \in Nat /\ g[x] < f[x]
  PROVE  /\ SumFunction(f) \in Nat /\ SumFunction(g) \in Nat /\ SumFunction(g) <= SumFunction(f)
         /\ SumFunction(g) < SumFunction(f) <=> S # {}
<1> DEFINE h == [x \in S |-> f[x] - g[x]]
<1>1. \A x \in S : h[x] \in Nat /\ h[x] > 0 /\ g[x] \in Nat /\ f[x] = g[x] + h[x]
  OBVIOUS
<1> HIDE DEF h
<1>2. SumFunctionOnSet(f, S) = SumFunctionOnSet(g, S) + SumFunctionOnSet(h, S)
  BY <1>1, SumAdded
<1>3. SumLaws(g, S) /\ SumLaws(h, S)
  BY <1>1, SumStep
<1>4. SumFunctionOnSet(g, S) \in Nat /\ SumFunctionOnSet(h, S) \in Nat /\ SumFunctionOnSet(h, {}) = 0
  BY <1>3 DEF SumLaws
<1>5. S # {} => SumFunctionOnSet(h, S) > 0
  <2> SUFFICES ASSUME NEW x \in S PROVE SumFunctionOnSet(h, S) > 0
    OBVIOUS
  <2>1. h[x] <= SumFunctionOnSet(h, S)
    BY <1>1, SumBound
  <2> QED
    BY <1>1, <1>4, <2>1
<1>6. S = {} => SumFunctionOnSet(h, S) = 0
  BY <1>4
<1>7. SumFunction(f) = SumFunctionOnSet(f, S) /\ SumFunction(g) = SumFunctionOnSet(g, S)
  BY DEF SumFunction
<1> QED
  BY <1>2, <1>4, <1>5, <1>6, <1>7

(* Evidence names an actor or the other: the guest, if there is any at     *)
(* all, or never.                                                          *)
LEMMA ActorsChangedIf ==
  ASSUME NEW s, NEW seen, IsList(seen.results), NEW track, track # "none",
         NEW actor \in {"owner", "guest"}
  PROVE  ActorsChanged(ActorEvidence(seen, actor, track, ChangeTime(s)))
           <=> actor = "guest" /\ Hits(s, seen) # {}
<1> DEFINE E == ActorEvidence(seen, actor, track, ChangeTime(s))
           mass(who) == [e \in E |-> Posterior(e, who)]
<1>1. E = {[detection |-> r, named |-> actor, track |-> track] : r \in Hits(s, seen)}
  BY DEF ActorEvidence, Hits
<1>2. IsFiniteSet(E)
  <2>1. IsFiniteSet(ToSet(seen.results))
    <3> DEFINE R == seen.results
    <3>1. Len(R) \in Nat /\ DOMAIN R = 1..Len(R)
      BY ListFacts
    <3>2. ToSet(R) = {R[k] : k \in 1..Len(R)}
      BY <3>1 DEF ToSet
    <3>3. IsFiniteSet(1..Len(R))
      BY <3>1, 1 \in Int, FS_Interval
    <3> HIDE DEF R
    <3>4. IsFiniteSet({R[k] : k \in 1..Len(R)})
      BY <3>3, ImageIsFinite
    <3> QED
      BY <3>2, <3>4 DEF R
  <2>2. IsFiniteSet(Hits(s, seen))
    BY <2>1, FS_Subset DEF Hits
  <2> DEFINE f == [r \in Hits(s, seen) |-> [detection |-> r, named |-> actor, track |-> track]]
  <2>3. {f[r] : r \in Hits(s, seen)} = E
    BY <1>1
  <2> HIDE DEF f
  <2>4. IsFiniteSet({f[r] : r \in Hits(s, seen)})
    BY <2>2, ImageIsFinite
  <2> QED
    BY <2>3, <2>4
<1>3. E # {} <=> Hits(s, seen) # {}
  BY <1>1
<1>4. ASSUME NEW e \in E, NEW other \in {"owner", "guest"} \ {actor}
      PROVE  Posterior(e, actor) \in Nat /\ Posterior(e, other) \in Nat /\ Posterior(e, other) < Posterior(e, actor)
  <2>1. e.named = actor
    BY <1>1
  <2> QED
    BY <2>1 DEF Posterior
<1> HIDE DEF E
<1>5. ASSUME NEW other \in {"owner", "guest"} \ {actor}
      PROVE  /\ SumFunction(mass(actor)) \in Nat /\ SumFunction(mass(other)) \in Nat
             /\ SumFunction(mass(other)) <= SumFunction(mass(actor))
             /\ SumFunction(mass(other)) < SumFunction(mass(actor)) <=> E # {}
  <2> DEFINE f == mass(actor)
             g == mass(other)
  <2>1. DOMAIN f = E /\ DOMAIN g = E /\ \A e \in E : f[e] \in Nat /\ g[e] \in Nat /\ g[e] < f[e]
    BY <1>4
  <2> HIDE DEF f, g
  <2>2. /\ SumFunction(f) \in Nat /\ SumFunction(g) \in Nat /\ SumFunction(g) <= SumFunction(f)
        /\ SumFunction(g) < SumFunction(f) <=> E # {}
    BY <1>2, <2>1, MassCompared
  <2> QED
    BY <2>2 DEF f, g
<1>6. ActorsChanged(E) <=> SumFunction(mass("guest")) > SumFunction(mass("owner"))
  BY DEF ActorsChanged
<1> DEFINE guest == SumFunction(mass("guest"))
           owner == SumFunction(mass("owner"))
<1>7. /\ actor = "guest" => guest \in Nat /\ owner \in Nat /\ (owner < guest <=> E # {})
      /\ actor = "owner" => guest \in Nat /\ owner \in Nat /\ guest <= owner
  BY <1>5
<1> HIDE DEF guest, owner, mass
<1>8. guest > owner <=> actor = "guest" /\ E # {}
  BY <1>7
<1> QED
  BY <1>3, <1>6, <1>8 DEF E, guest, owner

(* The probabilities to look that were logged, and where the tablet was    *)
(* detected since the change how often.                                    *)
Chances(s, sel) == [k \in 1..s.duration |-> sel[k]]

CountsOf(s, id, sel, place) ==
  [location \in {"desk", "sofa"} |->
     Cardinality({k \in (s.change + 1)..s.duration :
                    Met(s, id, sel[k], k) = "detected" /\ place[k] = location})]

(* Baselines see these numbers and nothing else of a run.                  *)
LEMMA WhatBaselinesSee ==
  ASSUME NEW s, Posed(s), NEW id, NEW sel, NEW place, NEW seen, Tells(seen, s, id, sel, place)
  PROVE  /\ Propensities(seen) = Chances(s, sel)
         /\ LocationCounts(seen, ChangeTime(s)) = CountsOf(s, id, sel, place)
<1> DEFINE n == s.duration
           m == s.change
           t == ChangeTime(s)
           O == seen.opportunities
           R == seen.results
<1>1. n \in Nat /\ m \in Nat /\ (m + 1)..n \subseteq 1..n
  BY DEF Posed
<1>2. DOMAIN O = 1..n /\ DOMAIN R = 1..n
  BY ListFacts DEF Tells
<1>3. ASSUME NEW k \in 1..n
      PROVE  /\ O[k].selection = sel[k] /\ R[k].recorded = LookTime(k)
             /\ R[k].location = IF Met(s, id, sel[k], k) = "detected" THEN place[k] ELSE NoLocation
  <2>1. O[k] = View(s, id, sel[k], k) /\ R[k] = Finding(s, id, sel[k], place[k], k)
    BY DEF Tells
  <2> QED
    BY <2>1 DEF View, Finding
<1>4. ASSUME NEW k \in 1..n PROVE LookTime(k) >= t <=> k \in (m + 1)..n
  <2>1. LookTime(k) >= t <=> k > m
    BY DaysBefore
  <2> QED
    BY <1>1, <2>1
<1>5. Propensities(seen) = [k \in 1..n |-> sel[k]]
  <2>1. Propensities(seen) = [k \in DOMAIN O |-> O[k].selection]
    BY DEF Propensities
  <2> HIDE DEF O, n
  <2> QED
    BY <1>2, <1>3, <2>1
<1> DEFINE At(location) == {k \in DOMAIN R : R[k].recorded >= t /\ R[k].location = location}
           Met2(location) == {k \in (m + 1)..n : Met(s, id, sel[k], k) = "detected" /\ place[k] = location}
<1>6. LocationCounts(seen, t) = [location \in {"desk", "sofa"} |-> Cardinality(At(location))]
  BY DEF LocationCounts
<1> HIDE DEF n, m, t, O, R
<1>7. ASSUME NEW location \in {"desk", "sofa"} PROVE At(location) = Met2(location)
  <2>1. location # NoLocation
    BY ScenarioAssumption
  <2>2. \A k \in 1..n : R[k].location = location <=> Met(s, id, sel[k], k) = "detected" /\ place[k] = location
    BY <1>3, <2>1
  <2> QED
    BY <1>1, <1>2, <1>3, <1>4, <2>2
<1> HIDE DEF At, Met2
<1>8. LocationCounts(seen, t) = [location \in {"desk", "sofa"} |-> Cardinality(Met2(location))]
  BY <1>6, <1>7
<1> QED
  BY <1>5, <1>8 DEF Met2, n, m, t, Chances, CountsOf

(* Where both runs of a pair look alike, the counts differ if there is     *)
(* anything to count.                                                      *)
LEMMA CountsDiffer ==
  ASSUME NEW s, Posed(s), NEW id, NEW control, NEW shifted,
         Tells(control, s, id, [k \in 1..s.duration |-> s.control], [k \in 1..s.duration |-> "desk"]),
         Tells(shifted, s, id, [k \in 1..s.duration |-> s.control],
               [k \in 1..s.duration |-> IF k > s.change THEN "sofa" ELSE "desk"])
  PROVE  /\ LocationCounts(control, ChangeTime(s)) # LocationCounts(shifted, ChangeTime(s))
              <=> Hits(s, shifted) # {}
         /\ Propensities(control) = Propensities(shifted)
<1> DEFINE n == s.duration
           m == s.change
           days == (m + 1)..n
           sel == [k \in 1..n |-> s.control]
           desk == [k \in 1..n |-> "desk"]
           sofa == [k \in 1..n |-> IF k > m THEN "sofa" ELSE "desk"]
           D == {k \in days : Met(s, id, sel[k], k) = "detected"}
           one == LocationCounts(control, ChangeTime(s))
           other == LocationCounts(shifted, ChangeTime(s))
           At(place, location) ==
             {k \in days : Met(s, id, sel[k], k) = "detected" /\ place[k] = location}
<1>1. n \in Nat /\ m \in Nat /\ (\A k \in days : k \in 1..n /\ k > m)
  BY DEF Posed
<1>2. \A k \in days : desk[k] = "desk" /\ sofa[k] = "sofa"
  BY <1>1
<1>3. Tells(control, s, id, sel, desk) /\ Tells(shifted, s, id, sel, sofa)
  OBVIOUS
<1> HIDE DEF sel, desk, sofa
<1>4. /\ one = [location \in {"desk", "sofa"} |-> Cardinality(At(desk, location))]
      /\ other = [location \in {"desk", "sofa"} |-> Cardinality(At(sofa, location))]
  <2>1. one = CountsOf(s, id, sel, desk) /\ other = CountsOf(s, id, sel, sofa)
    BY <1>3, WhatBaselinesSee
  <2> QED
    BY <2>1 DEF CountsOf
<1>5. Propensities(control) = Chances(s, sel) /\ Propensities(shifted) = Chances(s, sel)
  BY <1>3, WhatBaselinesSee
<1>6. /\ At(desk, "desk") = D /\ At(desk, "sofa") = {}
      /\ At(sofa, "desk") = {} /\ At(sofa, "sofa") = D
  BY <1>2
<1>7. IsFiniteSet(D) /\ Cardinality({}) = 0 /\ (Cardinality(D) = 0 <=> D = {})
  <2>1. IsFiniteSet(days)
    <3>1. m + 1 \in Int /\ n \in Int
      BY <1>1
    <3> QED
      BY <3>1, FS_Interval
  <2>2. IsFiniteSet(D)
    BY <2>1, FS_Subset
  <2> HIDE DEF D
  <2> QED
    BY <2>2, FS_EmptySet
<1>8. Hits(s, shifted) # {} <=> D # {}
  <2>1. \A r : r \in Hits(s, shifted) <=>
          \E k \in days : Met(s, id, sel[k], k) = "detected" /\ r = Finding(s, id, sel[k], sofa[k], k)
    BY <1>3, HitsAre
  <2> QED
    BY <2>1
<1> HIDE DEF At, D, one, other
<1>9. /\ one["desk"] = Cardinality(D) /\ one["sofa"] = 0
      /\ other["desk"] = 0 /\ other["sofa"] = Cardinality(D)
  BY <1>4, <1>6, <1>7
<1>10. D = {} => one = other
  BY <1>4, <1>6, <1>7
<1>11. one # other <=> Hits(s, shifted) # {}
  BY <1>7, <1>8, <1>9, <1>10
<1> QED
  BY <1>5, <1>11 DEF one, other

(* What the baseline that minds actors answers.                            *)
LEMMA MindingActors ==
  ASSUME ShiftInv, runs # Nothing, NEW cause \in Cause, NEW track, track # "none"
  PROVE  LET case == CaseOf(scenario, cause, track)
         IN  Attributed(case, TRUE) =
               IF cause # "observation_policy" /\ Hits(scenario, case.shifted) = {} THEN "unresolved"
               ELSE cause
<1> DEFINE s == scenario
           n == s.duration
           w == "observation_policy"
           case == CaseOf(s, cause, track)
           id == StreamOf(s, KindOf({cause}))
           hit == Hits(s, case.shifted) # {}
<1>1. Posed(s)
  BY DEF ShiftInv
<1>2. s.change \in Nat /\ n \in Nat /\ s.change < n /\ s.control # s.shifted
  BY <1>1 DEF Posed, ValidScenario
<1>3. /\ TellsOfNone(case.control, s, {cause}) /\ TellsOf(case.shifted, s, {cause})
      /\ case.time = ChangeTime(s)
      /\ case.shiftedEvidence = ActorEvidence(case.shifted, ActorOf(cause), track, ChangeTime(s))
  BY CaseFacts
<1> HIDE DEF case
<1>4. /\ Propensities(case.control) # Propensities(case.shifted) => Attributed(case, TRUE) = w
      /\ Propensities(case.control) = Propensities(case.shifted) =>
           Attributed(case, TRUE) =
             IF ActorsChanged(case.shiftedEvidence) THEN "actor_mixture"
             ELSE IF LocationCounts(case.control, case.time) # LocationCounts(case.shifted, case.time)
                  THEN "owner_habit_regime" ELSE "unresolved"
  BY DEF Attributed
<1>5. CASE cause = w
  <2> DEFINE k == s.change + 1
  <2>1. k \in 1..n /\ k > s.change
    BY <1>2
  <2>2. Propensities(case.control) = Chances(s, [i \in 1..n |-> s.control])
    BY <1>1, <1>3, WhatBaselinesSee DEF TellsOfNone
  <2>3. Propensities(case.shifted) = Chances(s, SelectionOf(s, {cause}))
    BY <1>1, <1>3, WhatBaselinesSee DEF TellsOf
  <2> HIDE DEF k
  <2>4. Propensities(case.control)[k] = s.control
    BY <2>1, <2>2 DEF Chances
  <2>5. Propensities(case.shifted)[k] = s.shifted
    BY <1>5, <2>1, <2>3 DEF Chances, SelectionOf
  <2>6. Propensities(case.control) # Propensities(case.shifted)
    BY <1>2, <2>4, <2>5
  <2> QED
    BY <1>4, <1>5, <2>6 DEF case
<1>6. CASE cause # w
  <2>1. /\ SelectionOf(s, {cause}) = [k \in 1..n |-> s.control]
        /\ PlaceOf(s, {cause}) = [k \in 1..n |-> IF k > s.change THEN "sofa" ELSE "desk"]
    BY <1>6 DEF SelectionOf, PlaceOf
  <2>2. /\ Tells(case.control, s, id, [k \in 1..n |-> s.control], [k \in 1..n |-> "desk"])
        /\ Tells(case.shifted, s, id, [k \in 1..n |-> s.control],
                 [k \in 1..n |-> IF k > s.change THEN "sofa" ELSE "desk"])
    BY <1>3, <2>1 DEF TellsOfNone, TellsOf
  <2> HIDE DEF id
  <2>3. /\ LocationCounts(case.control, ChangeTime(s)) # LocationCounts(case.shifted, ChangeTime(s)) <=> hit
        /\ Propensities(case.control) = Propensities(case.shifted)
    BY <1>1, <2>2, CountsDiffer
  <2>4. IsList(case.shifted.results) /\ ActorOf(cause) \in {"owner", "guest"}
    BY <2>2 DEF Tells, ActorOf
  <2>5. ActorsChanged(case.shiftedEvidence) <=> ActorOf(cause) = "guest" /\ hit
    BY <1>3, <2>4, ActorsChangedIf
  <2>6. Attributed(case, TRUE) =
          IF ActorOf(cause) = "guest" /\ hit THEN "actor_mixture"
          ELSE IF hit THEN "owner_habit_regime" ELSE "unresolved"
    <3> HIDE DEF hit
    <3> QED
      BY <1>3, <1>4, <2>3, <2>5
  <2>7. Attributed(case, TRUE) = IF hit THEN cause ELSE "unresolved"
    BY <1>6, <2>6 DEF ActorOf, Cause
  <2> QED
    BY <1>6, <2>7 DEF case
<1> QED
  BY <1>5, <1>6

(* The owner is never blamed for a guest or for how often the robot looks. *)
LEMMA LeakageEnds == ShiftInv => ActorEvidenceEndsLeakage
<1> SUFFICES ASSUME ShiftInv, answers # Nothing, answers.minds, suite.track # "none"
             PROVE  /\ CountedAs(suite.cases, answers.given).errors = 0
                    /\ CountedAs(suite.cases, answers.given).falseHabits = 0
                    /\ \A cause \in Cause : answers.given[cause] = "unresolved" =>
                         \A r \in ToSet(suite.cases[cause].shifted.results) :
                           r.recorded >= suite.cases[cause].time => r.outcome # "detected"
  BY DEF ActorEvidenceEndsLeakage
<1>1. suite # Nothing
  BY DEF ShiftInv
<1>2. PICK track \in Track : suite = SuiteWith(track)
  BY <1>1 DEF ShiftInv
<1>3. runs # Nothing /\ track # "none" /\ DOMAIN suite.cases = Cause
  BY <1>1, <1>2 DEF ShiftInv, SuiteWith
<1>4. \A cause \in Cause : suite.cases[cause] = CaseOf(scenario, cause, track)
  BY <1>2 DEF SuiteWith
<1>5. \A cause \in Cause : answers.given[cause] = Attributed(suite.cases[cause], TRUE)
  <2>1. PICK minds \in BOOLEAN : answers = AnswersWith(minds)
    BY DEF ShiftInv
  <2>2. minds = TRUE
    BY <2>1 DEF AnswersWith
  <2>3. answers.given = [cause \in Cause |-> Attributed(suite.cases[cause], TRUE)]
    BY <2>1, <2>2 DEF AnswersWith
  <2> QED
    BY <2>3
<1>6. \A cause \in Cause :
        answers.given[cause] =
          IF cause # "observation_policy" /\ Hits(scenario, suite.cases[cause].shifted) = {}
          THEN "unresolved" ELSE cause
  <2> SUFFICES ASSUME NEW cause \in Cause
               PROVE  answers.given[cause] =
                        IF cause # "observation_policy" /\ Hits(scenario, suite.cases[cause].shifted) = {}
                        THEN "unresolved" ELSE cause
    OBVIOUS
  <2> DEFINE case == CaseOf(scenario, cause, track)
  <2>1. Attributed(case, TRUE) =
          IF cause # "observation_policy" /\ Hits(scenario, case.shifted) = {} THEN "unresolved" ELSE cause
    BY <1>3, MindingActors
  <2>2. suite.cases[cause] = case
    BY <1>4
  <2> HIDE DEF case
  <2> QED
    BY <1>5, <2>1, <2>2
<1>7. \A cause \in Cause : /\ suite.cases[cause].cause = cause /\ cause \in suite.cases[cause].accepted
                           /\ suite.cases[cause].time = ChangeTime(scenario)
  <2>1. \A cause \in Cause : LET case == CaseOf(scenario, cause, track)
                             IN  /\ case.cause = cause /\ case.time = ChangeTime(scenario)
                                 /\ case.accepted = {cause}
    BY <1>3 DEF CaseOf
  <2> QED
    BY <1>4, <2>1
<1> DEFINE cases == suite.cases
           given == answers.given
           covered == {c \in DOMAIN cases : given[c] # "unresolved"}
<1>8. \A c \in covered : given[c] = c /\ c \in Cause
  BY <1>3, <1>6
<1>9. {c \in covered : given[c] \notin cases[c].accepted} = {}
  BY <1>7, <1>8
<1>10. {c \in covered : given[c] = "owner_habit_regime" /\ cases[c].cause # "owner_habit_regime"} = {}
  BY <1>7, <1>8
<1>11. CountedAs(cases, given).errors = 0 /\ CountedAs(cases, given).falseHabits = 0
  BY <1>9, <1>10, FS_EmptySet DEF CountedAs
<1>12. ASSUME NEW cause \in Cause, answers.given[cause] = "unresolved",
              NEW r \in ToSet(suite.cases[cause].shifted.results), r.recorded >= suite.cases[cause].time
       PROVE  r.outcome # "detected"
  <2>1. Hits(scenario, suite.cases[cause].shifted) = {}
    BY <1>6, <1>12 DEF Cause
  <2> QED
    BY <1>7, <1>12, <2>1 DEF Hits
<1> QED
  BY <1>11, <1>12

(* The families of causes are told apart by whether the robot looks more   *)
(* often, whether the tablet is put elsewhere, and by whom.                *)
LEMMA FamiliesApart ==
  ASSUME NEW a \in Families, NEW b \in Families,
         "observation_policy" \in a <=> "observation_policy" \in b,
         a = {"observation_policy"} <=> b = {"observation_policy"},
         ActorAfter(a) = ActorAfter(b)
  PROVE  a = b
<1>1. "actor_mixture" \in a <=> "actor_mixture" \in b
  BY DEF ActorAfter
<1> QED
  BY <1>1 DEF Families

(* The change of the probability to look is in the input, and with a       *)
(* detection since then so is where the tablet is put and by whom.         *)
LEMMA InputsTellCauses == ShiftInv => SameInputSameCauses
<1> SUFFICES ASSUME ShiftInv, online # Nothing, NEW a \in Families, NEW b \in Families,
                    Input(online[a]) = Input(online[b]),
                    NEW r \in ToSet(online[a].seen.results),
                    r.recorded >= ChangeTime(scenario), r.outcome = "detected"
             PROVE  a = b
  BY DEF SameInputSameCauses
<1> DEFINE s == scenario
           n == s.duration
           w == "observation_policy"
           cn == "controlled_noise"
           one == online[a]
           other == online[b]
<1>1. runs # Nothing /\ Posed(s) /\ online = AllOnline
  BY DEF ShiftInv
<1>2. one = OnlineCase(s, a) /\ other = OnlineCase(s, b)
  BY <1>1 DEF AllOnline
<1>3. /\ TellsOf(one.seen, s, a) /\ TellsOf(other.seen, s, b)
      /\ one.evidence = ActorEvidence(one.seen, ActorAfter(a), cn, ChangeTime(s))
      /\ other.evidence = ActorEvidence(other.seen, ActorAfter(b), cn, ChangeTime(s))
  BY <1>1, <1>2, OnlineFacts
<1>4. s.change \in Nat /\ n \in Nat /\ s.change < n /\ s.control # s.shifted
  BY <1>1 DEF Posed, ValidScenario
<1>5. r \in Hits(s, one.seen)
  <2>1. r \in ToSet(one.seen.results) /\ r.recorded >= ChangeTime(s) /\ r.outcome = "detected"
    OBVIOUS
  <2> HIDE DEF one
  <2> QED
    BY <2>1 DEF Hits
<1> DEFINE Fact(x) == <<x.outcome, x.location, x.recorded>>
           oneViews == one.seen.opportunities
           otherViews == other.seen.opportunities
           oneResults == one.seen.results
           otherResults == other.seen.results
<1> HIDE DEF one, other
<1> DEFINE Views(x) == [k \in DOMAIN x.seen.opportunities |-> [x.seen.opportunities[k] EXCEPT !.id = k]]
           Facts(x) == [k \in DOMAIN x.seen.results |-> Fact(x.seen.results[k])]
           Actors(x) == {<<Fact(e.detection), e.named>> : e \in x.evidence}
<1>6. Views(one) = Views(other) /\ Facts(one) = Facts(other) /\ Actors(one) = Actors(other)
  <2>1. Input(one) = Input(other)
    BY DEF one, other
  <2>2. \A x : Input(x) = [views |-> Views(x), results |-> Facts(x), actors |-> Actors(x)]
    BY Zenon DEF Input
  <2> HIDE DEF Fact, Views, Facts, Actors
  <2>3. \A x : Input(x).views = Views(x) /\ Input(x).results = Facts(x) /\ Input(x).actors = Actors(x)
    BY <2>2
  <2> QED
    BY <2>1, <2>3
<1>7. /\ DOMAIN oneViews = 1..n /\ DOMAIN otherViews = 1..n
      /\ DOMAIN oneResults = 1..n /\ DOMAIN otherResults = 1..n
  BY <1>3, ListFacts DEF TellsOf, Tells
<1>8. ASSUME NEW k \in 1..n
      PROVE  /\ oneViews[k] = View(s, StreamOf(s, KindOf(a)), SelectionOf(s, a)[k], k)
             /\ otherViews[k] = View(s, StreamOf(s, KindOf(b)), SelectionOf(s, b)[k], k)
             /\ oneResults[k] = Finding(s, StreamOf(s, KindOf(a)), SelectionOf(s, a)[k], PlaceOf(s, a)[k], k)
             /\ otherResults[k] = Finding(s, StreamOf(s, KindOf(b)), SelectionOf(s, b)[k], PlaceOf(s, b)[k], k)
  BY <1>3 DEF TellsOf, Tells
<1>9. w \in a <=> w \in b
  <2> DEFINE k == s.change + 1
             v == oneViews[k]
             u == otherViews[k]
  <2>1. k \in 1..n /\ k > s.change
    BY <1>4
  <2> HIDE DEF k
  <2>2. [v EXCEPT !.id = k] = [u EXCEPT !.id = k]
    <3> DEFINE f == Views(one)
               g == Views(other)
    <3>1. f[k] = [v EXCEPT !.id = k] /\ g[k] = [u EXCEPT !.id = k]
      BY <1>7, <2>1
    <3>2. f = g
      BY <1>6
    <3> HIDE DEF f, g
    <3> QED
      BY <3>1, <3>2
  <2>3. /\ v = View(s, StreamOf(s, KindOf(a)), SelectionOf(s, a)[k], k)
        /\ u = View(s, StreamOf(s, KindOf(b)), SelectionOf(s, b)[k], k)
    BY <1>8, <2>1
  <2> HIDE DEF u, v
  <2>4. v.selection = u.selection
    <3>1. [v EXCEPT !.id = k].selection = v.selection /\ [u EXCEPT !.id = k].selection = u.selection
      BY <2>3 DEF View
    <3> QED
      BY <2>2, <3>1
  <2>5. SelectionOf(s, a)[k] = SelectionOf(s, b)[k]
    BY <2>3, <2>4 DEF View
  <2> QED
    BY <1>4, <2>1, <2>5 DEF SelectionOf
<1>10. PICK k \in (s.change + 1)..n :
         /\ Met(s, StreamOf(s, KindOf(a)), SelectionOf(s, a)[k], k) = "detected"
         /\ r = Finding(s, StreamOf(s, KindOf(a)), SelectionOf(s, a)[k], PlaceOf(s, a)[k], k)
  <2> DEFINE id == StreamOf(s, KindOf(a))
             sel == SelectionOf(s, a)
             place == PlaceOf(s, a)
  <2>1. Tells(one.seen, s, id, sel, place)
    BY <1>3 DEF TellsOf
  <2> HIDE DEF id, sel, place
  <2>2. \E k \in (s.change + 1)..n : Met(s, id, sel[k], k) = "detected" /\ r = Finding(s, id, sel[k], place[k], k)
    BY <1>1, <1>5, <2>1, HitsAre
  <2> QED
    BY <2>2 DEF id, sel, place
<1>11. k \in 1..n /\ k > s.change
  BY <1>4
<1>12. oneResults[k].outcome = "detected" /\ oneResults[k].location = PlaceOf(s, a)[k]
  <2> DEFINE id == StreamOf(s, KindOf(a))
             sel == SelectionOf(s, a)[k]
             place == PlaceOf(s, a)[k]
  <2>1. oneResults[k] = Finding(s, id, sel, place, k) /\ Met(s, id, sel, k) = "detected"
    BY <1>8, <1>10, <1>11
  <2> HIDE DEF id, sel, place
  <2>2. oneResults[k].outcome = "detected" /\ oneResults[k].location = place
    BY <2>1 DEF Finding
  <2> QED
    BY <2>2 DEF place
<1>13. otherResults[k].outcome = "detected" /\ otherResults[k].location = PlaceOf(s, a)[k]
  <2> DEFINE f == Facts(one)
             g == Facts(other)
  <2>1. f[k] = Fact(oneResults[k]) /\ g[k] = Fact(otherResults[k])
    BY <1>7, <1>11
  <2>2. f = g
    BY <1>6
  <2> HIDE DEF f, g
  <2>3. Fact(oneResults[k]) = Fact(otherResults[k])
    BY <2>1, <2>2
  <2> QED
    BY <1>12, <2>3
<1>14. PlaceOf(s, b)[k] = PlaceOf(s, a)[k]
  <2> DEFINE id == StreamOf(s, KindOf(b))
             sel == SelectionOf(s, b)[k]
             place == PlaceOf(s, b)[k]
  <2>1. otherResults[k] = Finding(s, id, sel, place, k)
    BY <1>8, <1>11
  <2> HIDE DEF id, sel, place
  <2>2. otherResults[k].outcome = "detected" => otherResults[k].location = place
    BY <2>1 DEF Finding
  <2>3. PlaceOf(s, a)[k] = place
    BY <1>13, <2>2
  <2> QED
    BY <2>3 DEF place
<1>15. a = {w} <=> b = {w}
  BY <1>11, <1>14 DEF PlaceOf
<1>16. ActorAfter(a) = ActorAfter(b)
  <2> DEFINE e == [detection |-> r, named |-> ActorAfter(a), track |-> cn]
  <2>1. e \in one.evidence
    BY <1>3, <1>5 DEF ActorEvidence, Hits
  <2>2. <<Fact(r), ActorAfter(a)>> \in Actors(one)
    BY <2>1
  <2>3. PICK x \in other.evidence : <<Fact(r), ActorAfter(a)>> = <<Fact(x.detection), x.named>>
    <3> HIDE DEF Fact
    <3>1. <<Fact(r), ActorAfter(a)>> \in Actors(other)
      BY <1>6, <2>2
    <3> QED
      BY <3>1
  <2>4. x.named = ActorAfter(b)
    BY <1>3, <2>3 DEF ActorEvidence
  <2> QED
    BY <2>3, <2>4
<1> QED
  BY <1>9, <1>15, <1>16, FamiliesApart

(* The inductive invariant.                                                *)
THEOREM ScenariosAreMade == ShiftSpec => []ShiftInv
<1>1. ShiftInit => ShiftInv
  BY ShiftInitInv
<1>2. ShiftInv /\ [ShiftNext]_shiftVars => ShiftInv'
  BY ShiftNextInv
<1> QED
  BY <1>1, <1>2, PTL DEF ShiftSpec

(* The cases of the shift scenarios pose the question they are labelled    *)
(* with, for any scenario and whatever is drawn: a pair differs in the one *)
(* factor its cause names and agrees until the change, evidence names who  *)
(* moved the object, what is labelled as not identifiable looks the same,  *)
(* and a detection since the change tells all other causes apart.          *)
THEOREM ScenarioSafety == ShiftSpec => []CasesPoseTheirQuestion
<1>1. ShiftInv => CasesPoseTheirQuestion
  BY CasesAreBuilt, PairsAgree, EvidenceIsRight, TheyLookAlike, LeakageEnds, InputsTellCauses
  DEF CasesPoseTheirQuestion
<1> QED
  BY <1>1, ScenariosAreMade, PTL

-----------------------------------------------------------------------------
(* M32, the evaluation of runs.                                            *)

(* Detections, the events that each of them can be of, and events that are *)
(* given a detection.                                                      *)
Assigned(eligible, given, truth) ==
  /\ IsFiniteSet(truth) /\ \A e \in truth : e.time \in Int
  /\ \A d \in DOMAIN eligible : eligible[d] \subseteq truth
  /\ DOMAIN given \subseteq truth
  /\ \A e \in DOMAIN given : given[e] \in DOMAIN eligible /\ e \in eligible[given[e]]
  /\ \A e, o \in DOMAIN given : given[e] = given[o] => e = o

Froms(eligible, truth) == (SUBSET truth) \X DOMAIN eligible

(* The body of augment.                                                    *)
Turned(eligible, given, from, f) ==
  LET rest   == eligible[from[2]] \ from[1]
      event  == Earliest(rest)
      seen   == from[1] \cup {event}
      moving == IF event \in DOMAIN given THEN f[<<seen, given[event]>>]
                ELSE [found |-> TRUE, visited |-> seen, given |-> given]
  IN  IF rest = {} THEN [found |-> FALSE, visited |-> from[1], given |-> given]
      ELSE IF moving.found THEN [moving EXCEPT !.given = GivenTo(from[2], event, @)]
      ELSE f[<<moving.visited, from[2]>>]

(* There is an earliest event.                                             *)
LEMMA EarliestIsIn ==
  ASSUME NEW S, IsFiniteSet(S), \A e \in S : e.time \in Int, S # {}
  PROVE  Earliest(S) \in S
<1> DEFINE W == {T \in SUBSET S : T # {} => \E e \in T : \A o \in T : e.time <= o.time}
<1>1. {} \in W
  OBVIOUS
<1>2. ASSUME NEW T \in SUBSET S, NEW x \in S \ T, T \in W PROVE T \cup {x} \in W
  <2>1. CASE T = {}
    BY <2>1
  <2>2. CASE T # {}
    <3>1. PICK e \in T : \A o \in T : e.time <= o.time
      BY <1>2, <2>2
    <3>2. e.time \in Int /\ x.time \in Int /\ \A o \in T : o.time \in Int
      OBVIOUS
    <3>3. CASE e.time <= x.time
      BY <3>1, <3>3
    <3>4. CASE x.time <= e.time
      BY <3>1, <3>2, <3>4
    <3> QED
      BY <3>2, <3>3, <3>4
  <2> QED
    BY <2>1, <2>2
<1> HIDE DEF W
<1>3. SUBSET S \subseteq W
  BY <1>1, <1>2, SetInduction
<1>4. \E e \in S : \A o \in S : e.time <= o.time
  BY <1>3 DEF W
<1> QED
  BY <1>4 DEF Earliest

(* What a turn looks at.                                                   *)
LEMMA TurnedFacts ==
  ASSUME NEW eligible, NEW given, NEW truth, Assigned(eligible, given, truth),
         NEW v \in SUBSET truth, NEW d \in DOMAIN eligible, eligible[d] \ v # {}
  PROVE  LET event == Earliest(eligible[d] \ v)
         IN  /\ event \in eligible[d] /\ event \in truth /\ event \notin v
             /\ v \cup {event} \in SUBSET truth
             /\ event \in DOMAIN given => given[event] \in DOMAIN eligible
<1>1. eligible[d] \ v \subseteq truth /\ IsFiniteSet(truth)
  BY DEF Assigned
<1>2. IsFiniteSet(eligible[d] \ v) /\ \A e \in eligible[d] \ v : e.time \in Int
  BY <1>1, FS_Subset DEF Assigned
<1>3. Earliest(eligible[d] \ v) \in eligible[d] \ v
  BY <1>2, EarliestIsIn
<1> QED
  BY <1>1, <1>3 DEF Assigned

(* Two functions agree on, and go on from, what comes when more than v was *)
(* visited.                                                                *)
AlikeAfter(eligible, truth, v, f, g) ==
  \A w \in SUBSET truth : \A x \in DOMAIN eligible :
    (v \subseteq w /\ w # v) =>
      /\ f[<<w, x>>] = g[<<w, x>>]
      /\ w \subseteq f[<<w, x>>].visited /\ f[<<w, x>>].visited \subseteq truth

(* A turn depends on what comes after more was visited only.               *)
LEMMA TurnedLater ==
  ASSUME NEW eligible, NEW given, NEW truth, Assigned(eligible, given, truth),
         NEW v \in SUBSET truth, NEW d \in DOMAIN eligible, NEW f, NEW g,
         AlikeAfter(eligible, truth, v, f, g)
  PROVE  /\ Turned(eligible, given, <<v, d>>, f) = Turned(eligible, given, <<v, d>>, g)
         /\ v \subseteq Turned(eligible, given, <<v, d>>, f).visited
         /\ Turned(eligible, given, <<v, d>>, f).visited \subseteq truth
<1> DEFINE rest == eligible[d] \ v
           event == Earliest(rest)
           seen == v \cup {event}
           moving(h) == IF event \in DOMAIN given THEN h[<<seen, given[event]>>]
                        ELSE [found |-> TRUE, visited |-> seen, given |-> given]
           turned(h) == Turned(eligible, given, <<v, d>>, h)
<1>0. \A h : turned(h) =
        IF rest = {} THEN [found |-> FALSE, visited |-> v, given |-> given]
        ELSE IF moving(h).found THEN [moving(h) EXCEPT !.given = GivenTo(d, event, @)]
        ELSE h[<<moving(h).visited, d>>]
  BY DEF Turned
<1>1. CASE rest = {}
  BY <1>0, <1>1
<1>2. CASE rest # {}
  <2>1. event \in truth /\ event \notin v /\ seen \in SUBSET truth
        /\ (event \in DOMAIN given => given[event] \in DOMAIN eligible)
    BY <1>2, TurnedFacts
  <2>2. v \subseteq seen /\ seen # v
    BY <2>1
  <2>3. moving(f) = moving(g) /\ seen \subseteq moving(f).visited /\ moving(f).visited \subseteq truth
    BY <2>1, <2>2 DEF AlikeAfter
  <2> HIDE DEF moving, seen, event, rest, turned
  <2>4. CASE moving(f).found
    <3>1. turned(f) = [moving(f) EXCEPT !.given = GivenTo(d, event, @)] /\ turned(g) = turned(f)
      BY <1>0, <1>2, <2>3, <2>4
    <3>2. [moving(f) EXCEPT !.given = GivenTo(d, event, @)].visited = moving(f).visited
      BY <2>3 DEF moving
    <3> QED
      BY <2>2, <2>3, <3>1, <3>2 DEF turned
  <2>5. CASE ~ moving(f).found
    <3>1. turned(f) = f[<<moving(f).visited, d>>] /\ turned(g) = g[<<moving(f).visited, d>>]
      BY <1>0, <1>2, <2>3, <2>5
    <3>2. moving(f).visited \in SUBSET truth /\ v \subseteq moving(f).visited /\ moving(f).visited # v
      BY <2>2, <2>3
    <3> DEFINE w == moving(f).visited
    <3>3. f[<<w, d>>] = g[<<w, d>>] /\ w \subseteq f[<<w, d>>].visited /\ f[<<w, d>>].visited \subseteq truth
      BY <3>2 DEF AlikeAfter
    <3> QED
      BY <2>3, <3>1, <3>2, <3>3 DEF turned
  <2> QED
    BY <2>4, <2>5
<1> HIDE DEF rest, event, seen, moving, turned
<1> QED
  BY <1>1, <1>2

(* There is a function whose values are turns that use it: turns visit     *)
(* more and more.                                                          *)
LEMMA AugmentExists ==
  ASSUME NEW eligible, NEW given, NEW truth, Assigned(eligible, given, truth)
  PROVE  \E f : f = [from \in Froms(eligible, truth) |-> Turned(eligible, given, from, f)]
<1> DEFINE Dom == Froms(eligible, truth)
           left(from) == Cardinality(truth \ from[1])
           Solves(f, n) ==
             \A from \in Dom : left(from) <= n =>
               /\ f[from] = Turned(eligible, given, from, f)
               /\ from[1] \subseteq f[from].visited /\ f[from].visited \subseteq truth
           N == {n \in Nat : \E f : Solves(f, n)}
<1>1. IsFiniteSet(truth)
  BY DEF Assigned
<1>2. ASSUME NEW w \in SUBSET truth
      PROVE  /\ IsFiniteSet(truth \ w) /\ Cardinality(truth \ w) \in Nat
             /\ \A v \in SUBSET truth :
                  v \subseteq w /\ w # v => Cardinality(truth \ w) < Cardinality(truth \ v)
  <2>1. \A v \in SUBSET truth : IsFiniteSet(truth \ v) /\ Cardinality(truth \ v) \in Nat
    BY <1>1, FS_Subset, FS_CardinalityType
  <2>2. ASSUME NEW v \in SUBSET truth, v \subseteq w, w # v
        PROVE  Cardinality(truth \ w) < Cardinality(truth \ v)
    <3>1. truth \ w \subseteq truth \ v /\ truth \ w # truth \ v
      BY <2>2
    <3> QED
      BY <2>1, <3>1, FS_Subset
  <2> QED
    BY <2>1, <2>2
<1>3. \A v \in SUBSET truth : \A d \in DOMAIN eligible :
        <<v, d>> \in Dom /\ <<v, d>>[1] = v /\ left(<<v, d>>) = Cardinality(truth \ v)
  BY DEF Froms
<1>4. \A from \in Dom : \E v \in SUBSET truth, d \in DOMAIN eligible : from = <<v, d>>
  BY DEF Froms
<1> HIDE DEF Dom, left
<1>5. ASSUME NEW f, NEW n \in Nat,
             \A v \in SUBSET truth : \A d \in DOMAIN eligible : Cardinality(truth \ v) < n =>
               /\ f[<<v, d>>] = Turned(eligible, given, <<v, d>>, f)
               /\ v \subseteq f[<<v, d>>].visited /\ f[<<v, d>>].visited \subseteq truth
      PROVE  n \in N
  <2> DEFINE g == [from \in Dom |-> IF left(from) < n THEN f[from] ELSE Turned(eligible, given, from, f)]
  <2>1. ASSUME NEW v \in SUBSET truth, NEW d \in DOMAIN eligible, Cardinality(truth \ v) <= n
        PROVE  /\ g[<<v, d>>] = Turned(eligible, given, <<v, d>>, g)
               /\ v \subseteq g[<<v, d>>].visited /\ g[<<v, d>>].visited \subseteq truth
    <3>1. AlikeAfter(eligible, truth, v, f, g)
      <4> SUFFICES ASSUME NEW w \in SUBSET truth, NEW x \in DOMAIN eligible, v \subseteq w, w # v
                   PROVE  /\ f[<<w, x>>] = g[<<w, x>>]
                          /\ w \subseteq f[<<w, x>>].visited /\ f[<<w, x>>].visited \subseteq truth
        BY DEF AlikeAfter
      <4>1. Cardinality(truth \ w) < n
        <5>1. Cardinality(truth \ w) < Cardinality(truth \ v) /\ Cardinality(truth \ w) \in Nat
              /\ Cardinality(truth \ v) \in Nat
          BY <1>2
        <5> QED
          BY <2>1, <5>1
      <4>2. g[<<w, x>>] = f[<<w, x>>]
        BY <1>3, <4>1
      <4> QED
        BY <1>5, <4>1, <4>2
    <3> HIDE DEF g
    <3>2. /\ Turned(eligible, given, <<v, d>>, f) = Turned(eligible, given, <<v, d>>, g)
          /\ v \subseteq Turned(eligible, given, <<v, d>>, f).visited
          /\ Turned(eligible, given, <<v, d>>, f).visited \subseteq truth
      BY <3>1, TurnedLater
    <3>3. g[<<v, d>>] = Turned(eligible, given, <<v, d>>, f)
      <4>1. g[<<v, d>>] = IF Cardinality(truth \ v) < n THEN f[<<v, d>>]
                          ELSE Turned(eligible, given, <<v, d>>, f)
        BY <1>3 DEF g
      <4> QED
        BY <1>5, <4>1
    <3> QED
      BY <3>2, <3>3
  <2> HIDE DEF g
  <2>2. Solves(g, n)
    <3> SUFFICES ASSUME NEW from \in Dom, left(from) <= n
                 PROVE  /\ g[from] = Turned(eligible, given, from, g)
                        /\ from[1] \subseteq g[from].visited /\ g[from].visited \subseteq truth
      OBVIOUS
    <3>1. PICK v \in SUBSET truth, d \in DOMAIN eligible : from = <<v, d>>
      BY <1>4
    <3>2. from[1] = v /\ Cardinality(truth \ v) <= n
      BY <1>3, <3>1
    <3> QED
      BY <2>1, <3>1, <3>2
  <2> QED
    BY <2>2
<1>6. 0 \in N
  <2>0. \A m \in Nat : ~ (m < 0)
    OBVIOUS
  <2>1. \A v \in SUBSET truth : ~ (Cardinality(truth \ v) < 0)
    <3> SUFFICES ASSUME NEW v \in SUBSET truth PROVE ~ (Cardinality(truth \ v) < 0)
      OBVIOUS
    <3>1. Cardinality(truth \ v) \in Nat
      BY <1>2
    <3> QED
      BY <2>0, <3>1
  <2> QED
    BY <1>5, <2>1
<1>7. ASSUME NEW n \in Nat, n \in N PROVE n + 1 \in N
  <2>1. PICK f : Solves(f, n)
    BY <1>7
  <2>2. \A v \in SUBSET truth : \A d \in DOMAIN eligible : Cardinality(truth \ v) < n + 1 =>
          /\ f[<<v, d>>] = Turned(eligible, given, <<v, d>>, f)
          /\ v \subseteq f[<<v, d>>].visited /\ f[<<v, d>>].visited \subseteq truth
    <3> SUFFICES ASSUME NEW v \in SUBSET truth, NEW d \in DOMAIN eligible, Cardinality(truth \ v) < n + 1
                 PROVE  /\ f[<<v, d>>] = Turned(eligible, given, <<v, d>>, f)
                        /\ v \subseteq f[<<v, d>>].visited /\ f[<<v, d>>].visited \subseteq truth
      OBVIOUS
    <3>0. Cardinality(truth \ v) \in Nat
      BY <1>2
    <3>1. Cardinality(truth \ v) <= n
      BY <3>0
    <3>2. left(<<v, d>>) <= n /\ <<v, d>> \in Dom /\ <<v, d>>[1] = v
      BY <1>3, <3>1
    <3> QED
      BY <2>1, <3>2
  <2> HIDE DEF Solves
  <2>3. n + 1 \in Nat
    OBVIOUS
  <2> HIDE DEF N
  <2> QED
    BY <1>5, <2>2, <2>3
<1> DEFINE m == Cardinality(truth)
<1>8. m \in N
  <2> HIDE DEF N
  <2>1. Nat \subseteq N
    BY <1>6, <1>7, NatSetInduction
  <2> QED
    BY <1>1, <2>1, FS_CardinalityType
<1>9. PICK f : Solves(f, m)
  BY <1>8
<1> DEFINE g == [from \in Dom |-> f[from]]
<1>10. ASSUME NEW v \in SUBSET truth, NEW d \in DOMAIN eligible
       PROVE  /\ g[<<v, d>>] = f[<<v, d>>]
              /\ f[<<v, d>>] = Turned(eligible, given, <<v, d>>, f)
              /\ v \subseteq f[<<v, d>>].visited /\ f[<<v, d>>].visited \subseteq truth
  <2>1. truth \ v \subseteq truth
    OBVIOUS
  <2>2. Cardinality(truth \ v) <= m
    BY <1>1, <2>1, FS_Subset
  <2>3. left(<<v, d>>) <= m /\ <<v, d>> \in Dom /\ <<v, d>>[1] = v
    BY <1>3, <2>2
  <2> QED
    BY <1>9, <2>3
<1> HIDE DEF g
<1>11. ASSUME NEW from \in Dom PROVE g[from] = Turned(eligible, given, from, g)
  <2>1. PICK v \in SUBSET truth, d \in DOMAIN eligible : from = <<v, d>>
    BY <1>4
  <2>2. Turned(eligible, given, <<v, d>>, f) = Turned(eligible, given, <<v, d>>, g)
    <3>1. AlikeAfter(eligible, truth, v, f, g)
      BY <1>10 DEF AlikeAfter
    <3> QED
      BY <3>1, TurnedLater
  <2> QED
    BY <1>10, <2>1, <2>2
<1>12. g = [from \in Dom |-> Turned(eligible, given, from, g)]
  <2>1. g = [from \in Dom |-> f[from]]
    BY DEF g
  <2>2. DOMAIN g = Dom /\ g = [from \in Dom |-> g[from]]
    BY <2>1
  <2> QED
    BY <1>11, <2>2
<1> QED
  BY <1>12 DEF Dom

(* A turn of augment is one that uses augment.                             *)
LEMMA AugmentTurn ==
  ASSUME NEW eligible, NEW given, NEW truth, Assigned(eligible, given, truth),
         NEW v \in SUBSET truth, NEW d \in DOMAIN eligible
  PROVE  Augment(eligible, given, truth)[<<v, d>>] =
           Turned(eligible, given, <<v, d>>, Augment(eligible, given, truth))
<1> DEFINE f == Augment(eligible, given, truth)
<1>1. f = CHOOSE g : g = [from \in Froms(eligible, truth) |-> Turned(eligible, given, from, g)]
  BY Zenon DEF Augment, Turned, Froms
<1> HIDE DEF f
<1>2. f = [from \in Froms(eligible, truth) |-> Turned(eligible, given, from, f)]
  BY <1>1, AugmentExists
<1>3. <<v, d>> \in Froms(eligible, truth)
  BY DEF Froms
<1> QED
  BY <1>2, <1>3, Zenon DEF f

(* The events that a detection was given before.                           *)
Own(given, d) == {e \in DOMAIN given : given[e] = d}

(* Events whose detections can be of no others.                            *)
Closed(eligible, given, V) ==
  V \subseteq DOMAIN given /\ \A e \in V : eligible[given[e]] \subseteq V

(* The detection d finds an event when one more is given to some           *)
(* detection, and all that were given one keep one.  What d was given      *)
(* before it still has.                                                    *)
Finds(eligible, given, truth, v, d, g) ==
  /\ \E new \in truth \ (DOMAIN given \cup v) : DOMAIN g = DOMAIN given \cup {new}
  /\ \A e \in DOMAIN g : g[e] \in DOMAIN eligible /\ e \in eligible[g[e]]
  /\ \A e \in DOMAIN given \cap v : g[e] = given[e]
  /\ \A x, y \in DOMAIN g \ Own(given, d) : g[x] = g[y] => x = y
  /\ \A e \in DOMAIN g \ Own(given, d) : g[e] = d \/ \E o \in DOMAIN given : g[e] = given[o]
  /\ \E e \in DOMAIN g \ Own(given, d) : g[e] = d
  /\ \A o \in DOMAIN given : \E e \in DOMAIN g \ Own(given, d) : g[e] = given[o]
  /\ \A V \in SUBSET DOMAIN given : Closed(eligible, given, V) =>
       ~ (eligible[d] \subseteq V) /\ \A e \in V : g[e] = given[e]

(* It finds none when those it could be given, and those that their        *)
(* detections could be given instead, are all taken.                       *)
FindsNone(eligible, given, v, d, visited) ==
  /\ eligible[d] \subseteq visited
  /\ \A e \in visited \ v : e \in DOMAIN given /\ eligible[given[e]] \subseteq visited

AugmentOK(eligible, given, truth, v, d, r) ==
  /\ r = [found |-> r.found, visited |-> r.visited, given |-> r.given]
  /\ r.found \in BOOLEAN /\ v \subseteq r.visited /\ r.visited \subseteq truth
  /\ r.found => Finds(eligible, given, truth, v, d, r.given)
  /\ ~ r.found => r.given = given /\ FindsNone(eligible, given, v, d, r.visited)

(* An event that no detection was given yet.                               *)
LEMMA FreeEvent ==
  ASSUME NEW eligible, NEW given, NEW truth, Assigned(eligible, given, truth),
         NEW v \in SUBSET truth, NEW d \in DOMAIN eligible, Own(given, d) \subseteq v,
         NEW event \in eligible[d] \ v, event \notin DOMAIN given
  PROVE  Finds(eligible, given, truth, v, d, GivenTo(d, event, given))
<1> DEFINE g == GivenTo(d, event, given)
           own == Own(given, d)
<1>1. /\ DOMAIN g = DOMAIN given \cup {event} /\ g[event] = d
      /\ \A e \in DOMAIN given : g[e] = given[e]
  BY DEF GivenTo
<1>2. event \in truth /\ \A e \in own : e \in DOMAIN given /\ given[e] = d
  BY DEF Assigned, Own
<1>3. \A e \in DOMAIN given : given[e] = d => e \in own
  BY DEF Own
<1>4. /\ \A e \in DOMAIN given : given[e] \in DOMAIN eligible /\ e \in eligible[given[e]]
      /\ \A e, o \in DOMAIN given : given[e] = given[o] => e = o
  BY DEF Assigned
<1> HIDE DEF g
<1>5. \E new \in truth \ (DOMAIN given \cup v) : DOMAIN g = DOMAIN given \cup {new}
  BY <1>1, <1>2
<1>6. \A e \in DOMAIN g : g[e] \in DOMAIN eligible /\ e \in eligible[g[e]]
  BY <1>1, <1>4
<1>7. \A e \in DOMAIN given \cap v : g[e] = given[e]
  BY <1>1
<1> HIDE DEF own
<1>8. \A x, y \in DOMAIN g \ own : g[x] = g[y] => x = y
  BY <1>1, <1>3, <1>4
<1>9. /\ \A e \in DOMAIN g \ own : g[e] = d \/ \E o \in DOMAIN given : g[e] = given[o]
      /\ \E e \in DOMAIN g \ own : g[e] = d
  BY <1>1, <1>2
<1>10. ASSUME NEW o \in DOMAIN given PROVE \E e \in DOMAIN g \ own : g[e] = given[o]
  <2>1. CASE given[o] = d
    BY <1>9, <2>1
  <2>2. CASE given[o] # d
    BY <1>1, <1>2, <2>2
  <2> QED
    BY <2>1, <2>2
<1>11. \A V \in SUBSET DOMAIN given : ~ (eligible[d] \subseteq V) /\ \A e \in V : g[e] = given[e]
  BY <1>1
<1> QED
  BY <1>5, <1>6, <1>7, <1>8, <1>9, <1>10, <1>11 DEF Finds, own, g

(* An event whose detection finds another one.                             *)
LEMMA TakenEvent ==
  ASSUME NEW eligible, NEW given, NEW truth, Assigned(eligible, given, truth),
         NEW v \in SUBSET truth, NEW d \in DOMAIN eligible, Own(given, d) \subseteq v,
         NEW event \in eligible[d] \ v, event \in DOMAIN given,
         NEW h, Finds(eligible, given, truth, v \cup {event}, given[event], h)
  PROVE  Finds(eligible, given, truth, v, d, GivenTo(d, event, h))
<1> DEFINE g == GivenTo(d, event, h)
           own == Own(given, d)
           other == given[event]
<1>0. Own(given, other) = {event}
  BY DEF Assigned, Own
<1>1. PICK new \in truth \ (DOMAIN given \cup (v \cup {event})) : DOMAIN h = DOMAIN given \cup {new}
  BY DEF Finds
<1>2. /\ \A e \in DOMAIN h : h[e] \in DOMAIN eligible /\ e \in eligible[h[e]]
      /\ \A e \in DOMAIN given \cap (v \cup {event}) : h[e] = given[e]
  BY DEF Finds
<1>3. /\ \A x, y \in DOMAIN h \ {event} : h[x] = h[y] => x = y
      /\ \A e \in DOMAIN h \ {event} : h[e] = other \/ \E o \in DOMAIN given : h[e] = given[o]
      /\ \A o \in DOMAIN given : \E e \in DOMAIN h \ {event} : h[e] = given[o]
  BY <1>0 DEF Finds
<1>4. \A V \in SUBSET DOMAIN given : Closed(eligible, given, V) =>
        ~ (eligible[other] \subseteq V) /\ \A e \in V : h[e] = given[e]
  BY DEF Finds
<1>5. /\ DOMAIN g = DOMAIN h /\ g[event] = d
      /\ \A e \in DOMAIN h : e # event => g[e] = h[e]
  BY <1>1 DEF GivenTo
<1>6. \A e \in own : e \in DOMAIN given /\ given[e] = d /\ e \in v /\ e # event /\ h[e] = d
  BY <1>2 DEF Own
<1>7. \A e \in DOMAIN given : given[e] = d => e \in own
  BY DEF Own
<1>8. \A e \in DOMAIN h \ {event} : h[e] = d => e \in own
  <2>1. ASSUME NEW e \in DOMAIN h \ {event}, h[e] = d PROVE e \in own
    <3>1. PICK o \in DOMAIN given : d = given[o]
      BY <1>3, <2>1
    <3>2. o \in own
      BY <1>7, <3>1
    <3>3. o \in DOMAIN h \ {event} /\ h[o] = h[e]
      BY <1>1, <1>6, <2>1, <3>2
    <3> QED
      BY <1>3, <3>2, <3>3
  <2> QED
    BY <2>1
<1> HIDE DEF g, own
<1>9. \E x \in truth \ (DOMAIN given \cup v) : DOMAIN g = DOMAIN given \cup {x}
  BY <1>1, <1>5
<1>10. \A e \in DOMAIN g : g[e] \in DOMAIN eligible /\ e \in eligible[g[e]]
  BY <1>2, <1>5
<1>11. \A e \in DOMAIN given \cap v : g[e] = given[e]
  BY <1>1, <1>2, <1>5
<1>12. \A x, y \in DOMAIN g \ own : g[x] = g[y] => x = y
  BY <1>3, <1>5, <1>8
<1>13. /\ \A e \in DOMAIN g \ own : g[e] = d \/ \E o \in DOMAIN given : g[e] = given[o]
       /\ \E e \in DOMAIN g \ own : g[e] = d
  <2>1. event \in DOMAIN g \ own
    BY <1>1, <1>5, <1>6
  <2>2. \A e \in DOMAIN h \ {event} : \E o \in DOMAIN given : h[e] = given[o]
    BY <1>3
  <2> QED
    BY <1>5, <2>1, <2>2
<1>14. ASSUME NEW o \in DOMAIN given PROVE \E e \in DOMAIN g \ own : g[e] = given[o]
  <2>1. CASE given[o] = d
    BY <1>13, <2>1
  <2>2. CASE given[o] # d
    <3>1. PICK e \in DOMAIN h \ {event} : h[e] = given[o]
      BY <1>3
    <3>2. e \notin own
      BY <1>6, <2>2, <3>1
    <3> QED
      BY <1>5, <3>1, <3>2
  <2> QED
    BY <2>1, <2>2
<1>15. ASSUME NEW V \in SUBSET DOMAIN given, Closed(eligible, given, V)
       PROVE  ~ (eligible[d] \subseteq V) /\ \A e \in V : g[e] = given[e]
  <2>1. event \notin V
    BY <1>4, <1>15 DEF Closed
  <2>2. \A e \in V : g[e] = h[e] /\ h[e] = given[e]
    BY <1>1, <1>4, <1>5, <1>15, <2>1
  <2> QED
    BY <2>1, <2>2
<1> QED
  BY <1>9, <1>10, <1>11, <1>12, <1>13, <1>14, <1>15 DEF Finds, own, g

(* Finding an event when more was visited is finding one.                  *)
LEMMA FindsLater ==
  ASSUME NEW eligible, NEW given, NEW truth, NEW v, NEW w, v \subseteq w, NEW d, NEW g,
         Finds(eligible, given, truth, w, d, g)
  PROVE  Finds(eligible, given, truth, v, d, g)
<1>1. \E new \in truth \ (DOMAIN given \cup v) : DOMAIN g = DOMAIN given \cup {new}
  BY DEF Finds
<1>2. \A e \in DOMAIN given \cap v : g[e] = given[e]
  BY DEF Finds
<1> QED
  BY <1>1, <1>2 DEF Finds

(* What a detection finds, from whatever was visited.                      *)
LEMMA AugmentFinds ==
  ASSUME NEW eligible, NEW given, NEW truth, Assigned(eligible, given, truth)
  PROVE  \A v \in SUBSET truth : \A d \in DOMAIN eligible : Own(given, d) \subseteq v =>
           AugmentOK(eligible, given, truth, v, d, Augment(eligible, given, truth)[<<v, d>>])
<1> DEFINE f == Augment(eligible, given, truth)
           OK(v, d) == AugmentOK(eligible, given, truth, v, d, f[<<v, d>>])
           W == {T \in SUBSET truth :
                   \A d \in DOMAIN eligible : Own(given, d) \subseteq truth \ T => OK(truth \ T, d)}
<1>1. ASSUME NEW T \in SUBSET truth, \A U \in SUBSET T : U # T => U \in W
      PROVE  T \in W
  <2> SUFFICES ASSUME NEW d \in DOMAIN eligible, Own(given, d) \subseteq truth \ T
               PROVE  OK(truth \ T, d)
    OBVIOUS
  <2> DEFINE v == truth \ T
             rest == eligible[d] \ v
             event == Earliest(rest)
             seen == v \cup {event}
             moving == IF event \in DOMAIN given THEN f[<<seen, given[event]>>]
                       ELSE [found |-> TRUE, visited |-> seen, given |-> given]
             r == f[<<v, d>>]
  <2>1. ASSUME NEW w \in SUBSET truth, v \subseteq w, w # v,
               NEW x \in DOMAIN eligible, Own(given, x) \subseteq w
        PROVE  OK(w, x)
    <3> DEFINE U == truth \ w
    <3>1. U \in SUBSET T /\ U # T /\ truth \ U = w
      BY <2>1
    <3> HIDE DEF OK
    <3>2. U \in W
      BY <1>1, <3>1
    <3> QED
      BY <2>1, <3>1, <3>2
  <2> HIDE DEF OK
  <2>2. v \in SUBSET truth
    OBVIOUS
  <2>3. r = IF rest = {} THEN [found |-> FALSE, visited |-> v, given |-> given]
            ELSE IF moving.found THEN [moving EXCEPT !.given = GivenTo(d, event, @)]
            ELSE f[<<moving.visited, d>>]
    <3> HIDE DEF v, f
    <3>1. r = Turned(eligible, given, <<v, d>>, f)
      BY <2>2, AugmentTurn DEF f
    <3>2. Turned(eligible, given, <<v, d>>, f) =
            IF rest = {} THEN [found |-> FALSE, visited |-> v, given |-> given]
            ELSE IF moving.found THEN [moving EXCEPT !.given = GivenTo(d, event, @)]
            ELSE f[<<moving.visited, d>>]
      BY DEF Turned
    <3> QED
      BY <3>1, <3>2
  <2> HIDE DEF f
  <2>4. CASE rest = {}
    <3>1. r = [found |-> FALSE, visited |-> v, given |-> given]
      BY <2>3, <2>4
    <3>2. FindsNone(eligible, given, v, d, v)
      BY <2>4 DEF FindsNone
    <3> HIDE DEF v, r
    <3>3. AugmentOK(eligible, given, truth, v, d, r)
      BY <2>2, <3>1, <3>2 DEF AugmentOK
    <3> QED
      BY <3>3 DEF OK, v, r
  <2>5. CASE rest # {}
    <3>1. /\ event \in eligible[d] /\ event \in truth /\ event \notin v
          /\ seen \in SUBSET truth
          /\ event \in DOMAIN given => given[event] \in DOMAIN eligible
      <4> HIDE DEF v
      <4> QED
        BY <2>2, <2>5, TurnedFacts
    <3>2. v \subseteq seen /\ seen # v
      BY <3>1
    <3>3. CASE event \notin DOMAIN given
      <4>1. r = [[found |-> TRUE, visited |-> seen, given |-> given] EXCEPT !.given = GivenTo(d, event, @)]
        BY <2>3, <2>5, <3>3
      <4>2. r = [found |-> TRUE, visited |-> seen, given |-> GivenTo(d, event, given)]
        BY <4>1
      <4> HIDE DEF v, event, seen, r, rest
      <4>3. Finds(eligible, given, truth, v, d, GivenTo(d, event, given))
        BY <2>2, <3>1, <3>3, FreeEvent DEF v
      <4>4. AugmentOK(eligible, given, truth, v, d, r)
        BY <3>1, <3>2, <4>2, <4>3 DEF AugmentOK
      <4> QED
        BY <4>4 DEF OK, v, r
    <3>4. CASE event \in DOMAIN given
      <4> DEFINE x == given[event]
      <4>1. moving = f[<<seen, x>>]
        BY <3>4
      <4>2. Own(given, x) \subseteq seen
        BY <3>1, <3>4 DEF Own, Assigned
      <4>3. OK(seen, x)
        BY <2>1, <3>1, <3>2, <3>4, <4>2
      <4> HIDE DEF v, event, seen, r, rest, moving, x
      <4>4. AugmentOK(eligible, given, truth, seen, x, moving)
        BY <4>1, <4>3 DEF OK
      <4>5. CASE moving.found
        <5>1. r = [moving EXCEPT !.given = GivenTo(d, event, @)]
          BY <2>3, <2>5, <4>5
        <5>2. r = [found |-> TRUE, visited |-> moving.visited, given |-> GivenTo(d, event, moving.given)]
          BY <4>4, <4>5, <5>1 DEF AugmentOK
        <5>3. Finds(eligible, given, truth, v \cup {event}, given[event], moving.given)
          BY <4>4, <4>5 DEF AugmentOK, seen, x
        <5>4. Finds(eligible, given, truth, v, d, GivenTo(d, event, moving.given))
          BY <2>2, <3>1, <3>4, <5>3, TakenEvent DEF v
        <5>5. seen \subseteq moving.visited /\ moving.visited \subseteq truth
          BY <4>4 DEF AugmentOK
        <5>6. AugmentOK(eligible, given, truth, v, d, r)
          BY <3>2, <5>2, <5>4, <5>5 DEF AugmentOK
        <5> QED
          BY <5>6 DEF OK, v, r
      <4>6. CASE ~ moving.found
        <5> DEFINE w == moving.visited
        <5>1. r = f[<<w, d>>]
          BY <2>3, <2>5, <4>6
        <5>2. /\ seen \subseteq w /\ w \subseteq truth
              /\ FindsNone(eligible, given, seen, x, w)
          BY <4>4, <4>6 DEF AugmentOK
        <5> HIDE DEF w
        <5>3. v \subseteq w /\ w # v /\ w \in SUBSET truth
          BY <3>2, <5>2
        <5>4. AugmentOK(eligible, given, truth, w, d, r)
          <6>1. Own(given, d) \subseteq w
            BY <5>3 DEF v
          <6>2. OK(w, d)
            BY <2>1, <5>3, <6>1
          <6> QED
            BY <5>1, <6>2 DEF OK
        <5>5. CASE r.found
          <6>1. Finds(eligible, given, truth, w, d, r.given)
            BY <5>4, <5>5 DEF AugmentOK
          <6>2. Finds(eligible, given, truth, v, d, r.given)
            BY <5>3, <6>1, FindsLater
          <6>3. AugmentOK(eligible, given, truth, v, d, r)
            BY <5>3, <5>4, <5>5, <6>2 DEF AugmentOK
          <6> QED
            BY <6>3 DEF OK, v, r
        <5>6. CASE ~ r.found
          <6>1. r.given = given /\ FindsNone(eligible, given, w, d, r.visited) /\ w \subseteq r.visited
            BY <5>4, <5>6 DEF AugmentOK
          <6>2. ASSUME NEW e \in r.visited \ v
                PROVE  e \in DOMAIN given /\ eligible[given[e]] \subseteq r.visited
            <7>1. CASE e \in r.visited \ w
              BY <6>1, <7>1 DEF FindsNone
            <7>2. CASE e \in w \ seen
              BY <5>2, <6>1, <7>2 DEF FindsNone
            <7>3. CASE e = event
              BY <3>4, <5>2, <6>1, <7>3 DEF FindsNone, x
            <7> QED
              BY <7>1, <7>2, <7>3 DEF seen
          <6>3. FindsNone(eligible, given, v, d, r.visited)
            BY <6>1, <6>2 DEF FindsNone
          <6>4. AugmentOK(eligible, given, truth, v, d, r)
            BY <5>3, <5>4, <5>6, <6>1, <6>3 DEF AugmentOK
          <6> QED
            BY <6>4 DEF OK, v, r
        <5> QED
          BY <5>5, <5>6
      <4> QED
        BY <4>5, <4>6
    <3> QED
      BY <3>3, <3>4
  <2> QED
    BY <2>4, <2>5
<1>2. IsFiniteSet(truth)
  BY DEF Assigned
<1> HIDE DEF W
<1>3. SUBSET truth \subseteq W
  BY <1>1, <1>2, SubsetInduction
<1>4. ASSUME NEW v \in SUBSET truth, NEW d \in DOMAIN eligible, Own(given, d) \subseteq v
      PROVE  OK(v, d)
  <2> DEFINE T == truth \ v
  <2>1. T \in SUBSET truth /\ truth \ T = v
    OBVIOUS
  <2> HIDE DEF OK
  <2>2. T \in W
    BY <1>3, <2>1
  <2> QED
    BY <1>4, <2>1, <2>2 DEF W
<1> QED
  BY <1>4

(* What the first k detections were given: each event one of them, and     *)
(* those that have none could only be of events in V, all of which are     *)
(* given to detections that could be of no others either.                  *)
GivenInTurn(eligible, truth, k, given) ==
  /\ Assigned(eligible, given, truth)
  /\ \A e \in DOMAIN given : given[e] <= k
  /\ \E V : /\ Closed(eligible, given, V)
            /\ \A d \in DOMAIN eligible :
                 (d <= k /\ \A e \in DOMAIN given : given[e] # d) => eligible[d] \subseteq V

(* The turn of the next detection.                                         *)
LEMMA NextTurn ==
  ASSUME NEW eligible, NEW truth, DOMAIN eligible \subseteq Nat, NEW k \in Nat, NEW given,
         GivenInTurn(eligible, truth, k, given), k + 1 \in DOMAIN eligible
  PROVE  GivenInTurn(eligible, truth, k + 1, Augment(eligible, given, truth)[<<{}, k + 1>>].given)
<1> DEFINE d == k + 1
           r == Augment(eligible, given, truth)[<<{}, d>>]
           g == r.given
<1>1. Assigned(eligible, given, truth) /\ \A e \in DOMAIN given : given[e] <= k
  BY DEF GivenInTurn
<1>2. PICK V : /\ Closed(eligible, given, V)
               /\ \A x \in DOMAIN eligible :
                    (x <= k /\ \A e \in DOMAIN given : given[e] # x) => eligible[x] \subseteq V
  BY DEF GivenInTurn
<1>3. \A e \in DOMAIN given : given[e] \in Nat /\ given[e] \in DOMAIN eligible
  BY <1>1 DEF Assigned
<1>4. Own(given, d) = {}
  BY <1>1, <1>3 DEF Own
<1>5. AugmentOK(eligible, given, truth, {}, d, r)
  BY <1>1, <1>4, AugmentFinds
<1>6. \A x \in DOMAIN eligible : x <= d => x <= k \/ x = d
  OBVIOUS
<1>7. d \in DOMAIN eligible /\ d <= d
  OBVIOUS
<1>8. \A x \in Nat : x <= k => x <= d
  OBVIOUS
<1> HIDE DEF r, d
<1>9. CASE r.found
  <2>1. Finds(eligible, given, truth, {}, d, g)
    BY <1>5, <1>9 DEF AugmentOK
  <2> HIDE DEF g
  <2>2. PICK new \in truth : DOMAIN g = DOMAIN given \cup {new}
    BY <2>1 DEF Finds
  <2>3. /\ \A e \in DOMAIN g : g[e] \in DOMAIN eligible /\ e \in eligible[g[e]]
        /\ \A x, y \in DOMAIN g : g[x] = g[y] => x = y
        /\ \A e \in DOMAIN g : g[e] = d \/ \E o \in DOMAIN given : g[e] = given[o]
        /\ \E e \in DOMAIN g : g[e] = d
        /\ \A o \in DOMAIN given : \E e \in DOMAIN g : g[e] = given[o]
    BY <1>4, <2>1 DEF Finds
  <2>4. Assigned(eligible, g, truth)
    BY <1>1, <2>2, <2>3 DEF Assigned
  <2>5. \A e \in DOMAIN g : g[e] <= d
    BY <1>1, <1>3, <1>7, <1>8, <2>3
  <2>6. Closed(eligible, g, V)
    <3>1. V \subseteq DOMAIN given /\ \A e \in V : g[e] = given[e]
      BY <1>2, <2>1 DEF Finds, Closed
    <3> QED
      BY <1>2, <2>2, <3>1 DEF Closed
  <2>7. ASSUME NEW x \in DOMAIN eligible, x <= d, \A e \in DOMAIN g : g[e] # x
        PROVE  eligible[x] \subseteq V
    <3>1. x # d /\ \A e \in DOMAIN given : given[e] # x
      BY <2>3, <2>7
    <3> QED
      BY <1>2, <1>6, <2>7, <3>1
  <2> QED
    BY <2>4, <2>5, <2>6, <2>7 DEF GivenInTurn, g, r, d
<1>10. CASE ~ r.found
  <2> DEFINE U == V \cup r.visited
  <2>1. g = given /\ FindsNone(eligible, given, {}, d, r.visited)
    BY <1>5, <1>10 DEF AugmentOK
  <2>2. Closed(eligible, given, U)
    BY <1>2, <2>1 DEF Closed, FindsNone
  <2>3. \A x \in DOMAIN eligible :
          (x <= d /\ \A e \in DOMAIN given : given[e] # x) => eligible[x] \subseteq U
    BY <1>2, <1>6, <2>1 DEF FindsNone
  <2>4. \A e \in DOMAIN given : given[e] <= d
    BY <1>1, <1>3, <1>8
  <2> HIDE DEF U
  <2>5. GivenInTurn(eligible, truth, d, given)
    BY <1>1, <2>2, <2>3, <2>4 DEF GivenInTurn
  <2> QED
    BY <2>1, <2>5 DEF r, d
<1> QED
  BY <1>9, <1>10

(* No more events can be told apart by the detections than were given.     *)
LEMMA GivenIsLargest ==
  ASSUME NEW eligible, NEW truth, NEW k, NEW given, GivenInTurn(eligible, truth, k, given),
         \A d \in DOMAIN eligible : d <= k,
         NEW S \in SUBSET truth, NEW f \in [S -> DOMAIN eligible],
         \A e \in S : e \in eligible[f[e]], \A e, o \in S : f[e] = f[o] => e = o
  PROVE  Cardinality(S) <= Cardinality(DOMAIN given)
<1>1. Assigned(eligible, given, truth)
  BY DEF GivenInTurn
<1>2. PICK V : /\ Closed(eligible, given, V)
               /\ \A d \in DOMAIN eligible :
                    (d <= k /\ \A e \in DOMAIN given : given[e] # d) => eligible[d] \subseteq V
  BY DEF GivenInTurn
<1> DEFINE h == [s \in S |-> IF s \in V THEN s ELSE CHOOSE e \in DOMAIN given : given[e] = f[s]]
<1>3. ASSUME NEW s \in S, s \notin V
      PROVE  h[s] \in DOMAIN given /\ given[h[s]] = f[s] /\ h[s] \notin V
  <2>1. f[s] \in DOMAIN eligible /\ s \in eligible[f[s]] /\ f[s] <= k
    OBVIOUS
  <2>2. \E e \in DOMAIN given : given[e] = f[s]
    BY <1>2, <1>3, <2>1
  <2>3. h[s] \in DOMAIN given /\ given[h[s]] = f[s]
    BY <1>3, <2>2
  <2> HIDE DEF h
  <2>4. h[s] \notin V
    BY <1>2, <1>3, <2>1, <2>3 DEF Closed
  <2> QED
    BY <2>3, <2>4
<1>4. \A s \in S : s \in V => h[s] = s
  OBVIOUS
<1>5. DOMAIN h = S /\ h = [s \in S |-> h[s]]
  OBVIOUS
<1> HIDE DEF h
<1>6. \A s \in S : h[s] \in DOMAIN given
  BY <1>2, <1>3, <1>4 DEF Closed
<1>7. \A s, t \in S : h[s] = h[t] => s = t
  BY <1>3, <1>4
<1>8. h \in Injection(S, DOMAIN given)
  BY <1>5, <1>6, <1>7 DEF Injection, IsInjective
<1>9. IsFiniteSet(DOMAIN given)
  BY <1>1, FS_Subset DEF Assigned
<1> QED
  BY <1>8, <1>9, FS_Injection

(* What each of the detections is given in its turn.                       *)
LEMMA AllGivenFacts ==
  ASSUME NEW n \in Nat, NEW eligible, DOMAIN eligible \subseteq 1..n,
         NEW truth, IsFiniteSet(truth), \A e \in truth : e.time \in Int,
         \A d \in DOMAIN eligible : eligible[d] \subseteq truth
  PROVE  GivenInTurn(eligible, truth, n, AllGiven(eligible, truth, n))
<1> DEFINE D == DOMAIN eligible
           Takes(k, before) == IF k \in D THEN Augment(eligible, before, truth)[<<{}, k>>].given ELSE before
           Solves(f, m) == \A k \in 0..m : f[k] = IF k = 0 THEN << >> ELSE Takes(k, f[k - 1])
           N == {m \in Nat : \E f : Solves(f, m)}
           Made(f) == f = [k \in 0..n |-> IF k = 0 THEN << >> ELSE Takes(k, f[k - 1])]
           given == CHOOSE f : Made(f)
<1>1. n \in Nat /\ D \subseteq 1..n
  OBVIOUS
<1>2. AllGiven(eligible, truth, n) = given[n]
  BY Zenon DEF AllGiven
<1> HIDE DEF D, Takes
<1>3. 0 \in N
  <2>1. Solves([k \in {0} |-> << >>], 0)
    OBVIOUS
  <2> QED
    BY <2>1
<1>4. ASSUME NEW m \in Nat, m \in N PROVE m + 1 \in N
  <2>1. PICK f : Solves(f, m)
    BY <1>4
  <2> DEFINE g == [k \in 0..(m + 1) |-> IF k <= m THEN f[k] ELSE Takes(m + 1, f[m])]
  <2>2. ASSUME NEW k \in 0..(m + 1)
        PROVE  g[k] = IF k = 0 THEN << >> ELSE Takes(k, g[k - 1])
    <3>1. CASE k <= m
      <4>1. g[k] = f[k] /\ (k # 0 => k - 1 \in 0..(m + 1) /\ k - 1 <= m /\ g[k - 1] = f[k - 1])
        BY <3>1
      <4>2. k \in 0..m
        BY <3>1
      <4> HIDE DEF g
      <4> QED
        BY <2>1, <4>1, <4>2
    <3>2. CASE ~ (k <= m)
      <4>1. k = m + 1 /\ k # 0 /\ k - 1 = m
        BY <3>2
      <4>2. g[k] = Takes(m + 1, f[m]) /\ g[m] = f[m]
        BY <3>2
      <4> HIDE DEF g
      <4> QED
        BY <4>1, <4>2
    <3> QED
      BY <3>1, <3>2
  <2> HIDE DEF g
  <2>3. Solves(g, m + 1)
    BY <2>2
  <2> QED
    BY <2>3
<1>5. n \in N
  <2> HIDE DEF N
  <2> QED
    BY <1>1, <1>3, <1>4, NatSetInduction
<1>6. PICK f : Solves(f, n)
  BY <1>5
<1>7. \E g : Made(g)
  <2> DEFINE g == [k \in 0..n |-> f[k]]
  <2>1. ASSUME NEW k \in 0..n PROVE g[k] = IF k = 0 THEN << >> ELSE Takes(k, g[k - 1])
    <3>1. k # 0 => k - 1 \in 0..n
      BY <1>1
    <3> QED
      BY <1>6, <3>1
  <2>2. DOMAIN g = 0..n /\ g = [k \in 0..n |-> g[k]]
    OBVIOUS
  <2> HIDE DEF g
  <2>3. Made(g)
    BY <2>1, <2>2
  <2> QED
    BY <2>3
<1>8. Made(given)
  <2> HIDE DEF Made
  <2> QED
    BY <1>7
<1> HIDE DEF given
<1>9. \A k \in 0..n : given[k] = IF k = 0 THEN << >> ELSE Takes(k, given[k - 1])
  BY <1>8
<1> HIDE DEF Made
<1>10. DOMAIN eligible = D /\ D \subseteq Nat
  BY <1>1 DEF D
<1> DEFINE OK(k) == GivenInTurn(eligible, truth, k, given[k])
           M == {k \in Nat : k <= n => OK(k)}
<1>11. 0 \in M
  <2>1. given[0] = << >>
    BY <1>1, <1>9
  <2>2. Assigned(eligible, << >>, truth)
    <3>2. DOMAIN << >> = {}
      OBVIOUS
    <3> QED
      BY <3>2 DEF Assigned
  <2>3. GivenInTurn(eligible, truth, 0, << >>)
    <3>1. Closed(eligible, << >>, {})
      BY DEF Closed
    <3>2. ASSUME NEW d \in DOMAIN eligible PROVE ~ (d <= 0)
      <4>1. d \in 1..n
        BY <1>1, <1>10
      <4> QED
        BY <1>1, <4>1
    <3>3. DOMAIN << >> = {}
      OBVIOUS
    <3> QED
      BY <2>2, <3>1, <3>2, <3>3 DEF GivenInTurn
  <2> QED
    BY <2>1, <2>3
<1>12. ASSUME NEW k \in Nat, k \in M PROVE k + 1 \in M
  <2> SUFFICES ASSUME k + 1 <= n PROVE OK(k + 1)
    OBVIOUS
  <2>1. k <= n /\ k + 1 \in 0..n /\ k + 1 # 0 /\ (k + 1) - 1 = k
    BY <1>1
  <2>2. OK(k)
    BY <1>12, <2>1
  <2>3. given[k + 1] = Takes(k + 1, given[k])
    BY <1>9, <2>1
  <2>4. CASE k + 1 \in D
    <3>1. given[k + 1] = Augment(eligible, given[k], truth)[<<{}, k + 1>>].given
      BY <2>3, <2>4 DEF Takes
    <3>2. GivenInTurn(eligible, truth, k + 1, Augment(eligible, given[k], truth)[<<{}, k + 1>>].given)
      BY <1>10, <2>2, <2>4, NextTurn
    <3> QED
      BY <3>1, <3>2
  <2>5. CASE k + 1 \notin D
    <3>1. given[k + 1] = given[k]
      BY <2>3, <2>5 DEF Takes
    <3>2. ASSUME NEW d \in DOMAIN eligible, d <= k + 1 PROVE d <= k
      <4>1. d \in Nat /\ d # k + 1
        BY <1>10, <2>5
      <4> QED
        BY <3>2, <4>1
    <3>3. \A e \in DOMAIN given[k] : given[k][e] \in Nat /\ given[k][e] <= k
      BY <1>10, <2>2 DEF GivenInTurn, Assigned
    <3>4. \A e \in DOMAIN given[k] : given[k][e] <= k + 1
      BY <3>3
    <3> DEFINE g == given[k]
    <3>5. GivenInTurn(eligible, truth, k, g) /\ \A e \in DOMAIN g : g[e] <= k + 1
      BY <2>2, <3>4
    <3> HIDE DEF g
    <3>6. GivenInTurn(eligible, truth, k + 1, g)
      BY <3>2, <3>5 DEF GivenInTurn
    <3> QED
      BY <3>1, <3>6 DEF g
  <2> QED
    BY <2>4, <2>5
<1>13. OK(n)
  <2> HIDE DEF OK
  <2>1. Nat \subseteq M
    <3> HIDE DEF M
    <3> QED
      BY <1>11, <1>12, NatSetInduction
  <2> QED
    BY <1>1, <2>1
<1> QED
  BY <1>2, <1>13

(* Some events can be told apart by one detection each.                    *)
ToldApart(lane, S) ==
  \E f \in [S -> Detections(lane)] :
    /\ \A e \in S : Eligible(lane, run[lane].results[f[e]], e)
    /\ \A e, o \in S : f[e] = f[o] => e = o

(* The events that are matched can be told apart, and no larger set can.   *)
LEMMA MatchedIsLargest ==
  ASSUME NEW lane, IsList(run[lane].results),
         NEW truth, IsFiniteSet(truth), \A e \in truth : e.time \in Int
  PROVE  /\ Matched(lane, truth) \in SUBSET truth /\ ToldApart(lane, Matched(lane, truth))
         /\ \A S \in SUBSET truth : ToldApart(lane, S) => Cardinality(S) <= Cardinality(Matched(lane, truth))
<1> DEFINE n == Len(run[lane].results)
           eligible == EligibleFor(lane, truth)
           given == AllGiven(eligible, truth, n)
<1>1. n \in Nat /\ Detections(lane) \subseteq 1..n
  BY ListFacts DEF Detections
<1>2. /\ DOMAIN eligible = Detections(lane)
      /\ \A d \in Detections(lane) : \A e :
           e \in eligible[d] <=> e \in truth /\ Eligible(lane, run[lane].results[d], e)
  BY DEF EligibleFor
<1>3. Matched(lane, truth) = DOMAIN given
  BY DEF Matched
<1> HIDE DEF eligible, n
<1>4. GivenInTurn(eligible, truth, n, given)
  <2>1. DOMAIN eligible \subseteq 1..n /\ \A d \in DOMAIN eligible : eligible[d] \subseteq truth
    BY <1>1, <1>2
  <2> QED
    BY <1>1, <2>1, AllGivenFacts
<1> HIDE DEF given
<1>5. /\ DOMAIN given \subseteq truth
      /\ \A e \in DOMAIN given : given[e] \in DOMAIN eligible /\ e \in eligible[given[e]]
      /\ \A e, o \in DOMAIN given : given[e] = given[o] => e = o
  BY <1>4 DEF GivenInTurn, Assigned
<1>6. ToldApart(lane, DOMAIN given)
  <2> DEFINE f == [e \in DOMAIN given |-> given[e]]
  <2>1. f \in [DOMAIN given -> Detections(lane)] /\ \A e \in DOMAIN given : f[e] = given[e]
    BY <1>2, <1>5
  <2> HIDE DEF f
  <2>2. /\ \A e \in DOMAIN given : Eligible(lane, run[lane].results[f[e]], e)
        /\ \A e, o \in DOMAIN given : f[e] = f[o] => e = o
    BY <1>2, <1>5, <2>1
  <2> QED
    BY <2>1, <2>2 DEF ToldApart
<1>7. ASSUME NEW S \in SUBSET truth, ToldApart(lane, S)
      PROVE  Cardinality(S) <= Cardinality(DOMAIN given)
  <2>1. PICK f \in [S -> Detections(lane)] :
          /\ \A e \in S : Eligible(lane, run[lane].results[f[e]], e)
          /\ \A e, o \in S : f[e] = f[o] => e = o
    BY <1>7 DEF ToldApart
  <2>2. f \in [S -> DOMAIN eligible] /\ \A e \in S : e \in eligible[f[e]]
    BY <1>2, <2>1
  <2>3. \A d \in DOMAIN eligible : d <= n
    <3> SUFFICES ASSUME NEW d \in DOMAIN eligible PROVE d <= n
      OBVIOUS
    <3>1. d \in 1..n
      BY <1>1, <1>2
    <3> QED
      BY <1>1, <3>1
  <2> QED
    BY <1>4, <2>1, <2>2, <2>3, GivenIsLargest
<1> QED
  BY <1>3, <1>5, <1>6, <1>7

(* So many events are found.                                               *)
LEMMA MostAreFound ==
  ASSUME NEW lane, IsList(run[lane].results),
         NEW truth, IsFiniteSet(truth), \A e \in truth : e.time \in Int
  PROVE  Cardinality(Matched(lane, truth)) = MostFound(lane, truth)
<1> DEFINE Most(m) == /\ \E S \in SUBSET truth : Cardinality(S) = m /\ ToldApart(lane, S)
                      /\ \A S \in SUBSET truth : ToldApart(lane, S) => Cardinality(S) <= m
           found == Cardinality(Matched(lane, truth))
<1>1. MostFound(lane, truth) = CHOOSE m \in 0..Cardinality(truth) : Most(m)
  BY Zenon DEF MostFound, ToldApart
<1>2. /\ Matched(lane, truth) \in SUBSET truth /\ ToldApart(lane, Matched(lane, truth))
      /\ \A S \in SUBSET truth : ToldApart(lane, S) => Cardinality(S) <= found
  BY MatchedIsLargest
<1>3. Most(found)
  BY <1>2
<1>4. found \in 0..Cardinality(truth)
  <2>1. IsFiniteSet(Matched(lane, truth)) /\ found <= Cardinality(truth)
    BY <1>2, FS_Subset
  <2>2. found \in Nat /\ Cardinality(truth) \in Nat
    BY <2>1, FS_CardinalityType
  <2> QED
    BY <2>1, <2>2
<1>5. ASSUME NEW m \in 0..Cardinality(truth), Most(m) PROVE m = found
  <2>1. found <= m
    BY <1>2, <1>5
  <2>2. m <= found
    BY <1>2, <1>5
  <2>3. Cardinality(truth) \in Nat
    BY FS_CardinalityType
  <2> HIDE DEF found
  <2>4. found \in Nat /\ m \in Nat
    BY <1>4, <2>3
  <2> QED
    BY <2>1, <2>2, <2>4
<1> HIDE DEF Most, found
<1> QED
  BY <1>1, <1>3, <1>4, <1>5 DEF found

(* What happened in a call is finitely many events, each at a time.        *)
LEMMA TruthFacts ==
  ASSUME call \in Call, CanRun(call), NEW lane \in Lane
  PROVE  /\ IsFiniteSet(Truth(lane)) /\ IsFiniteSet(Scored(lane)) /\ IsFiniteSet(Anomalies(lane))
         /\ \A e \in Truth(lane) : e.time \in Int
         /\ Scored(lane) \subseteq Truth(lane) /\ Anomalies(lane) \subseteq Truth(lane)
<1> DEFINE events == call.plans[lane].events
           moves == ToSet(events)
           told == [e \in moves |-> [time |-> e.time, actor |-> e.actor, object |-> e.object,
                      source |-> e.source, destination |-> e.destination, regime |-> Regime(e.kind)]]
<1>1. events \in Seq(moves) /\ \A e \in moves : e.time \in Int
  BY CallAssumption, EventsAssumption DEF Chained, Lane
<1>2. Truth(lane) = {told[e] : e \in moves} /\ \A e \in moves : told[e].time = e.time
  BY DEF Truth
<1>3. IsFiniteSet(moves)
  <2>1. Len(events) \in Nat /\ moves = {events[k] : k \in 1..Len(events)}
    BY <1>1 DEF ToSet
  <2>2. IsFiniteSet(1..Len(events))
    BY <2>1, 1 \in Int, FS_Interval
  <2> HIDE DEF moves, events
  <2>3. IsFiniteSet({events[k] : k \in 1..Len(events)})
    BY <2>2, ImageIsFinite
  <2> QED
    BY <2>1, <2>3
<1> HIDE DEF told, moves
<1>4. IsFiniteSet(Truth(lane)) /\ \A e \in Truth(lane) : e.time \in Int
  BY <1>1, <1>2, <1>3, ImageIsFinite
<1>5. Scored(lane) \in SUBSET Truth(lane) /\ Anomalies(lane) \in SUBSET Truth(lane)
  BY DEF Scored, Anomalies
<1> QED
  BY <1>4, <1>5, FS_Subset

(* The report of a run is made of its plan, its policy and what it tells.  *)
ReportOf(plan_, policy, opportunities, results) ==
  LET truth == {[time |-> e.time, actor |-> e.actor, object |-> e.object, source |-> e.source,
                 destination |-> e.destination, regime |-> Regime(e.kind)] : e \in ToSet(plan_.events)}
      scored == {e \in truth : e.object = policy.object}
      anomalies == {e \in scored : e.regime = "temporary_exception"}
      eligible(T) ==
        [d \in {k \in DOMAIN results : results[k].outcome = "detected"} |->
           {e \in T : /\ e.object = policy.object /\ e.destination = results[d].location
                      /\ e.time <= results[d].recorded /\ results[d].recorded - e.time <= MaxDelay}]
      matched(T) == DOMAIN AllGiven(eligible(T), T, Len(results))
      looks == Cardinality({k \in DOMAIN opportunities : opportunities[k].selected})
  IN  [recall |-> <<Cardinality(matched(scored)), Cardinality(scored)>>,
       anomalies |-> <<Cardinality(matched(anomalies)), Cardinality(anomalies)>>,
       views |-> looks]

(* A report is made of nothing else, before a step and after it.           *)
LEMMA ReportIs ==
  ASSUME NEW lane
  PROVE  /\ Report(lane) =
              ReportOf(call.plans[lane], call.policies[lane], run[lane].opportunities, run[lane].results)
         /\ Report(lane)' =
              ReportOf(call'.plans[lane], call'.policies[lane], run'[lane].opportunities, run'[lane].results)
<1>1. Report(lane) =
        ReportOf(call.plans[lane], call.policies[lane], run[lane].opportunities, run[lane].results)
  BY Zenon DEF Report, ReportOf, Matched, MatchedAnomalies, Scored, Anomalies, Truth, EligibleFor, Eligible,
               Detections, Selected
<1>2. Report(lane)' =
        ReportOf(call'.plans[lane], call'.policies[lane], run'[lane].opportunities, run'[lane].results)
  BY Zenon DEF Report, ReportOf, Matched, MatchedAnomalies, Scored, Anomalies, Truth, EligibleFor, Eligible,
               Detections, Selected
<1> QED
  BY <1>1, <1>2

(* What a manifest binds does not change for a run that is over.           *)
LEMMA BoundStays ==
  ASSUME NEW lane, call' = call, manifest' = manifest, run'[lane] = run[lane]
  PROVE  Bound(lane)' = Bound(lane) /\ Report(lane)' = Report(lane)
<1>1. Report(lane)' = Report(lane)
  BY ReportIs
<1>2. Content(lane)' = Content(lane) /\ Truth(lane)' = Truth(lane)
  BY DEF Content, Truth, RunId
<1>3. Listed(lane)' = Listed(lane)
  BY <1>2 DEF Listed
<1>4. Selected(lane)' = Selected(lane)
  <2>1. {k \in DOMAIN run[lane].opportunities : run[lane].opportunities[k].selected}' =
          {k \in DOMAIN run[lane].opportunities : run[lane].opportunities[k].selected}
    OBVIOUS
  <2> QED
    BY <2>1 DEF Selected
<1> QED
  BY <1>1, <1>2, <1>3, <1>4 DEF Bound

(* A run that is over stays as it is, and it is over after all samples.    *)
LEMMA ReturnedStays ==
  ASSUME SimulatorInv, SimulatorNext, NEW lane \in Lane
  PROVE  /\ call' = call
         /\ run[lane].pc = "returned" => run'[lane] = run[lane]
         /\ (run[lane].pc # "returned" /\ run'[lane].pc = "returned") =>
              Len(run'[lane].results) = Len(call.policies[lane].samples)
<1>1. DOMAIN run = Lane /\ \A l \in Lane : DOMAIN run[l] = {"pc", "drawn", "opportunities", "results"}
  BY DEF SimulatorInv, LaneInv, NotBegun
<1>2. PICK l \in Lane : \/ Begin(l) \/ SampleOutside(l) \/ Finish(l)
                        \/ \E u, v \in Draw : Sample(l, u, v)
  BY Zenon DEF SimulatorNext
<1>3. ASSUME NEW now, run' = [run EXCEPT ![l] = now], run[l].pc # "returned",
             now.pc = "returned" => Len(now.results) = Len(call.policies[l].samples)
      PROVE  /\ run[lane].pc = "returned" => run'[lane] = run[lane]
             /\ (run[lane].pc # "returned" /\ run'[lane].pc = "returned") =>
                  Len(run'[lane].results) = Len(call.policies[lane].samples)
  BY <1>1, <1>3
<1>4. ASSUME NEW pc, run' = [run EXCEPT ![l].pc = pc]
      PROVE  \E now : /\ run' = [run EXCEPT ![l] = now] /\ now.pc = pc
                      /\ now.results = run[l].results
  <2> DEFINE now == [run[l] EXCEPT !.pc = pc]
  <2>1. now.pc = pc /\ now.results = run[l].results
    BY <1>1
  <2>2. run' = [run EXCEPT ![l] = now]
    BY <1>4
  <2> HIDE DEF now
  <2> QED
    BY <2>1, <2>2
<1>5. CASE Begin(l)
  <2>1. PICK pc \in {"sampling", "raised"} : run' = [run EXCEPT ![l].pc = pc]
    BY <1>5, Zenon DEF Begin
  <2>2. PICK now : run' = [run EXCEPT ![l] = now] /\ now.pc = pc
    BY <1>4, <2>1
  <2>3. call' = call /\ run[l].pc # "returned" /\ now.pc # "returned"
    BY <1>5, <2>2 DEF Begin
  <2> QED
    BY <1>3, <2>2, <2>3
<1>6. CASE SampleOutside(l)
  <2>1. PICK now : run' = [run EXCEPT ![l] = now] /\ now.pc = "raised"
    BY <1>4, <1>6 DEF SampleOutside
  <2>2. call' = call /\ run[l].pc # "returned" /\ now.pc # "returned"
    BY <1>6, <2>1 DEF SampleOutside
  <2> QED
    BY <1>3, <2>1, <2>2
<1>7. CASE Finish(l)
  <2>1. PICK pc : run' = [run EXCEPT ![l].pc = pc]
    BY <1>7, Zenon DEF Finish
  <2>2. PICK now : run' = [run EXCEPT ![l] = now] /\ now.results = run[l].results
    BY <1>4, <2>1
  <2>3. call' = call /\ run[l].pc # "returned"
        /\ Len(now.results) = Len(call.policies[l].samples)
    BY <1>7, <2>2 DEF Finish
  <2> QED
    BY <1>3, <2>2, <2>3
<1>8. ASSUME NEW u \in Draw, NEW v \in Draw, Sample(l, u, v)
      PROVE  call' = call /\ \E now : /\ run' = [run EXCEPT ![l] = now] /\ now.pc = run[l].pc
                                      /\ run[l].pc = "sampling"
  <2> DEFINE k == Len(run[l].results) + 1
             o == Opportunity(call, l, k, u < call.policies[l].selection)
             x == Result(call, l, o, call.policies[l].samples[k], v)
             used == DrawsPerSample(u < call.policies[l].selection)
             now == [run[l] EXCEPT !.drawn = @ + used, !.opportunities = Append(@, o),
                                   !.results = Append(@, x)]
  <2>1. run' = [run EXCEPT ![l] = now] /\ call' = call /\ run[l].pc = "sampling"
    BY <1>8, Zenon DEF Sample
  <2>2. now.pc = run[l].pc
    <3> HIDE DEF o, x, used
    <3> QED
      BY <1>1
  <2> HIDE DEF now
  <2> QED
    BY <2>1, <2>2
<1>9. CASE \E u, v \in Draw : Sample(l, u, v)
  <2>1. PICK now : /\ run' = [run EXCEPT ![l] = now] /\ now.pc = run[l].pc
                   /\ run[l].pc = "sampling" /\ call' = call
    BY <1>8, <1>9
  <2> QED
    BY <1>3, <2>1
<1> QED
  BY <1>2, <1>5, <1>6, <1>7, <1>9

(* What makes ScoresAreFair inductive.                                     *)
EvaluatorInv ==
  /\ SimulatorInv
  /\ DOMAIN reports = Lane
  /\ \A lane \in Lane :
       /\ run[lane].pc = "returned" =>
            Len(run[lane].results) = Len(call.policies[lane].samples)
       /\ reports[lane] # NoReport =>
            /\ manifest # NoManifest /\ run[lane].pc = "returned"
            /\ reports[lane] = IF Bound(lane) THEN Report(lane) ELSE Refused

(* A report stays true of its run.                                         *)
LEMMA EvaluatorStep ==
  ASSUME EvaluatorInv, [EvaluatorNext]_<<simulatorVars, evaluatorVars>>
  PROVE  EvaluatorInv'
<1> DEFINE LaneOK(lane) ==
             /\ run[lane].pc = "returned" =>
                  Len(run[lane].results) = Len(call.policies[lane].samples)
             /\ reports[lane] # NoReport =>
                  /\ manifest # NoManifest /\ run[lane].pc = "returned"
                  /\ reports[lane] = IF Bound(lane) THEN Report(lane) ELSE Refused
<1>1. SimulatorInv /\ DOMAIN reports = Lane /\ \A lane \in Lane : LaneOK(lane)
  BY DEF EvaluatorInv
<1>2. ASSUME NEW lane \in Lane, call' = call, manifest' = manifest, run'[lane] = run[lane],
             reports'[lane] = reports[lane]
      PROVE  LaneOK(lane)'
  <2>1. Bound(lane)' = Bound(lane) /\ Report(lane)' = Report(lane)
    BY <1>2, BoundStays
  <2> QED
    BY <1>1, <1>2, <2>1 DEF NoReport, NoManifest, Refused
<1>3. CASE UNCHANGED <<simulatorVars, evaluatorVars>>
  <2>1. UNCHANGED <<call, stream, run, manifest, reports>>
    BY <1>3 DEF simulatorVars, evaluatorVars
  <2>2. SimulatorInv'
    BY <1>1, <2>1, SimulatorStep DEF simulatorVars
  <2>3. \A lane \in Lane : LaneOK(lane)'
    BY <1>2, <2>1
  <2> QED
    BY <1>1, <2>1, <2>2, <2>3 DEF EvaluatorInv
<1>4. CASE SimulatorNext /\ UNCHANGED evaluatorVars
  <2>1. SimulatorInv' /\ UNCHANGED <<manifest, reports>>
    BY <1>1, <1>4, SimulatorStep DEF evaluatorVars
  <2>2. ASSUME NEW lane \in Lane PROVE LaneOK(lane)'
    <3>1. /\ call' = call
          /\ run[lane].pc = "returned" => run'[lane] = run[lane]
          /\ (run[lane].pc # "returned" /\ run'[lane].pc = "returned") =>
               Len(run'[lane].results) = Len(call.policies[lane].samples)
      BY <1>1, <1>4, ReturnedStays
    <3>2. CASE run[lane].pc = "returned"
      BY <1>2, <2>1, <3>1, <3>2
    <3>3. CASE run[lane].pc # "returned"
      <4>1. reports[lane] = NoReport
        BY <1>1, <3>3
      <4> QED
        BY <2>1, <3>1, <3>3, <4>1 DEF NoReport
    <3> QED
      BY <3>2, <3>3
  <2> QED
    BY <1>1, <2>1, <2>2 DEF EvaluatorInv
<1>5. CASE Prepare
  <2>1. /\ manifest = NoManifest /\ UNCHANGED <<call, stream, run, reports>>
        /\ UNCHANGED simulatorVars
    BY <1>5 DEF Prepare, simulatorVars
  <2>2. SimulatorInv'
    BY <1>1, <2>1, SimulatorStep
  <2>3. ASSUME NEW lane \in Lane PROVE LaneOK(lane)'
    <3>1. reports[lane] = NoReport
      BY <1>1, <2>1
    <3> QED
      BY <1>1, <2>1, <3>1 DEF NoReport
  <2> QED
    BY <1>1, <2>1, <2>2, <2>3 DEF EvaluatorInv
<1>6. ASSUME NEW lane \in Lane, Evaluate(lane) PROVE EvaluatorInv'
  <2>1. /\ manifest # NoManifest /\ run[lane].pc = "returned"
        /\ reports' = [reports EXCEPT ![lane] = IF Bound(lane) THEN Report(lane) ELSE Refused]
        /\ UNCHANGED <<call, stream, run, manifest>> /\ UNCHANGED simulatorVars
    BY <1>6 DEF Evaluate, simulatorVars
  <2>2. SimulatorInv'
    BY <1>1, <2>1, SimulatorStep
  <2>3. DOMAIN reports' = Lane
    BY <1>1, <2>1
  <2>4. LaneOK(lane)'
    <3>1. Bound(lane)' = Bound(lane) /\ Report(lane)' = Report(lane)
      BY <2>1, BoundStays
    <3>2. reports'[lane] = IF Bound(lane) THEN Report(lane) ELSE Refused
      BY <1>1, <2>1
    <3>3. Len(run[lane].results) = Len(call.policies[lane].samples)
      BY <1>1, <2>1
    <3> QED
      BY <2>1, <3>1, <3>2, <3>3 DEF NoManifest, Refused
  <2>5. \A l \in Lane \ {lane} : LaneOK(l)'
    <3> SUFFICES ASSUME NEW l \in Lane \ {lane} PROVE LaneOK(l)'
      OBVIOUS
    <3>1. reports'[l] = reports[l]
      BY <1>1, <2>1
    <3> QED
      BY <1>2, <2>1, <3>1
  <2> QED
    BY <2>2, <2>3, <2>4, <2>5 DEF EvaluatorInv
<1> QED
  BY <1>3, <1>4, <1>5, <1>6 DEF EvaluatorNext

(* A report counts as many events as can be told apart.                    *)
LEMMA ReportsAreLargest == EvaluatorInv => RecallsAreLargest
<1> SUFFICES ASSUME EvaluatorInv, NEW lane \in Lane, reports[lane] \notin {NoReport, Refused}
             PROVE  /\ reports[lane].recall[1] = MostFound(lane, Scored(lane))
                    /\ reports[lane].anomalies[1] = MostFound(lane, Anomalies(lane))
  BY DEF RecallsAreLargest
<1>1. reports[lane] = Report(lane)
  BY DEF EvaluatorInv
<1>2. /\ reports[lane].recall[1] = Cardinality(Matched(lane, Scored(lane)))
      /\ reports[lane].anomalies[1] = Cardinality(Matched(lane, Anomalies(lane)))
  BY <1>1 DEF Report, MatchedAnomalies
<1>3. /\ IsFiniteSet(Scored(lane)) /\ IsFiniteSet(Anomalies(lane))
      /\ \A e \in Scored(lane) : e.time \in Int
      /\ \A e \in Anomalies(lane) : e.time \in Int
  BY TruthFacts DEF EvaluatorInv, SimulatorInv
<1>4. IsList(run[lane].results)
  BY DEF EvaluatorInv, SimulatorInv, LaneInv
<1> QED
  BY <1>2, <1>3, <1>4, MostAreFound

(* What the manifest binds is all that a report is made of.                *)
LEMMA OneManifest == EvaluatorInv => OneManifestOneScore
<1> SUFFICES ASSUME EvaluatorInv, reports[1] \notin {NoReport, Refused},
                    reports[2] \notin {NoReport, Refused}
             PROVE  reports[1] = reports[2]
  BY DEF OneManifestOneScore
<1>1. ASSUME NEW lane \in Lane, reports[lane] \notin {NoReport, Refused}
      PROVE  Bound(lane) /\ reports[lane] = Report(lane)
  BY <1>1 DEF EvaluatorInv
<1>2. Bound(1) /\ reports[1] = Report(1) /\ Bound(2) /\ reports[2] = Report(2)
  BY <1>1 DEF Lane
<1>3. /\ call.plans[1] = call.plans[2] /\ call.policies[1] = call.policies[2]
      /\ Content(1) = Content(2)
  BY <1>2 DEF Bound
<1>4. run[1].opportunities = run[2].opportunities /\ run[1].results = run[2].results
  BY <1>3 DEF Content
<1>5. \A lane : Report(lane) =
        ReportOf(call.plans[lane], call.policies[lane], run[lane].opportunities, run[lane].results)
  BY ReportIs
<1>6. Report(1) = Report(2)
  BY <1>3, <1>4, <1>5
<1> QED
  BY <1>2, <1>6

(* What a run detects, a run that looks more often detects as well.        *)
LEMMA LooksMore ==
  ASSUME EvaluatorInv, call.kind = "paired", \A l \in Lane : run[l].pc = "returned",
         SelectionOnly(call.policies[1]) = SelectionOnly(call.policies[2]), NEW lane \in Lane,
         call.policies[lane].selection <= call.policies[3 - lane].selection
  PROVE  /\ call.plans[lane] = call.plans[3 - lane]
         /\ call.policies[lane].object = call.policies[3 - lane].object
         /\ \A k \in Detections(lane) :
              k \in Detections(3 - lane) /\ run[lane].results[k] = run[3 - lane].results[k]
<1> DEFINE other == 3 - lane
<1>1. call \in Call /\ CanRun(call) /\ \A l \in Lane : LaneInv(call, stream, l, run[l])
  BY DEF EvaluatorInv, SimulatorInv
<1>2. other \in Lane /\ ((lane = 1 /\ other = 2) \/ (lane = 2 /\ other = 1))
  BY DEF Lane
<1> HIDE DEF other
<1>3. TypedPolicy(call.policies[1]) /\ TypedPolicy(call.policies[2])
  BY <1>1, CallAssumption
<1>4. /\ call.policies[1].object = call.policies[2].object
      /\ call.policies[1].samples = call.policies[2].samples
  BY <1>3, SameButSelection
<1>5. call.plans[1] = call.plans[2]
  BY <1>1 DEF CanRun
<1>6. Len(run[1].results) = Len(run[2].results)
  BY <1>4 DEF EvaluatorInv, Lane
<1>7. /\ DOMAIN run[1].results = 1..Len(run[1].results)
      /\ DOMAIN run[2].results = 1..Len(run[2].results)
  BY <1>1, ListFacts DEF LaneInv, Lane
<1>8. DOMAIN run[1].results = Both /\ DOMAIN run[2].results = Both
  BY <1>6, <1>7 DEF Both
<1>9. ASSUME NEW k \in Detections(lane)
      PROVE  k \in Detections(other) /\ run[lane].results[k] = run[other].results[k]
  <2>1. k \in Both /\ run[lane].results[k].outcome = "detected"
    BY <1>2, <1>8 DEF Detections
  <2>2. ValidResult(run[lane].opportunities, run[lane].results)
    BY <1>1, RunIsValid
  <2>3. (run[lane].results[k].outcome = "not_observed") <=> ~ run[lane].opportunities[k].selected
    BY <1>2, <1>8, <2>1, <2>2 DEF ValidResult
  <2>4. run[lane].opportunities[k].selected
    BY <2>1, <2>3
  <2>5. run[lane].results[k] = run[other].results[k]
    BY <2>1, <2>4, PairedNest DEF PairedRunsNest, EvaluatorInv, other
  <2> QED
    BY <1>2, <1>8, <2>1, <2>5 DEF Detections
<1> QED
  BY <1>2, <1>4, <1>5, <1>9 DEF other

(* So it recalls no less.                                                  *)
LEMMA LooksMoreFindsMore == EvaluatorInv => LookingMoreFindsNoLess
<1> SUFFICES ASSUME EvaluatorInv, call.kind = "paired", \A l \in Lane : run[l].pc = "returned",
                    SelectionOnly(call.policies[1]) = SelectionOnly(call.policies[2]),
                    NEW lane \in Lane,
                    call.policies[lane].selection <= call.policies[3 - lane].selection
             PROVE  Cardinality(Matched(lane, Scored(lane)))
                      <= Cardinality(Matched(3 - lane, Scored(3 - lane)))
  BY DEF LookingMoreFindsNoLess
<1> DEFINE other == 3 - lane
           found == Matched(lane, Scored(lane))
<1>1. /\ call.plans[lane] = call.plans[other]
      /\ call.policies[lane].object = call.policies[other].object
      /\ \A k \in Detections(lane) :
           k \in Detections(other) /\ run[lane].results[k] = run[other].results[k]
  BY LooksMore
<1>2. other \in Lane
  BY DEF Lane
<1> HIDE DEF other
<1>3. ASSUME NEW l \in Lane
      PROVE  /\ IsFiniteSet(Scored(l)) /\ \A e \in Scored(l) : e.time \in Int
             /\ IsList(run[l].results)
  BY TruthFacts DEF EvaluatorInv, SimulatorInv, LaneInv
<1>4. Truth(lane) = Truth(other)
  BY <1>1 DEF Truth
<1>5. Scored(lane) = Scored(other)
  BY <1>1, <1>4 DEF Scored
<1>6. found \in SUBSET Scored(lane) /\ ToldApart(lane, found)
  BY <1>3, MatchedIsLargest
<1> HIDE DEF found
<1>7. ToldApart(other, found)
  <2>1. PICK f \in [found -> Detections(lane)] :
          /\ \A e \in found : Eligible(lane, run[lane].results[f[e]], e)
          /\ \A e, o \in found : f[e] = f[o] => e = o
    BY <1>6, Zenon DEF ToldApart
  <2>2. f \in [found -> Detections(other)]
    BY <1>1, <2>1
  <2>3. \A e \in found : Eligible(other, run[other].results[f[e]], e)
    BY <1>1, <2>1 DEF Eligible
  <2> QED
    BY <2>1, <2>2, <2>3, Zenon DEF ToldApart
<1>8. Cardinality(found) <= Cardinality(Matched(other, Scored(other)))
  BY <1>2, <1>3, <1>5, <1>6, <1>7, MatchedIsLargest
<1> QED
  BY <1>8 DEF found, other

(* ScoresAreFair, for any calls, places and delays, whatever is drawn.     *)
THEOREM ScoreSafety == EvaluatorSpec => []ScoresAreFair
<1>1. SimulatorInit /\ EvaluatorInit => EvaluatorInv
  BY SimulatorStart DEF EvaluatorInit, EvaluatorInv, SimulatorInit, NotBegun
<1>2. EvaluatorInv /\ [EvaluatorNext]_<<simulatorVars, evaluatorVars>> => EvaluatorInv'
  BY EvaluatorStep
<1>3. EvaluatorInv => ScoresAreFair
  BY ReportsAreLargest, OneManifest, LooksMoreFindsMore, PairedNest DEF ScoresAreFair, EvaluatorInv
<1> QED
  BY <1>1, <1>2, <1>3, PTL DEF EvaluatorSpec
===============================================================================
