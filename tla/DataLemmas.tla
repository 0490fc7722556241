----------------------------- MODULE DataLemmas -----------------------------
(***************************************************************************)
(* Facts about the folds and the flattened sequences the models are built  *)
(* from: sums and products over finite sets, FlattenSeq, and the           *)
(* inductions they are proved by.  An induction is over a set of the       *)
(* numbers, or of the finite sets, that have the property.                 *)
(***************************************************************************)
EXTENDS Naturals, Sequences, FiniteSets, Functions, SequencesExt,
        FiniteSetTheorems, WellFoundedInduction, SequenceTheorems, TLAPS

(* The least of some finite subsets, and induction over them.              *)
LEMMA LeastSubset ==
  ASSUME NEW S, NEW R, R # {}, R \subseteq FiniteSubsetsOf(S)
  PROVE  \E T \in R : \A U \in R : U \subseteq T => U = T
<1>1. \E T \in R : \A U \in R : ~(<<U, T>> \in StrictSubsetOrdering(S))
  BY FS_StrictSubsetOrderingWellFounded, WFMin, Zenon
<1>2. PICK T \in R : \A U \in R : ~(<<U, T>> \in StrictSubsetOrdering(S))
  BY <1>1
<1>3. ASSUME NEW U \in R, U \subseteq T, U # T PROVE FALSE
  <2>1. U \in SUBSET S /\ T \in SUBSET S
    BY DEF FiniteSubsetsOf
  <2>2. <<U, T>> \in (SUBSET S) \X (SUBSET S)
    BY <2>1
  <2>3. <<U, T>>[1] \subseteq <<U, T>>[2] /\ <<U, T>>[1] # <<U, T>>[2]
    BY <1>3
  <2>4. <<U, T>> \in StrictSubsetOrdering(S)
    BY <2>2, <2>3, Zenon DEF StrictSubsetOrdering
  <2> QED
    BY <1>2, <2>4
<1> QED
  BY <1>3

(* A set W holds every subset of a finite S when it holds each subset      *)
(* whose proper subsets it holds.                                          *)
LEMMA SubsetInduction ==
  ASSUME NEW S, IsFiniteSet(S), NEW W,
         \A T \in SUBSET S : (\A U \in SUBSET T : U # T => U \in W) => T \in W
  PROVE  SUBSET S \subseteq W
<1> SUFFICES ASSUME (SUBSET S) \ W # {} PROVE FALSE
  OBVIOUS
<1> DEFINE rest == (SUBSET S) \ W
<1>1. rest # {} /\ rest \subseteq FiniteSubsetsOf(S)
  BY FS_Subset DEF FiniteSubsetsOf
<1>2. \E T \in rest : \A U \in rest : U \subseteq T => U = T
  <2> HIDE DEF rest
  <2> QED
    BY <1>1, LeastSubset
<1>3. PICK T \in rest : \A U \in rest : U \subseteq T => U = T
  BY <1>2
<1>4. ASSUME NEW U \in SUBSET T, U # T PROVE U \in W
  BY <1>3, <1>4
<1> QED
  BY <1>4

(* A set W holds a finite S when it holds the empty set and, with a subset *)
(* of S, that subset and one more element.                                 *)
LEMMA SetInduction ==
  ASSUME NEW S, IsFiniteSet(S), NEW W, {} \in W,
         \A T \in SUBSET S : \A x \in S \ T : T \in W => T \cup {x} \in W
  PROVE  SUBSET S \subseteq W
<1>1. ASSUME NEW T \in SUBSET S, \A U \in SUBSET T : U # T => U \in W
      PROVE  T \in W
  <2>1. CASE T = {}
    BY <2>1
  <2>2. CASE T # {}
    <3>1. PICK x : x \in T
      BY <2>2
    <3>2. T \ {x} \in SUBSET T /\ T \ {x} # T
      BY <3>1
    <3>3. T \ {x} \in W
      BY <1>1, <3>2
    <3>4. T \ {x} \in SUBSET S /\ x \in S \ (T \ {x}) /\ (T \ {x}) \cup {x} = T
      BY <3>1
    <3> QED
      BY <3>3, <3>4
  <2> QED
    BY <2>1, <2>2
<1> QED
  BY <1>1, SubsetInduction

(* Induction on the numbers, for a set instead of a predicate.             *)
LEMMA NatSetInduction ==
  ASSUME NEW N, 0 \in N, \A n \in Nat : n \in N => n + 1 \in N
  PROVE  Nat \subseteq N
<1> SUFFICES ASSUME NEW n \in Nat PROVE n \in N
  OBVIOUS
<1> DEFINE W == {T \in SUBSET (0..n) : \A m \in 0..n : T = 0..m => m \in N}
<1>1. ASSUME NEW T \in SUBSET (0..n), \A U \in SUBSET T : U # T => U \in W
      PROVE  T \in W
  <2> SUFFICES ASSUME NEW m \in 0..n, T = 0..m PROVE m \in N
    OBVIOUS
  <2>1. CASE m = 0
    BY <2>1
  <2>2. CASE m # 0
    <3>1. m - 1 \in 0..n /\ m - 1 \in Nat /\ (m - 1) + 1 = m
      BY <2>2
    <3>2. 0..(m - 1) \in SUBSET T /\ m \in T /\ m \notin 0..(m - 1)
      BY <2>2
    <3>3. 0..(m - 1) \in W
      BY <1>1, <3>2
    <3>4. m - 1 \in N
      BY <3>3, <3>1
    <3> QED
      BY <3>4, <3>1
  <2> QED
    BY <2>1, <2>2
<1>2. IsFiniteSet(0..n)
  BY FS_Interval
<1>3. SUBSET (0..n) \subseteq W
  <2> DEFINE S == 0..n
  <2>1. \A T \in SUBSET S : (\A U \in SUBSET T : U # T => U \in W) => T \in W
    BY <1>1
  <2>2. IsFiniteSet(S)
    BY <1>2
  <2> HIDE DEF W, S
  <2>3. SUBSET S \subseteq W
    BY <2>1, <2>2, SubsetInduction
  <2> QED
    BY <2>3 DEF S
<1>4. 0..n \in W /\ n \in 0..n
  <2> HIDE DEF W
  <2> QED
    BY <1>3
<1> QED
  BY <1>4

(* What holds of a number whenever it holds of all before it holds of all. *)
LEMMA CourseOfValues ==
  ASSUME NEW W, NEW last \in Nat, \A n \in 1..last : 1..(n - 1) \subseteq W => n \in W
  PROVE  1..last \subseteq W
<1> DEFINE N == {n \in Nat : n <= last => 1..n \subseteq W}
<1>1. 0 \in N
  OBVIOUS
<1>2. ASSUME NEW n \in Nat, n \in N PROVE n + 1 \in N
  <2> SUFFICES ASSUME n + 1 <= last PROVE 1..(n + 1) \subseteq W
    OBVIOUS
  <2>1. 1..n \subseteq W /\ n + 1 \in 1..last /\ (n + 1) - 1 = n
    BY <1>2
  <2>2. n + 1 \in W
    BY <2>1
  <2>3. 1..(n + 1) = 1..n \cup {n + 1}
    OBVIOUS
  <2> QED
    BY <2>1, <2>2, <2>3
<1>3. Nat \subseteq N
  <2> HIDE DEF N
  <2> QED
    BY <1>1, <1>2, NatSetInduction
<1> QED
  BY <1>3

(* Intervals of the same numbers are as long.                              *)
LEMMA SameInterval ==
  ASSUME NEW a \in Nat, NEW b \in Nat, 1..a = 1..b PROVE a = b
<1>1. a # 0 => a \in 1..b
  OBVIOUS
<1>2. b # 0 => b \in 1..a
  OBVIOUS
<1> QED
  BY <1>1, <1>2

-----------------------------------------------------------------------------
(* A fold with the operation o, given as a function on pairs, in the order *)
(* the folds of the library choose.                                        *)
OneOf(s) == CHOOSE x \in s : TRUE

FoldedTo(g, o, base, f, S) ==
  g = [s \in SUBSET S |->
         IF s = {} THEN base ELSE o[<<f[OneOf(s)], g[s \ {OneOf(s)}]>>]]

Fold(o, base, f, S) == (CHOOSE g : FoldedTo(g, o, base, f, S))[S]

(* The element that the library's folds choose is one of the set.          *)
LEMMA OneOfIsIn ==
  ASSUME NEW s, s # {} PROVE OneOf(s) \in s
BY DEF OneOf

(* Two functions that fold up to S and up to T agree on what S and T       *)
(* share.                                                                  *)
LEMMA FoldedOnce ==
  ASSUME NEW o, NEW base, NEW f, NEW S, NEW T, IsFiniteSet(S), IsFiniteSet(T),
         NEW g, FoldedTo(g, o, base, f, S), NEW h, FoldedTo(h, o, base, f, T)
  PROVE  \A s \in SUBSET (S \cap T) : g[s] = h[s]
<1> DEFINE W == {s \in SUBSET (S \cap T) : g[s] = h[s]}
           both == S \cap T
<1>1. ASSUME NEW s \in SUBSET both, \A u \in SUBSET s : u # s => u \in W
      PROVE  s \in W
  <2>1. s \in SUBSET S /\ s \in SUBSET T
    OBVIOUS
  <2>2. g[s] = IF s = {} THEN base ELSE o[<<f[OneOf(s)], g[s \ {OneOf(s)}]>>]
    BY <2>1 DEF FoldedTo
  <2>3. h[s] = IF s = {} THEN base ELSE o[<<f[OneOf(s)], h[s \ {OneOf(s)}]>>]
    BY <2>1 DEF FoldedTo
  <2>4. CASE s = {}
    BY <2>2, <2>3, <2>4
  <2>5. CASE s # {}
    <3>1. s \ {OneOf(s)} \in SUBSET s /\ s \ {OneOf(s)} # s
      BY <2>5, OneOfIsIn
    <3>2. g[s \ {OneOf(s)}] = h[s \ {OneOf(s)}]
      BY <1>1, <3>1
    <3> QED
      BY <2>2, <2>3, <2>5, <3>2
  <2> QED
    BY <2>4, <2>5
<1>2. IsFiniteSet(both)
  BY FS_Intersection
<1>3. SUBSET both \subseteq W
  <2> HIDE DEF both, W
  <2> QED
    BY <1>1, <1>2, SubsetInduction
<1> QED
  BY <1>3

(* The function that the library's CHOOSE asks for exists.                 *)
LEMMA FoldExists ==
  ASSUME NEW o, NEW base, NEW f, NEW S, IsFiniteSet(S)
  PROVE  \E g : FoldedTo(g, o, base, f, S)
<1> DEFINE W == {T \in SUBSET S : \E g : FoldedTo(g, o, base, f, T)}
<1>1. ASSUME NEW T \in SUBSET S, \A U \in SUBSET T : U # T => U \in W
      PROVE  T \in W
  <2> DEFINE made(u) == CHOOSE g : FoldedTo(g, o, base, f, u)
             h == [s \in SUBSET T |->
                     IF s = {} THEN base
                     ELSE o[<<f[OneOf(s)], Fold(o, base, f, s \ {OneOf(s)})>>]]
  <2>1. ASSUME NEW u \in SUBSET T, u # T
        PROVE  FoldedTo(made(u), o, base, f, u) /\ IsFiniteSet(u)
    BY <1>1, <2>1, FS_Subset
  <2>2. ASSUME NEW u \in SUBSET T, u # T
        PROVE  h[u] = Fold(o, base, f, u)
    <3>1. Fold(o, base, f, u) = made(u)[u]
      BY DEF Fold
    <3>2. made(u)[u] = IF u = {} THEN base
                       ELSE o[<<f[OneOf(u)], made(u)[u \ {OneOf(u)}]>>]
      <4>1. FoldedTo(made(u), o, base, f, u)
        BY <2>1, <2>2
      <4> HIDE DEF made
      <4> QED
        BY <4>1 DEF FoldedTo
    <3>3. CASE u = {}
      BY <3>1, <3>2, <3>3
    <3>4. CASE u # {}
      <4> DEFINE v == u \ {OneOf(u)}
      <4>1. v \in SUBSET T /\ v # T /\ v \in SUBSET (u \cap v) /\ OneOf(u) \in u
        BY <3>4, OneOfIsIn
      <4>2. FoldedTo(made(v), o, base, f, v) /\ IsFiniteSet(v)
        BY <2>1, <4>1
      <4>3. FoldedTo(made(u), o, base, f, u) /\ IsFiniteSet(u)
        BY <2>1, <2>2
      <4>4. made(u)[v] = made(v)[v]
        <5> HIDE DEF made, v
        <5> QED
          BY <4>1, <4>2, <4>3, FoldedOnce
      <4>5. h[u] = o[<<f[OneOf(u)], Fold(o, base, f, v)>>]
        BY <3>4
      <4>6. Fold(o, base, f, v) = made(v)[v]
        BY DEF Fold
      <4> QED
        BY <3>1, <3>2, <3>4, <4>4, <4>5, <4>6
    <3> QED
      BY <3>3, <3>4
  <2>3. ASSUME NEW s \in SUBSET T, s # {}
        PROVE  h[s \ {OneOf(s)}] = Fold(o, base, f, s \ {OneOf(s)})
    <3>1. s \ {OneOf(s)} \in SUBSET T /\ s \ {OneOf(s)} # T
      BY <2>3, OneOfIsIn
    <3> QED
      BY <2>2, <3>1
  <2>4. FoldedTo(h, o, base, f, T)
    BY <2>3 DEF FoldedTo
  <2> QED
    BY <2>4
<1>2. SUBSET S \subseteq W
  <2> HIDE DEF W
  <2> QED
    BY <1>1, SubsetInduction
<1> QED
  BY <1>2

(* The fold of a set in terms of the fold of the set without its chosen    *)
(* element.                                                                *)
LEMMA FoldStep ==
  ASSUME NEW o, NEW base, NEW f, NEW S, IsFiniteSet(S)
  PROVE  Fold(o, base, f, S) =
           IF S = {} THEN base ELSE o[<<f[OneOf(S)], Fold(o, base, f, S \ {OneOf(S)})>>]
<1> DEFINE made(u) == CHOOSE g : FoldedTo(g, o, base, f, u)
           T == S \ {OneOf(S)}
<1>1. FoldedTo(made(S), o, base, f, S) /\ IsFiniteSet(T) /\ FoldedTo(made(T), o, base, f, T)
  <2>1. IsFiniteSet(T)
    BY FS_Difference
  <2> QED
    BY <2>1, FoldExists
<1>2. made(S)[T] = made(T)[T]
  <2>1. T \in SUBSET (S \cap T)
    OBVIOUS
  <2> HIDE DEF made, T
  <2> QED
    BY <1>1, <2>1, FoldedOnce
<1>3. made(S)[S] = IF S = {} THEN base ELSE o[<<f[OneOf(S)], made(S)[T]>>]
  BY <1>1, Zenon DEF FoldedTo
<1> QED
  BY <1>2, <1>3 DEF Fold

-----------------------------------------------------------------------------
(* For an operation that is commutative and associative the order of the   *)
(* choices does not matter.                                                *)
Monoid(V, o, base) ==
  /\ o \in [V \X V -> V] /\ base \in V
  /\ \A a \in V : o[<<base, a>>] = a
  /\ \A a, b \in V : o[<<a, b>>] = o[<<b, a>>]
  /\ \A a, b, c \in V : o[<<a, o[<<b, c>>]>>] = o[<<o[<<a, b>>], c>>]

(* A fold stays in the set of the monoid.                                  *)
LEMMA FoldInV ==
  ASSUME NEW V, NEW o, NEW base, Monoid(V, o, base), NEW S, IsFiniteSet(S),
         NEW f, \A x \in S : f[x] \in V
  PROVE  \A T \in SUBSET S : Fold(o, base, f, T) \in V
<1> DEFINE W == {T \in SUBSET S : Fold(o, base, f, T) \in V}
<1>1. ASSUME NEW T \in SUBSET S, \A U \in SUBSET T : U # T => U \in W
      PROVE  T \in W
  <2>1. IsFiniteSet(T)
    BY FS_Subset
  <2>2. Fold(o, base, f, T) =
          IF T = {} THEN base ELSE o[<<f[OneOf(T)], Fold(o, base, f, T \ {OneOf(T)})>>]
    BY <2>1, FoldStep
  <2>3. CASE T = {}
    BY <2>2, <2>3 DEF Monoid
  <2>4. CASE T # {}
    <3>1. OneOf(T) \in T /\ T \ {OneOf(T)} \in SUBSET T /\ T \ {OneOf(T)} # T
      BY <2>4, OneOfIsIn
    <3>2. Fold(o, base, f, T \ {OneOf(T)}) \in V /\ f[OneOf(T)] \in V
      BY <1>1, <3>1
    <3> QED
      BY <2>2, <2>4, <3>2 DEF Monoid
  <2> QED
    BY <2>3, <2>4
<1> HIDE DEF W
<1>2. SUBSET S \subseteq W
  BY <1>1, SubsetInduction
<1> QED
  BY <1>2 DEF W

(* Any element can be taken out first.                                     *)
LEMMA FoldAny ==
  ASSUME NEW V, NEW o, NEW base, Monoid(V, o, base), NEW S, IsFiniteSet(S),
         NEW f, \A x \in S : f[x] \in V
  PROVE  \A T \in SUBSET S : \A x \in T :
           Fold(o, base, f, T) = o[<<f[x], Fold(o, base, f, T \ {x})>>]
<1> DEFINE F(T) == Fold(o, base, f, T)
           W == {T \in SUBSET S : \A x \in T : F(T) = o[<<f[x], F(T \ {x})>>]}
<1>1. ASSUME NEW T \in SUBSET S, \A U \in SUBSET T : U # T => U \in W
      PROVE  T \in W
  <2> SUFFICES ASSUME NEW x \in T PROVE F(T) = o[<<f[x], F(T \ {x})>>]
    OBVIOUS
  <2> DEFINE c == OneOf(T)
             Tx == T \ {x}
             Tc == T \ {c}
             rest == T \ {x, c}
  <2>1. c \in T /\ IsFiniteSet(T)
    BY OneOfIsIn, FS_Subset
  <2>2. F(T) = o[<<f[c], F(Tc)>>]
    BY <2>1, FoldStep
  <2>3. CASE c = x
    BY <2>2, <2>3
  <2>4. CASE c # x
    <3>1. Tx \in W /\ Tc \in W /\ x \in Tc /\ c \in Tx
      <4>1. Tx \in SUBSET T /\ Tx # T /\ Tc \in SUBSET T /\ Tc # T /\ x \in Tc /\ c \in Tx
        BY <2>1, <2>4
      <4> HIDE DEF Tx, Tc, W
      <4> QED
        BY <1>1, <4>1
    <3>2. Tc \ {x} = rest /\ Tx \ {c} = rest
      OBVIOUS
    <3>3. F(Tc) = o[<<f[x], F(rest)>>] /\ F(Tx) = o[<<f[c], F(rest)>>]
      BY <3>1, <3>2
    <3>4. f[x] \in V /\ f[c] \in V /\ F(rest) \in V
      BY <2>1, FoldInV
    <3> HIDE DEF F, Tx, Tc, rest, c
    <3>5. o[<<f[c], o[<<f[x], F(rest)>>]>>] = o[<<o[<<f[c], f[x]>>], F(rest)>>]
      BY <3>4 DEF Monoid
    <3>6. o[<<f[x], o[<<f[c], F(rest)>>]>>] = o[<<o[<<f[x], f[c]>>], F(rest)>>]
      BY <3>4 DEF Monoid
    <3>7. o[<<f[c], f[x]>>] = o[<<f[x], f[c]>>]
      BY <3>4 DEF Monoid
    <3>8. F(T) = o[<<f[x], F(Tx)>>]
      BY <2>2, <3>3, <3>5, <3>6, <3>7
    <3> QED
      BY <3>8 DEF Tx
  <2> QED
    BY <2>3, <2>4
<1> HIDE DEF W
<1>2. SUBSET S \subseteq W
  BY <1>1, SubsetInduction
<1> QED
  BY <1>2 DEF W

(* The fold of a set and one element more.                                 *)
LEMMA FoldAdd ==
  ASSUME NEW V, NEW o, NEW base, Monoid(V, o, base), NEW S, IsFiniteSet(S),
         NEW f, \A x \in S : f[x] \in V
  PROVE  \A T \in SUBSET S : \A x \in S \ T :
           Fold(o, base, f, T \cup {x}) = o[<<f[x], Fold(o, base, f, T)>>]
<1> SUFFICES ASSUME NEW T \in SUBSET S, NEW x \in S \ T
    PROVE Fold(o, base, f, T \cup {x}) = o[<<f[x], Fold(o, base, f, T)>>]
  OBVIOUS
<1>1. T \cup {x} \in SUBSET S /\ x \in T \cup {x} /\ (T \cup {x}) \ {x} = T
  OBVIOUS
<1>2. Fold(o, base, f, T \cup {x}) = o[<<f[x], Fold(o, base, f, (T \cup {x}) \ {x})>>]
  BY <1>1, FoldAny
<1> QED
  BY <1>1, <1>2

(* The fold of the empty set is the base.                                  *)
LEMMA FoldEmpty ==
  ASSUME NEW o, NEW base, NEW f PROVE Fold(o, base, f, {}) = base
BY FoldStep, FS_EmptySet

(* Only the values on the set matter.                                      *)
LEMMA FoldSame ==
  ASSUME NEW o, NEW base, NEW S, IsFiniteSet(S),
         NEW f, NEW g, \A x \in S : f[x] = g[x]
  PROVE  Fold(o, base, f, S) = Fold(o, base, g, S)
<1> DEFINE W == {T \in SUBSET S : Fold(o, base, f, T) = Fold(o, base, g, T)}
<1>1. ASSUME NEW T \in SUBSET S, \A U \in SUBSET T : U # T => U \in W
      PROVE  T \in W
  <2>1. IsFiniteSet(T)
    BY FS_Subset
  <2>2. /\ Fold(o, base, f, T) = IF T = {} THEN base
              ELSE o[<<f[OneOf(T)], Fold(o, base, f, T \ {OneOf(T)})>>]
        /\ Fold(o, base, g, T) = IF T = {} THEN base
              ELSE o[<<g[OneOf(T)], Fold(o, base, g, T \ {OneOf(T)})>>]
    BY <2>1, FoldStep
  <2>3. CASE T = {}
    BY <2>2, <2>3
  <2>4. CASE T # {}
    <3>1. OneOf(T) \in T /\ T \ {OneOf(T)} \in SUBSET T /\ T \ {OneOf(T)} # T
      BY <2>4, OneOfIsIn
    <3>2. Fold(o, base, f, T \ {OneOf(T)}) = Fold(o, base, g, T \ {OneOf(T)})
      BY <1>1, <3>1
    <3> QED
      BY <2>2, <2>4, <3>1, <3>2
  <2> QED
    BY <2>3, <2>4
<1>2. S \in W
  <2> HIDE DEF W
  <2> QED
    BY <1>1, SubsetInduction
<1> QED
  BY <1>2

-----------------------------------------------------------------------------
(* Sums of natural numbers.                                                *)
Addition == [p \in Nat \X Nat |-> p[1] + p[2]]

SummedTo(g, f, S) ==
  g = [s \in SUBSET S |-> IF s = {} THEN 0 ELSE f[OneOf(s)] + g[s \ {OneOf(s)}]]

(* Addition of numbers is commutative and associative, with unit 0.        *)
LEMMA AdditionMonoid == Monoid(Nat, Addition, 0)
<1>1. Addition \in [Nat \X Nat -> Nat] /\ \A a, b \in Nat : Addition[<<a, b>>] = a + b
  BY DEF Addition
<1>2. \A a, b \in Nat : a + b \in Nat /\ a + b = b + a /\ 0 + a = a
  OBVIOUS
<1>3. \A a, b, c \in Nat : a + (b + c) = (a + b) + c
  OBVIOUS
<1>4. \A a, b, c \in Nat : Addition[<<a, Addition[<<b, c>>]>>] = Addition[<<Addition[<<a, b>>], c>>]
  <2> SUFFICES ASSUME NEW a \in Nat, NEW b \in Nat, NEW c \in Nat
      PROVE Addition[<<a, Addition[<<b, c>>]>>] = Addition[<<Addition[<<a, b>>], c>>]
    OBVIOUS
  <2>1. Addition[<<b, c>>] = b + c /\ Addition[<<a, b>>] = a + b /\ b + c \in Nat /\ a + b \in Nat
    BY <1>1, <1>2
  <2>2. Addition[<<a, b + c>>] = a + (b + c) /\ Addition[<<a + b, c>>] = (a + b) + c
    BY <1>1, <2>1
  <2> QED
    BY <2>1, <2>2, <1>3
<1>5. \A a \in Nat : Addition[<<0, a>>] = a
  BY <1>1, <1>2
<1>6. \A a, b \in Nat : Addition[<<a, b>>] = Addition[<<b, a>>]
  <2> SUFFICES ASSUME NEW a \in Nat, NEW b \in Nat PROVE Addition[<<a, b>>] = Addition[<<b, a>>]
    OBVIOUS
  <2>1. Addition[<<a, b>>] = a + b /\ Addition[<<b, a>>] = b + a
    BY <1>1
  <2> QED
    BY <1>2, <2>1
<1> QED
  BY <1>1, <1>4, <1>5, <1>6 DEF Monoid

(* The library's sum over a set is the fold of addition.                   *)
LEMMA SumIsFold ==
  ASSUME NEW S, IsFiniteSet(S), NEW f, \A x \in S : f[x] \in Nat
  PROVE  SumFunctionOnSet(f, S) = Fold(Addition, 0, f, S)
<1> DEFINE made == CHOOSE g : SummedTo(g, f, S)
           W == {T \in SUBSET S : made[T] = Fold(Addition, 0, f, T)}
           h == [T \in SUBSET S |-> Fold(Addition, 0, f, T)]
<1>1. ASSUME NEW T \in SUBSET S
      PROVE  Fold(Addition, 0, f, T) =
               IF T = {} THEN 0
               ELSE f[OneOf(T)] + Fold(Addition, 0, f, T \ {OneOf(T)})
  <2>1. IsFiniteSet(T)
    BY FS_Subset
  <2>2. Fold(Addition, 0, f, T) =
          IF T = {} THEN 0
          ELSE Addition[<<f[OneOf(T)], Fold(Addition, 0, f, T \ {OneOf(T)})>>]
    BY <2>1, FoldStep
  <2>3. CASE T = {}
    BY <2>2, <2>3
  <2>4. CASE T # {}
    <3>1. OneOf(T) \in T /\ T \ {OneOf(T)} \in SUBSET S
      BY <2>4, OneOfIsIn
    <3>2. f[OneOf(T)] \in Nat /\ Fold(Addition, 0, f, T \ {OneOf(T)}) \in Nat
      BY <3>1, AdditionMonoid, FoldInV
    <3> QED
      BY <2>2, <2>4, <3>2 DEF Addition
  <2> QED
    BY <2>3, <2>4
<1>2. SummedTo(h, f, S)
  <2>1. ASSUME NEW T \in SUBSET S, T # {}
        PROVE  h[T \ {OneOf(T)}] = Fold(Addition, 0, f, T \ {OneOf(T)})
    BY <2>1
  <2> QED
    BY <1>1, <2>1 DEF SummedTo
<1>3. SummedTo(made, f, S)
  <2> HIDE DEF h
  <2> QED
    BY <1>2
<1>4. ASSUME NEW T \in SUBSET S, \A U \in SUBSET T : U # T => U \in W
      PROVE  T \in W
  <2>1. made[T] = IF T = {} THEN 0 ELSE f[OneOf(T)] + made[T \ {OneOf(T)}]
    <3> HIDE DEF made
    <3> QED
      BY <1>3 DEF SummedTo
  <2>2. CASE T = {}
    BY <2>1, <2>2, <1>1
  <2>3. CASE T # {}
    <3>1. T \ {OneOf(T)} \in SUBSET T /\ T \ {OneOf(T)} # T
      BY <2>3, OneOfIsIn
    <3>2. made[T \ {OneOf(T)}] = Fold(Addition, 0, f, T \ {OneOf(T)})
      BY <1>4, <3>1
    <3> HIDE DEF made
    <3>3. made[T] = Fold(Addition, 0, f, T)
      BY <2>1, <2>3, <1>1, <3>2
    <3> QED
      BY <3>3
  <2> QED
    BY <2>2, <2>3
<1>5. S \in W
  <2> HIDE DEF W
  <2> QED
    BY <1>4, SubsetInduction
<1>6. SumFunctionOnSet(f, S) = made[S]
  BY DEF SumFunctionOnSet, FoldFunctionOnSet, MapThenFoldSet, SummedTo, OneOf
<1> QED
  BY <1>5, <1>6

-----------------------------------------------------------------------------
(* Products of natural numbers.                                            *)
Multiplication == [p \in Nat \X Nat |-> p[1] * p[2]]

MultipliedTo(g, f, S) ==
  g = [s \in SUBSET S |-> IF s = {} THEN 1 ELSE f[OneOf(s)] * g[s \ {OneOf(s)}]]

(* Multiplication of numbers is commutative and associative, with unit 1.  *)
LEMMA MultiplicationMonoid == Monoid(Nat, Multiplication, 1)
<1>1. Multiplication \in [Nat \X Nat -> Nat] /\ \A a, b \in Nat : Multiplication[<<a, b>>] = a * b
  BY DEF Multiplication
<1>2. \A a, b \in Nat : a * b \in Nat /\ a * b = b * a /\ 1 * a = a
  OBVIOUS
<1>3. \A a, b, c \in Nat : a * (b * c) = (a * b) * c
  OBVIOUS
<1>4. \A a, b, c \in Nat : Multiplication[<<a, Multiplication[<<b, c>>]>>] = Multiplication[<<Multiplication[<<a, b>>], c>>]
  <2> SUFFICES ASSUME NEW a \in Nat, NEW b \in Nat, NEW c \in Nat
      PROVE Multiplication[<<a, Multiplication[<<b, c>>]>>] = Multiplication[<<Multiplication[<<a, b>>], c>>]
    OBVIOUS
  <2>1. Multiplication[<<b, c>>] = b * c /\ Multiplication[<<a, b>>] = a * b /\ b * c \in Nat /\ a * b \in Nat
    BY <1>1, <1>2
  <2>2. Multiplication[<<a, b * c>>] = a * (b * c) /\ Multiplication[<<a * b, c>>] = (a * b) * c
    BY <1>1, <2>1
  <2> QED
    BY <2>1, <2>2, <1>3
<1>5. \A a \in Nat : Multiplication[<<1, a>>] = a
  BY <1>1, <1>2
<1>6. \A a, b \in Nat : Multiplication[<<a, b>>] = Multiplication[<<b, a>>]
  <2> SUFFICES ASSUME NEW a \in Nat, NEW b \in Nat PROVE Multiplication[<<a, b>>] = Multiplication[<<b, a>>]
    OBVIOUS
  <2>1. Multiplication[<<a, b>>] = a * b /\ Multiplication[<<b, a>>] = b * a
    BY <1>1
  <2> QED
    BY <1>2, <2>1
<1> QED
  BY <1>1, <1>4, <1>5, <1>6 DEF Monoid

ProductOver(f, S) == FoldFunctionOnSet(LAMBDA a, b : a * b, 1, f, S)

(* The product over a set is the fold of multiplication.                   *)
LEMMA ProductIsFold ==
  ASSUME NEW S, IsFiniteSet(S), NEW f, \A x \in S : f[x] \in Nat
  PROVE  ProductOver(f, S) = Fold(Multiplication, 1, f, S)
<1> DEFINE made == CHOOSE g : MultipliedTo(g, f, S)
           W == {T \in SUBSET S : made[T] = Fold(Multiplication, 1, f, T)}
           h == [T \in SUBSET S |-> Fold(Multiplication, 1, f, T)]
<1>1. ASSUME NEW T \in SUBSET S
      PROVE  Fold(Multiplication, 1, f, T) =
               IF T = {} THEN 1
               ELSE f[OneOf(T)] * Fold(Multiplication, 1, f, T \ {OneOf(T)})
  <2>1. IsFiniteSet(T)
    BY FS_Subset
  <2>2. Fold(Multiplication, 1, f, T) =
          IF T = {} THEN 1
          ELSE Multiplication[<<f[OneOf(T)], Fold(Multiplication, 1, f, T \ {OneOf(T)})>>]
    BY <2>1, FoldStep
  <2>3. CASE T = {}
    BY <2>2, <2>3
  <2>4. CASE T # {}
    <3>1. OneOf(T) \in T /\ T \ {OneOf(T)} \in SUBSET S
      BY <2>4, OneOfIsIn
    <3>2. f[OneOf(T)] \in Nat /\ Fold(Multiplication, 1, f, T \ {OneOf(T)}) \in Nat
      BY <3>1, MultiplicationMonoid, FoldInV
    <3> QED
      BY <2>2, <2>4, <3>2 DEF Multiplication
  <2> QED
    BY <2>3, <2>4
<1>2. MultipliedTo(h, f, S)
  <2>1. ASSUME NEW T \in SUBSET S, T # {}
        PROVE  h[T \ {OneOf(T)}] = Fold(Multiplication, 1, f, T \ {OneOf(T)})
    BY <2>1
  <2> QED
    BY <1>1, <2>1 DEF MultipliedTo
<1>3. MultipliedTo(made, f, S)
  <2> HIDE DEF h
  <2> QED
    BY <1>2
<1>4. ASSUME NEW T \in SUBSET S, \A U \in SUBSET T : U # T => U \in W
      PROVE  T \in W
  <2>1. made[T] = IF T = {} THEN 1 ELSE f[OneOf(T)] * made[T \ {OneOf(T)}]
    <3> HIDE DEF made
    <3> QED
      BY <1>3 DEF MultipliedTo
  <2>2. CASE T = {}
    BY <2>1, <2>2, <1>1
  <2>3. CASE T # {}
    <3>1. T \ {OneOf(T)} \in SUBSET T /\ T \ {OneOf(T)} # T
      BY <2>3, OneOfIsIn
    <3>2. made[T \ {OneOf(T)}] = Fold(Multiplication, 1, f, T \ {OneOf(T)})
      BY <1>4, <3>1
    <3> HIDE DEF made
    <3>3. made[T] = Fold(Multiplication, 1, f, T)
      BY <2>1, <2>3, <1>1, <3>2
    <3> QED
      BY <3>3
  <2> QED
    BY <2>2, <2>3
<1>5. S \in W
  <2> HIDE DEF W
  <2> QED
    BY <1>4, SubsetInduction
<1>6. ProductOver(f, S) = made[S]
  BY DEF ProductOver, FoldFunctionOnSet, FoldFunctionOnSet, MapThenFoldSet, MultipliedTo, OneOf
<1> QED
  BY <1>5, <1>6

-----------------------------------------------------------------------------
SumLaws(f, S) ==
  /\ SumFunctionOnSet(f, {}) = 0
  /\ \A T \in SUBSET S : SumFunctionOnSet(f, T) \in Nat
  /\ \A T \in SUBSET S : \A x \in S \ T :
       SumFunctionOnSet(f, T \cup {x}) = f[x] + SumFunctionOnSet(f, T)

(* A sum of numbers is a number, and one more element adds its value.      *)
LEMMA SumStep ==
  ASSUME NEW S, IsFiniteSet(S), NEW f, \A x \in S : f[x] \in Nat
  PROVE  SumLaws(f, S)
<1> DEFINE F(T) == Fold(Addition, 0, f, T)
<1>1. \A T \in SUBSET S : SumFunctionOnSet(f, T) = F(T) /\ F(T) \in Nat
  <2> SUFFICES ASSUME NEW T \in SUBSET S
      PROVE SumFunctionOnSet(f, T) = F(T) /\ F(T) \in Nat
    OBVIOUS
  <2>1. IsFiniteSet(T) /\ \A x \in T : f[x] \in Nat
    BY FS_Subset
  <2> QED
    BY <2>1, SumIsFold, FoldInV, AdditionMonoid
<1>2. F({}) = 0
  BY FoldEmpty
<1>3. ASSUME NEW T \in SUBSET S, NEW x \in S \ T
      PROVE  F(T \cup {x}) = f[x] + F(T)
  <2>0. Fold(Addition, 0, f, T \cup {x}) = Addition[<<f[x], Fold(Addition, 0, f, T)>>]
    BY AdditionMonoid, FoldAdd
  <2>1. F(T \cup {x}) = Addition[<<f[x], F(T)>>]
    BY <2>0
  <2>2. f[x] \in Nat /\ F(T) \in Nat
    BY <1>1
  <2> QED
    BY <2>1, <2>2 DEF Addition
<1>4. ASSUME NEW T \in SUBSET S, NEW x \in S \ T
      PROVE  T \cup {x} \in SUBSET S
  OBVIOUS
<1>5. SumFunctionOnSet(f, {}) = 0
  BY <1>1, <1>2
<1>6. ASSUME NEW T \in SUBSET S, NEW x \in S \ T
      PROVE  SumFunctionOnSet(f, T \cup {x}) = f[x] + SumFunctionOnSet(f, T)
  BY <1>1, <1>3, <1>4
<1> QED
  BY <1>1, <1>5, <1>6 DEF SumLaws

(* Functions that agree on a set have the same sum over it.                *)
LEMMA SumSame ==
  ASSUME NEW S, IsFiniteSet(S), NEW f, NEW g, \A x \in S : f[x] \in Nat /\ g[x] = f[x]
  PROVE  SumFunctionOnSet(g, S) = SumFunctionOnSet(f, S)
<1>1. /\ SumFunctionOnSet(f, S) = Fold(Addition, 0, f, S)
      /\ SumFunctionOnSet(g, S) = Fold(Addition, 0, g, S)
  BY SumIsFold
<1> QED
  BY <1>1, FoldSame

(* A sum is linear.                                                        *)
LEMMA SumScaled ==
  ASSUME NEW S, IsFiniteSet(S), NEW f, NEW g, NEW k \in Nat,
         \A x \in S : f[x] \in Nat /\ g[x] = k * f[x]
  PROVE  SumFunctionOnSet(g, S) = k * SumFunctionOnSet(f, S)
<1> DEFINE F(T) == SumFunctionOnSet(f, T)
           G(T) == SumFunctionOnSet(g, T)
           W == {T \in SUBSET S : G(T) = k * F(T)}
<1>1. \A x \in S : f[x] \in Nat /\ g[x] \in Nat
  OBVIOUS
<1>2. /\ F({}) = 0 /\ G({}) = 0
      /\ \A T \in SUBSET S : F(T) \in Nat /\ G(T) \in Nat
      /\ \A T \in SUBSET S : \A x \in S \ T :
           F(T \cup {x}) = f[x] + F(T) /\ G(T \cup {x}) = g[x] + G(T)
  <2>1. /\ F({}) = 0
        /\ \A T \in SUBSET S : F(T) \in Nat
        /\ \A T \in SUBSET S : \A x \in S \ T : F(T \cup {x}) = f[x] + F(T)
    BY <1>1, SumStep DEF SumLaws
  <2>2. SumLaws(g, S)
    BY <1>1, SumStep
  <2>3. /\ G({}) = 0
        /\ \A T \in SUBSET S : G(T) \in Nat
        /\ \A T \in SUBSET S : \A x \in S \ T : G(T \cup {x}) = g[x] + G(T)
    BY <2>2 DEF SumLaws
  <2> HIDE DEF F, G
  <2> QED
    BY <2>1, <2>3
<1> HIDE DEF F, G
<1>3. {} \in W
  BY <1>2
<1>4. ASSUME NEW T \in SUBSET S, NEW x \in S \ T, T \in W
      PROVE  T \cup {x} \in W
  <2>1. G(T \cup {x}) = k * f[x] + k * F(T) /\ F(T \cup {x}) = f[x] + F(T)
    BY <1>2, <1>4
  <2>2. k * f[x] + k * F(T) = k * (f[x] + F(T))
    BY <1>1, <1>2
  <2> QED
    BY <2>1, <2>2
<1>5. S \in W
  <2> HIDE DEF W
  <2> QED
    BY <1>3, <1>4, SetInduction
<1> QED
  BY <1>5 DEF F, G

(* A sum is the sum over a part and the sum over the rest.                 *)
LEMMA SumParts ==
  ASSUME NEW S, IsFiniteSet(S), NEW f, \A x \in S : f[x] \in Nat, NEW D \in SUBSET S
  PROVE  SumFunctionOnSet(f, S) = SumFunctionOnSet(f, D) + SumFunctionOnSet(f, S \ D)
<1> DEFINE F(T) == SumFunctionOnSet(f, T)
           Both(T) == F(T \cap D) + F(T \ D)
           W == {T \in SUBSET S : F(T) = Both(T)}
<1>1. /\ F({}) = 0
      /\ \A T \in SUBSET S : F(T) \in Nat
      /\ \A T \in SUBSET S : \A x \in S \ T : F(T \cup {x}) = f[x] + F(T)
  BY SumStep DEF SumLaws
<1> HIDE DEF F
<1>2. {} \in W
  <2>1. {} \cap D = {} /\ {} \ D = {}
    OBVIOUS
  <2> QED
    BY <1>1, <2>1
<1>3. ASSUME NEW T \in SUBSET S, NEW x \in S \ T, T \in W
      PROVE  T \cup {x} \in W
  <2>1. F(T \cup {x}) = f[x] + F(T) /\ f[x] \in Nat
    BY <1>1
  <2>2. F(T) = F(T \cap D) + F(T \ D) /\ F(T \cap D) \in Nat /\ F(T \ D) \in Nat
    BY <1>1, <1>3
  <2>3. CASE x \in D
    <3>1. (T \cup {x}) \cap D = (T \cap D) \cup {x} /\ (T \cup {x}) \ D = T \ D
      BY <2>3
    <3>2. F((T \cap D) \cup {x}) = f[x] + F(T \cap D)
      BY <1>1
    <3>3. Both(T \cup {x}) = f[x] + F(T)
      BY <2>1, <2>2, <3>1, <3>2
    <3> QED
      BY <2>1, <3>3
  <2>4. CASE x \notin D
    <3>1. (T \cup {x}) \cap D = T \cap D /\ (T \cup {x}) \ D = (T \ D) \cup {x}
      BY <2>4
    <3>2. F((T \ D) \cup {x}) = f[x] + F(T \ D)
      BY <1>1
    <3>3. Both(T \cup {x}) = F(T \cap D) + (f[x] + F(T \ D))
      BY <3>1, <3>2
    <3>4. Both(T \cup {x}) = f[x] + F(T)
      <4> HIDE DEF Both
      <4> QED
        BY <2>1, <2>2, <3>3
    <3> QED
      BY <2>1, <3>4
  <2> QED
    BY <2>3, <2>4
<1>4. S \in W
  <2> HIDE DEF W
  <2> QED
    BY <1>2, <1>3, SetInduction
<1>5. S \cap D = D
  OBVIOUS
<1> QED
  BY <1>4, <1>5 DEF F

(* A sum of zeros is zero.                                                 *)
LEMMA SumOfZeros ==
  ASSUME NEW S, IsFiniteSet(S), NEW f, \A x \in S : f[x] = 0
  PROVE  SumFunctionOnSet(f, S) = 0
<1>1. \A x \in S : f[x] \in Nat /\ f[x] = 0 * f[x]
  OBVIOUS
<1>2. SumFunctionOnSet(f, S) = 0 * SumFunctionOnSet(f, S)
  BY <1>1, SumScaled, Zenon
<1>3. SumFunctionOnSet(f, S) \in Nat
  BY <1>1, SumStep DEF SumLaws
<1> QED
  BY <1>2, <1>3

(* No term is larger than the sum.                                         *)
LEMMA SumBound ==
  ASSUME NEW S, IsFiniteSet(S), NEW f, \A x \in S : f[x] \in Nat, NEW x \in S
  PROVE  f[x] <= SumFunctionOnSet(f, S)
<1>1. S \ {x} \in SUBSET S /\ x \in S \ (S \ {x}) /\ (S \ {x}) \cup {x} = S
  OBVIOUS
<1>2. /\ SumFunctionOnSet(f, (S \ {x}) \cup {x}) = f[x] + SumFunctionOnSet(f, S \ {x})
      /\ SumFunctionOnSet(f, S \ {x}) \in Nat
  <2>1. /\ \A T \in SUBSET S : SumFunctionOnSet(f, T) \in Nat
        /\ \A T \in SUBSET S : \A y \in S \ T :
             SumFunctionOnSet(f, T \cup {y}) = f[y] + SumFunctionOnSet(f, T)
    BY SumStep DEF SumLaws
  <2> QED
    BY <1>1, <2>1, Zenon
<1>3. SumFunctionOnSet(f, S) = f[x] + SumFunctionOnSet(f, S \ {x})
  BY <1>1, <1>2
<1>4. f[x] \in Nat
  OBVIOUS
<1> QED
  BY <1>2, <1>3, <1>4

(* What is set to zero is missing from the sum.                            *)
LEMMA SumWithout ==
  ASSUME NEW S, IsFiniteSet(S), NEW f, \A x \in S : f[x] \in Nat, NEW D \in SUBSET S,
         NEW g, \A x \in S : g[x] = IF x \in D THEN 0 ELSE f[x]
  PROVE  SumFunctionOnSet(g, S) + SumFunctionOnSet(f, D) = SumFunctionOnSet(f, S)
<1>1. IsFiniteSet(D) /\ IsFiniteSet(S \ D)
  BY FS_Subset, FS_Difference
<1>2. SumFunctionOnSet(g, D) = 0
  BY <1>1, SumOfZeros
<1>3. SumFunctionOnSet(g, S \ D) = SumFunctionOnSet(f, S \ D)
  BY <1>1, SumSame
<1>4. \A x \in S : g[x] \in Nat
  OBVIOUS
<1>5. SumFunctionOnSet(g, S) = SumFunctionOnSet(g, D) + SumFunctionOnSet(g, S \ D)
  BY <1>4, SumParts
<1>6. SumFunctionOnSet(f, S) = SumFunctionOnSet(f, D) + SumFunctionOnSet(f, S \ D)
  BY SumParts
<1>7. SumFunctionOnSet(f, S \ D) \in Nat /\ SumFunctionOnSet(f, D) \in Nat
  BY SumStep DEF SumLaws
<1> QED
  BY <1>2, <1>3, <1>5, <1>6, <1>7

(* Terms that are zero can be left out.                                    *)
LEMMA SumOfPositive ==
  ASSUME NEW S, IsFiniteSet(S), NEW f, \A x \in S : f[x] \in Nat
  PROVE  SumFunctionOnSet(f, {x \in S : f[x] > 0}) = SumFunctionOnSet(f, S)
<1> DEFINE K == {x \in S : f[x] > 0}
<1>1. IsFiniteSet(S \ K) /\ K \in SUBSET S /\ \A x \in S \ K : f[x] = 0
  <2>1. K \in SUBSET S /\ \A x \in S \ K : f[x] = 0
    OBVIOUS
  <2> HIDE DEF K
  <2> QED
    BY <2>1, FS_Difference
<1>2. SumFunctionOnSet(f, S \ K) = 0
  BY <1>1, SumOfZeros
<1>3. SumFunctionOnSet(f, K) \in Nat
  BY <1>1, SumStep DEF SumLaws
<1>4. SumFunctionOnSet(f, S) = SumFunctionOnSet(f, K) + SumFunctionOnSet(f, S \ K)
  BY <1>1, SumParts
<1> QED
  BY <1>2, <1>3, <1>4

(* Products of larger numbers are larger.                                  *)
LEMMA TimesMonotone ==
  ASSUME NEW a \in Nat, NEW b \in Nat, a <= b, NEW p \in Nat, NEW q \in Nat, p <= q
  PROVE  a * p \in Nat /\ b * q \in Nat /\ a * p <= b * q
<1>1. a * p <= b * p
  OBVIOUS
<1>2. b * p <= b * q
  OBVIOUS
<1> QED
  BY <1>1, <1>2

(* The sum of two functions term by term is the sum of their sums.         *)
LEMMA SumAdded ==
  ASSUME NEW S, IsFiniteSet(S), NEW f, NEW g, NEW h,
         \A x \in S : f[x] \in Nat /\ g[x] \in Nat /\ h[x] = f[x] + g[x]
  PROVE  SumFunctionOnSet(h, S) = SumFunctionOnSet(f, S) + SumFunctionOnSet(g, S)
<1> DEFINE F(T) == SumFunctionOnSet(f, T)
           G(T) == SumFunctionOnSet(g, T)
           H(T) == SumFunctionOnSet(h, T)
           W == {T \in SUBSET S : H(T) = F(T) + G(T)}
<1>1. \A x \in S : f[x] \in Nat /\ g[x] \in Nat /\ h[x] \in Nat
  OBVIOUS
<1>2. SumLaws(f, S) /\ SumLaws(g, S) /\ SumLaws(h, S)
  BY <1>1, SumStep
<1>3. /\ F({}) = 0 /\ G({}) = 0 /\ H({}) = 0
      /\ \A T \in SUBSET S : F(T) \in Nat /\ G(T) \in Nat /\ H(T) \in Nat
      /\ \A T \in SUBSET S : \A x \in S \ T :
           /\ F(T \cup {x}) = f[x] + F(T) /\ G(T \cup {x}) = g[x] + G(T)
           /\ H(T \cup {x}) = h[x] + H(T)
  BY <1>2 DEF SumLaws
<1> HIDE DEF F, G, H
<1>4. {} \in W
  BY <1>3
<1>5. ASSUME NEW T \in SUBSET S, NEW x \in S \ T, T \in W PROVE T \cup {x} \in W
  <2>1. /\ F(T \cup {x}) = f[x] + F(T) /\ G(T \cup {x}) = g[x] + G(T)
        /\ H(T \cup {x}) = h[x] + H(T) /\ H(T) = F(T) + G(T)
    BY <1>3, <1>5
  <2>2. F(T) \in Nat /\ G(T) \in Nat /\ f[x] \in Nat /\ g[x] \in Nat /\ h[x] = f[x] + g[x]
    BY <1>3
  <2> QED
    BY <2>1, <2>2
<1>6. S \in W
  <2> HIDE DEF W
  <2> QED
    BY <1>4, <1>5, SetInduction
<1> QED
  BY <1>6 DEF F, G, H

(* Terms outside a part of a set that are all zero can be left out.        *)
LEMMA SumOfPart ==
  ASSUME NEW S, IsFiniteSet(S), NEW D \in SUBSET S, NEW f, \A x \in D : f[x] \in Nat,
         \A x \in S \ D : f[x] = 0
  PROVE  SumFunctionOnSet(f, S) = SumFunctionOnSet(f, D)
<1>1. IsFiniteSet(S \ D) /\ IsFiniteSet(D)
  BY FS_Difference, FS_Subset
<1>2. SumFunctionOnSet(f, S \ D) = 0
  BY <1>1, SumOfZeros
<1>3. \A x \in S : f[x] \in Nat
  OBVIOUS
<1>4. SumFunctionOnSet(f, D) \in Nat
  BY <1>1, SumStep DEF SumLaws
<1>5. SumFunctionOnSet(f, S) = SumFunctionOnSet(f, D) + SumFunctionOnSet(f, S \ D)
  BY <1>3, SumParts
<1> QED
  BY <1>2, <1>4, <1>5

(* A sum with one term that is not zero is this term.                      *)
LEMMA SumOfOne ==
  ASSUME NEW S, IsFiniteSet(S), NEW x \in S, NEW f, f[x] \in Nat, \A y \in S : y # x => f[y] = 0
  PROVE  SumFunctionOnSet(f, S) = f[x]
<1> DEFINE D == {x}
<1>1. /\ D \in SUBSET S /\ \A y \in D : f[y] \in Nat
      /\ \A y \in S \ D : f[y] = 0
  OBVIOUS
<1>2. SumFunctionOnSet(f, S) = SumFunctionOnSet(f, D)
  <2> HIDE DEF D
  <2> QED
    BY <1>1, SumOfPart
<1>3. IsFiniteSet(D)
  BY FS_Singleton
<1>4. {} \in SUBSET D /\ x \in D \ {} /\ {} \cup {x} = D
  OBVIOUS
<1>5. SumLaws(f, D)
  <2> HIDE DEF D
  <2> QED
    BY <1>1, <1>3, SumStep
<1>6. SumFunctionOnSet(f, D) = f[x] + 0
  <2> HIDE DEF D
  <2> QED
    BY <1>4, <1>5 DEF SumLaws
<1> QED
  BY <1>2, <1>6

(* The sum of a list that is one longer.                                   *)
LEMMA SumOfLonger ==
  ASSUME NEW n \in Nat, NEW f, NEW g, DOMAIN f = 1..n, DOMAIN g = 1..(n + 1),
         \A i \in 1..n : f[i] \in Nat /\ g[i] = f[i], g[n + 1] \in Nat
  PROVE  /\ SumFunction(f) \in Nat
         /\ SumFunction(g) = SumFunction(f) + g[n + 1]
<1> DEFINE S == 1..(n + 1)
           T == 1..n
<1>1. IsFiniteSet(S) /\ IsFiniteSet(T)
  BY FS_Interval
<1>2. T \in SUBSET S /\ n + 1 \in S \ T /\ T \cup {n + 1} = S
  OBVIOUS
<1>3. \A i \in S : g[i] \in Nat
  OBVIOUS
<1>4. \A i \in T : f[i] \in Nat /\ g[i] = f[i]
  OBVIOUS
<1>5. SumFunction(f) = SumFunctionOnSet(f, T) /\ SumFunction(g) = SumFunctionOnSet(g, S)
  BY DEF SumFunction
<1> HIDE DEF S, T
<1>6. SumFunctionOnSet(g, T) = SumFunctionOnSet(f, T)
  BY <1>1, <1>4, SumSame
<1>7. SumLaws(g, S) /\ SumLaws(f, T)
  BY <1>1, <1>3, <1>4, SumStep
<1>8. SumFunctionOnSet(f, T) \in Nat
  BY <1>7 DEF SumLaws
<1>9. SumFunctionOnSet(g, S) = g[n + 1] + SumFunctionOnSet(g, T)
  BY <1>2, <1>7 DEF SumLaws
<1>10. g[n + 1] \in Nat
  OBVIOUS
<1> QED
  BY <1>5, <1>6, <1>8, <1>9, <1>10

-----------------------------------------------------------------------------
(* Sequences of anything.                                                  *)
IsList(s) == \E S : s \in Seq(S)

(* The length and the domain of a sequence.                                *)
LEMMA ListFacts ==
  ASSUME NEW s, IsList(s)
  PROVE  Len(s) \in Nat /\ DOMAIN s = 1..Len(s)
BY DEF IsList

(* Append adds one element at the end and leaves the rest.                 *)
LEMMA AppendFacts ==
  ASSUME NEW s, IsList(s), NEW e
  PROVE  /\ IsList(Append(s, e))
         /\ Len(Append(s, e)) = Len(s) + 1
         /\ DOMAIN Append(s, e) = 1..(Len(s) + 1)
         /\ \A i \in 1..Len(s) : Append(s, e)[i] = s[i]
         /\ Append(s, e)[Len(s) + 1] = e
<1>1. PICK S : s \in Seq(S)
  BY DEF IsList
<1>2. s \in Seq(S \cup {e}) /\ e \in S \cup {e}
  BY <1>1
<1>3. Append(s, e) \in Seq(S \cup {e})
  BY <1>2
<1> QED
  BY <1>2, <1>3 DEF IsList

(* The elements of a concatenation are those of the first sequence, then   *)
(* those of the second.                                                    *)
LEMMA ConcatFacts ==
  ASSUME NEW s, NEW t, IsList(s), IsList(t)
  PROVE  /\ IsList(s \o t)
         /\ Len(s \o t) = Len(s) + Len(t)
         /\ DOMAIN (s \o t) = 1..(Len(s) + Len(t))
         /\ \A i \in 1..Len(s) : (s \o t)[i] = s[i]
         /\ \A i \in 1..Len(t) : (s \o t)[Len(s) + i] = t[i]
<1>1. PICK S, T : s \in Seq(S) /\ t \in Seq(T)
  BY DEF IsList
<1>2. s \in Seq(S \cup T) /\ t \in Seq(S \cup T)
  BY <1>1
<1>3. s \o t \in Seq(S \cup T)
  BY <1>2
<1> QED
  BY <1>2, <1>3 DEF IsList

(* A function on 1..n is a sequence of length n.                           *)
LEMMA FunctionIsList ==
  ASSUME NEW n \in Nat, NEW s, DOMAIN s = 1..n, s = [i \in 1..n |-> s[i]]
  PROVE  IsList(s) /\ Len(s) = n
<1> DEFINE S == {s[i] : i \in 1..n}
<1>1. s \in [1..n -> S]
  OBVIOUS
<1>2. s \in Seq(S)
  BY <1>1, SeqDef, Zenon
<1>3. IsList(s)
  BY <1>2 DEF IsList
<1>4. Len(s) \in Nat /\ 1..Len(s) = 1..n
  BY <1>3, ListFacts
<1>5. ~ Len(s) < n
  <2> SUFFICES ASSUME Len(s) < n PROVE FALSE
    OBVIOUS
  <2>1. n \in 1..n /\ n \notin 1..Len(s)
    BY <1>4
  <2> QED
    BY <2>1, <1>4
<1>6. ~ n < Len(s)
  <2> SUFFICES ASSUME n < Len(s) PROVE FALSE
    OBVIOUS
  <2>1. Len(s) \in 1..Len(s) /\ Len(s) \notin 1..n
    BY <1>4
  <2> QED
    BY <2>1, <1>4
<1> QED
  BY <1>3, <1>4, <1>5, <1>6

(* Sequences of the same length with the same elements are equal.          *)
LEMMA ListsEqual ==
  ASSUME NEW s, NEW t, IsList(s), IsList(t), Len(s) = Len(t),
         \A i \in 1..Len(s) : s[i] = t[i]
  PROVE  s = t
<1>1. PICK S, T : s \in Seq(S) /\ t \in Seq(T)
  BY DEF IsList
<1>2. s \in Seq(S \cup T) /\ t \in Seq(S \cup T)
  BY <1>1
<1> QED
  BY <1>2, SeqEqual

(* A sequence that is longer by one element, e, is the Append of e.        *)
LEMMA AppendIs ==
  ASSUME NEW s, NEW t, NEW e, IsList(s), IsList(t), Len(t) = Len(s) + 1,
         \A i \in 1..Len(s) : t[i] = s[i], t[Len(s) + 1] = e
  PROVE  t = Append(s, e)
<1> DEFINE u == Append(s, e)
<1>1. /\ IsList(u) /\ Len(u) = Len(s) + 1 /\ Len(s) \in Nat
      /\ (\A i \in 1..Len(s) : u[i] = s[i]) /\ u[Len(s) + 1] = e
  BY AppendFacts, ListFacts
<1> HIDE DEF u
<1>2. ASSUME NEW i \in 1..(Len(s) + 1) PROVE t[i] = u[i]
  <2>1. i \in 1..Len(s) \/ i = Len(s) + 1
    BY <1>1
  <2> QED
    BY <1>1, <2>1
<1>3. t = u
  BY <1>1, <1>2, ListsEqual
<1> QED
  BY <1>3 DEF u

(* The only sequence of length 0 is << >>.                                 *)
LEMMA EmptyList ==
  /\ IsList(<< >>) /\ Len(<< >>) = 0
  /\ \A s : IsList(s) => (s = << >> <=> Len(s) = 0)
  /\ \A s : IsList(s) => << >> \o s = s
<1>1. << >> \in Seq({}) /\ Len(<< >>) = 0
  OBVIOUS
<1>2. IsList(<< >>)
  BY <1>1 DEF IsList
<1>3. ASSUME NEW s, IsList(s) PROVE (s = << >> <=> Len(s) = 0) /\ << >> \o s = s
  <2>1. PICK S : s \in Seq(S)
    BY <1>3 DEF IsList
  <2> QED
    BY <2>1
<1> QED
  BY <1>1, <1>2, <1>3

(* A concatenation holds the elements of both sequences.                   *)
LEMMA ConcatRange ==
  ASSUME NEW s, NEW t, IsList(s), IsList(t)
  PROVE  Range(s \o t) = Range(s) \cup Range(t)
<1>1. ASSUME NEW k \in 1..(Len(s) + Len(t))
      PROVE  k \in 1..Len(s) \/ \E i \in 1..Len(t) : k = Len(s) + i
  <2>1. Len(s) \in Nat /\ Len(t) \in Nat
    BY ListFacts
  <2>2. CASE k <= Len(s)
    BY <2>1, <2>2
  <2>3. CASE ~ k <= Len(s)
    <3>1. k - Len(s) \in 1..Len(t) /\ k = Len(s) + (k - Len(s))
      BY <2>1, <2>3
    <3> QED
      BY <3>1
  <2> QED
    BY <2>2, <2>3
<1>2. /\ DOMAIN (s \o t) = 1..(Len(s) + Len(t))
      /\ \A i \in 1..Len(s) : (s \o t)[i] = s[i]
      /\ \A i \in 1..Len(t) : (s \o t)[Len(s) + i] = t[i]
  BY ConcatFacts
<1>3. /\ DOMAIN s = 1..Len(s) /\ DOMAIN t = 1..Len(t)
      /\ \A i \in 1..Len(s) : i \in 1..(Len(s) + Len(t))
      /\ \A i \in 1..Len(t) : Len(s) + i \in 1..(Len(s) + Len(t))
  BY ListFacts
<1>4. ASSUME NEW x \in Range(s \o t) PROVE x \in Range(s) \cup Range(t)
  <2>1. PICK k \in 1..(Len(s) + Len(t)) : x = (s \o t)[k]
    BY <1>2 DEF Range
  <2> QED
    BY <1>1, <1>2, <1>3, <2>1 DEF Range
<1>5. ASSUME NEW x \in Range(s) PROVE x \in Range(s \o t)
  <2>1. PICK i \in 1..Len(s) : x = s[i]
    BY <1>3 DEF Range
  <2> QED
    BY <1>2, <1>3, <2>1 DEF Range
<1>6. ASSUME NEW x \in Range(t) PROVE x \in Range(s \o t)
  <2>1. PICK i \in 1..Len(t) : x = t[i]
    BY <1>3 DEF Range
  <2> QED
    BY <1>2, <1>3, <2>1 DEF Range
<1> QED
  BY <1>4, <1>5, <1>6

(* A concatenation repeats nothing exactly when its parts do not and have  *)
(* nothing in common.                                                      *)
LEMMA ConcatInjective ==
  ASSUME NEW s, NEW t, IsList(s), IsList(t)
  PROVE  IsInjective(s \o t) <=>
           IsInjective(s) /\ IsInjective(t) /\ Range(s) \cap Range(t) = {}
<1> DEFINE n == Len(s)
           m == Len(t)
           u == s \o t
<1>1. /\ DOMAIN u = 1..(n + m) /\ DOMAIN s = 1..n /\ DOMAIN t = 1..m
      /\ \A i \in 1..n : u[i] = s[i]
      /\ \A i \in 1..m : u[n + i] = t[i]
      /\ n \in Nat /\ m \in Nat
  BY ConcatFacts, ListFacts
<1> HIDE DEF n, m, u
<1>2. ASSUME IsInjective(u)
      PROVE  IsInjective(s) /\ IsInjective(t) /\ Range(s) \cap Range(t) = {}
  <2>1. ASSUME NEW i \in 1..n, NEW j \in 1..n, s[i] = s[j] PROVE i = j
    <3>1. i \in 1..(n + m) /\ j \in 1..(n + m)
      BY <1>1
    <3> QED
      BY <1>1, <1>2, <2>1, <3>1 DEF IsInjective
  <2>2. ASSUME NEW i \in 1..m, NEW j \in 1..m, t[i] = t[j] PROVE i = j
    <3>1. n + i \in 1..(n + m) /\ n + j \in 1..(n + m)
      BY <1>1
    <3>2. n + i = n + j
      BY <1>1, <1>2, <2>2, <3>1 DEF IsInjective
    <3> QED
      BY <1>1, <3>2
  <2>3. ASSUME NEW i \in 1..n, NEW j \in 1..m, s[i] = t[j] PROVE FALSE
    <3>1. i \in 1..(n + m) /\ n + j \in 1..(n + m) /\ i # n + j
      BY <1>1
    <3> QED
      BY <1>1, <1>2, <2>3, <3>1 DEF IsInjective
  <2> QED
    BY <1>1, <2>1, <2>2, <2>3 DEF IsInjective, Range
<1>3. ASSUME IsInjective(s), IsInjective(t), Range(s) \cap Range(t) = {}
      PROVE  IsInjective(u)
  <2>1. ASSUME NEW k \in 1..(n + m)
        PROVE  \/ k \in 1..n /\ u[k] = s[k] /\ u[k] \in Range(s)
               \/ k - n \in 1..m /\ u[k] = t[k - n] /\ u[k] \in Range(t)
    <3>1. CASE k <= n
      <4>1. k \in 1..n
        BY <1>1, <3>1
      <4> QED
        BY <1>1, <4>1 DEF Range
    <3>2. CASE ~ k <= n
      <4>1. k - n \in 1..m /\ n + (k - n) = k
        BY <1>1, <3>2
      <4> QED
        BY <1>1, <4>1 DEF Range
    <3> QED
      BY <3>1, <3>2
  <2>2. ASSUME NEW i \in 1..(n + m), NEW j \in 1..(n + m), u[i] = u[j] PROVE i = j
    <3>1. CASE i \in 1..n /\ j \in 1..n /\ s[i] = s[j]
      BY <1>1, <1>3, <3>1 DEF IsInjective
    <3>2. CASE i - n \in 1..m /\ j - n \in 1..m /\ t[i - n] = t[j - n]
      <4>1. i - n = j - n
        BY <1>1, <1>3, <3>2 DEF IsInjective
      <4> QED
        BY <1>1, <4>1
    <3>3. CASE (u[i] \in Range(s) /\ u[j] \in Range(t)) \/ (u[i] \in Range(t) /\ u[j] \in Range(s))
      BY <1>3, <2>2, <3>3
    <3> QED
      BY <2>1, <2>2, <3>1, <3>2, <3>3
  <2> QED
    BY <1>1, <2>2 DEF IsInjective
<1> QED
  BY <1>2, <1>3 DEF u

-----------------------------------------------------------------------------
(* FlattenSeq, through the sequence h of its prefixes.                     *)
PrefixesOf(h, n, ss) == h = [i \in 1..n |-> IF i = 1 THEN ss[i] ELSE h[i - 1] \o ss[i]]

(* The function that FlattenSeq's CHOOSE asks for exists.                  *)
LEMMA PrefixesExist ==
  ASSUME NEW ss PROVE \A n \in Nat : \E h : PrefixesOf(h, n, ss)
<1> DEFINE N == {n \in Nat : \E h : PrefixesOf(h, n, ss)}
<1>1. 0 \in N
  <2>1. PrefixesOf([i \in 1..0 |-> << >>], 0, ss)
    BY DEF PrefixesOf
  <2> QED
    BY <2>1
<1>2. ASSUME NEW n \in Nat, n \in N PROVE n + 1 \in N
  <2>1. PICK h : PrefixesOf(h, n, ss)
    BY <1>2
  <2> DEFINE last == IF n = 0 THEN ss[1] ELSE h[n] \o ss[n + 1]
             g == [i \in 1..(n + 1) |-> IF i = n + 1 THEN last ELSE h[i]]
  <2>2. ASSUME NEW i \in 1..(n + 1)
        PROVE  g[i] = IF i = 1 THEN ss[i] ELSE g[i - 1] \o ss[i]
    <3>1. CASE i = n + 1
      <4>1. CASE n = 0
        BY <3>1, <4>1
      <4>2. CASE n # 0
        <5>1. n \in 1..(n + 1) /\ n # n + 1 /\ n + 1 # 1 /\ (n + 1) - 1 = n
          BY <4>2
        <5> QED
          BY <3>1, <4>2, <5>1
      <4> QED
        BY <4>1, <4>2
    <3>2. CASE i # n + 1
      <4>1. i \in 1..n
        BY <3>2
      <4>2. g[i] = h[i] /\ h[i] = IF i = 1 THEN ss[i] ELSE h[i - 1] \o ss[i]
        BY <2>1, <3>2, <4>1 DEF PrefixesOf
      <4>3. CASE i = 1
        BY <4>2, <4>3
      <4>4. CASE i # 1
        <5>1. i - 1 \in 1..(n + 1) /\ i - 1 # n + 1
          BY <4>1, <4>4
        <5> QED
          BY <4>2, <4>4, <5>1
      <4> QED
        BY <4>3, <4>4
    <3> QED
      BY <3>1, <3>2
  <2>3. PrefixesOf(g, n + 1, ss)
    <3>1. g = [i \in 1..(n + 1) |-> g[i]]
      OBVIOUS
    <3> HIDE DEF g
    <3> QED
      BY <2>2, <3>1 DEF PrefixesOf
  <2> HIDE DEF g
  <2> QED
    BY <2>3
<1>3. Nat \subseteq N
  <2> HIDE DEF N
  <2> QED
    BY <1>1, <1>2, NatSetInduction
<1> QED
  BY <1>3

(* Two functions of concatenated prefixes agree as far as their sequences  *)
(* of sequences do.                                                        *)
LEMMA PrefixesAgree ==
  ASSUME NEW ss, NEW ts, NEW n \in Nat, NEW m \in Nat, NEW k \in Nat, k <= n, k <= m,
         \A i \in 1..k : ss[i] = ts[i],
         NEW g, PrefixesOf(g, n, ss), NEW h, PrefixesOf(h, m, ts)
  PROVE  \A i \in 1..k : g[i] = h[i]
<1> DEFINE N == {i \in Nat : i \in 1..k => g[i] = h[i]}
<1>1. 0 \in N
  OBVIOUS
<1>2. ASSUME NEW i \in Nat, i \in N PROVE i + 1 \in N
  <2> SUFFICES ASSUME i + 1 \in 1..k PROVE g[i + 1] = h[i + 1]
    OBVIOUS
  <2>1. i + 1 \in 1..n /\ i + 1 \in 1..m /\ (i + 1) - 1 = i
    OBVIOUS
  <2>2. /\ g[i + 1] = IF i + 1 = 1 THEN ss[i + 1] ELSE g[i] \o ss[i + 1]
        /\ h[i + 1] = IF i + 1 = 1 THEN ts[i + 1] ELSE h[i] \o ts[i + 1]
    BY <2>1 DEF PrefixesOf
  <2>3. i + 1 # 1 => g[i] = h[i]
    BY <1>2
  <2> QED
    BY <2>2, <2>3
<1>3. Nat \subseteq N
  <2> HIDE DEF N
  <2> QED
    BY <1>1, <1>2, NatSetInduction
<1> QED
  BY <1>3

IsListOfLists(ss) == IsList(ss) /\ \A i \in 1..Len(ss) : IsList(ss[i])

FlatPrefixes(ss) == CHOOSE h : PrefixesOf(h, Len(ss), ss)

(* FlattenSeq is the last of the concatenated prefixes.                    *)
LEMMA FlattenIsPrefix ==
  ASSUME NEW ss, IsListOfLists(ss)
  PROVE  /\ PrefixesOf(FlatPrefixes(ss), Len(ss), ss)
         /\ FlattenSeq(ss) = IF ss = << >> THEN << >> ELSE FlatPrefixes(ss)[Len(ss)]
<1>1. Len(ss) \in Nat /\ (ss = << >> <=> Len(ss) = 0)
  BY ListFacts, EmptyList DEF IsListOfLists
<1>2. \E h : PrefixesOf(h, Len(ss), ss)
  BY <1>1, PrefixesExist
<1>3. PrefixesOf(FlatPrefixes(ss), Len(ss), ss)
  BY <1>2 DEF FlatPrefixes
<1>4. FlattenSeq(ss) = IF Len(ss) = 0 THEN ss ELSE FlatPrefixes(ss)[Len(ss)]
  BY DEF FlattenSeq, FlatPrefixes, PrefixesOf
<1> QED
  BY <1>1, <1>3, <1>4

(* FlattenSeq of sequences is a sequence.                                  *)
LEMMA FlattenIsList ==
  ASSUME NEW ss, IsListOfLists(ss) PROVE IsList(FlattenSeq(ss))
<1> DEFINE h == FlatPrefixes(ss)
           N == {n \in Nat : n \in 1..Len(ss) => IsList(h[n])}
<1>1. 0 \in N
  OBVIOUS
<1>2. ASSUME NEW n \in Nat, n \in N PROVE n + 1 \in N
  <2> SUFFICES ASSUME n + 1 \in 1..Len(ss) PROVE IsList(h[n + 1])
    OBVIOUS
  <2>1. IsList(ss[n + 1]) /\ (n + 1) - 1 = n /\ Len(ss) \in Nat
    BY ListFacts DEF IsListOfLists
  <2>2. h[n + 1] = IF n + 1 = 1 THEN ss[n + 1] ELSE h[n] \o ss[n + 1]
    <3>1. PrefixesOf(h, Len(ss), ss)
      BY FlattenIsPrefix
    <3> HIDE DEF h
    <3> QED
      BY <2>1, <3>1 DEF PrefixesOf
  <2>3. n + 1 # 1 => IsList(h[n])
    BY <1>2, <2>1
  <2> HIDE DEF h
  <2> QED
    BY <2>1, <2>2, <2>3, ConcatFacts
<1>3. Nat \subseteq N
  <2> HIDE DEF N
  <2> QED
    BY <1>1, <1>2, NatSetInduction
<1>4. Len(ss) \in Nat /\ (ss = << >> <=> Len(ss) = 0)
  BY ListFacts, EmptyList DEF IsListOfLists
<1>5. CASE ss = << >>
  BY <1>5, FlattenIsPrefix, EmptyList
<1>6. CASE ss # << >>
  <2>1. IsList(h[Len(ss)])
    BY <1>3, <1>4, <1>6
  <2> QED
    BY <1>6, <2>1, FlattenIsPrefix
<1> QED
  BY <1>5, <1>6

(* One more sequence is concatenated at the end of what FlattenSeq         *)
(* returns.                                                                *)
LEMMA FlattenAppend ==
  ASSUME NEW ss, IsListOfLists(ss), NEW s, IsList(s)
  PROVE  FlattenSeq(Append(ss, s)) = FlattenSeq(ss) \o s
<1> DEFINE ts == Append(ss, s)
           n == Len(ss)
           g == FlatPrefixes(ss)
           h == FlatPrefixes(ts)
<1>1. /\ n \in Nat /\ Len(ts) = n + 1 /\ IsList(ts)
      /\ \A i \in 1..n : ts[i] = ss[i]
      /\ ts[n + 1] = s
  BY AppendFacts, ListFacts DEF IsListOfLists
<1>2. IsListOfLists(ts)
  <2> SUFFICES ASSUME NEW i \in 1..(n + 1) PROVE IsList(ts[i])
    BY <1>1 DEF IsListOfLists
  <2>1. CASE i \in 1..n
    BY <1>1, <2>1 DEF IsListOfLists
  <2>2. CASE i = n + 1
    BY <1>1, <2>2
  <2> QED
    BY <1>1, <2>1, <2>2
<1>3. ts # << >> /\ (ss = << >> <=> n = 0)
  BY <1>1, EmptyList DEF IsListOfLists
<1>4. /\ PrefixesOf(g, n, ss) /\ PrefixesOf(h, n + 1, ts)
      /\ FlattenSeq(ts) = h[n + 1]
      /\ FlattenSeq(ss) = IF ss = << >> THEN << >> ELSE g[n]
  BY <1>1, <1>2, <1>3, FlattenIsPrefix
<1>5. (n + 1) \in 1..(n + 1) /\ (n + 1) - 1 = n
  BY <1>1
<1> HIDE DEF g, h, n, ts
<1>6. h[n + 1] = IF n + 1 = 1 THEN s ELSE h[n] \o s
  BY <1>1, <1>4, <1>5 DEF PrefixesOf
<1>7. CASE n = 0
  <2>1. FlattenSeq(ts) = s /\ FlattenSeq(ss) = << >>
    BY <1>3, <1>4, <1>6, <1>7
  <2> QED
    BY <2>1, EmptyList DEF ts
<1>8. CASE n # 0
  <2>1. \A i \in 1..n : g[i] = h[i]
    BY <1>1, <1>4, PrefixesAgree
  <2>2. g[n] = h[n] /\ n + 1 # 1
    BY <1>1, <1>8, <2>1
  <2>3. FlattenSeq(ts) = h[n] \o s
    BY <1>4, <1>6, <2>2
  <2>4. FlattenSeq(ss) = g[n]
    BY <1>3, <1>4, <1>8
  <2> QED
    BY <2>2, <2>3, <2>4 DEF ts
<1> QED
  BY <1>7, <1>8

(* Flattening no sequence gives the empty one.                             *)
LEMMA FlattenEmpty == FlattenSeq(<< >>) = << >>
<1>1. IsListOfLists(<< >>)
  BY EmptyList DEF IsListOfLists
<1> QED
  BY <1>1, FlattenIsPrefix

-----------------------------------------------------------------------------
(* The first n elements of a sequence, and induction over n.               *)
LEMMA FirstFacts ==
  ASSUME NEW s, IsList(s), NEW n \in 0..Len(s)
  PROVE  /\ IsList(SubSeq(s, 1, n)) /\ Len(SubSeq(s, 1, n)) = n
         /\ \A i \in 1..n : SubSeq(s, 1, n)[i] = s[i]
<1>1. PICK S : s \in Seq(S)
  BY DEF IsList
<1>2. 1 \in 1..(Len(s) + 1) /\ n \in (1 - 1)..Len(s) /\ Len(s) \in Nat
  BY ListFacts
<1>3. /\ SubSeq(s, 1, n) \in Seq(S)
      /\ Len(SubSeq(s, 1, n)) = n
      /\ \A i \in 1..n : SubSeq(s, 1, n)[i] = s[i]
  BY <1>1, <1>2
<1> QED
  BY <1>3 DEF IsList

(* The first n + 1 elements are the first n and the next.                  *)
LEMMA FirstAppend ==
  ASSUME NEW s, IsList(s), NEW n \in Nat, n < Len(s)
  PROVE  SubSeq(s, 1, n + 1) = Append(SubSeq(s, 1, n), s[n + 1])
<1> DEFINE a == SubSeq(s, 1, n + 1)
           b == Append(SubSeq(s, 1, n), s[n + 1])
<1>0. n \in 0..Len(s) /\ n + 1 \in 0..Len(s)
  BY ListFacts
<1>1. IsList(a) /\ Len(a) = n + 1 /\ \A i \in 1..(n + 1) : a[i] = s[i]
  BY <1>0, FirstFacts
<1>2. /\ IsList(SubSeq(s, 1, n)) /\ Len(SubSeq(s, 1, n)) = n
      /\ \A i \in 1..n : SubSeq(s, 1, n)[i] = s[i]
  BY <1>0, FirstFacts
<1>3. /\ IsList(b) /\ Len(b) = n + 1
      /\ \A i \in 1..n : b[i] = SubSeq(s, 1, n)[i]
      /\ b[n + 1] = s[n + 1]
  BY <1>2, AppendFacts
<1> HIDE DEF a, b
<1>4. ASSUME NEW i \in 1..(n + 1) PROVE a[i] = b[i]
  <2>1. CASE i = n + 1
    BY <1>1, <1>3, <2>1
  <2>2. CASE i # n + 1
    <3>1. i \in 1..n
      BY <2>2
    <3> QED
      BY <1>1, <1>2, <1>3, <3>1
  <2> QED
    BY <2>1, <2>2
<1>5. a = b
  BY <1>1, <1>3, <1>4, ListsEqual
<1> QED
  BY <1>5 DEF a, b

(* None and all of the elements of a sequence.                             *)
LEMMA AllOfIt ==
  ASSUME NEW s, IsList(s)
  PROVE  SubSeq(s, 1, 0) = << >> /\ SubSeq(s, 1, Len(s)) = s
<1>1. Len(s) \in Nat /\ 0 \in 0..Len(s) /\ Len(s) \in 0..Len(s)
  BY ListFacts
<1>2. IsList(SubSeq(s, 1, 0)) /\ Len(SubSeq(s, 1, 0)) = 0
  BY <1>1, FirstFacts
<1>3. /\ IsList(SubSeq(s, 1, Len(s))) /\ Len(SubSeq(s, 1, Len(s))) = Len(s)
      /\ \A i \in 1..Len(s) : SubSeq(s, 1, Len(s))[i] = s[i]
  BY <1>1, FirstFacts
<1>4. SubSeq(s, 1, 0) = << >>
  BY <1>2, EmptyList
<1>5. SubSeq(s, 1, Len(s)) = s
  BY <1>3, ListsEqual
<1> QED
  BY <1>4, <1>5

(* Induction on the prefixes of a sequence, for a set instead of a         *)
(* predicate.                                                              *)
LEMMA ListInduction ==
  ASSUME NEW s, IsList(s), NEW W, << >> \in W,
         \A n \in 0..(Len(s) - 1) :
           SubSeq(s, 1, n) \in W => Append(SubSeq(s, 1, n), s[n + 1]) \in W
  PROVE  s \in W
<1> DEFINE N == {n \in Nat : n <= Len(s) => SubSeq(s, 1, n) \in W}
<1>1. 0 \in N
  BY AllOfIt
<1>2. ASSUME NEW n \in Nat, n \in N PROVE n + 1 \in N
  <2> SUFFICES ASSUME n + 1 <= Len(s) PROVE SubSeq(s, 1, n + 1) \in W
    OBVIOUS
  <2>1. Len(s) \in Nat
    BY ListFacts
  <2>2. n < Len(s) /\ n \in 0..(Len(s) - 1) /\ n <= Len(s)
    BY <2>1
  <2>3. SubSeq(s, 1, n) \in W
    BY <1>2, <2>2
  <2>4. SubSeq(s, 1, n + 1) = Append(SubSeq(s, 1, n), s[n + 1])
    BY <2>2, FirstAppend
  <2> QED
    BY <2>2, <2>3, <2>4
<1>3. Nat \subseteq N
  <2> HIDE DEF N
  <2> QED
    BY <1>1, <1>2, NatSetInduction
<1>4. Len(s) \in N
  <2>1. Len(s) \in Nat
    BY ListFacts
  <2> HIDE DEF N
  <2> QED
    BY <1>3, <2>1
<1>5. SubSeq(s, 1, Len(s)) \in W /\ SubSeq(s, 1, Len(s)) = s
  BY <1>4, AllOfIt
<1> QED
  BY <1>5

(* What a part contains, the flattened sequence contains.                  *)
LEMMA FlattenRange ==
  ASSUME NEW ss, IsListOfLists(ss)
  PROVE  \A i \in 1..Len(ss) : Range(ss[i]) \subseteq Range(FlattenSeq(ss))
<1> DEFINE First(n) == SubSeq(ss, 1, n)
           N == {n \in Nat : n <= Len(ss) =>
                   \A i \in 1..n : Range(ss[i]) \subseteq Range(FlattenSeq(First(n)))}
<1>0. IsList(ss) /\ Len(ss) \in Nat
  BY ListFacts DEF IsListOfLists
<1>1. 0 \in N
  OBVIOUS
<1>2. ASSUME NEW n \in Nat, n \in N PROVE n + 1 \in N
  <2> SUFFICES ASSUME n + 1 <= Len(ss)
      PROVE  \A i \in 1..(n + 1) : Range(ss[i]) \subseteq Range(FlattenSeq(First(n + 1)))
    OBVIOUS
  <2>1. n < Len(ss) /\ n \in 0..Len(ss) /\ n <= Len(ss) /\ n + 1 \in 1..Len(ss)
    BY <1>0
  <2>2. /\ IsList(First(n)) /\ Len(First(n)) = n
        /\ \A i \in 1..n : First(n)[i] = ss[i]
    BY <1>0, <2>1, FirstFacts
  <2>3. IsListOfLists(First(n)) /\ IsList(ss[n + 1])
    BY <1>0, <2>1, <2>2 DEF IsListOfLists
  <2>4. FlattenSeq(First(n + 1)) = FlattenSeq(First(n)) \o ss[n + 1]
    BY <1>0, <2>1, <2>3, FirstAppend, FlattenAppend
  <2>5. IsList(FlattenSeq(First(n)))
    BY <2>3, FlattenIsList
  <2>6. Range(FlattenSeq(First(n + 1))) = Range(FlattenSeq(First(n))) \cup Range(ss[n + 1])
    BY <2>3, <2>4, <2>5, ConcatRange
  <2>7. \A i \in 1..n : Range(ss[i]) \subseteq Range(FlattenSeq(First(n)))
    BY <1>2, <2>1
  <2> HIDE DEF First
  <2>8. ASSUME NEW i \in 1..(n + 1) PROVE i \in 1..n \/ i = n + 1
    OBVIOUS
  <2> QED
    BY <2>6, <2>7, <2>8
<1>3. Nat \subseteq N
  <2> HIDE DEF N
  <2> QED
    BY <1>1, <1>2, NatSetInduction
<1>4. Len(ss) \in N
  <2> HIDE DEF N
  <2> QED
    BY <1>0, <1>3
<1>5. /\ \A i \in 1..Len(ss) : Range(ss[i]) \subseteq Range(FlattenSeq(First(Len(ss))))
      /\ First(Len(ss)) = ss
  BY <1>0, <1>4, AllOfIt
<1> QED
  BY <1>5

-----------------------------------------------------------------------------
(* The product of a sequence of numbers.                                   *)
LEMMA ProductAppend ==
  ASSUME NEW n \in Nat, NEW f, DOMAIN f = 1..(n + 1), \A i \in 1..(n + 1) : f[i] \in Nat,
         NEW g, DOMAIN g = 1..n, \A i \in 1..n : g[i] = f[i]
  PROVE  /\ FoldFunction(LAMBDA a, b : a * b, 1, g) \in Nat
         /\ FoldFunction(LAMBDA a, b : a * b, 1, f)
              = f[n + 1] * FoldFunction(LAMBDA a, b : a * b, 1, g)
<1> DEFINE S == 1..(n + 1)
           T == 1..n
<1>1. IsFiniteSet(S) /\ IsFiniteSet(T)
  <2>1. 1 \in Int /\ n \in Int /\ n + 1 \in Int
    OBVIOUS
  <2> QED
    BY <2>1, FS_Interval
<1>2. T \in SUBSET S /\ n + 1 \in S \ T /\ S = T \cup {n + 1}
  OBVIOUS
<1>3. /\ FoldFunction(LAMBDA a, b : a * b, 1, f) = ProductOver(f, S)
      /\ FoldFunction(LAMBDA a, b : a * b, 1, g) = ProductOver(g, T)
  BY DEF FoldFunction, ProductOver
<1>4. (\A i \in S : f[i] \in Nat) /\ (\A i \in T : g[i] \in Nat /\ g[i] = f[i]) /\ f[n + 1] \in Nat
  OBVIOUS
<1> HIDE DEF S, T
<1>5. ProductOver(f, S) = Fold(Multiplication, 1, f, S)
  BY <1>1, <1>4, ProductIsFold
<1>6. ProductOver(g, T) = Fold(Multiplication, 1, g, T)
  BY <1>1, <1>4, ProductIsFold
<1>7. Fold(Multiplication, 1, g, T) = Fold(Multiplication, 1, f, T)
  BY <1>1, <1>4, FoldSame
<1>8. Fold(Multiplication, 1, f, T) \in Nat
  <2>1. \A U \in SUBSET S : Fold(Multiplication, 1, f, U) \in Nat
    BY <1>1, <1>4, FoldInV, MultiplicationMonoid, SMTT(30)
  <2> QED
    BY <1>2, <2>1
<1>9. Fold(Multiplication, 1, f, T \cup {n + 1}) = Multiplication[<<f[n + 1], Fold(Multiplication, 1, f, T)>>]
  BY <1>1, <1>2, <1>4, FoldAdd, MultiplicationMonoid, SMTT(30)
<1>10. Multiplication[<<f[n + 1], Fold(Multiplication, 1, f, T)>>] = f[n + 1] * Fold(Multiplication, 1, f, T)
  BY <1>4, <1>8 DEF Multiplication
<1>11. ProductOver(f, S) = f[n + 1] * ProductOver(g, T) /\ ProductOver(g, T) \in Nat
  BY <1>2, <1>5, <1>6, <1>7, <1>8, <1>9, <1>10
<1> QED
  BY <1>3, <1>11

(* The product of one factor, 1.                                           *)
LEMMA ProductOfOne ==
  ASSUME NEW f, DOMAIN f = 1..1, f[1] = 1
  PROVE  FoldFunction(LAMBDA a, b : a * b, 1, f) = 1
<1> DEFINE S == 1..1
<1>1. FoldFunction(LAMBDA a, b : a * b, 1, f) = ProductOver(f, S)
  BY DEF FoldFunction, ProductOver
<1>2. S = {1} /\ \A x \in S : f[x] \in Nat
  OBVIOUS
<1> HIDE DEF S
<1>3. IsFiniteSet(S) /\ S \in SUBSET S /\ 1 \in S /\ S \ {1} = {}
  BY <1>2, FS_Singleton
<1>4. ProductOver(f, S) = Fold(Multiplication, 1, f, S)
  BY <1>2, <1>3, ProductIsFold
<1>5. Fold(Multiplication, 1, f, S) = Multiplication[<<f[1], Fold(Multiplication, 1, f, S \ {1})>>]
  BY <1>2, <1>3, FoldAny, MultiplicationMonoid
<1>6. Fold(Multiplication, 1, f, {}) = 1
  BY FoldEmpty
<1>7. Multiplication[<<1, 1>>] = 1
  BY DEF Multiplication
<1> QED
  BY <1>1, <1>3, <1>4, <1>5, <1>6, <1>7

-----------------------------------------------------------------------------
(* Quotients, images, orders and lists.                                    *)

(* Quotient and remainder are the only ones there are.                     *)
LEMMA DivisionFacts ==
  ASSUME NEW a \in Nat, NEW b \in Nat \ {0}
  PROVE  a % b \in Nat /\ a % b < b /\ a \div b \in Nat /\ a = b * (a \div b) + (a % b)
OBVIOUS

(* There is one quotient and one remainder below the divisor.              *)
LEMMA DivisionIsUnique ==
  ASSUME NEW a \in Nat, NEW b \in Nat \ {0}, NEW q \in Nat, NEW r \in Nat, r < b, a = b * q + r
  PROVE  a % b = r /\ a \div b = q
<1>1. /\ a % b \in Nat /\ a % b < b /\ a \div b \in Nat /\ a = b * (a \div b) + (a % b)
  BY DivisionFacts
<1>2. CASE a \div b < q
  <2>1. a \div b + 1 <= q
    BY <1>1, <1>2
  <2>2. b * (a \div b + 1) <= b * q
    BY <2>1, <1>1
  <2>3. b * (a \div b + 1) = b * (a \div b) + b
    BY <1>1
  <2> QED
    BY <1>1, <2>2, <2>3
<1>3. CASE a \div b > q
  <2>1. q + 1 <= a \div b
    BY <1>1, <1>3
  <2>2. b * (q + 1) <= b * (a \div b)
    BY <2>1, <1>1
  <2>3. b * (q + 1) = b * q + b
    OBVIOUS
  <2> QED
    BY <1>1, <2>2, <2>3
<1> QED
  BY <1>1, <1>2, <1>3

(* What is made of the members of a finite set is finite.                  *)
LEMMA ImageIsFinite ==
  ASSUME NEW S, IsFiniteSet(S), NEW f PROVE IsFiniteSet({f[x] : x \in S})
<1> DEFINE T == {f[x] : x \in S}
           g == [x \in S |-> f[x]]
<1>1. g \in [S -> T] /\ \A t \in T : \E x \in S : g[x] = t
  OBVIOUS
<1> HIDE DEF g, T
<1>2. g \in Surjection(S, T)
  BY <1>1 DEF Surjection
<1>3. IsFiniteSet(T)
  BY <1>2, FS_Surjection
<1> QED
  BY <1>3 DEF T

(* R is a strict order of the finite set S.                                *)
StrictOrder(R, S) ==
  /\ IsFiniteSet(S)
  /\ \A x \in S : <<x, x>> \notin R
  /\ \A x, y \in S : x # y => <<x, y>> \in R \/ <<y, x>> \in R
  /\ \A x, y, z \in S : <<x, y>> \in R /\ <<y, z>> \in R => <<x, z>> \in R

BeforeIt(R, S, x) == {y \in S : <<y, x>> \in R}

(* In an order, each place is that of exactly one member.                  *)
LEMMA PlacesInOrder ==
  ASSUME NEW S, NEW R, StrictOrder(R, S)
  PROVE  /\ Cardinality(S) \in Nat
         /\ \A x \in S : Cardinality(BeforeIt(R, S, x)) \in 0..(Cardinality(S) - 1)
         /\ \A x, y \in S : <<x, y>> \in R =>
              Cardinality(BeforeIt(R, S, x)) < Cardinality(BeforeIt(R, S, y))
         /\ \A i \in 1..Cardinality(S) : \E x \in S : Cardinality(BeforeIt(R, S, x)) = i - 1
<1> DEFINE N == Cardinality(S)
           P(x) == Cardinality(BeforeIt(R, S, x))
           places == 0..(N - 1)
<1>0. IsFiniteSet(S)
  BY DEF StrictOrder
<1>1. N \in Nat
  BY <1>0, FS_CardinalityType
<1>2. ASSUME NEW x \in S
      PROVE  IsFiniteSet(BeforeIt(R, S, x)) /\ P(x) \in 0..(N - 1)
  <2>1. BeforeIt(R, S, x) \in SUBSET (S \ {x})
    BY DEF BeforeIt, StrictOrder
  <2>2. IsFiniteSet(S \ {x}) /\ Cardinality(S \ {x}) = N - 1
    BY <1>0, FS_RemoveElement
  <2>3. IsFiniteSet(BeforeIt(R, S, x)) /\ P(x) <= N - 1
    BY <2>1, <2>2, FS_Subset
  <2>4. P(x) \in Nat
    BY <2>3, FS_CardinalityType
  <2> QED
    BY <1>1, <2>3, <2>4
<1>3. ASSUME NEW x \in S, NEW y \in S, <<x, y>> \in R
      PROVE  P(x) < P(y)
  <2>1. BeforeIt(R, S, x) \in SUBSET BeforeIt(R, S, y)
    BY <1>3 DEF BeforeIt, StrictOrder
  <2>2. x \in BeforeIt(R, S, y) /\ x \notin BeforeIt(R, S, x)
    BY <1>3 DEF BeforeIt, StrictOrder
  <2>3. P(x) <= P(y) /\ P(x) # P(y)
    BY <1>2, <2>1, <2>2, FS_Subset
  <2>4. P(x) \in Nat /\ P(y) \in Nat
    BY <1>1, <1>2
  <2> HIDE DEF P
  <2> QED
    BY <2>3, <2>4
<1> HIDE DEF N, P
<1>4. \A x, y \in S : P(x) = P(y) => x = y
  <2> SUFFICES ASSUME NEW x \in S, NEW y \in S, x # y PROVE P(x) # P(y)
    OBVIOUS
  <2>1. P(x) < P(y) \/ P(y) < P(x)
    BY <1>3 DEF StrictOrder
  <2>2. P(x) \in Int /\ P(y) \in Int
    BY <1>1, <1>2
  <2> QED
    BY <2>1, <2>2
<1>5. ASSUME NEW i \in 1..N PROVE \E x \in S : P(x) = i - 1
  <2> DEFINE place == [x \in S |-> P(x)]
  <2>1. place \in Injection(S, places)
    <3>1. place \in [S -> places]
      BY <1>2
    <3>2. \A x, y \in S : place[x] = place[y] => x = y
      BY <1>4
    <3> HIDE DEF place, places
    <3> QED
      BY <3>1, <3>2 DEF Injection, IsInjective
  <2>2. IsFiniteSet(places) /\ Cardinality(places) = N
    <3>1. 0 \in Int /\ N - 1 \in Int
      BY <1>1
    <3>2. IsFiniteSet(0..(N - 1)) /\ Cardinality(0..(N - 1)) = IF 0 > N - 1 THEN 0 ELSE (N - 1) - 0 + 1
      BY <3>1, FS_Interval
    <3> QED
      BY <1>1, <3>2
  <2>3. place \in Surjection(S, places)
    <3> HIDE DEF place, places
    <3> QED
      BY <1>0, <2>1, <2>2, FS_Injection DEF N
  <2>4. i - 1 \in places
    BY <1>1
  <2>5. PICK x \in S : place[x] = i - 1
    <3> HIDE DEF place, places
    <3> QED
      BY <2>3, <2>4 DEF Surjection
  <2> QED
    BY <2>5
<1> QED
  BY <1>1, <1>2, <1>3, <1>5 DEF N, P

(* Nothing appended changes nothing.                                       *)
LEMMA NothingMore ==
  ASSUME NEW s, IsList(s) PROVE s \o << >> = s
<1>1. IsList(<< >>) /\ Len(<< >>) = 0 /\ Len(s) \in Nat
  BY EmptyList, ListFacts
<1>2. IsList(s \o << >>) /\ Len(s \o << >>) = Len(s) /\ \A i \in 1..Len(s) : (s \o << >>)[i] = s[i]
  BY <1>1, ConcatFacts
<1> QED
  BY <1>2, ListsEqual

(* Appending to the second of two lists is appending to both.              *)
LEMMA ConcatAppend ==
  ASSUME NEW s, IsList(s), NEW t, IsList(t), NEW e
  PROVE  s \o Append(t, e) = Append(s \o t, e)
<1> DEFINE a == s \o Append(t, e)
           n == Len(s)
           m == Len(t)
<1>1. n \in Nat /\ m \in Nat
  BY ListFacts
<1>2. /\ IsList(Append(t, e)) /\ Len(Append(t, e)) = m + 1
      /\ \A i \in 1..m : Append(t, e)[i] = t[i]
      /\ Append(t, e)[m + 1] = e
  BY AppendFacts
<1>3. /\ IsList(s \o t) /\ Len(s \o t) = n + m
      /\ \A i \in 1..n : (s \o t)[i] = s[i]
      /\ \A i \in 1..m : (s \o t)[n + i] = t[i]
  BY ConcatFacts
<1>4. /\ IsList(a) /\ Len(a) = n + (m + 1)
      /\ \A i \in 1..n : a[i] = s[i]
      /\ \A i \in 1..(m + 1) : a[n + i] = Append(t, e)[i]
  BY <1>2, ConcatFacts
<1> HIDE DEF a, n, m
<1>5. ASSUME NEW i \in 1..(n + m) PROVE a[i] = (s \o t)[i]
  <2>1. CASE i <= n
    <3>1. i \in 1..n
      BY <1>1, <2>1
    <3> QED
      BY <1>3, <1>4, <3>1
  <2>2. CASE i > n
    <3> DEFINE k == i - n
    <3>1. k \in 1..m /\ k \in 1..(m + 1) /\ i = n + k
      BY <1>1, <2>2
    <3> HIDE DEF k
    <3> QED
      BY <1>2, <1>3, <1>4, <3>1
  <2>3. i <= n \/ i > n
    BY <1>1
  <2> QED
    BY <2>1, <2>2, <2>3
<1>6. a[n + m + 1] = e /\ Len(a) = (n + m) + 1
  <2>1. m + 1 \in 1..(m + 1) /\ n + (m + 1) = n + m + 1
    BY <1>1
  <2> QED
    BY <1>2, <1>4, <2>1
<1>7. a = Append(s \o t, e)
  <2> DEFINE u == s \o t
  <2>1. /\ IsList(u) /\ Len(u) = n + m /\ IsList(a) /\ Len(a) = Len(u) + 1
        /\ a[Len(u) + 1] = e /\ \A i \in 1..Len(u) : a[i] = u[i]
    BY <1>3, <1>4, <1>5, <1>6
  <2> HIDE DEF u
  <2>2. a = Append(u, e)
    BY <2>1, AppendIs
  <2> QED
    BY <2>2 DEF u
<1> QED
  BY <1>7 DEF a
=============================================================================
