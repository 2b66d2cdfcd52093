----------------------------- MODULE NumberFacts -----------------------------
(***************************************************************************)
(* Facts about numbers and finite sets that the proofs of several models   *)
(* need: quotients, and induction, for what a recursive function computes. *)
(* Induction is stated with sets: the numbers for which a statement holds  *)
(* are a set, and such a set is all of them.  From it, that the recursive  *)
(* functions of the models exist and are numbers: running totals of a      *)
(* sequence, and sums over a finite set.                                   *)
(***************************************************************************)
EXTENDS Integers, FiniteSetTheorems, WellFoundedInduction, TLAPS

\* A quotient and its remainder, as the provers are told of them.
LEMMA DivisionFacts ==
    ASSUME NEW t \in Nat, NEW n \in Nat \ {0}
    PROVE  /\ t \div n \in Nat
           /\ t % n \in 0 .. n - 1
           /\ t = n * (t \div n) + (t % n)
OBVIOUS

\* A quotient is below what its dividend is below, divided.
LEMMA QuotientBelow ==
    ASSUME NEW t \in Nat, NEW n \in Nat \ {0}, NEW k \in Nat, t < n * k
    PROVE  t \div n \in Nat /\ t \div n < k
<1> DEFINE q == t \div n
           r == t % n
<1>1. q \in Nat /\ r \in 0 .. n - 1 /\ t = n * q + r
  BY DivisionFacts
<1> HIDE DEF q, r
<1>2. CASE q >= k
  <2>1. q - k \in Nat
    BY <1>1, <1>2
  <2>2. n * (q - k) >= 0
    BY <2>1
  <2>3. n * (q - k) = n * q - n * k
    BY <1>1
  <2> QED
    BY <1>1, <2>2, <2>3
<1> QED
  BY <1>1, <1>2 DEF q

\* A function of a finite set takes finitely many values.
LEMMA FiniteImage ==
    ASSUME NEW S, IsFiniteSet(S), NEW f, DOMAIN f = S
    PROVE  IsFiniteSet({f[x] : x \in S})
<1> DEFINE T == {f[x] : x \in S}
           g == [x \in S |-> f[x]]
<1>1. g \in Surjection(S, T)
  BY DEF Surjection
<1> HIDE DEF g, T
<1>2. IsFiniteSet(T)
  BY <1>1, FS_Surjection
<1> QED
  BY <1>2 DEF T

-----------------------------------------------------------------------------
(* Induction. *)

\* A set of natural numbers that is not empty has a least one.
LEMMA LeastNatural ==
  ASSUME NEW T, T \subseteq Nat, T # {}
  PROVE  \E x \in T : \A y \in T : x <= y
<1> DEFINE R == OpToRel(<, Nat)
<1>1. IsWellFoundedOn(R, Nat)
  BY NatLessThanWellFounded
<1>2. \A a, b \in Nat : a < b => <<a, b>> \in R
  BY DEF OpToRel
<1> HIDE DEF R
<1>3. PICK x \in T : \A y \in T : ~ (<<y, x>> \in R)
  BY <1>1, WFMin, Zenon
<1>4. ASSUME NEW y \in T PROVE x <= y
  <2>1. x \in Nat /\ y \in Nat /\ ~ (<<y, x>> \in R)
    BY <1>3
  <2>2. ~ (y < x)
    BY <1>2, <2>1
  <2> QED
    BY <2>1, <2>2
<1> QED
  BY <1>4

\* A set with 0 and the successors of its elements has every natural number.
LEMMA NaturalsByStep ==
  ASSUME NEW S, 0 \in S, \A n \in Nat : n \in S => n + 1 \in S
  PROVE  Nat \subseteq S
<1> SUFFICES ASSUME Nat \ S # {} PROVE FALSE
  OBVIOUS
<1>1. PICK x \in Nat \ S : \A y \in Nat \ S : x <= y
  BY LeastNatural
<1>2. x # 0 /\ x - 1 \in Nat
  BY <1>1
<1>3. x - 1 \in S
  BY <1>1, <1>2
<1> QED
  BY <1>1, <1>2, <1>3

\* The same up to a number.
LEMMA IntervalByStep ==
  ASSUME NEW n \in Nat, NEW S, 0 \in S, \A j \in 1 .. n : j - 1 \in S => j \in S
  PROVE  0 .. n \subseteq S
<1> DEFINE T == {m \in Nat : m <= n => m \in S}
<1>1. 0 \in T
  OBVIOUS
<1>2. ASSUME NEW m \in Nat, m \in T PROVE m + 1 \in T
  <2>1. CASE m + 1 <= n
    <3>1. m \in S
      BY <1>2, <2>1
    <3>2. m + 1 \in 1 .. n /\ (m + 1) - 1 = m
      BY <2>1
    <3> QED
      BY <3>1, <3>2
  <2>2. CASE ~ (m + 1 <= n)
    BY <2>2
  <2> QED
    BY <2>1, <2>2
<1> HIDE DEF T
<1>3. Nat \subseteq T
  BY <1>1, <1>2, NaturalsByStep
<1> QED
  BY <1>3 DEF T

\* The running totals of some numbers, as a function that refers to itself.
LEMMA RunningTotals ==
  ASSUME NEW n \in Nat, NEW c \in [1 .. n -> Int]
  PROVE  \E f \in [0 .. n -> Int] :
            f = [j \in 0 .. n |-> IF j = 0 THEN 0 ELSE f[j - 1] + c[j]]
<1> DEFINE Totals(m, f) == /\ f \in [0 .. m -> Int]
                           /\ f[0] = 0
                           /\ \A j \in 1 .. m : f[j] = f[j - 1] + c[j]
           S == {m \in 0 .. n : \E f : Totals(m, f)}
<1>1. 0 \in S
  <2>1. Totals(0, [j \in 0 .. 0 |-> 0])
    OBVIOUS
  <2> HIDE DEF Totals
  <2>2. \E f : Totals(0, f)
    BY <2>1
  <2> QED
    BY <2>2
<1>2. ASSUME NEW m \in 1 .. n, m - 1 \in S PROVE m \in S
  <2>1. PICK f : Totals(m - 1, f)
    BY <1>2
  <2> DEFINE g == [j \in 0 .. m |-> IF j = m THEN f[m - 1] + c[m] ELSE f[j]]
  <2>2. f \in [0 .. m - 1 -> Int] /\ c[m] \in Int
    BY <2>1
  <2>3. f[m - 1] \in Int
    BY <2>2
  <2>4. g \in [0 .. m -> Int] /\ g[0] = 0
    BY <2>1, <2>2, <2>3
  <2>5. ASSUME NEW j \in 1 .. m PROVE g[j] = g[j - 1] + c[j]
    BY <2>1, <2>5
  <2>6. Totals(m, g)
    BY <2>4, <2>5
  <2> HIDE DEF Totals, g
  <2>7. \E h : Totals(m, h)
    BY <2>6
  <2> QED
    BY <2>7
<1> HIDE DEF S
<1>3. 0 .. n \subseteq S
  BY <1>1, <1>2, IntervalByStep
<1>4. PICK f : Totals(n, f)
  <2>1. n \in 0 .. n
    OBVIOUS
  <2>2. n \in S
    BY <1>3, <2>1
  <2> QED
    BY <2>2 DEF S
<1>5. f = [j \in 0 .. n |-> IF j = 0 THEN 0 ELSE f[j - 1] + c[j]]
  BY <1>4
<1> QED
  BY <1>4, <1>5

\* The sums over the subsets of a finite set, taken out one element after the
\* other, as a function that refers to itself.
SumsOver(S, f, g) ==
    g = [s \in SUBSET S |-> IF s = {} THEN 0
           ELSE LET x == CHOOSE x \in s : TRUE IN f[x] + g[s \ {x}]]

LEMMA FiniteSums ==
  ASSUME NEW S, IsFiniteSet(S), NEW f \in [S -> Nat]
  PROVE  \E g \in [SUBSET S -> Nat] : SumsOver(S, f, g)
<1> DEFINE Small(m) == {s \in SUBSET S : Cardinality(s) <= m}
           First(s) == CHOOSE x \in s : TRUE
           Sums(m, g) ==
              /\ g \in [Small(m) -> Nat]
              /\ \A s \in Small(m) :
                    g[s] = IF s = {} THEN 0 ELSE f[First(s)] + g[s \ {First(s)}]
           T == {m \in Nat : \E g : Sums(m, g)}
<1>1. \A s \in SUBSET S : /\ IsFiniteSet(s) /\ Cardinality(s) \in Nat
                          /\ Cardinality(s) <= Cardinality(S)
  BY FS_Subset, FS_CardinalityType
<1>2. ASSUME NEW s \in SUBSET S, s # {}
      PROVE  /\ First(s) \in S /\ s \ {First(s)} \in SUBSET S
             /\ Cardinality(s \ {First(s)}) = Cardinality(s) - 1
  <2>1. First(s) \in s
    BY <1>2
  <2> QED
    BY <1>1, <2>1, FS_RemoveElement
<1>3. 0 \in T
  <2> DEFINE g == [s \in Small(0) |-> 0]
  <2>1. \A s \in Small(0) : s = {}
    BY <1>1, FS_EmptySet
  <2>2. Sums(0, g)
    BY <2>1
  <2> HIDE DEF Sums, g
  <2>3. \E h : Sums(0, h)
    BY <2>2
  <2> QED
    BY <2>3
<1>4. ASSUME NEW m \in Nat, m \in T PROVE m + 1 \in T
  <2>1. PICK g : Sums(m, g)
    BY <1>4
  <2> DEFINE h == [s \in Small(m + 1) |->
                     IF s = {} THEN 0 ELSE f[First(s)] + g[s \ {First(s)}]]
  <2>2. ASSUME NEW s \in Small(m + 1), s # {}
        PROVE  s \ {First(s)} \in Small(m) /\ f[First(s)] \in Nat
    <3> HIDE DEF First
    <3> QED
      BY <1>1, <1>2, <2>2
  <2>3. \A s \in Small(m) : s \in Small(m + 1) /\ h[s] = g[s]
    <3> HIDE DEF First
    <3> QED
      BY <1>1, <2>1
  <2>4. h \in [Small(m + 1) -> Nat]
    <3> HIDE DEF First, Small
    <3> QED
      BY <2>1, <2>2
  <2>5. ASSUME NEW s \in Small(m + 1)
        PROVE  h[s] = IF s = {} THEN 0 ELSE f[First(s)] + h[s \ {First(s)}]
    <3>1. CASE s # {}
      <4>1. h[s] = f[First(s)] + g[s \ {First(s)}]
        BY <2>5, <3>1
      <4>2. g[s \ {First(s)}] = h[s \ {First(s)}]
        BY <2>2, <2>3, <2>5, <3>1
      <4> QED
        BY <3>1, <4>1, <4>2
    <3>2. CASE s = {}
      BY <2>5, <3>2
    <3> QED
      BY <3>1, <3>2
  <2>6. Sums(m + 1, h)
    <3> HIDE DEF h, First, Small
    <3> QED
      BY <2>4, <2>5
  <2> HIDE DEF Sums, h
  <2>7. \E k : Sums(m + 1, k)
    BY <2>6
  <2> QED
    BY <2>7
<1> HIDE DEF T
<1>5. Cardinality(S) \in T
  BY <1>1, <1>3, <1>4, NaturalsByStep, FS_CardinalityType
<1>6. PICK g : Sums(Cardinality(S), g)
  BY <1>5 DEF T
<1>7. Small(Cardinality(S)) = SUBSET S
  BY <1>1
<1>8. g \in [SUBSET S -> Nat]
  <2> HIDE DEF Small
  <2> QED
    BY <1>6, <1>7
<1>9. \A s \in SUBSET S : g[s] = IF s = {} THEN 0 ELSE f[First(s)] + g[s \ {First(s)}]
  <2> HIDE DEF Small, First
  <2> QED
    BY <1>6, <1>7
<1>10. g = [s \in SUBSET S |-> IF s = {} THEN 0
               ELSE LET x == CHOOSE x \in s : TRUE IN f[x] + g[s \ {x}]]
  BY <1>8, <1>9
<1> QED
  BY <1>8, <1>10 DEF SumsOver

\* Whatever function satisfies that equation, its values are numbers.
LEMMA SumsAreNatural ==
  ASSUME NEW S, IsFiniteSet(S), NEW f \in [S -> Nat], NEW h, SumsOver(S, f, h)
  PROVE  h[S] \in Nat
<1> DEFINE First(s) == CHOOSE x \in s : TRUE
           T == {m \in Nat : \A s \in SUBSET S : Cardinality(s) <= m => h[s] \in Nat}
<1>1. \A s \in SUBSET S : IsFiniteSet(s) /\ Cardinality(s) \in Nat
  BY FS_Subset, FS_CardinalityType
<1>2. ASSUME NEW s \in SUBSET S
      PROVE  h[s] = IF s = {} THEN 0 ELSE f[First(s)] + h[s \ {First(s)}]
  BY Zenon DEF SumsOver
<1>3. 0 \in T
  <2>1. ASSUME NEW s \in SUBSET S, Cardinality(s) <= 0 PROVE h[s] \in Nat
    <3>1. s = {}
      BY <1>1, <2>1, FS_EmptySet
    <3> HIDE DEF First
    <3>2. h[s] = 0
      BY <1>2, <3>1
    <3> QED
      BY <3>2
  <2> QED
    BY <2>1
<1>4. ASSUME NEW m \in Nat, m \in T PROVE m + 1 \in T
  <2>1. ASSUME NEW s \in SUBSET S, s = {} PROVE h[s] \in Nat
    BY <1>2, <2>1
  <2>2. ASSUME NEW s \in SUBSET S, Cardinality(s) <= m + 1, s # {} PROVE h[s] \in Nat
    <3>1. First(s) \in s
      BY <2>2
    <3>2. s \ {First(s)} \in SUBSET S /\ Cardinality(s \ {First(s)}) = Cardinality(s) - 1
      BY <1>1, <3>1, FS_RemoveElement
    <3>3. h[s \ {First(s)}] \in Nat
      <4> HIDE DEF First
      <4> QED
        BY <1>1, <1>4, <2>2, <3>2
    <3>4. h[s] = f[First(s)] + h[s \ {First(s)}] /\ f[First(s)] \in Nat
      BY <1>2, <2>2, <3>1
    <3> QED
      BY <3>3, <3>4
  <2>3. m + 1 \in Nat
    OBVIOUS
  <2> QED
    BY <2>1, <2>2, <2>3, Zenon
<1> HIDE DEF T
<1>5. Cardinality(S) \in T
  BY <1>1, <1>3, <1>4, NaturalsByStep, FS_CardinalityType
<1> QED
  BY <1>1, <1>5 DEF T
=============================================================================
