---------------------------- MODULE NumberProofs ----------------------------
(***************************************************************************)
(* What the other proofs need of natural numbers: least elements,          *)
(* induction over a set of them, functions defined from the last to the    *)
(* first of them, remainders, and sums over finite sets.                   *)
(***************************************************************************)
EXTENDS Integers, FiniteSetsExt, FiniteSetTheorems, WellFoundedInduction, TLAPS

(* The least of some natural numbers.                                      *)
LEMMA MinIsLeast ==
  ASSUME NEW S, S \subseteq Nat, S # {}
  PROVE  Min(S) \in S /\ \A n \in S : Min(S) <= n
<1> DEFINE UpTo(n) == S \cap (0..n)
           T == {UpTo(n) : n \in S}
<1>1. T \subseteq FiniteSubsetsOf(Nat)
  <2> SUFFICES ASSUME NEW n \in S PROVE UpTo(n) \in FiniteSubsetsOf(Nat)
    OBVIOUS
  <2>1. IsFiniteSet(0..n)
    BY FS_Interval
  <2>2. IsFiniteSet(UpTo(n))
    BY <2>1, FS_Subset
  <2> QED BY <2>2 DEF FiniteSubsetsOf
<1>2. PICK x \in T : \A y \in T : <<y, x>> \notin StrictSubsetOrdering(Nat)
  <2> HIDE DEF T
  <2>1. IsWellFoundedOn(StrictSubsetOrdering(Nat), FiniteSubsetsOf(Nat))
    BY FS_StrictSubsetOrderingWellFounded
  <2>2. T # {}
    BY DEF T
  <2> QED BY <1>1, <2>1, <2>2, WFMin
<1>3. PICK m \in S : x = UpTo(m)
  OBVIOUS
<1>4. ASSUME NEW n \in S PROVE m <= n
  <2> SUFFICES ASSUME n < m PROVE FALSE
    OBVIOUS
  <2>1. UpTo(n) \subseteq UpTo(m) /\ m \in UpTo(m) /\ m \notin UpTo(n)
    OBVIOUS
  <2>2. <<UpTo(n), UpTo(m)>> \in StrictSubsetOrdering(Nat)
    BY <2>1 DEF StrictSubsetOrdering
  <2> QED BY <1>2, <1>3, <2>2
<1> QED BY <1>4 DEF Min

(* A number has one remainder.                                             *)
LEMMA OneRemainder ==
  ASSUME NEW c \in Nat \ {0}, NEW x \in Int, NEW y \in Int,
         NEW r \in 0..(c - 1), NEW s \in 0..(c - 1), c * x + r = c * y + s
  PROVE  r = s
  OBVIOUS

(* The quotient and the remainder that a product and a rest have.          *)
LEMMA QuotientAndRemainder ==
  ASSUME NEW d \in Nat \ {0}, NEW q \in Nat, NEW r \in 0..(d - 1)
  PROVE  (d * q + r) \div d = q /\ (d * q + r) % d = r
<1> DEFINE a == d * q + r
           x == a \div d
           s == a % d
<1>1. a \in Nat
  <2>1. d * q \in Nat
    OBVIOUS
  <2> QED BY <2>1
<1>2. a = d * x + s /\ x \in Int /\ s \in 0..(d - 1)
  <2> HIDE DEF a
  <2> QED BY <1>1
<1>3. r = s
  <2> HIDE DEF x, s
  <2>1. d * q + r = d * x + s
    BY <1>2
  <2> QED BY <1>2, <2>1, OneRemainder
<1>4. x = q
  <2> HIDE DEF x, s
  <2>1. d * (x - q) = 0
    <3>1. d * x = d * q
      BY <1>2, <1>3
    <3> QED BY <1>2, <3>1
  <2> QED BY <1>2, <2>1
<1> QED BY <1>3, <1>4

(* A set that has zero, and the next of whatever it has, has all numbers.  *)
LEMMA SetInduction ==
  ASSUME NEW S, 0 \in S, \A n \in Nat : n \in S => n + 1 \in S
  PROVE  \A n \in Nat : n \in S
<1> SUFFICES ASSUME Nat \ S # {} PROVE FALSE
  OBVIOUS
<1> DEFINE m == Min(Nat \ S)
<1>1. m \in Nat \ S /\ \A n \in Nat \ S : m <= n
  BY MinIsLeast
<1> HIDE DEF m
<1>2. m - 1 \in Nat
  BY <1>1
<1>3. m - 1 \in S
  BY <1>1, <1>2
<1> QED BY <1>1, <1>2, <1>3

(* What step makes of a function has values that depend only on those that *)
(* the function has at later numbers.                                      *)
LooksOn(step, n, V) ==
  /\ step \in [[1..n -> V] -> [1..n -> V]]
  /\ \A f, g \in [1..n -> V] : \A p \in 1..n :
       (\A q \in (p + 1)..n : f[q] = g[q]) => step[f][p] = step[g][p]

(* The functions that are what step makes of them.                         *)
Fixed(step, n, V) == {f \in [1..n -> V] : f = step[f]}

(* There is one: a recursive definition from the last number to the first  *)
(* defines a function.                                                     *)
LEMMA BackwardRecursion ==
  ASSUME NEW n \in Nat, NEW V, V # {}, NEW step, LooksOn(step, n, V)
  PROVE  \E f : f \in Fixed(step, n, V)
<1> DEFINE IsDoneTo(f, m) == \A p \in 1..n : p > n - m => f[p] = step[f][p]
           S == {m \in Nat : \E f \in [1..n -> V] : IsDoneTo(f, m)}
<1> USE DEF LooksOn
<1>1. 0 \in S
  <2>1. PICK v : v \in V
    OBVIOUS
  <2>2. [p \in 1..n |-> v] \in [1..n -> V]
    BY <2>1
  <2>3. ASSUME NEW f PROVE IsDoneTo(f, 0)
    OBVIOUS
  <2> HIDE DEF IsDoneTo
  <2> QED BY <2>2, <2>3
<1>2. ASSUME NEW m \in Nat, m \in S PROVE m + 1 \in S
  <2>1. PICK f \in [1..n -> V] : IsDoneTo(f, m)
    BY <1>2
  <2> DEFINE g == [p \in 1..n |-> IF p > n - m THEN f[p] ELSE step[f][p]]
  <2>2. step[f] \in [1..n -> V]
    OBVIOUS
  <2>3. g \in [1..n -> V]
    BY <2>2
  <2>4. ASSUME NEW p \in 1..n, p > n - (m + 1) PROVE g[p] = step[g][p]
    <3>1. \A q \in (p + 1)..n : f[q] = g[q]
      BY <2>4
    <3>2. step[f][p] = step[g][p]
      <4> HIDE DEF g
      <4> QED BY <2>3, <3>1
    <3>3. p > n - m => f[p] = step[f][p]
      BY <2>1
    <3>4. g[p] = IF p > n - m THEN f[p] ELSE step[f][p]
      OBVIOUS
    <3> QED BY <3>2, <3>3, <3>4
  <2>5. IsDoneTo(g, m + 1)
    BY <2>4
  <2> HIDE DEF IsDoneTo, g
  <2>6. m + 1 \in Nat
    OBVIOUS
  <2> QED BY <2>3, <2>5, <2>6
<1> HIDE DEF S
<1>3. n \in S
  BY <1>1, <1>2, SetInduction
<1>4. PICK f \in [1..n -> V] : IsDoneTo(f, n)
  BY <1>3 DEF S
<1>5. \A p \in 1..n : f[p] = step[f][p]
  BY <1>4
<1>6. step[f] \in [1..n -> V]
  OBVIOUS
<1>7. f = step[f]
  BY <1>5, <1>6
<1> QED BY <1>7 DEF Fixed

(* What holds at a number if it holds at all later ones holds at all.      *)
LEMMA BackwardInduction ==
  ASSUME NEW n \in Nat, NEW S,
         \A p \in 1..n : (\A q \in (p + 1)..n : q \in S) => p \in S
  PROVE  \A p \in 1..n : p \in S
<1> DEFINE T == {m \in Nat : \A p \in 1..n : p > n - m => p \in S}
<1>1. 0 \in T
  OBVIOUS
<1>2. ASSUME NEW m \in Nat, m \in T PROVE m + 1 \in T
  <2> SUFFICES ASSUME NEW p \in 1..n, p > n - (m + 1) PROVE p \in S
    OBVIOUS
  <2>1. \A q \in (p + 1)..n : q \in 1..n /\ q > n - m
    OBVIOUS
  <2> QED BY <1>2, <2>1
<1> HIDE DEF T
<1>3. n \in T
  BY <1>1, <1>2, SetInduction
<1> QED BY <1>3 DEF T
-----------------------------------------------------------------------------
(* Sums over finite sets. *)

(* Induction over the subsets of a finite set, by their elements.          *)
LEMMA SubsetInduction ==
  ASSUME NEW U, IsFiniteSet(U), NEW P,
         \A s \in SUBSET U : (\A x \in s : s \ {x} \in P) => s \in P
  PROVE  \A s \in SUBSET U : s \in P
<1> DEFINE T == {n \in Nat : \A s \in SUBSET U : Cardinality(s) <= n => s \in P}
<1>1. ASSUME NEW s \in SUBSET U
      PROVE  /\ IsFiniteSet(s) /\ Cardinality(s) \in Nat
             /\ Cardinality(s) = 0 <=> s = {}
             /\ \A x \in s : Cardinality(s \ {x}) = Cardinality(s) - 1
  <2>1. IsFiniteSet(s)
    BY FS_Subset
  <2> QED BY <2>1, FS_CardinalityType, FS_EmptySet, FS_RemoveElement
<1>2. 0 \in T
  <2> SUFFICES ASSUME NEW s \in SUBSET U, Cardinality(s) <= 0 PROVE s \in P
    OBVIOUS
  <2>1. s = {}
    BY <1>1
  <2> QED BY <2>1
<1>3. ASSUME NEW n \in Nat, n \in T PROVE n + 1 \in T
  <2> SUFFICES ASSUME NEW s \in SUBSET U, Cardinality(s) <= n + 1 PROVE s \in P
    OBVIOUS
  <2>1. \A x \in s : s \ {x} \in SUBSET U /\ Cardinality(s \ {x}) <= n
    BY <1>1
  <2> QED BY <1>3, <2>1
<1>4. \A n \in Nat : n \in T
  <2> HIDE DEF T
  <2> QED BY <1>2, <1>3, SetInduction
<1> QED BY <1>1, <1>4

(* A function of the subsets of U that adds up the weights w.              *)
SumFrom(w, f, s) ==
  IF s = {} THEN 0 ELSE LET x == CHOOSE x \in s : TRUE IN w[x] + f[s \ {x}]

Sums(w, U) == {f \in [SUBSET U -> Nat] : \A s \in SUBSET U : f[s] = SumFrom(w, f, s)}

Weighs(w, U) == IsFiniteSet(U) /\ \A x \in U : w[x] \in Nat

(* There is one.                                                           *)
LEMMA SumsExist ==
  ASSUME NEW U, NEW w, Weighs(w, U)
  PROVE  \E f : f \in Sums(w, U)
<1> DEFINE V == [SUBSET U -> Nat]
           IsDoneTo(f, n) == \A s \in SUBSET U :
                               Cardinality(s) < n => f[s] = SumFrom(w, f, s)
           T == {n \in Nat : \E f \in V : IsDoneTo(f, n)}
<1>1. ASSUME NEW s \in SUBSET U
      PROVE  /\ Cardinality(s) \in Nat
             /\ \A x \in s : Cardinality(s \ {x}) = Cardinality(s) - 1
             /\ Cardinality(s) <= Cardinality(U)
  <2>1. IsFiniteSet(s) /\ IsFiniteSet(U)
    BY FS_Subset DEF Weighs
  <2> QED BY <2>1, FS_CardinalityType, FS_RemoveElement, FS_Subset
<1>2. ASSUME NEW f \in V, NEW s \in SUBSET U PROVE SumFrom(w, f, s) \in Nat
  <2>1. CASE s = {}
    BY <2>1 DEF SumFrom
  <2>2. CASE s # {}
    <3> DEFINE x == CHOOSE x \in s : TRUE
    <3>1. x \in s
      BY <2>2
    <3> HIDE DEF x
    <3>2. w[x] \in Nat /\ f[s \ {x}] \in Nat
      BY <3>1 DEF Weighs
    <3> QED BY <2>2, <3>2 DEF SumFrom, x
  <2> QED BY <2>1, <2>2
<1>3. 0 \in T
  <2>1. [s \in SUBSET U |-> 0] \in V
    OBVIOUS
  <2>2. IsDoneTo([s \in SUBSET U |-> 0], 0)
    BY <1>1
  <2> QED BY <2>1, <2>2
<1>4. ASSUME NEW n \in Nat, n \in T PROVE n + 1 \in T
  <2>1. PICK f \in V : IsDoneTo(f, n)
    BY <1>4
  <2> DEFINE g == [s \in SUBSET U |-> SumFrom(w, f, s)]
  <2>2. g \in V
    BY <1>2
  <2>3. ASSUME NEW s \in SUBSET U, Cardinality(s) < n + 1
        PROVE  g[s] = SumFrom(w, g, s)
    <3>1. g[s] = SumFrom(w, f, s)
      OBVIOUS
    <3>2. \A x \in s : g[s \ {x}] = f[s \ {x}]
      <4> SUFFICES ASSUME NEW x \in s PROVE g[s \ {x}] = f[s \ {x}]
        OBVIOUS
      <4>1. s \ {x} \in SUBSET U /\ Cardinality(s \ {x}) < n
        BY <1>1, <2>3
      <4>2. f[s \ {x}] = SumFrom(w, f, s \ {x})
        BY <2>1, <4>1
      <4> QED BY <4>1, <4>2
    <3> HIDE DEF g
    <3>3. CASE s = {}
      BY <3>1, <3>3 DEF SumFrom
    <3>4. CASE s # {}
      <4> DEFINE x == CHOOSE x \in s : TRUE
      <4>1. x \in s
        BY <3>4
      <4>2. SumFrom(w, f, s) = w[x] + f[s \ {x}]
              /\ SumFrom(w, g, s) = w[x] + g[s \ {x}]
        BY <3>4 DEF SumFrom
      <4> HIDE DEF x
      <4> QED BY <3>1, <3>2, <4>1, <4>2
    <3> QED BY <3>3, <3>4
  <2>4. IsDoneTo(g, n + 1)
    <3> HIDE DEF g
    <3> QED BY <2>3
  <2> HIDE DEF g
  <2> QED BY <2>2, <2>4
<1>5. \A n \in Nat : n \in T
  <2> HIDE DEF T
  <2> QED BY <1>3, <1>4, SetInduction
<1>6. Cardinality(U) \in Nat /\ Cardinality(U) + 1 \in Nat
  BY FS_CardinalityType DEF Weighs
<1> DEFINE m == Cardinality(U) + 1
<1>7. PICK f \in V : IsDoneTo(f, m)
  <2>1. m \in T
    <3> HIDE DEF T
    <3> QED BY <1>5, <1>6
  <2> HIDE DEF m
  <2> QED BY <2>1
<1>8. \A s \in SUBSET U : f[s] = SumFrom(w, f, s)
  BY <1>1, <1>6, <1>7
<1> QED BY <1>8 DEF Sums

(* The sum that SumFunctionOnSet chooses is one of them.                   *)
LEMMA SumIsOne ==
  ASSUME NEW U, NEW w, Weighs(w, U)
  PROVE  \E f \in Sums(w, U) : SumFunctionOnSet(w, U) = f[U]
<1> DEFINE IsSum(f) == f = [s \in SUBSET U |-> SumFrom(w, f, s)]
           f == CHOOSE f : IsSum(f)
<1>1. \E g : IsSum(g)
  <2>1. PICK g : g \in Sums(w, U)
    BY SumsExist
  <2>2. g = [s \in SUBSET U |-> SumFrom(w, g, s)]
    BY <2>1 DEF Sums
  <2> QED BY <2>2
<1>2. IsSum(f)
  BY <1>1
<1>3. SumFunctionOnSet(w, U) = f[U]
  BY DEF SumFunctionOnSet, FoldFunctionOnSet, MapThenFoldSet, SumFrom
<1> HIDE DEF f
<1>4. \A s \in SUBSET U : f[s] = SumFrom(w, f, s)
  BY <1>2
<1> DEFINE P == {s \in SUBSET U : f[s] \in Nat}
<1>5. ASSUME NEW s \in SUBSET U, \A x \in s : s \ {x} \in P PROVE s \in P
  <2>1. CASE s = {}
    <3>1. SumFrom(w, f, s) = 0
      BY <2>1 DEF SumFrom
    <3>2. f[s] = 0
      BY <1>4, <3>1
    <3> QED BY <3>2
  <2>2. CASE s # {}
    <3> DEFINE x == CHOOSE x \in s : TRUE
    <3>1. x \in s
      BY <2>2
    <3>2. SumFrom(w, f, s) = w[x] + f[s \ {x}]
      BY <2>2 DEF SumFrom
    <3> HIDE DEF x
    <3>3. w[x] \in Nat /\ f[s \ {x}] \in Nat
      BY <1>5, <3>1 DEF Weighs
    <3> QED BY <1>4, <3>2, <3>3
  <2> QED BY <2>1, <2>2
<1>6. \A s \in SUBSET U : s \in P
  <2> HIDE DEF P
  <2> QED BY <1>5, SubsetInduction DEF Weighs
<1>7. f \in [SUBSET U -> Nat]
  BY <1>2, <1>6
<1>8. f \in Sums(w, U)
  BY <1>4, <1>7 DEF Sums
<1> QED BY <1>3, <1>8

(* Which element is added first makes no difference.                       *)
LEMMA SumsInAnyOrder ==
  ASSUME NEW U, NEW w, Weighs(w, U), NEW f \in Sums(w, U)
  PROVE  \A s \in SUBSET U : \A x \in s : f[s] = w[x] + f[s \ {x}]
<1> DEFINE P == {s \in SUBSET U : \A x \in s : f[s] = w[x] + f[s \ {x}]}
<1>1. ASSUME NEW s \in SUBSET U, \A x \in s : s \ {x} \in P PROVE s \in P
  <2> SUFFICES ASSUME NEW x \in s PROVE f[s] = w[x] + f[s \ {x}]
    OBVIOUS
  <2> DEFINE y == CHOOSE y \in s : TRUE
  <2>1. y \in s /\ f[s] = w[y] + f[s \ {y}]
    BY DEF Sums, SumFrom
  <2> HIDE DEF y
  <2>2. CASE x = y
    BY <2>1, <2>2
  <2>3. CASE x # y
    <3>1. f[s \ {y}] = w[x] + f[(s \ {y}) \ {x}]
      BY <1>1, <2>1, <2>3
    <3>2. f[s \ {x}] = w[y] + f[(s \ {x}) \ {y}]
      BY <1>1, <2>1, <2>3
    <3>3. (s \ {x}) \ {y} = (s \ {y}) \ {x}
      OBVIOUS
    <3>4. w[x] \in Nat /\ w[y] \in Nat /\ f[(s \ {y}) \ {x}] \in Nat
      BY <2>1 DEF Weighs, Sums
    <3> DEFINE a == w[x]
               b == w[y]
               c == f[(s \ {y}) \ {x}]
    <3>5. f[s] = b + (a + c) /\ f[s \ {x}] = b + c
      BY <2>1, <3>1, <3>2, <3>3
    <3>6. a \in Nat /\ b \in Nat /\ c \in Nat
      BY <3>4
    <3> HIDE DEF a, b, c
    <3>7. f[s] = a + f[s \ {x}]
      BY <3>5, <3>6
    <3> QED BY <3>7 DEF a
  <2> QED BY <2>2, <2>3
<1>2. \A s \in SUBSET U : s \in P
  <2> HIDE DEF P
  <2> QED BY <1>1, SubsetInduction DEF Weighs
<1> QED BY <1>2

(* Sums of the same weights are the same, of whatever sets.                *)
LEMMA SumsAgree ==
  ASSUME NEW U, NEW w, Weighs(w, U), NEW f \in Sums(w, U),
         NEW V, NEW v, Weighs(v, V), NEW g \in Sums(v, V),
         V \subseteq U, \A x \in V : v[x] = w[x]
  PROVE  \A s \in SUBSET V : f[s] = g[s]
<1> DEFINE P == {s \in SUBSET V : f[s] = g[s]}
<1>1. ASSUME NEW s \in SUBSET V, \A x \in s : s \ {x} \in P PROVE s \in P
  <2>0. s \in SUBSET U
    OBVIOUS
  <2>1. CASE s = {}
    BY <2>0, <2>1 DEF Sums, SumFrom
  <2>2. CASE s # {}
    <3> DEFINE x == CHOOSE x \in s : TRUE
    <3>1. x \in s
      BY <2>2
    <3>2. f[s] = w[x] + f[s \ {x}]
      BY <2>0, <2>2 DEF Sums, SumFrom
    <3>3. g[s] = v[x] + g[s \ {x}]
      BY <2>2 DEF Sums, SumFrom
    <3> HIDE DEF x
    <3> QED BY <1>1, <3>1, <3>2, <3>3
  <2> QED BY <2>1, <2>2
<1>2. \A s \in SUBSET V : s \in P
  <2> HIDE DEF P
  <2> QED BY <1>1, SubsetInduction DEF Weighs
<1> QED BY <1>2

LEMMA SumIsNumber ==
  ASSUME NEW U, NEW w, Weighs(w, U)
  PROVE  SumFunctionOnSet(w, U) \in Nat
<1>1. PICK f \in Sums(w, U) : SumFunctionOnSet(w, U) = f[U]
  BY SumIsOne
<1>2. f \in [SUBSET U -> Nat]
  BY DEF Sums
<1>3. f[U] \in Nat
  BY <1>2
<1> QED BY <1>1, <1>3

LEMMA SumOfNone ==
  ASSUME NEW w PROVE SumFunctionOnSet(w, {}) = 0
<1>1. Weighs(w, {})
  BY FS_EmptySet DEF Weighs
<1>2. PICK f \in Sums(w, {}) : SumFunctionOnSet(w, {}) = f[{}]
  BY <1>1, SumIsOne
<1> QED BY <1>2 DEF Sums, SumFrom

(* Only the weights of the set count.                                      *)
LEMMA SumOfSame ==
  ASSUME NEW U, NEW w, NEW v, Weighs(w, U), \A x \in U : v[x] = w[x]
  PROVE  SumFunctionOnSet(v, U) = SumFunctionOnSet(w, U)
<1>1. Weighs(v, U)
  BY DEF Weighs
<1>2. PICK f \in Sums(w, U) : SumFunctionOnSet(w, U) = f[U]
  BY SumIsOne
<1>3. PICK g \in Sums(v, U) : SumFunctionOnSet(v, U) = g[U]
  BY <1>1, SumIsOne
<1>4. \A s \in SUBSET U : f[s] = g[s]
  BY <1>1, SumsAgree
<1> QED BY <1>2, <1>3, <1>4

(* One element's part of the sum.                                          *)
LEMMA SumOfOneMore ==
  ASSUME NEW U, NEW w, Weighs(w, U), NEW x \in U
  PROVE  SumFunctionOnSet(w, U) = w[x] + SumFunctionOnSet(w, U \ {x})
<1> DEFINE V == U \ {x}
<1>1. Weighs(w, V)
  BY FS_Subset DEF Weighs
<1>2. PICK f \in Sums(w, U) : SumFunctionOnSet(w, U) = f[U]
  BY SumIsOne
<1>3. PICK g \in Sums(w, V) : SumFunctionOnSet(w, V) = g[V]
  BY <1>1, SumIsOne
<1>4. f[U] = w[x] + f[V]
  BY SumsInAnyOrder
<1>5. f[V] = g[V]
  <2>1. \A s \in SUBSET V : f[s] = g[s]
    BY <1>1, SumsAgree
  <2> QED BY <2>1
<1> QED BY <1>2, <1>3, <1>4, <1>5

(* The sum with one more element.                                          *)
LEMMA SumWithNew ==
  ASSUME NEW U, NEW w, Weighs(w, U), NEW v, \A y \in U : v[y] = w[y],
         NEW x, x \notin U, v[x] \in Nat
  PROVE  SumFunctionOnSet(v, U \cup {x}) = v[x] + SumFunctionOnSet(w, U)
<1> DEFINE V == U \cup {x}
<1>1. Weighs(v, V)
  <2>1. IsFiniteSet(V)
    BY FS_AddElement DEF Weighs
  <2>2. \A y \in V : v[y] \in Nat
    BY DEF Weighs
  <2> QED BY <2>1, <2>2 DEF Weighs
<1>2. x \in V /\ V \ {x} = U
  OBVIOUS
<1> HIDE DEF V
<1>3. SumFunctionOnSet(v, V) = v[x] + SumFunctionOnSet(v, V \ {x})
  BY <1>1, <1>2, SumOfOneMore
<1>4. SumFunctionOnSet(v, U) = SumFunctionOnSet(w, U)
  BY SumOfSame
<1> QED BY <1>2, <1>3, <1>4 DEF V

(* The sum without one of its elements.                                    *)
LEMMA SumWithout ==
  ASSUME NEW U, NEW w, Weighs(w, U), NEW x \in U,
         NEW v, \A y \in U \ {x} : v[y] = w[y]
  PROVE  /\ SumFunctionOnSet(v, U \ {x}) \in Nat
         /\ SumFunctionOnSet(w, U) = w[x] + SumFunctionOnSet(v, U \ {x})
<1> DEFINE V == U \ {x}
<1>1. Weighs(w, V)
  BY FS_Subset DEF Weighs
<1>2. SumFunctionOnSet(w, U) = w[x] + SumFunctionOnSet(w, V)
  BY SumOfOneMore
<1>3. \A y \in V : v[y] = w[y]
  OBVIOUS
<1> HIDE DEF V
<1>4. SumFunctionOnSet(v, V) = SumFunctionOnSet(w, V)
  BY <1>1, <1>3, SumOfSame
<1>5. SumFunctionOnSet(w, V) \in Nat
  BY <1>1, SumIsNumber
<1> QED BY <1>2, <1>4, <1>5 DEF V
=============================================================================
