------------------------------ MODULE Counting ------------------------------
(***************************************************************************)
(* Facts about the natural numbers that the proofs of the stores need.     *)
(* Induction is stated of a set instead of a predicate and follows from    *)
(* counting finite sets.                                                   *)
(***************************************************************************)
EXTENDS Integers, FiniteSetTheorems, TLAPS

\* A set with 0 and the successor of each of its elements holds every number:
\* were n missing, counting up from 0 would map the elements below n one to
\* one into themselves and still miss 0.
LEMMA Induction ==
    ASSUME NEW S, 0 \in S, \A n \in Nat : n \in S => n + 1 \in S
    PROVE  Nat \subseteq S
<1> SUFFICES ASSUME NEW n \in Nat, n \notin S PROVE FALSE
  OBVIOUS
<1> DEFINE T == {i \in 0..n : i \in S}
           f == [i \in T |-> i + 1]
<1>1. f \in Injection(T, T)
  BY DEF Injection, IsInjective
<1>2. IsFiniteSet(T)
  <2>1. T \in SUBSET (0..n) /\ IsFiniteSet(0..n)
    BY FS_Interval
  <2> HIDE DEF T
  <2> QED BY <2>1, FS_Subset
<1>3. f \in Surjection(T, T)
  <2> HIDE DEF f, T
  <2> QED BY <1>1, <1>2, FS_Injection
<1>4. 0 \in T
  OBVIOUS
<1>5. PICK i \in T : f[i] = 0
  <2> HIDE DEF f, T
  <2> QED BY <1>3, <1>4 DEF Surjection
<1> QED BY <1>5

\* Every set of numbers has a least element ...
LEMMA LeastExists ==
    ASSUME NEW S \in SUBSET Nat, S # {}
    PROVE  \E m \in S : \A n \in S : m <= n
<1> SUFFICES ASSUME \A m \in S : \E n \in S : n < m PROVE FALSE
  OBVIOUS
<1> DEFINE below == {n \in Nat : \A m \in S : n < m}
<1>1. 0 \in below
  <2> SUFFICES ASSUME 0 \in S PROVE FALSE
    OBVIOUS
  <2> QED OBVIOUS
<1>2. \A n \in Nat : n \in below => n + 1 \in below
  <2> SUFFICES ASSUME NEW n \in below, n + 1 \in S PROVE FALSE
    OBVIOUS
  <2> QED OBVIOUS
<1>3. Nat \subseteq below
  <2> HIDE DEF below
  <2> QED BY <1>1, <1>2, Induction
<1>4. PICK m \in S : TRUE
  OBVIOUS
<1>5. m \in below
  BY <1>3
<1> QED BY <1>5

\* ... and, when c bounds it, a greatest one.
LEMMA GreatestExists ==
    ASSUME NEW S \in SUBSET Nat, S # {}, NEW c \in Nat, \A n \in S : n <= c
    PROVE  \E m \in S : \A n \in S : n <= m
<1> DEFINE D == {c - n : n \in S}
<1>1. D \in SUBSET Nat /\ D # {}
  <2>1. \A n \in S : c - n \in Nat
    OBVIOUS
  <2>2. PICK n \in S : TRUE
    OBVIOUS
  <2> QED BY <2>1, <2>2
<1>2. PICK m \in S : \A d \in D : c - m <= d
  <2>1. \E k \in D : \A d \in D : k <= d
    <3> HIDE DEF D
    <3> QED BY <1>1, LeastExists
  <2> QED BY <2>1
<1>3. \A n \in S : c - m <= c - n
  BY <1>2
<1> QED BY <1>3

\* f counts up from s: its k-th value is g's of k and the value before.
Iterates(f, n, s, g) == f = [k \in 0..n |-> IF k = 0 THEN s ELSE g[<<k, f[k - 1]>>]]

\* There is one such function for every n ...
LEMMA IterationExists ==
    ASSUME NEW X, NEW s \in X, NEW m \in Nat, NEW g \in [(1..m) \X X -> X], NEW n \in Nat, n <= m
    PROVE  \E f \in [0..n -> X] : Iterates(f, n, s, g)
<1> DEFINE S == {k \in Nat : k <= m => \E f \in [0..k -> X] : Iterates(f, k, s, g)}
<1>1. 0 \in S
  <2>1. LET f == [k \in 0..0 |-> s]
        IN  f \in [0..0 -> X] /\ Iterates(f, 0, s, g)
    BY DEF Iterates
  <2> QED BY <2>1
<1>2. ASSUME NEW k \in Nat, k \in S, k + 1 <= m
      PROVE  \E f \in [0..(k + 1) -> X] : Iterates(f, k + 1, s, g)
  <2>1. PICK f \in [0..k -> X] : Iterates(f, k, s, g)
    BY <1>2
  <2> DEFINE h == [j \in 0..(k + 1) |-> IF j = k + 1 THEN g[<<k + 1, f[k]>>] ELSE f[j]]
  <2>2. <<k + 1, f[k]>> \in (1..m) \X X
    BY <1>2
  <2>3. h \in [0..(k + 1) -> X] /\ h[k + 1] = g[<<k + 1, f[k]>>] /\ \A j \in 0..k : h[j] = f[j]
    BY <2>2
  <2>4. \A j \in 0..k : f[j] = IF j = 0 THEN s ELSE g[<<j, f[j - 1]>>]
    BY <2>1 DEF Iterates
  <2> HIDE DEF h
  <2>5. \A j \in 0..(k + 1) : h[j] = IF j = 0 THEN s ELSE g[<<j, h[j - 1]>>]
    <3> TAKE j \in 0..(k + 1)
    <3>1. CASE j = k + 1
      BY <2>3, <3>1
    <3>2. CASE j # k + 1
      <4>1. j \in 0..k /\ (j # 0 => j - 1 \in 0..k)
        BY <3>2
      <4> QED BY <2>3, <2>4, <3>2, <4>1
    <3> QED BY <3>1, <3>2
  <2>6. h = [j \in 0..(k + 1) |-> IF j = 0 THEN s ELSE g[<<j, h[j - 1]>>]]
    BY <2>3, <2>5
  <2> QED BY <2>3, <2>6 DEF Iterates
<1>3. \A k \in Nat : k \in S => k + 1 \in S
  BY <1>2
<1>4. Nat \subseteq S
  <2> HIDE DEF S
  <2> QED BY <1>1, <1>3, Induction
<1> QED BY <1>4

\* Functions that start equal and stay equal are equal.
LEMMA EqualUpTo ==
    ASSUME NEW f, NEW h, NEW n \in Nat, f[0] = h[0],
           \A k \in 1..n : f[k - 1] = h[k - 1] => f[k] = h[k]
    PROVE  \A k \in 0..n : f[k] = h[k]
<1> DEFINE S == {k \in Nat : k <= n => f[k] = h[k]}
<1>1. 0 \in S
  OBVIOUS
<1>2. ASSUME NEW k \in Nat, k \in S PROVE k + 1 \in S
  <2> SUFFICES ASSUME k + 1 <= n PROVE f[k + 1] = h[k + 1]
    OBVIOUS
  <2>1. f[k] = h[k] /\ k + 1 \in 1..n /\ (k + 1) - 1 = k
    BY <1>2
  <2> QED BY <2>1
<1>3. Nat \subseteq S
  <2> HIDE DEF S
  <2> QED BY <1>1, <1>2, Induction
<1> QED BY <1>3

\* The rank of k in a set of numbers: it rises with k ...
RankIn(S, k) == Cardinality({j \in S : j <= k})

LEMMA RankRises ==
    ASSUME NEW S, IsFiniteSet(S), S \subseteq Nat, NEW k \in S, NEW l \in S
    PROVE  /\ RankIn(S, k) \in 1..Cardinality(S)
           /\ k < l => RankIn(S, k) < RankIn(S, l)
           /\ k <= l <=> RankIn(S, k) <= RankIn(S, l)
<1> DEFINE B(x) == {j \in S : j <= x}
<1>1. \A x \in S : B(x) \in SUBSET S /\ B(x) # {}
  OBVIOUS
<1>2. \A x \in S : /\ IsFiniteSet(B(x)) /\ Cardinality(B(x)) \in Nat /\ Cardinality(B(x)) # 0
                   /\ Cardinality(B(x)) <= Cardinality(S)
  <2> TAKE x \in S
  <2> DEFINE T == B(x)
  <2>1. T \in SUBSET S /\ T # {}
    BY <1>1
  <2> HIDE DEF T, B
  <2>2. IsFiniteSet(T) /\ Cardinality(T) <= Cardinality(S)
    BY <2>1, FS_Subset
  <2>3. Cardinality(T) \in Nat /\ Cardinality(T) # 0
    BY <2>1, <2>2, FS_CardinalityType, FS_EmptySet
  <2> QED BY <2>2, <2>3 DEF T
<1>3. Cardinality(S) \in Nat
  BY FS_CardinalityType
<1>4. \A x \in S, y \in S : x < y => Cardinality(B(x)) < Cardinality(B(y))
  <2> SUFFICES ASSUME NEW x \in S, NEW y \in S, x < y PROVE Cardinality(B(x)) < Cardinality(B(y))
    OBVIOUS
  <2> DEFINE U == B(x)
             V == B(y)
  <2>1. U \in SUBSET V /\ y \in V /\ y \notin U
    <3>1. x \in Nat /\ y \in Nat /\ \A j \in S : j \in Nat
      OBVIOUS
    <3>2. \A j \in S : j <= x => j <= y
      BY <3>1
    <3>3. ~(y <= x) /\ y <= y
      BY <3>1
    <3>4. U \subseteq V
      BY <3>2, Zenon
    <3>5. y \in V /\ y \notin U
      BY <3>3
    <3> QED BY <3>4, <3>5
  <2>2. IsFiniteSet(V) /\ Cardinality(U) \in Nat /\ Cardinality(V) \in Nat
    BY <1>2
  <2> HIDE DEF U, V, B
  <2>3. Cardinality(U) <= Cardinality(V) /\ (Cardinality(V) = Cardinality(U) => V = U)
    BY <2>1, <2>2, FS_Subset
  <2>4. Cardinality(U) < Cardinality(V)
    BY <2>1, <2>2, <2>3
  <2> QED BY <2>4 DEF U, V
<1>5. k \in Nat /\ l \in Nat /\ RankIn(S, k) = Cardinality(B(k)) /\ RankIn(S, l) = Cardinality(B(l))
  BY DEF RankIn
<1> HIDE DEF B
<1>6. k < l => RankIn(S, k) < RankIn(S, l)
  BY <1>4, <1>5
<1>7. l < k => RankIn(S, l) < RankIn(S, k)
  BY <1>4, <1>5
<1>8. /\ RankIn(S, k) \in Nat /\ RankIn(S, k) # 0 /\ RankIn(S, k) <= Cardinality(S)
      /\ RankIn(S, l) \in Nat
  BY <1>2, <1>5
<1> QED BY <1>3, <1>5, <1>6, <1>7, <1>8

\* ... and every rank up to the size of the set is some element's.
LEMMA RankReached ==
    ASSUME NEW S, IsFiniteSet(S), S \subseteq Nat
    PROVE  /\ Cardinality(S) \in Nat
           /\ \A i \in 1..Cardinality(S) : \E k \in S : RankIn(S, k) = i
<1> DEFINE n == Cardinality(S)
           f == [k \in S |-> RankIn(S, k)]
<1>1. n \in Nat
  BY FS_CardinalityType
<1>2. f \in Injection(S, 1..n)
  <2>1. \A k \in S : RankIn(S, k) \in 1..n
    BY RankRises
  <2>2. \A k \in S, l \in S : RankIn(S, k) = RankIn(S, l) => k = l
    <3> SUFFICES ASSUME NEW k \in S, NEW l \in S, RankIn(S, k) = RankIn(S, l) PROVE k = l
      OBVIOUS
    <3>1. /\ RankIn(S, k) \in 1..n
          /\ k < l => RankIn(S, k) < RankIn(S, l)
      BY RankRises
    <3>2. l < k => RankIn(S, l) < RankIn(S, k)
      BY RankRises
    <3> QED BY <1>1, <3>1, <3>2
  <2> HIDE DEF n
  <2> QED BY <2>1, <2>2 DEF Injection, IsInjective
<1>3. IsFiniteSet(1..n) /\ Cardinality(1..n) = n
  <2> HIDE DEF n
  <2> QED BY <1>1, FS_Interval
<1>4. f \in Surjection(S, 1..n)
  <2>1. Cardinality(S) = Cardinality(1..n)
    BY <1>3
  <2> HIDE DEF f, n
  <2> QED BY <1>2, <1>3, <2>1, FS_Injection
<1>5. ASSUME NEW i \in 1..n PROVE \E k \in S : RankIn(S, k) = i
  <2>1. PICK k \in S : f[k] = i
    <3> HIDE DEF f, n
    <3> QED BY <1>4 DEF Surjection
  <2> QED BY <2>1
<1> QED BY <1>1, <1>5
=============================================================================
