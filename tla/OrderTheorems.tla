---------------------------- MODULE OrderTheorems ----------------------------
(***************************************************************************)
(* Facts about sets of integers that the proofs of several modules use:    *)
(* least and greatest elements, how many elements an interval and a set   *)
(* between two intervals have, and ranks.                                  *)
(***************************************************************************)
EXTENDS Integers, FiniteSets, FiniteSetsExt, FiniteSetTheorems, Ascending,
        WellFoundedInduction, TLAPS

\* A non-empty set of integers that is bounded below has a least element, and Min is
\* that element: the scans that stop at the first position with some property.
LEMMA LeastElement ==
  ASSUME NEW S \in SUBSET Int, NEW lo \in Int, S # {}, \A x \in S : lo <= x
  PROVE  Min(S) \in S /\ \A x \in S : Min(S) <= x
<1> DEFINE T == {n \in Nat : lo + n \in S}
           R == OpToRel(<, Nat)
<1>1. T # {}
  <2>1. PICK x \in S : TRUE
    OBVIOUS
  <2>2. x - lo \in Nat /\ lo + (x - lo) = x
    OBVIOUS
  <2> QED
    BY <2>1, <2>2
<1>2. PICK n \in T : \A m \in T : ~(<<m, n>> \in R)
  BY <1>1, WFMin, NatLessThanWellFounded
<1>3. \A m \in T : n <= m
  <2>1. \A m \in Nat : m < n => <<m, n>> \in R
    BY DEF OpToRel
  <2>2. \A m \in T : ~(m < n)
    BY <1>2, <2>1, Zenon
  <2> QED
    BY <2>2
<1>4. \A x \in S : lo + n <= x
  <2>1. TAKE x \in S
  <2>2. x - lo \in Nat /\ lo + (x - lo) = x
    OBVIOUS
  <2>3. x - lo \in T
    BY <2>2
  <2> QED
    BY <1>3, <2>3
<1>5. \E y \in S : \A x \in S : y =< x
  BY <1>4
<1> QED
  BY <1>5 DEF Min

\* The same above: the scans that go down.
LEMMA GreatestElement ==
  ASSUME NEW S \in SUBSET Int, NEW hi \in Int, S # {}, \A x \in S : x <= hi
  PROVE  Max(S) \in S /\ \A x \in S : x <= Max(S)
<1> DEFINE T == {hi - x : x \in S}
<1>1. \A x \in S : hi - x \in Int /\ 0 <= hi - x
  OBVIOUS
<1>2. Min(T) \in T /\ \A y \in T : Min(T) <= y
  <2>1. T \in SUBSET Int /\ \A y \in T : 0 <= y
    BY <1>1
  <2>2. T # {}
    <3>1. PICK x \in S : TRUE
      OBVIOUS
    <3>2. hi - x \in T
      BY <3>1
    <3> QED
      BY <3>2
  <2> HIDE DEF T
  <2> QED
    BY <2>1, <2>2, LeastElement, 0 \in Int, Zenon
<1>3. PICK x \in S : Min(T) = hi - x
  BY <1>2
<1>4. \A z \in S : x >= z
  BY <1>2, <1>3
<1>5. \E y \in S : \A z \in S : y >= z
  BY <1>4
<1> QED
  BY <1>5 DEF Max

\* The half-open interval from a to b.
LEMMA IntervalSize ==
  ASSUME NEW a \in Int, NEW b \in Int, a <= b
  PROVE  IsFiniteSet(a..(b - 1)) /\ Cardinality(a..(b - 1)) = b - a
<1>1. b - 1 \in Int
  OBVIOUS
<1>2. /\ IsFiniteSet(a..(b - 1))
      /\ Cardinality(a..(b - 1)) = IF a > b - 1 THEN 0 ELSE (b - 1) - a + 1
  BY <1>1, FS_Interval
<1> QED
  BY <1>2

\* A set that holds the first lo natural numbers and none from hi on has between lo
\* and hi elements.
LEMMA CardinalityBetween ==
  ASSUME NEW S, NEW lo \in Nat, NEW hi \in Nat,
         0..(lo - 1) \subseteq S, S \subseteq 0..(hi - 1)
  PROVE  IsFiniteSet(S) /\ Cardinality(S) \in lo..hi
<1>1. IsFiniteSet(0..(hi - 1)) /\ Cardinality(0..(hi - 1)) = hi
  BY FS_Interval
<1>2. IsFiniteSet(0..(lo - 1)) /\ Cardinality(0..(lo - 1)) = lo
  BY FS_Interval
<1>3. IsFiniteSet(S) /\ Cardinality(S) <= hi
  BY <1>1, FS_Subset
<1>4. lo <= Cardinality(S)
  BY <1>2, <1>3, FS_Subset
<1> QED
  BY <1>3, <1>4, FS_CardinalityType

\* A part of an interval has as many elements as the interval only if it is all of it.
LEMMA WholeInterval ==
  ASSUME NEW a \in Int, NEW n \in Nat, NEW T \in SUBSET (a..(a + n - 1))
  PROVE  /\ IsFiniteSet(T) /\ Cardinality(T) \in 0..n
         /\ Cardinality(T) = n <=> T = a..(a + n - 1)
<1>1. IsFiniteSet(a..(a + n - 1)) /\ Cardinality(a..(a + n - 1)) = n
  BY FS_Interval
<1>2. /\ IsFiniteSet(T) /\ Cardinality(T) <= n
      /\ Cardinality(T) = n => T = a..(a + n - 1)
  BY <1>1, FS_Subset
<1>3. Cardinality(T) \in Nat
  BY <1>2, FS_CardinalityType
<1>4. Cardinality(T) \in 0..n
  BY <1>2, <1>3
<1> QED
  BY <1>1, <1>2, <1>4

\* A part of 1..n that holds with each number the smaller ones is an initial segment.
LEMMA InitialSegment ==
  ASSUME NEW n \in Nat, NEW T \in SUBSET (1..n),
         \A q \in T : \A p \in 1..q : p \in T
  PROVE  Cardinality(T) \in 0..n /\ T = 1..Cardinality(T)
<1>1. CASE T = {}
  BY <1>1, FS_EmptySet
<1>2. CASE T # {}
  <2>1. T \in SUBSET Int /\ n \in Int /\ \A x \in T : x <= n
    OBVIOUS
  <2>2. Max(T) \in T /\ \A x \in T : x <= Max(T)
    BY <1>2, <2>1, GreatestElement, Zenon
  <2>3. T = 1..Max(T) /\ Max(T) \in 1..n
    <3>1. Max(T) \in 1..n
      BY <2>2
    <3>2. \A p \in 1..Max(T) : p \in T
      BY <2>2
    <3>3. \A p \in T : p \in 1..Max(T)
      BY <2>2, <3>1
    <3> QED
      BY <3>1, <3>2, <3>3
  <2>4. Cardinality(1..Max(T)) = Max(T)
    BY <2>3, FS_Interval
  <2> QED
    BY <2>3, <2>4
<1> QED
  BY <1>1, <1>2

\* Half of a natural number, rounded down.
LEMMA Half ==
  ASSUME NEW n \in Nat
  PROVE  n \div 2 \in Nat /\ 2 * (n \div 2) <= n /\ n <= 2 * (n \div 2) + 1
  OBVIOUS

-----------------------------------------------------------------------------
(* Ranks: how many elements of a set are less than one of them. *)

Rank(S, x) == Cardinality({y \in S : y < x})

\* A greater element has a greater rank.
LEMMA RankIncreases ==
  ASSUME NEW S \in SUBSET Int, IsFiniteSet(S)
  PROVE  /\ \A x \in S : Rank(S, x) \in 0..(Cardinality(S) - 1)
         /\ \A x, y \in S : x < y => Rank(S, x) < Rank(S, y)
<1> DEFINE L(x) == {y \in S : y < x}
<1>1. Cardinality(S) \in Nat
  BY FS_CardinalityType
<1>2. ASSUME NEW x \in S
      PROVE  IsFiniteSet(L(x)) /\ Cardinality(L(x)) \in Nat
  <2>1. L(x) \in SUBSET S
    OBVIOUS
  <2> QED
    BY <2>1, FS_Subset, FS_CardinalityType
<1>3. ASSUME NEW x \in S, NEW T \in SUBSET S, L(x) \subseteq T, x \in T
      PROVE  Cardinality(L(x)) < Cardinality(T)
  <2>1. IsFiniteSet(T) /\ Cardinality(T) \in Nat
    BY FS_Subset, FS_CardinalityType
  <2>2. L(x) \in SUBSET T /\ L(x) # T
    BY <1>3
  <2>3. Cardinality(L(x)) <= Cardinality(T) /\ Cardinality(T) # Cardinality(L(x))
    BY <2>1, <2>2, FS_Subset
  <2> QED
    BY <1>2, <2>1, <2>3
<1>4. ASSUME NEW x \in S PROVE Rank(S, x) \in 0..(Cardinality(S) - 1)
  <2>1. Cardinality(L(x)) < Cardinality(S)
    BY <1>3
  <2> QED
    BY <1>1, <1>2, <2>1 DEF Rank
<1>5. ASSUME NEW x \in S, NEW y \in S, x < y PROVE Rank(S, x) < Rank(S, y)
  <2>1. ASSUME NEW z \in S, z < x PROVE z < y
    <3>1. x \in Int /\ y \in Int /\ z \in Int
      OBVIOUS
    <3> QED
      BY <1>5, <2>1, <3>1
  <2>2. L(y) \in SUBSET S /\ L(x) \subseteq L(y) /\ x \in L(y)
    BY <1>5, <2>1
  <2> QED
    BY <1>3, <2>2 DEF Rank
<1> QED
  BY <1>4, <1>5

\* Each number of smaller elements is the rank of one element, and of one only.
LEMMA RankOnto ==
  ASSUME NEW S \in SUBSET Int, IsFiniteSet(S)
  PROVE  /\ \A c \in 0..(Cardinality(S) - 1) : \E x \in S : Rank(S, x) = c
         /\ \A x, y \in S : Rank(S, x) = Rank(S, y) => x = y
<1> DEFINE T == 0..(Cardinality(S) - 1)
           r == [x \in S |-> Rank(S, x)]
<1>1. Cardinality(S) \in Nat
  BY FS_CardinalityType
<1>2. /\ \A x \in S : Rank(S, x) \in T /\ Rank(S, x) \in Int
      /\ \A x, y \in S : x < y => Rank(S, x) < Rank(S, y)
  BY <1>1, RankIncreases
<1>3. \A x, y \in S : Rank(S, x) = Rank(S, y) => x = y
  <2> SUFFICES ASSUME NEW x \in S, NEW y \in S, x # y
               PROVE  Rank(S, x) # Rank(S, y)
    OBVIOUS
  <2>1. x < y \/ y < x
    OBVIOUS
  <2> QED
    BY <1>2, <2>1
<1>4. r \in Injection(S, T)
  BY <1>2, <1>3 DEF Injection, IsInjective
<1>5. IsFiniteSet(T) /\ Cardinality(T) = Cardinality(S)
  BY <1>1, FS_Interval
<1>6. r \in Surjection(S, T)
  BY <1>4, <1>5, FS_Injection
<1>7. \A c \in T : \E x \in S : r[x] = c
  BY <1>6 DEF Surjection
<1> QED
  BY <1>3, <1>7

\* A one-to-one map that keeps the order keeps the ranks.
LEMMA SameRank ==
  ASSUME NEW K \in SUBSET Int, IsFiniteSet(K), NEW P, NEW f \in [P -> K],
         \A p, q \in P : f[p] = f[q] => p = q,
         \A k \in K : \E p \in P : f[p] = k
  PROVE  /\ Cardinality(P) = Cardinality(K)
         /\ \A p \in P : Cardinality({q \in P : f[q] < f[p]}) = Rank(K, f[p])
<1>1. ASSUME NEW Q \in SUBSET P, NEW L \in SUBSET K,
             \A q \in Q : f[q] \in L, \A k \in L : \E q \in Q : f[q] = k
      PROVE  Cardinality(Q) = Cardinality(L)
  <2> DEFINE g == [q \in Q |-> f[q]]
  <2>1. IsFiniteSet(L)
    BY FS_Subset
  <2>2. g \in Injection(Q, L)
    BY <1>1 DEF Injection, IsInjective
  <2>3. g \in Surjection(Q, L)
    BY <1>1 DEF Surjection
  <2> QED
    BY <2>1, <2>2, <2>3, FS_Injection
<1>2. Cardinality(P) = Cardinality(K)
  BY <1>1
<1>3. ASSUME NEW p \in P
      PROVE  Cardinality({q \in P : f[q] < f[p]}) = Rank(K, f[p])
  <2> DEFINE Q == {q \in P : f[q] < f[p]}
             L == {k \in K : k < f[p]}
  <2>1. \A q \in Q : f[q] \in L
    OBVIOUS
  <2>2. \A k \in L : \E q \in Q : f[q] = k
    OBVIOUS
  <2> QED
    BY <1>1, <2>1, <2>2 DEF Rank
<1> QED
  BY <1>2, <1>3

\* Ascending lists the elements of a set once each, the smaller ones first.
LEMMA AscendingRanks ==
  ASSUME NEW S \in SUBSET Int, IsFiniteSet(S)
  PROVE  /\ Cardinality(S) \in Nat /\ Ascending(S) \in [1..Cardinality(S) -> S]
         /\ \A i, j \in 1..Cardinality(S) : i < j => Ascending(S)[i] < Ascending(S)[j]
         /\ \A x \in S : \E i \in 1..Cardinality(S) : Ascending(S)[i] = x
         /\ \A i \in 1..Cardinality(S) : Rank(S, Ascending(S)[i]) = i - 1
         /\ \A x \in S : Rank(S, x) + 1 \in 1..Cardinality(S) /\ Ascending(S)[Rank(S, x) + 1] = x
<1> DEFINE c == Cardinality(S)
           a == Ascending(S)
<1>1. c \in Nat
  BY FS_CardinalityType
<1>2. /\ \A x \in S : Rank(S, x) \in 0..(c - 1)
      /\ \A x, y \in S : x < y => Rank(S, x) < Rank(S, y)
  BY RankIncreases
<1>3. /\ \A r \in 0..(c - 1) : \E x \in S : Rank(S, x) = r
      /\ \A x, y \in S : Rank(S, x) = Rank(S, y) => x = y
  BY RankOnto
<1>4. a = [i \in 1..c |-> CHOOSE x \in S : Rank(S, x) = i - 1]
  BY DEF Ascending, Rank
<1>5. \A i \in 1..c : a[i] \in S /\ Rank(S, a[i]) = i - 1
  <2> SUFFICES ASSUME NEW i \in 1..c
               PROVE  a[i] \in S /\ Rank(S, a[i]) = i - 1
    OBVIOUS
  <2>1. i - 1 \in 0..(c - 1)
    BY <1>1
  <2>2. a[i] = CHOOSE x \in S : Rank(S, x) = i - 1
    BY <1>4, Zenon
  <2> QED
    BY <2>1, <2>2, <1>3
<1>6. a \in [1..c -> S]
  BY <1>4, <1>5
<1>8. ASSUME NEW i \in 1..c, NEW j \in 1..c, i < j
      PROVE  a[i] < a[j]
  <2> DEFINE x == a[i]
             y == a[j]
  <2>1. x \in S /\ y \in S /\ Rank(S, x) = i - 1 /\ Rank(S, y) = j - 1
    BY <1>5
  <2>2. ~(y < x) /\ x # y
    <3> HIDE DEF x, y
    <3> QED
      BY <2>1, <1>2, <1>8, <1>1
  <2>3. x \in Int /\ y \in Int
    BY <2>1
  <2> QED
    BY <2>2, <2>3
<1>9. ASSUME NEW x \in S
      PROVE  Rank(S, x) + 1 \in 1..c /\ a[Rank(S, x) + 1] = x
  <2> DEFINE i == Rank(S, x) + 1
  <2>1. i \in 1..c /\ i - 1 = Rank(S, x)
    BY <1>1, <1>2
  <2>2. a[i] \in S /\ Rank(S, a[i]) = Rank(S, x)
    BY <2>1, <1>5
  <2>3. a[i] = x
    BY <2>2, <1>3
  <2> QED
    BY <2>1, <2>3
<1> QED
  BY <1>1, <1>5, <1>6, <1>8, <1>9

-----------------------------------------------------------------------------
(* Induction on a rank, for sets whose elements depend on elements of lower  *)
(* rank: the nodes of a tree, the parts of a finite set.                     *)

\* A set that holds every element whose predecessors it holds is everything.
LEMMA RankInduction ==
  ASSUME NEW D, NEW h \in [D -> Nat], NEW T,
         \A a \in D : (\A b \in D : h[b] < h[a] => b \in T) => a \in T
  PROVE  D \subseteq T
<1> DEFINE Out == {h[a] : a \in D \ T}
<1> SUFFICES ASSUME NEW x \in D \ T PROVE FALSE
  OBVIOUS
<1>1. Out \in SUBSET Int /\ 0 \in Int /\ Out # {} /\ \A y \in Out : 0 <= y
  OBVIOUS
<1>2. Min(Out) \in Out /\ \A y \in Out : Min(Out) <= y
  <2> HIDE DEF Out
  <2> QED
    BY <1>1, LeastElement
<1>3. PICK a \in D \ T : h[a] = Min(Out)
  BY <1>2
<1>4. ASSUME NEW b \in D, h[b] < h[a], b \notin T PROVE FALSE
  <2>1. h[b] \in Out /\ h[b] \in Nat /\ h[a] \in Nat
    BY <1>4
  <2> HIDE DEF Out
  <2>2. h[a] <= h[b]
    BY <1>2, <1>3, <2>1
  <2> QED
    BY <1>4, <2>1, <2>2
<1> QED
  BY <1>3, <1>4

\* B[a] says what the value at a is when the values at lower ranks are given.
Recursion(D, h, V, B) ==
  /\ h \in [D -> Nat] /\ V # {} /\ B \in [D -> [[D -> V] -> V]]
  /\ \A a \in D : \A f, g \in [D -> V] :
       (\A b \in D : h[b] < h[a] => f[b] = g[b]) => B[a][f] = B[a][g]

\* A definition by recursion on the rank has a solution.
LEMMA RankRecursion ==
  ASSUME NEW D, NEW h, NEW V, NEW B, Recursion(D, h, V, B)
  PROVE  \E f \in [D -> V] : \A a \in D : f[a] = B[a][f]
<1> USE DEF Recursion
<1>0. PICK v0 \in V : TRUE
  OBVIOUS
<1> DEFINE Solves(f, j) == f \in [D -> V] /\ \A a \in D : h[a] < j => f[a] = B[a][f]
           Open == {j \in Nat : ~ \E f : Solves(f, j)}
<1>1. \A j \in Nat : \E f : Solves(f, j)
  <2> SUFFICES ASSUME Open # {} PROVE FALSE
    OBVIOUS
  <2>1. Open \in SUBSET Int /\ 0 \in Int /\ \A x \in Open : 0 <= x
    OBVIOUS
  <2>2. PICK j \in Open : \A x \in Open : j <= x
    <3> HIDE DEF Open
    <3> QED
      BY <2>1, LeastElement
  <2>3. CASE j = 0
    <3> DEFINE f == [a \in D |-> v0]
    <3>1. f \in [D -> V]
      OBVIOUS
    <3>2. \A a \in D : ~(h[a] < 0)
      OBVIOUS
    <3>3. Solves(f, 0)
      <4> HIDE DEF f
      <4> QED
        BY <3>1, <3>2
    <3> QED
      BY <3>3, <2>2, <2>3
  <2>4. CASE j # 0
    <3>1. j - 1 \in Nat /\ j - 1 \notin Open
      <4> HIDE DEF Open
      <4>1. j \in Nat
        BY <2>1 DEF Open
      <4> QED
        BY <4>1, <2>2, <2>4
    <3>2. PICK f : Solves(f, j - 1)
      BY <3>1
    <3> DEFINE g == [a \in D |-> IF h[a] < j - 1 THEN f[a] ELSE B[a][f]]
    <3>3. g \in [D -> V]
      BY <3>2
    <3>4. ASSUME NEW a \in D, h[a] < j PROVE g[a] = B[a][f] /\ B[a][g] = B[a][f]
      <4>1. g[a] = B[a][f]
        BY <3>2
      <4>2. \A b \in D : h[b] < h[a] => g[b] = f[b]
        <5>1. ASSUME NEW b \in D, h[b] < h[a] PROVE h[b] < j - 1
          BY <3>4, <3>1, <5>1
        <5> QED
          BY <5>1
      <4> HIDE DEF g
      <4>3. B[a][g] = B[a][f]
        BY <4>2, <3>2, <3>3
      <4> QED
        BY <4>1, <4>3
    <3>5. Solves(g, j)
      <4> HIDE DEF g
      <4> QED
        BY <3>3, <3>4
    <3> QED
      BY <3>5, <2>2
  <2> QED
    BY <2>3, <2>4
<1>2. ASSUME NEW i \in Nat, NEW j \in Nat, NEW f, NEW g, Solves(f, i), Solves(g, j)
      PROVE  \A a \in D : h[a] < i /\ h[a] < j => f[a] = g[a]
  <2> DEFINE T == {a \in D : h[a] < i /\ h[a] < j => f[a] = g[a]}
  <2>1. ASSUME NEW a \in D, \A b \in D : h[b] < h[a] => b \in T
        PROVE  a \in T
    <3> SUFFICES ASSUME h[a] < i, h[a] < j PROVE f[a] = g[a]
      OBVIOUS
    <3>1. \A b \in D : h[b] < h[a] => h[b] < i /\ h[b] < j
      OBVIOUS
    <3>2. \A b \in D : h[b] < h[a] => f[b] = g[b]
      BY <2>1, <3>1
    <3>3. B[a][f] = B[a][g]
      BY <1>2, <3>2
    <3> QED
      BY <1>2, <3>3
  <2>2. D \subseteq T
    <3> HIDE DEF T
    <3> QED
      BY <2>1, RankInduction
  <2> QED
    BY <2>2
<1> DEFINE F(j) == CHOOSE f : Solves(f, j)
           s == [a \in D |-> F(h[a] + 1)[a]]
<1>3. \A j \in Nat : Solves(F(j), j)
  BY <1>1
<1> HIDE DEF F
<1>4. \A a \in D : h[a] \in Nat /\ h[a] + 1 \in Nat /\ h[a] < h[a] + 1
  OBVIOUS
<1>5. s \in [D -> V]
  BY <1>3, <1>4
<1>6. ASSUME NEW a \in D PROVE s[a] = B[a][s]
  <2> DEFINE f == F(h[a] + 1)
  <2>1. Solves(f, h[a] + 1)
    BY <1>3, <1>4
  <2>2. ASSUME NEW b \in D, h[b] < h[a] PROVE s[b] = f[b]
    <3>1. h[b] < h[a] + 1
      BY <1>4, <2>2
    <3>2. Solves(F(h[b] + 1), h[b] + 1) /\ h[b] + 1 \in Nat /\ h[b] < h[b] + 1
      BY <1>3, <1>4
    <3>3. F(h[b] + 1)[b] = f[b]
      <4> HIDE DEF f, Solves
      <4> QED
        BY <1>2, <1>4, <2>1, <3>1, <3>2
    <3> QED
      BY <3>3
  <2>3. s[a] = f[a]
    OBVIOUS
  <2>4. f \in [D -> V] /\ f[a] = B[a][f]
    BY <2>1, <1>4
  <2> HIDE DEF f, s
  <2>5. B[a][s] = B[a][f]
    BY <2>2, <2>4, <1>5
  <2> QED
    BY <2>3, <2>4, <2>5
<1> QED
  BY <1>5, <1>6
=============================================================================
