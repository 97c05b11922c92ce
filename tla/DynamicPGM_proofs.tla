-------------------------- MODULE DynamicPGM_proofs --------------------------
(***************************************************************************)
(* Machine-checked proofs about DynamicPGM, for every set of keys and       *)
(* values, every min_level and every number of levels.                      *)
(***************************************************************************)
EXTENDS DynamicPGM, OrderTheorems, SequenceTheorems

-----------------------------------------------------------------------------
(* The inductive invariant for every workload. *)

\* The items that calls make: tombstones have the value 0 and come from erase.
Genuine == {x \in Items : IF x.deleted THEN Erasures /\ x.value = 0 ELSE x.value \in Values}

\* What may be in a level: a merge into a level with items leaves anything there.
Pool == IF clobbered THEN Items ELSE Genuine

TypeInv ==
  /\ data \in [Levels -> Seq(Pool)] /\ pgm \in [Levels -> Seq(Pool)]
  /\ used_levels \in MinLevel..(MaxLevel + 1) /\ num_levels \in Nat \ {0}
  /\ clobbered \in BOOLEAN
  /\ contents \in [Keys -> Values \cup {Absent}]
  /\ pc \in {"idle", "slots", "merge"}
  /\ level \in Levels \cup {MaxLevel + 1} /\ slots_required \in Nat /\ target \in Levels
  /\ tmp \in [{"a", "b"} -> Seq(Pool)]
  /\ first1 \in Nat \ {0} /\ first2 \in Nat \ {0} /\ out \in Seq(Pool)

\* Where the call that is running has got to.
CallInv ==
  /\ pc # "merge" => first1 = 1 /\ first2 = 1 /\ out = <<>>
  /\ pc = "slots" =>
       new_item \in Pool /\ ~clobbered /\ level \in (MinLevel + 1)..used_levels
  /\ pc = "merge" =>
       /\ target \in (MinLevel + 1)..(used_levels - 1)
       /\ level \in (MinLevel + 1)..(target + 1)
       /\ first1 <= Len(Newer) + 1
       /\ level <= target => first2 <= Len(data[level]) + 1
       /\ level > Limit => first1 = 1 /\ first2 = 1 /\ out = <<>>
       /\ ~clobbered => level <= target /\ data[target] = <<>>
       /\ \A j \in (MinLevel + 1)..(level - 1) : data[j] = <<>>

\* The levels in use are the ones with items, they exist, and each index is the one of
\* its level.
LevelInv ==
  /\ \A i \in Levels : data[i] # <<>> => i < used_levels
  /\ used_levels <= MinLevel + num_levels
  /\ \A i \in Levels : i >= MinIndexed => pgm[i] = data[i]

\* The levels are sorted, and so is what a pass has written, which is not greater than
\* what it still has to merge.
OrderInv ==
  /\ \A i \in Levels : Ordered(data[i])
  /\ pc = "merge" =>
       /\ Ordered(Newer) /\ Ordered(out)
       /\ \A n \in 1..Len(out) :
            /\ first1 <= Len(Newer) => out[n].key <= Newer[first1].key
            /\ first2 <= Len(data[level]) => out[n].key <= data[level][first2].key

\* What a map would hold for a key whose newest item is x.
Version(x) == IF x.deleted THEN Absent ELSE x.value

\* The first item with key k of s, from position lo on, is the version v; there is none.
Shows(s, lo, k, v) ==
  \E n \in lo..Len(s) : /\ s[n].key = k /\ Version(s[n]) = v
                        /\ \A m \in lo..(n - 1) : s[m].key # k
Lacks(s, lo, k) == \A n \in lo..Len(s) : s[n].key # k

\* The levels of d from i to u - 1, the newest first, show v for key k.
LevelsShow(d, u, i, k, v) ==
  \/ \E j \in i..(u - 1) : Shows(d[j], 1, k, v) /\ \A h \in i..(j - 1) : Lacks(d[h], 1, k)
  \/ v = Absent /\ \A j \in i..(u - 1) : Lacks(d[j], 1, k)

\* A pass that has written w, and has come to position a of the newer items s and to
\* position b of the level t, shows v for key k: in what it has written, in the newer
\* items, in the level, or elsewhere.
PassShows(w, s, a, t, b, k, v, elsewhere) ==
  \/ Shows(w, 1, k, v)
  \/ /\ Lacks(w, 1, k)
     /\ \/ Shows(s, a, k, v)
        \/ /\ Lacks(s, a, k)
           /\ Shows(t, b, k, v) \/ (Lacks(t, b, k) /\ elsewhere)

\* Whatever is being moved, the newest item of a key is found first, in the pass that is
\* running or in the levels it has not come to.
VersionInv ==
  \A k \in Keys :
    /\ pc = "idle" => LevelsShow(data, used_levels, MinLevel, k, contents[k])
    /\ pc = "slots" =>
         IF k = new_item.key THEN contents[k] = Version(new_item)
         ELSE LevelsShow(data, used_levels, MinLevel, k, contents[k])
    /\ pc = "merge" =>
         PassShows(out, Newer, first1, data[level], first2, k, contents[k],
                   LevelsShow(data, used_levels, level + 1, k, contents[k]))

\* insert(k, 0) is not dropped because of a buffered tombstone of k, nor the other way
\* round: see Dropped.
ZeroFree == 0 \notin Values \/ ~Erasures

IInv ==
  /\ TypeInv /\ CallInv /\ LevelInv
  /\ ~clobbered => OrderInv /\ (ZeroFree => VersionInv)

-----------------------------------------------------------------------------
(* The inductive invariant for workloads that insert each key once. *)

Disjoint(s, t) == \A m \in 1..Len(s), n \in 1..Len(t) : s[m].key # t[n].key

\* No two of the sequences that will be merged have a key in common.
DisjointInv ==
  /\ pc # "merge" => \A i, j \in Levels : i < j => Disjoint(data[i], data[j])
  /\ pc = "slots" => \A i \in Levels : Lacks(data[i], 1, new_item.key)
  /\ pc = "merge" =>
       /\ \A i, j \in level..MaxLevel : i < j => Disjoint(data[i], data[j])
       /\ \A j \in level..MaxLevel : Disjoint(Newer, data[j])
       /\ \A j \in (level + 1)..MaxLevel : Disjoint(out, data[j])

\* Level i has items, no more than fit.
Partial(i) == Len(data[i]) \in 1..Slots[i]
Full(i) == Len(data[i]) = Slots[i]

\* Every level but the last is empty or full.
SizeInv ==
  /\ Len(Buffer) <= BufferCapacity
  /\ pc # "merge" =>
       /\ used_levels = MinLevel + 1 => Buffer # <<>>
       /\ used_levels > MinLevel + 1 => Partial(used_levels - 1)
       /\ \A i \in (MinLevel + 1)..(used_levels - 2) : data[i] = <<>> \/ Full(i)
  /\ pc = "slots" =>
       /\ Len(Buffer) = BufferCapacity
       /\ \A j \in (MinLevel + 1)..(level - 1) : data[j] # <<>>
       /\ level < used_levels => slots_required = Slots[level]
       /\ slots_required <= Slots[level]
       /\ level > MinLevel + 1 => slots_required = Slots[level - 1] + Len(data[level - 1])
  /\ pc = "merge" =>
       /\ Len(Newer) \in 1..Slots[level]
       /\ level < used_levels - 1 => Len(Newer) = Slots[level]
       /\ \A j \in level..(target - 1) : Partial(j) /\ (j < used_levels - 2 => Full(j))
       /\ \A j \in (target + 1)..(used_levels - 2) : data[j] = <<>> \/ Full(j)
       /\ target < used_levels - 1 => Partial(used_levels - 1)
       /\ level < target => slots_required >= Slots[target - 1] + Len(data[target - 1])
       /\ Len(out) = first1 - 1 + first2 - 1

UInv == ~clobbered /\ DisjointInv /\ SizeInv

-----------------------------------------------------------------------------
(* The constants. *)

LEMMA ItemFields ==
  /\ \A x \in Items : x.key \in Keys /\ x.key \in Int
                      /\ x.value \in Int /\ x.deleted \in BOOLEAN
  /\ Genuine \subseteq Items /\ Pool \subseteq Items
  /\ Absent \notin Values /\ Keys \subseteq Int /\ Values \subseteq Int
<1>1. Keys \subseteq Int /\ Values \subseteq Int /\ Absent \notin Values
  BY DataAssumption DEF Absent
<1>2. \A x \in Items : x.key \in Keys /\ x.value \in Values \cup {0} /\ x.deleted \in BOOLEAN
  BY DEF Items
<1>3. Genuine \subseteq Items /\ Pool \subseteq Items
  BY DEF Genuine, Pool
<1>4. ASSUME NEW x \in Items
      PROVE  x.key \in Int /\ x.value \in Int
  <2>1. x.key \in Keys /\ (x.value \in Values \/ x.value = 0)
    BY <1>2
  <2>2. x.key \in Int
    BY <1>1, <2>1
  <2>3. x.value \in Int
    BY <1>1, <2>1, 0 \in Int, Zenon
  <2> QED
    BY <2>2, <2>3
<1> QED
  BY <1>1, <1>2, <1>3, <1>4

LEMMA LevelFacts ==
  /\ MinLevel \in Nat /\ MaxLevel \in Nat /\ MinIndexed \in Nat
  /\ MinLevel < MaxLevel /\ MinLevel < MinIndexed
  /\ Levels = MinLevel..MaxLevel /\ MinLevel \in Levels
  BY LevelAssumption DEF Levels

\* The levels from i to u - 1.
LEMMA LevelRange ==
  ASSUME NEW u \in Int, u <= MaxLevel + 1, NEW i \in Int, MinLevel <= i
  PROVE  \A j \in i..(u - 1) : j \in Levels /\ j \in Int /\ i <= j /\ j < u
  BY LevelFacts

\* The slots of the levels double, and each level has one.
LEMMA SlotFacts ==
  /\ \A i \in 0..(MaxLevel + 1) : Slots[i] \in Nat \ {0}
  /\ \A i \in 0..MaxLevel : Slots[i + 1] = 2 * Slots[i]
  /\ \A i, j \in 0..(MaxLevel + 1) : i <= j => Slots[i] <= Slots[j]
  /\ BufferCapacity \in Nat \ {0} /\ BufferCapacity + 1 = Slots[MinLevel + 1]
  /\ Slots[MinLevel] <= BufferCapacity
<1>1. ASSUME NEW i \in 0..(MaxLevel + 1)
      PROVE  Slots[i] \in Nat /\ 1 <= Slots[i]
  <2>1. 0 \in 0..(MaxLevel + 1) /\ 0 <= i
    BY LevelFacts
  <2> QED
    BY <2>1, SlotsAssumption
<1>2. /\ MinLevel \in 0..MaxLevel /\ MinLevel + 1 \in 0..(MaxLevel + 1)
      /\ MinLevel \in 0..(MaxLevel + 1)
  BY LevelFacts
<1>3. Slots[MinLevel + 1] = 2 * Slots[MinLevel]
  BY <1>2, SlotsAssumption
<1>4. /\ BufferCapacity \in Nat \ {0} /\ BufferCapacity + 1 = Slots[MinLevel + 1]
      /\ Slots[MinLevel] <= BufferCapacity
  BY <1>1, <1>2, <1>3 DEF BufferCapacity
<1> QED
  BY <1>1, <1>4, SlotsAssumption

-----------------------------------------------------------------------------
(* Sequences of items. *)

\* lower_bound splits a sorted sequence.
LEMMA LowerBound ==
  ASSUME NEW s \in Seq(Items), Ordered(s), NEW k \in Int
  PROVE  /\ Before(s, k) \in 0..Len(s)
         /\ \A n \in 1..Len(s) : n <= Before(s, k) <=> s[n].key < k
<1> DEFINE T == {n \in 1..Len(s) : s[n].key < k}
<1>1. Len(s) \in Nat /\ \A n \in 1..Len(s) : s[n].key \in Int
  BY ItemFields
<1>2. \A q \in T : \A p \in 1..q : p \in T
  BY <1>1 DEF Ordered
<1>3. T \in SUBSET (1..Len(s))
  OBVIOUS
<1>4. Cardinality(T) \in 0..Len(s) /\ T = 1..Cardinality(T)
  <2> HIDE DEF T
  <2> QED
    BY <1>1, <1>2, <1>3, InitialSegment
<1>5. Before(s, k) = Cardinality(T)
  BY DEF Before
<1>6. \A n \in 1..Len(s) : n \in T <=> s[n].key < k
  OBVIOUS
<1> QED
  BY <1>1, <1>4, <1>5, <1>6

\* The items around one that is inserted into a sequence.
LEMMA InsertedAt ==
  ASSUME NEW S, NEW s \in Seq(S), NEW x \in S, NEW n \in 1..(Len(s) + 1)
  PROVE  /\ InsertAt(s, n, x) \in Seq(S)
         /\ Len(InsertAt(s, n, x)) = Len(s) + 1
         /\ InsertAt(s, n, x)[n] = x
         /\ \A m \in 1..(n - 1) : InsertAt(s, n, x)[m] = s[m]
         /\ \A m \in (n + 1)..(Len(s) + 1) : InsertAt(s, n, x)[m] = s[m - 1]
<1> DEFINE a == SubSeq(s, 1, n - 1)
           b == SubSeq(s, n, Len(s))
<1>1. a \in Seq(S) /\ Len(a) = n - 1 /\ \A m \in 1..(n - 1) : a[m] = s[m]
  BY SubSeqProperties
<1>2. /\ b \in Seq(S) /\ Len(b) = Len(s) - n + 1
      /\ \A m \in 1..(Len(s) - n + 1) : b[m] = s[n + m - 1]
  BY SubSeqProperties
<1>3. InsertAt(s, n, x) = (a \o <<x>>) \o b
  BY DEF InsertAt
<1> HIDE DEF a, b
<1>4. /\ a \o <<x>> \in Seq(S) /\ Len(a \o <<x>>) = n /\ (a \o <<x>>)[n] = x
      /\ \A m \in 1..(n - 1) : (a \o <<x>>)[m] = s[m]
  BY <1>1
<1> DEFINE c == a \o <<x>>
<1> HIDE DEF c
<1>5. c \in Seq(S) /\ Len(c) = n /\ c[n] = x /\ \A m \in 1..(n - 1) : c[m] = s[m]
  BY <1>4 DEF c
<1>6. c \o b \in Seq(S) /\ Len(c \o b) = Len(s) + 1
  <2>1. c \o b \in Seq(S) /\ Len(c \o b) = Len(c) + Len(b)
    BY <1>2, <1>5, ConcatProperties
  <2> QED
    BY <1>2, <1>5, <2>1
<1>7. \A m \in 1..(Len(s) + 1) : (c \o b)[m] = IF m <= n THEN c[m] ELSE b[m - n]
  BY <1>2, <1>5
<1>8. \A m \in (n + 1)..(Len(s) + 1) : m - n \in 1..(Len(s) - n + 1) /\ n + (m - n) - 1 = m - 1
  OBVIOUS
<1>9. ASSUME NEW m \in (n + 1)..(Len(s) + 1)
      PROVE  (c \o b)[m] = s[m - 1]
  <2>1. m \in 1..(Len(s) + 1) /\ ~(m <= n)
    OBVIOUS
  <2>2. (c \o b)[m] = b[m - n]
    BY <1>7, <2>1
  <2>3. b[m - n] = s[n + (m - n) - 1]
    BY <1>2, <1>8
  <2> QED
    BY <1>8, <2>2, <2>3
<1>10. InsertAt(s, n, x) = c \o b
  BY <1>3 DEF c
<1> QED
  BY <1>5, <1>6, <1>7, <1>9, <1>10

\* Insertion before the items of the same key keeps a sequence sorted, and hides them.
LEMMA SortedInsert ==
  ASSUME NEW S, S \subseteq Items, NEW s \in Seq(S), Ordered(s), NEW x \in S
  PROVE  LET t == InsertAt(s, Before(s, x.key) + 1, x)
         IN  /\ t \in Seq(S) /\ Len(t) = Len(s) + 1 /\ Ordered(t)
             /\ Shows(t, 1, x.key, Version(x))
             /\ \A k, v : k # x.key => /\ Shows(s, 1, k, v) => Shows(t, 1, k, v)
                                       /\ Lacks(s, 1, k) => Lacks(t, 1, k)
<1> DEFINE p == Before(s, x.key) + 1
           t == InsertAt(s, p, x)
<1>1. s \in Seq(Items) /\ x \in Items /\ x.key \in Int /\ Len(s) \in Nat
  BY SeqMonotonic, ItemFields
<1>2. /\ p \in 1..(Len(s) + 1)
      /\ \A n \in 1..Len(s) : n < p <=> s[n].key < x.key
  <2>1. /\ Before(s, x.key) \in 0..Len(s)
        /\ \A n \in 1..Len(s) : n <= Before(s, x.key) <=> s[n].key < x.key
    BY <1>1, LowerBound
  <2> QED
    BY <1>1, <2>1
<1> HIDE DEF p
<1>3. /\ t \in Seq(S) /\ Len(t) = Len(s) + 1 /\ t[p] = x
      /\ \A m \in 1..(p - 1) : t[m] = s[m]
      /\ \A m \in (p + 1)..(Len(s) + 1) : t[m] = s[m - 1]
  BY <1>2, InsertedAt
<1> HIDE DEF t
<1>4. \A n \in 1..Len(s) : s[n].key \in Int
  BY <1>1, ItemFields
<1>5. ASSUME NEW m \in 1..Len(t)
      PROVE  /\ m < p => m \in 1..Len(s) /\ t[m].key = s[m].key /\ s[m].key < x.key
             /\ m > p => m - 1 \in 1..Len(s) /\ t[m].key = s[m - 1].key /\ ~(s[m - 1].key < x.key)
             /\ m = p => t[m].key = x.key
  <2>1. ASSUME m < p PROVE m \in 1..Len(s) /\ t[m] = s[m]
    BY <1>1, <1>2, <1>3, <2>1
  <2>2. ASSUME m > p PROVE m - 1 \in 1..Len(s) /\ t[m] = s[m - 1] /\ ~(m - 1 < p)
    BY <1>1, <1>2, <1>3, <2>2
  <2> QED
    BY <1>2, <1>3, <2>1, <2>2
<1>6. Ordered(t)
  <2> SUFFICES ASSUME NEW m \in 1..Len(t), NEW n \in 1..Len(t), m <= n
               PROVE  t[m].key <= t[n].key
    BY DEF Ordered
  <2>1. /\ m < p => m \in 1..Len(s) /\ t[m].key = s[m].key /\ s[m].key < x.key
        /\ m > p => m - 1 \in 1..Len(s) /\ t[m].key = s[m - 1].key /\ ~(s[m - 1].key < x.key)
        /\ m = p => t[m].key = x.key
    BY <1>5
  <2>2. /\ n < p => n \in 1..Len(s) /\ t[n].key = s[n].key /\ s[n].key < x.key
        /\ n > p => n - 1 \in 1..Len(s) /\ t[n].key = s[n - 1].key /\ ~(s[n - 1].key < x.key)
        /\ n = p => t[n].key = x.key
    BY <1>5
  <2>3. \A a, b \in 1..Len(s) : a <= b => s[a].key <= s[b].key
    BY DEF Ordered
  <2>4. p \in Int /\ m \in Int /\ n \in Int
    BY <1>1, <1>2, <1>3
  <2>5. CASE n < p
    BY <1>4, <2>1, <2>2, <2>3, <2>4, <2>5
  <2>6. CASE m > p
    BY <1>4, <2>1, <2>2, <2>3, <2>4, <2>6
  <2>7. CASE m <= p /\ p <= n
    BY <1>1, <1>4, <2>1, <2>2, <2>4, <2>7
  <2> QED
    BY <2>4, <2>5, <2>6, <2>7
<1>7. Shows(t, 1, x.key, Version(x))
  <2>1. ASSUME NEW m \in 1..(p - 1) PROVE t[m].key # x.key
    <3>1. m \in 1..Len(t) /\ m < p
      BY <1>1, <1>2, <1>3
    <3>2. m \in 1..Len(s) /\ t[m].key = s[m].key /\ s[m].key < x.key
      BY <1>5, <3>1
    <3> QED
      BY <1>1, <1>4, <3>2
  <2> QED
    BY <1>1, <1>2, <1>3, <2>1 DEF Shows
<1>8. ASSUME NEW k, NEW v, k # x.key, Shows(s, 1, k, v)
      PROVE  Shows(t, 1, k, v)
  <2>1. PICK n \in 1..Len(s) : /\ s[n].key = k /\ Version(s[n]) = v
                               /\ \A m \in 1..(n - 1) : s[m].key # k
    BY <1>8 DEF Shows
  <2>2. CASE n < p
    <3>1. n \in 1..Len(t) /\ t[n] = s[n] /\ \A m \in 1..(n - 1) : t[m] = s[m]
      BY <1>1, <1>2, <1>3, <2>2
    <3> QED
      BY <2>1, <3>1 DEF Shows
  <2>3. CASE n >= p
    <3>1. n + 1 \in 1..Len(t) /\ t[n + 1] = s[n]
      BY <1>1, <1>2, <1>3, <2>3
    <3>2. ASSUME NEW m \in 1..n PROVE t[m].key # k
      <4>1. CASE m < p
        BY <1>1, <1>2, <1>3, <2>1, <2>3, <4>1
      <4>2. CASE m = p
        BY <1>3, <1>8, <4>2
      <4>3. CASE m > p
        <5>1. m - 1 \in 1..(n - 1) /\ t[m] = s[m - 1]
          BY <1>1, <1>2, <1>3, <4>3
        <5> QED
          BY <2>1, <5>1
      <4> QED
        BY <1>1, <1>2, <4>1, <4>2, <4>3
    <3>3. (n + 1) - 1 = n
      OBVIOUS
    <3> QED
      BY <2>1, <3>1, <3>2, <3>3 DEF Shows
  <2> QED
    BY <1>2, <2>2, <2>3
<1>9. ASSUME NEW k, k # x.key, Lacks(s, 1, k)
      PROVE  Lacks(t, 1, k)
  <2> SUFFICES ASSUME NEW m \in 1..Len(t) PROVE t[m].key # k
    BY DEF Lacks
  <2>1. CASE m < p
    BY <1>1, <1>2, <1>3, <1>9, <2>1 DEF Lacks
  <2>2. CASE m = p
    BY <1>3, <1>9, <2>2
  <2>3. CASE m > p
    <3>1. m - 1 \in 1..Len(s) /\ t[m] = s[m - 1]
      BY <1>1, <1>2, <1>3, <2>3
    <3> QED
      BY <1>9, <3>1 DEF Lacks
  <2> QED
    BY <1>1, <1>2, <1>3, <2>1, <2>2, <2>3
<1> QED
  BY <1>3, <1>6, <1>7, <1>8, <1>9 DEF t, p

\* Writing an item at the end.
LEMMA AppendShows ==
  ASSUME NEW s \in Seq(Items), NEW x \in Items, NEW k, NEW v
  PROVE  LET t == Append(s, x)
         IN  /\ Shows(s, 1, k, v) => Shows(t, 1, k, v)
             /\ Lacks(s, 1, k) /\ x.key # k => Lacks(t, 1, k)
             /\ Lacks(s, 1, k) /\ x.key = k => Shows(t, 1, k, Version(x))
<1> DEFINE t == Append(s, x)
<1>1. /\ Len(s) \in Nat /\ Len(t) = Len(s) + 1 /\ t[Len(s) + 1] = x
      /\ \A n \in 1..Len(s) : t[n] = s[n]
  OBVIOUS
<1> HIDE DEF t
<1>2. ASSUME Shows(s, 1, k, v) PROVE Shows(t, 1, k, v)
  <2>1. PICK n \in 1..Len(s) : /\ s[n].key = k /\ Version(s[n]) = v
                               /\ \A m \in 1..(n - 1) : s[m].key # k
    BY <1>2 DEF Shows
  <2>2. n \in 1..Len(t) /\ t[n] = s[n] /\ \A m \in 1..(n - 1) : t[m] = s[m]
    BY <1>1
  <2> QED
    BY <2>1, <2>2 DEF Shows
<1>3. ASSUME Lacks(s, 1, k), x.key # k PROVE Lacks(t, 1, k)
  BY <1>1, <1>3 DEF Lacks
<1>4. ASSUME Lacks(s, 1, k), x.key = k PROVE Shows(t, 1, k, Version(x))
  <2>1. Len(s) + 1 \in 1..Len(t) /\ (Len(s) + 1) - 1 = Len(s)
    BY <1>1
  <2>2. \A m \in 1..Len(s) : t[m].key # k
    BY <1>1, <1>4 DEF Lacks
  <2> QED
    BY <1>1, <1>4, <2>1, <2>2 DEF Shows
<1> QED
  BY <1>2, <1>3, <1>4 DEF t

\* Moving on in a sequence.
LEMMA AdvanceShows ==
  ASSUME NEW s \in Seq(Items), NEW lo \in 1..Len(s), NEW k, NEW v
  PROVE  /\ Shows(s, lo, k, v) /\ s[lo].key = k => v = Version(s[lo])
         /\ Shows(s, lo, k, v) /\ s[lo].key # k => Shows(s, lo + 1, k, v)
         /\ Lacks(s, lo, k) => s[lo].key # k /\ Lacks(s, lo + 1, k)
<1>1. Len(s) \in Nat
  OBVIOUS
<1>2. ASSUME Shows(s, lo, k, v)
      PROVE  /\ s[lo].key = k => v = Version(s[lo])
             /\ s[lo].key # k => Shows(s, lo + 1, k, v)
  <2>1. PICK n \in lo..Len(s) : /\ s[n].key = k /\ Version(s[n]) = v
                                /\ \A m \in lo..(n - 1) : s[m].key # k
    BY <1>2 DEF Shows
  <2>2. s[lo].key = k => n = lo
    BY <1>1, <2>1
  <2>3. s[lo].key # k => n \in (lo + 1)..Len(s) /\ \A m \in (lo + 1)..(n - 1) : s[m].key # k
    BY <1>1, <2>1
  <2> QED
    BY <2>1, <2>2, <2>3 DEF Shows
<1>3. ASSUME Lacks(s, lo, k) PROVE s[lo].key # k /\ Lacks(s, lo + 1, k)
  BY <1>1, <1>3 DEF Lacks
<1> QED
  BY <1>2, <1>3

\* What comes after a greater key of a sorted sequence is greater.
LEMMA GreaterLacks ==
  ASSUME NEW s \in Seq(Items), Ordered(s), NEW lo \in 1..Len(s), NEW k \in Int,
         k < s[lo].key
  PROVE  Lacks(s, lo, k)
<1>1. Len(s) \in Nat /\ \A n \in 1..Len(s) : s[n].key \in Int
  BY ItemFields
<1>2. \A n \in lo..Len(s) : s[lo].key <= s[n].key /\ n \in 1..Len(s)
  BY <1>1 DEF Ordered
<1> QED
  BY <1>1, <1>2 DEF Lacks

\* One sequence after another.
LEMMA ConcatShows ==
  ASSUME NEW S, S \subseteq Items, NEW a \in Seq(S), NEW b \in Seq(S), NEW k, NEW v
  PROVE  /\ Shows(a, 1, k, v) => Shows(a \o b, 1, k, v)
         /\ Lacks(a, 1, k) /\ Shows(b, 1, k, v) => Shows(a \o b, 1, k, v)
         /\ Lacks(a, 1, k) /\ Lacks(b, 1, k) => Lacks(a \o b, 1, k)
<1> DEFINE c == a \o b
<1>1. /\ Len(a) \in Nat /\ Len(b) \in Nat /\ Len(c) = Len(a) + Len(b)
      /\ \A n \in 1..Len(c) : c[n] = IF n <= Len(a) THEN a[n] ELSE b[n - Len(a)]
  BY ConcatProperties
<1> HIDE DEF c
<1>2. ASSUME Shows(a, 1, k, v) PROVE Shows(c, 1, k, v)
  <2>1. PICK n \in 1..Len(a) : /\ a[n].key = k /\ Version(a[n]) = v
                               /\ \A m \in 1..(n - 1) : a[m].key # k
    BY <1>2 DEF Shows
  <2>2. n \in 1..Len(c) /\ c[n] = a[n] /\ \A m \in 1..(n - 1) : c[m] = a[m]
    BY <1>1
  <2> QED
    BY <2>1, <2>2 DEF Shows
<1>3. ASSUME Lacks(a, 1, k), Shows(b, 1, k, v) PROVE Shows(c, 1, k, v)
  <2>1. PICK n \in 1..Len(b) : /\ b[n].key = k /\ Version(b[n]) = v
                               /\ \A m \in 1..(n - 1) : b[m].key # k
    BY <1>3 DEF Shows
  <2>2. Len(a) + n \in 1..Len(c) /\ c[Len(a) + n] = b[n]
    <3>1. Len(a) + n \in 1..Len(c) /\ ~(Len(a) + n <= Len(a)) /\ Len(a) + n - Len(a) = n
      BY <1>1
    <3> QED
      BY <1>1, <3>1
  <2>3. ASSUME NEW m \in 1..(Len(a) + n - 1) PROVE c[m].key # k
    <3>1. m \in 1..Len(c)
      BY <1>1
    <3>2. CASE m <= Len(a)
      BY <1>1, <1>3, <3>1, <3>2 DEF Lacks
    <3>3. CASE m > Len(a)
      <4>1. m - Len(a) \in 1..(n - 1)
        BY <1>1, <3>3
      <4> QED
        BY <1>1, <2>1, <3>1, <3>3, <4>1
    <3> QED
      BY <1>1, <3>2, <3>3
  <2> QED
    BY <2>1, <2>2, <2>3 DEF Shows
<1>4. ASSUME Lacks(a, 1, k), Lacks(b, 1, k) PROVE Lacks(c, 1, k)
  <2> SUFFICES ASSUME NEW m \in 1..Len(c) PROVE c[m].key # k
    BY DEF Lacks
  <2>1. CASE m <= Len(a)
    BY <1>1, <1>4, <2>1 DEF Lacks
  <2>2. CASE m > Len(a)
    <3>1. m - Len(a) \in 1..Len(b)
      BY <1>1, <2>2
    <3> QED
      BY <1>1, <1>4, <2>2, <3>1 DEF Lacks
  <2> QED
    BY <1>1, <2>1, <2>2
<1> QED
  BY <1>2, <1>3, <1>4 DEF c

LEMMA ConcatOrdered ==
  ASSUME NEW S, S \subseteq Items, NEW a \in Seq(S), NEW b \in Seq(S), Ordered(a), Ordered(b),
         \A m \in 1..Len(a), n \in 1..Len(b) : a[m].key <= b[n].key
  PROVE  Ordered(a \o b)
<1> DEFINE c == a \o b
<1>1. /\ Len(a) \in Nat /\ Len(b) \in Nat /\ Len(c) = Len(a) + Len(b)
      /\ \A n \in 1..Len(c) : c[n] = IF n <= Len(a) THEN a[n] ELSE b[n - Len(a)]
  BY ConcatProperties
<1> HIDE DEF c
<1> SUFFICES ASSUME NEW m \in 1..Len(c), NEW n \in 1..Len(c), m <= n
             PROVE  c[m].key <= c[n].key
  BY DEF Ordered, c
<1>2. CASE n <= Len(a)
  BY <1>1, <1>2 DEF Ordered
<1>3. CASE m > Len(a)
  <2>1. m - Len(a) \in 1..Len(b) /\ n - Len(a) \in 1..Len(b) /\ m - Len(a) <= n - Len(a)
    BY <1>1, <1>3
  <2>2. c[m] = b[m - Len(a)] /\ c[n] = b[n - Len(a)]
    BY <1>1, <1>3
  <2> QED
    BY <2>1, <2>2 DEF Ordered
<1>4. CASE m <= Len(a) /\ n > Len(a)
  <2>1. m \in 1..Len(a) /\ n - Len(a) \in 1..Len(b)
    BY <1>1, <1>4
  <2>2. c[m] = a[m] /\ c[n] = b[n - Len(a)]
    BY <1>1, <1>4
  <2> QED
    BY <2>1, <2>2
<1> QED
  BY <1>1, <1>2, <1>3, <1>4

\* The rest of a sequence.
LEMMA RestOf ==
  ASSUME NEW S, S \subseteq Items, NEW s \in Seq(S), NEW lo \in 1..(Len(s) + 1)
  PROVE  LET t == SubSeq(s, lo, Len(s))
         IN  /\ t \in Seq(S) /\ Len(t) = Len(s) - lo + 1
             /\ \A n \in 1..Len(t) : t[n] = s[lo + n - 1]
             /\ Ordered(s) => Ordered(t)
             /\ \A k, v : Shows(s, lo, k, v) => Shows(t, 1, k, v)
             /\ \A k : Lacks(s, lo, k) => Lacks(t, 1, k)
<1> DEFINE t == SubSeq(s, lo, Len(s))
<1>1. Len(s) \in Nat /\ lo \in Int /\ \A i \in lo..Len(s) : s[i] \in S
  OBVIOUS
<1>2. /\ t \in Seq(S) /\ Len(t) = Len(s) - lo + 1
      /\ \A n \in 1..Len(t) : t[n] = s[lo + n - 1]
  <2>1. /\ t \in Seq(S) /\ Len(t) = IF lo <= Len(s) THEN Len(s) - lo + 1 ELSE 0
        /\ \A n \in 1..(Len(s) - lo + 1) : t[n] = s[lo + n - 1]
    BY <1>1, SubSeqProperties
  <2> QED
    BY <1>1, <2>1
<1> HIDE DEF t
<1>3. ASSUME Ordered(s) PROVE Ordered(t)
  <2> SUFFICES ASSUME NEW m \in 1..Len(t), NEW n \in 1..Len(t), m <= n
               PROVE  t[m].key <= t[n].key
    BY DEF Ordered
  <2>1. lo + m - 1 \in 1..Len(s) /\ lo + n - 1 \in 1..Len(s) /\ lo + m - 1 <= lo + n - 1
    BY <1>1, <1>2
  <2> QED
    BY <1>2, <1>3, <2>1 DEF Ordered
<1>4. ASSUME NEW k, NEW v, Shows(s, lo, k, v) PROVE Shows(t, 1, k, v)
  <2>1. PICK n \in lo..Len(s) : /\ s[n].key = k /\ Version(s[n]) = v
                                /\ \A m \in lo..(n - 1) : s[m].key # k
    BY <1>4 DEF Shows
  <2>2. n - lo + 1 \in 1..Len(t) /\ lo + (n - lo + 1) - 1 = n
    BY <1>1, <1>2
  <2>3. t[n - lo + 1] = s[n]
    BY <1>2, <2>2
  <2>4. ASSUME NEW m \in 1..((n - lo + 1) - 1) PROVE t[m].key # k
    <3>1. m \in 1..Len(t) /\ lo + m - 1 \in lo..(n - 1)
      BY <1>1, <1>2
    <3> QED
      BY <1>2, <2>1, <3>1
  <2> QED
    BY <2>1, <2>2, <2>3, <2>4 DEF Shows
<1>5. ASSUME NEW k, Lacks(s, lo, k) PROVE Lacks(t, 1, k)
  <2> SUFFICES ASSUME NEW m \in 1..Len(t) PROVE t[m].key # k
    BY DEF Lacks
  <2>1. lo + m - 1 \in lo..Len(s)
    BY <1>1, <1>2
  <2> QED
    BY <1>2, <1>5, <2>1 DEF Lacks
<1> QED
  BY <1>2, <1>3, <1>4, <1>5 DEF t

\* Writing an item that is not less than the ones before keeps a sequence sorted.
LEMMA AppendOrdered ==
  ASSUME NEW s \in Seq(Items), Ordered(s), NEW x \in Items,
         \A n \in 1..Len(s) : s[n].key <= x.key
  PROVE  /\ Ordered(Append(s, x))
         /\ \A n \in 1..Len(Append(s, x)) : Append(s, x)[n].key <= x.key
<1> DEFINE t == Append(s, x)
<1>1. /\ Len(s) \in Nat /\ Len(t) = Len(s) + 1 /\ t[Len(s) + 1] = x
      /\ \A n \in 1..Len(s) : t[n] = s[n]
  OBVIOUS
<1> HIDE DEF t
<1>2. x.key \in Int /\ \A n \in 1..Len(s) : s[n].key \in Int
  BY ItemFields
<1>3. \A n \in 1..Len(t) : t[n].key <= x.key
  BY <1>1, <1>2
<1>4. Ordered(t)
  <2> SUFFICES ASSUME NEW m \in 1..Len(t), NEW n \in 1..Len(t), m <= n
               PROVE  t[m].key <= t[n].key
    BY DEF Ordered
  <2>1. CASE n = Len(s) + 1
    BY <1>1, <1>3, <2>1
  <2>2. CASE n # Len(s) + 1
    BY <1>1, <2>2 DEF Ordered
  <2> QED
    BY <2>1, <2>2
<1> QED
  BY <1>3, <1>4 DEF t

\* A step of a pass: it writes the smaller of the two items at its positions, or the
\* newer if their keys are equal, and moves on.
LEMMA MergeShows ==
  ASSUME NEW w \in Seq(Items), NEW s \in Seq(Items), NEW t \in Seq(Items),
         Ordered(s), Ordered(t), NEW a \in 1..Len(s), NEW b \in 1..Len(t),
         NEW k \in Int, NEW v, NEW elsewhere \in BOOLEAN,
         PassShows(w, s, a, t, b, k, v, elsewhere)
  PROVE  /\ t[b].key < s[a].key =>
              PassShows(Append(w, t[b]), s, a, t, b + 1, k, v, elsewhere)
         /\ s[a].key < t[b].key =>
              PassShows(Append(w, s[a]), s, a + 1, t, b, k, v, elsewhere)
         /\ s[a].key = t[b].key =>
              PassShows(Append(w, s[a]), s, a + 1, t, b + 1, k, v, elsewhere)
<1>1. s[a] \in Items /\ t[b] \in Items /\ s[a].key \in Int /\ t[b].key \in Int
  BY ItemFields
<1>2. \A x \in Items :
        /\ Shows(w, 1, k, v) => Shows(Append(w, x), 1, k, v)
        /\ Lacks(w, 1, k) /\ x.key # k => Lacks(Append(w, x), 1, k)
        /\ Lacks(w, 1, k) /\ x.key = k => Shows(Append(w, x), 1, k, Version(x))
  BY AppendShows
<1>3. /\ Shows(s, a, k, v) /\ s[a].key = k => v = Version(s[a])
      /\ Shows(s, a, k, v) /\ s[a].key # k => Shows(s, a + 1, k, v)
      /\ Lacks(s, a, k) => s[a].key # k /\ Lacks(s, a + 1, k)
  BY AdvanceShows
<1>4. /\ Shows(t, b, k, v) /\ t[b].key = k => v = Version(t[b])
      /\ Shows(t, b, k, v) /\ t[b].key # k => Shows(t, b + 1, k, v)
      /\ Lacks(t, b, k) => t[b].key # k /\ Lacks(t, b + 1, k)
  BY AdvanceShows
<1>5. k < s[a].key => Lacks(s, a, k)
  BY GreaterLacks
<1>6. Lacks(s, a, k) => ~Shows(s, a, k, v)
  BY DEF Lacks, Shows
<1>7. ASSUME t[b].key < s[a].key
      PROVE  PassShows(Append(w, t[b]), s, a, t, b + 1, k, v, elsewhere)
  <2>1. t[b].key = k => Lacks(s, a, k)
    BY <1>1, <1>5, <1>7
  <2> QED
    BY <1>1, <1>2, <1>4, <1>6, <2>1 DEF PassShows
<1>8. ASSUME s[a].key < t[b].key
      PROVE  PassShows(Append(w, s[a]), s, a + 1, t, b, k, v, elsewhere)
  BY <1>1, <1>2, <1>3 DEF PassShows
<1>9. ASSUME s[a].key = t[b].key
      PROVE  PassShows(Append(w, s[a]), s, a + 1, t, b + 1, k, v, elsewhere)
  BY <1>1, <1>2, <1>3, <1>4, <1>9 DEF PassShows
<1> QED
  BY <1>7, <1>8, <1>9

\* The end of a pass: it copies what is left.
LEMMA PassWrites ==
  ASSUME NEW S, S \subseteq Items, NEW w \in Seq(S), NEW s \in Seq(S), NEW t \in Seq(S),
         NEW a \in 1..(Len(s) + 1), NEW b \in 1..(Len(t) + 1)
  PROVE  LET r == w \o SubSeq(s, a, Len(s)) \o SubSeq(t, b, Len(t))
         IN  /\ r \in Seq(S)
             /\ \A k, v : \A elsewhere \in BOOLEAN :
                  PassShows(w, s, a, t, b, k, v, elsewhere) =>
                    Shows(r, 1, k, v) \/ (Lacks(r, 1, k) /\ elsewhere)
             /\ \A k : Lacks(w, 1, k) /\ Lacks(s, a, k) /\ Lacks(t, b, k) => Lacks(r, 1, k)
<1> DEFINE x == SubSeq(s, a, Len(s))
           y == SubSeq(t, b, Len(t))
<1>1. /\ x \in Seq(S) /\ Len(x) = Len(s) - a + 1
      /\ \A k, v : Shows(s, a, k, v) => Shows(x, 1, k, v)
      /\ \A k : Lacks(s, a, k) => Lacks(x, 1, k)
  BY RestOf
<1>2. /\ y \in Seq(S) /\ Len(y) = Len(t) - b + 1
      /\ \A k, v : Shows(t, b, k, v) => Shows(y, 1, k, v)
      /\ \A k : Lacks(t, b, k) => Lacks(y, 1, k)
  BY RestOf
<1> HIDE DEF x, y
<1>3. w \o x \in Seq(S) /\ Len(w \o x) = Len(w) + Len(x)
  BY <1>1, ConcatProperties
<1>4. (w \o x) \o y \in Seq(S) /\ Len((w \o x) \o y) = Len(w \o x) + Len(y)
  BY <1>2, <1>3, ConcatProperties
<1>5. ASSUME NEW k, NEW v, NEW elsewhere \in BOOLEAN,
             PassShows(w, s, a, t, b, k, v, elsewhere)
      PROVE  Shows((w \o x) \o y, 1, k, v) \/ (Lacks((w \o x) \o y, 1, k) /\ elsewhere)
  <2>1. /\ Shows(w, 1, k, v) => Shows(w \o x, 1, k, v)
        /\ Lacks(w, 1, k) /\ Shows(x, 1, k, v) => Shows(w \o x, 1, k, v)
        /\ Lacks(w, 1, k) /\ Lacks(x, 1, k) => Lacks(w \o x, 1, k)
    BY <1>1, ConcatShows
  <2>2. /\ Shows(w \o x, 1, k, v) => Shows((w \o x) \o y, 1, k, v)
        /\ Lacks(w \o x, 1, k) /\ Shows(y, 1, k, v) => Shows((w \o x) \o y, 1, k, v)
        /\ Lacks(w \o x, 1, k) /\ Lacks(y, 1, k) => Lacks((w \o x) \o y, 1, k)
    BY <1>2, <1>3, ConcatShows
  <2> QED
    BY <1>1, <1>2, <1>5, <2>1, <2>2 DEF PassShows
<1>6. ASSUME NEW k, Lacks(w, 1, k), Lacks(s, a, k), Lacks(t, b, k)
      PROVE  Lacks((w \o x) \o y, 1, k)
  <2>1. Lacks(w \o x, 1, k)
    BY <1>1, <1>6, ConcatShows
  <2>2. Lacks(y, 1, k)
    BY <1>2, <1>6
  <2> QED
    BY <1>2, <1>3, <2>1, <2>2, ConcatShows
<1> QED
  BY <1>4, <1>5, <1>6 DEF x, y

LEMMA PassLength ==
  ASSUME NEW w \in Seq(Items), NEW s \in Seq(Items), NEW t \in Seq(Items),
         NEW a \in 1..(Len(s) + 1), NEW b \in 1..(Len(t) + 1)
  PROVE  Len(w \o SubSeq(s, a, Len(s)) \o SubSeq(t, b, Len(t))) =
           Len(w) + (Len(s) - a + 1) + (Len(t) - b + 1)
<1> DEFINE x == SubSeq(s, a, Len(s))
           y == SubSeq(t, b, Len(t))
<1>1. x \in Seq(Items) /\ Len(x) = Len(s) - a + 1 /\ y \in Seq(Items) /\ Len(y) = Len(t) - b + 1
  BY RestOf
<1> HIDE DEF x, y
<1>2. w \o x \in Seq(Items) /\ Len(w \o x) = Len(w) + Len(x)
  BY <1>1, ConcatProperties
<1>3. Len((w \o x) \o y) = Len(w \o x) + Len(y)
  BY <1>1, <1>2, ConcatProperties
<1>4. Len((w \o x) \o y) = Len(w) + (Len(s) - a + 1) + (Len(t) - b + 1)
  BY <1>1, <1>2, <1>3
<1> QED
  BY <1>4 DEF x, y

\* It is sorted if nothing is left of one of the two.
LEMMA PassOrdered ==
  ASSUME NEW S, S \subseteq Items, NEW w \in Seq(S), NEW s \in Seq(S), NEW t \in Seq(S),
         NEW a \in 1..(Len(s) + 1), NEW b \in 1..(Len(t) + 1),
         a > Len(s) \/ b > Len(t),
         Ordered(w), Ordered(s), Ordered(t),
         \A n \in 1..Len(w) : /\ a <= Len(s) => w[n].key <= s[a].key
                              /\ b <= Len(t) => w[n].key <= t[b].key
  PROVE  Ordered(w \o SubSeq(s, a, Len(s)) \o SubSeq(t, b, Len(t)))
<1> DEFINE x == SubSeq(s, a, Len(s))
           y == SubSeq(t, b, Len(t))
<1>1. /\ x \in Seq(S) /\ Len(x) = Len(s) - a + 1 /\ Ordered(x)
      /\ \A n \in 1..Len(x) : x[n] = s[a + n - 1]
  BY RestOf
<1>2. /\ y \in Seq(S) /\ Len(y) = Len(t) - b + 1 /\ Ordered(y)
      /\ \A n \in 1..Len(y) : y[n] = t[b + n - 1]
  BY RestOf
<1> HIDE DEF x, y
<1>3. /\ Len(s) \in Nat /\ Len(t) \in Nat /\ Len(w) \in Nat
      /\ \A n \in 1..Len(s) : s[n].key \in Int
      /\ \A n \in 1..Len(t) : t[n].key \in Int
      /\ \A n \in 1..Len(w) : w[n].key \in Int
  BY ItemFields
<1>4. ASSUME NEW m \in 1..Len(w), NEW n \in 1..Len(x)
      PROVE  w[m].key <= x[n].key
  <2>1. a \in 1..Len(s) /\ a + n - 1 \in 1..Len(s) /\ a <= a + n - 1
    BY <1>1, <1>3
  <2>2. w[m].key <= s[a].key /\ s[a].key <= s[a + n - 1].key
    BY <2>1 DEF Ordered
  <2>3. x[n].key = s[a + n - 1].key
    BY <1>1
  <2>4. w[m].key \in Int /\ s[a].key \in Int /\ x[n].key \in Int
    BY <1>3, <2>1, <2>3
  <2> QED
    BY <2>2, <2>3, <2>4
<1>5. ASSUME NEW m \in 1..Len(w), NEW n \in 1..Len(y)
      PROVE  w[m].key <= y[n].key
  <2>1. b \in 1..Len(t) /\ b + n - 1 \in 1..Len(t) /\ b <= b + n - 1
    BY <1>2, <1>3
  <2>2. w[m].key <= t[b].key /\ t[b].key <= t[b + n - 1].key
    BY <2>1 DEF Ordered
  <2>3. y[n].key = t[b + n - 1].key
    BY <1>2
  <2>4. w[m].key \in Int /\ t[b].key \in Int /\ y[n].key \in Int
    BY <1>3, <2>1, <2>3
  <2>5. \A i, j, l \in Int : i <= j /\ j <= l => i <= l
    OBVIOUS
  <2> QED
    BY <2>2, <2>3, <2>4, <2>5, Zenon
<1>6. w \o x \in Seq(S) /\ Ordered(w \o x)
  BY <1>1, <1>4, ConcatProperties, ConcatOrdered
<1>7. \A m \in 1..Len(w \o x), n \in 1..Len(y) : (w \o x)[m].key <= y[n].key
  <2>1. CASE a > Len(s)
    <3>1. Len(w \o x) = Len(w) /\ \A m \in 1..Len(w) : (w \o x)[m] = w[m]
      BY <1>1, <1>3, <2>1, ConcatProperties
    <3> QED
      BY <1>5, <3>1
  <2>2. CASE b > Len(t)
    BY <1>2, <1>3, <2>2
  <2> QED
    BY <2>1, <2>2
<1> QED
  BY <1>2, <1>6, <1>7, ConcatOrdered DEF x, y

-----------------------------------------------------------------------------
(* Levels. *)

\* The first of the levels, then the others.
LEMMA LevelsShowStep ==
  ASSUME NEW d, NEW u \in Int, NEW i \in Int, i < u, NEW k, NEW v
  PROVE  LevelsShow(d, u, i, k, v) <=>
           \/ Shows(d[i], 1, k, v)
           \/ Lacks(d[i], 1, k) /\ LevelsShow(d, u, i + 1, k, v)
<1>1. ASSUME LevelsShow(d, u, i, k, v)
      PROVE  \/ Shows(d[i], 1, k, v)
             \/ Lacks(d[i], 1, k) /\ LevelsShow(d, u, i + 1, k, v)
  <2>1. CASE \E j \in i..(u - 1) :
               Shows(d[j], 1, k, v) /\ \A h \in i..(j - 1) : Lacks(d[h], 1, k)
    <3>1. PICK j \in i..(u - 1) :
               Shows(d[j], 1, k, v) /\ \A h \in i..(j - 1) : Lacks(d[h], 1, k)
      BY <2>1
    <3>2. CASE j = i
      BY <3>1, <3>2
    <3>3. CASE j # i
      <4>1. j \in (i + 1)..(u - 1) /\ i \in i..(j - 1)
        BY <3>3
      <4>2. \A h \in (i + 1)..(j - 1) : h \in i..(j - 1)
        OBVIOUS
      <4> QED
        BY <3>1, <4>1, <4>2 DEF LevelsShow
    <3> QED
      BY <3>2, <3>3
  <2>2. CASE v = Absent /\ \A j \in i..(u - 1) : Lacks(d[j], 1, k)
    <3>1. i \in i..(u - 1) /\ \A j \in (i + 1)..(u - 1) : j \in i..(u - 1)
      OBVIOUS
    <3> QED
      BY <2>2, <3>1 DEF LevelsShow
  <2> QED
    BY <1>1, <2>1, <2>2 DEF LevelsShow
<1>2. ASSUME Shows(d[i], 1, k, v) PROVE LevelsShow(d, u, i, k, v)
  <2>1. i \in i..(u - 1) /\ i..(i - 1) = {}
    OBVIOUS
  <2> QED
    BY <1>2, <2>1 DEF LevelsShow
<1>3. ASSUME Lacks(d[i], 1, k), LevelsShow(d, u, i + 1, k, v)
      PROVE  LevelsShow(d, u, i, k, v)
  <2>1. CASE \E j \in (i + 1)..(u - 1) :
               Shows(d[j], 1, k, v) /\ \A h \in (i + 1)..(j - 1) : Lacks(d[h], 1, k)
    <3>1. PICK j \in (i + 1)..(u - 1) :
               Shows(d[j], 1, k, v) /\ \A h \in (i + 1)..(j - 1) : Lacks(d[h], 1, k)
      BY <2>1
    <3>2. j \in i..(u - 1) /\ \A h \in i..(j - 1) : h = i \/ h \in (i + 1)..(j - 1)
      OBVIOUS
    <3> QED
      BY <1>3, <3>1, <3>2 DEF LevelsShow
  <2>2. CASE v = Absent /\ \A j \in (i + 1)..(u - 1) : Lacks(d[j], 1, k)
    <3>1. \A j \in i..(u - 1) : j = i \/ j \in (i + 1)..(u - 1)
      OBVIOUS
    <3> QED
      BY <1>3, <2>2, <3>1 DEF LevelsShow
  <2> QED
    BY <1>3, <2>1, <2>2 DEF LevelsShow
<1> QED
  BY <1>1, <1>2, <1>3

\* Only the levels that are looked at matter.
LEMMA LevelsShowSame ==
  ASSUME NEW d, NEW e, NEW u \in Int, NEW i \in Int, NEW k, NEW v,
         \A j \in i..(u - 1) : d[j] = e[j], LevelsShow(d, u, i, k, v)
  PROVE  LevelsShow(e, u, i, k, v)
<1>1. CASE \E j \in i..(u - 1) :
             Shows(d[j], 1, k, v) /\ \A h \in i..(j - 1) : Lacks(d[h], 1, k)
  <2>1. PICK j \in i..(u - 1) :
             Shows(d[j], 1, k, v) /\ \A h \in i..(j - 1) : Lacks(d[h], 1, k)
    BY <1>1
  <2>2. Shows(e[j], 1, k, v)
    BY <2>1
  <2>3. \A h \in i..(j - 1) : h \in i..(u - 1)
    OBVIOUS
  <2>4. \A h \in i..(j - 1) : Lacks(e[h], 1, k)
    BY <2>1, <2>3
  <2> QED
    BY <2>2, <2>4 DEF LevelsShow
<1>2. CASE v = Absent /\ \A j \in i..(u - 1) : Lacks(d[j], 1, k)
  <2>1. \A j \in i..(u - 1) : Lacks(e[j], 1, k)
    BY <1>2
  <2> QED
    BY <1>2, <2>1 DEF LevelsShow
<1> QED
  BY <1>1, <1>2 DEF LevelsShow

\* A level without items shows nothing.
LEMMA LevelsShowSkip ==
  ASSUME NEW d, NEW u \in Int, NEW i \in Int, NEW t \in i..u, NEW k, NEW v,
         \A j \in i..(t - 1) : d[j] = <<>>, LevelsShow(d, u, t, k, v)
  PROVE  LevelsShow(d, u, i, k, v)
<1>1. \A j \in i..(t - 1) : Lacks(d[j], 1, k)
  BY DEF Lacks
<1>2. CASE \E j \in t..(u - 1) :
             Shows(d[j], 1, k, v) /\ \A h \in t..(j - 1) : Lacks(d[h], 1, k)
  <2>1. PICK j \in t..(u - 1) :
             Shows(d[j], 1, k, v) /\ \A h \in t..(j - 1) : Lacks(d[h], 1, k)
    BY <1>2
  <2>2. j \in i..(u - 1) /\ \A h \in i..(j - 1) : h \in i..(t - 1) \/ h \in t..(j - 1)
    OBVIOUS
  <2> QED
    BY <1>1, <2>1, <2>2 DEF LevelsShow
<1>3. CASE v = Absent /\ \A j \in t..(u - 1) : Lacks(d[j], 1, k)
  <2>1. \A j \in i..(u - 1) : j \in i..(t - 1) \/ j \in t..(u - 1)
    OBVIOUS
  <2> QED
    BY <1>1, <1>3, <2>1 DEF LevelsShow
<1> QED
  BY <1>2, <1>3 DEF LevelsShow

\* A new level without items, after the last.
LEMMA LevelsShowGrow ==
  ASSUME NEW d, NEW u \in Int, NEW i \in Int, i <= u, NEW k, NEW v,
         d[u] = <<>>, LevelsShow(d, u, i, k, v)
  PROVE  LevelsShow(d, u + 1, i, k, v)
<1>1. CASE \E j \in i..(u - 1) :
             Shows(d[j], 1, k, v) /\ \A h \in i..(j - 1) : Lacks(d[h], 1, k)
  <2>1. \A j \in i..(u - 1) : j \in i..((u + 1) - 1)
    OBVIOUS
  <2> QED
    BY <1>1, <2>1 DEF LevelsShow
<1>2. CASE v = Absent /\ \A j \in i..(u - 1) : Lacks(d[j], 1, k)
  <2>1. \A j \in i..((u + 1) - 1) : j = u \/ j \in i..(u - 1)
    OBVIOUS
  <2>2. Lacks(d[u], 1, k)
    BY DEF Lacks
  <2> QED
    BY <1>2, <2>1, <2>2 DEF LevelsShow
<1> QED
  BY <1>1, <1>2 DEF LevelsShow

-----------------------------------------------------------------------------
(* The steps. *)

\* The pass for a level reads what the pass before it has written, and the one before
\* the target writes tmp_b.
LEMMA Alternation ==
  ASSUME NEW i \in Int, NEW t \in Int
  PROVE  /\ Reads(i + 1, t) = Writes(i, t) /\ Reads(t, t) = "b"
         /\ Reads(i, t) \in {"a", "b"} /\ Writes(i, t) \in {"a", "b"}
<1> DEFINE a == (i - MinLevel) % 2
           b == (t - 1 - MinLevel) % 2
<1>1. MinLevel \in Int
  BY LevelFacts
<1>2. \A x \in Int : x % 2 \in {0, 1} /\ (x + 1) % 2 = 1 - (x % 2)
  OBVIOUS
<1>3. (i + 1) - MinLevel = (i - MinLevel) + 1 /\ t - MinLevel = (t - 1 - MinLevel) + 1
  BY <1>1
<1>4. i - MinLevel \in Int /\ t - 1 - MinLevel \in Int
  BY <1>1
<1>5. ((i + 1) - MinLevel) % 2 = 1 - a /\ (t - MinLevel) % 2 = 1 - b
  BY <1>2, <1>3, <1>4
<1>6. a \in {0, 1} /\ b \in {0, 1}
  BY <1>2, <1>4
<1>7. /\ Agree(i, t) <=> a = b
      /\ Agree(i + 1, t) <=> 1 - a = b
      /\ Agree(t, t) <=> 1 - b = b
  BY <1>5 DEF Agree
<1> HIDE DEF a, b
<1>8. (Agree(i + 1, t) <=> ~Agree(i, t)) /\ ~Agree(t, t)
  BY <1>6, <1>7
<1> QED
  BY <1>8 DEF Reads, Writes

\* The buffer is the first of the levels that a search looks at.
LEMMA BufferFirst ==
  ASSUME IInv, Buffer # <<>>
  PROVE  used_levels \in Int /\ MinLevel < used_levels
  BY LevelFacts DEF IInv, TypeInv, LevelInv, Buffer

\* A repeated item is dropped: the newest version is already there.
LEMMA DroppedIsNewest ==
  ASSUME IInv, ~clobbered, ZeroFree, pc = "idle", NEW item \in Genuine, Dropped(item)
  PROVE  contents[item.key] = Version(item)
<1> DEFINE k == item.key
           n == Before(Buffer, item.key) + 1
<1>1. Buffer \in Seq(Genuine) /\ Ordered(Buffer)
  BY LevelFacts DEF IInv, TypeInv, OrderInv, Pool, Buffer
<1>2. Buffer \in Seq(Items)
  BY <1>1, ItemFields, SeqMonotonic
<1>3. k \in Keys /\ k \in Int
  BY ItemFields
<1>4. /\ Before(Buffer, k) \in 0..Len(Buffer)
      /\ \A m \in 1..Len(Buffer) : m <= Before(Buffer, k) <=> Buffer[m].key < k
  BY <1>1, <1>2, <1>3, LowerBound
<1>5. n <= Len(Buffer) /\ Buffer[n].key = k /\ Buffer[n].value = item.value
  BY DEF Dropped
<1>6. n \in 1..Len(Buffer)
  BY <1>2, <1>4, <1>5
<1>7. \A m \in 1..Len(Buffer) : Buffer[m].key = k => n <= m
  <2> SUFFICES ASSUME NEW m \in 1..Len(Buffer), Buffer[m].key = k
               PROVE  n <= m
    OBVIOUS
  <2>1. ~(m <= Before(Buffer, k))
    BY <1>3, <1>4
  <2> QED
    BY <1>4, <2>1
<1>8. Shows(Buffer, 1, k, contents[k])
  <2>1. Buffer # <<>>
    BY <1>6
  <2>2. LevelsShow(data, used_levels, MinLevel, k, contents[k])
    BY <1>3 DEF IInv, VersionInv
  <2>3. ~Lacks(data[MinLevel], 1, k)
    BY <1>5, <1>6 DEF Lacks, Buffer
  <2> QED
    BY <2>1, <2>2, <2>3, BufferFirst, LevelsShowStep, LevelFacts DEF Buffer
<1>9. PICK m \in 1..Len(Buffer) : /\ Buffer[m].key = k /\ Version(Buffer[m]) = contents[k]
                                  /\ \A q \in 1..(m - 1) : Buffer[q].key # k
  BY <1>8 DEF Shows
<1>10. m = n
  <2>1. n <= m
    BY <1>7, <1>9
  <2>2. ~(n \in 1..(m - 1))
    BY <1>5, <1>9
  <2> QED
    BY <1>2, <1>6, <2>1, <2>2
<1>11. Buffer[n] \in Genuine /\ Buffer[n].value = item.value /\ Version(Buffer[n]) = contents[k]
  BY <1>1, <1>5, <1>6, <1>9, <1>10
<1>12. Version(Buffer[n]) = Version(item)
  BY <1>11 DEF Version, Genuine, ZeroFree
<1> QED
  BY <1>11, <1>12

\* insert and erase, up to the merge.
LEMMA InsertItemKeeps ==
  ASSUME IInv, NEW item \in Genuine, InsertItem(item),
         contents' = [contents EXCEPT ![item.key] = Version(item)]
  PROVE  IInv'
<1>1. /\ pc = "idle" /\ clobbered = FALSE /\ clobbered' = FALSE
      /\ Pool = Genuine /\ Pool' = Genuine
  BY DEF InsertItem, Pool, IInv, TypeInv
<1>2. /\ item \in Items /\ item.key \in Keys /\ item.key \in Int
      /\ Version(item) \in Values \cup {Absent} /\ Genuine \subseteq Items
  BY ItemFields DEF Version, Genuine
<1>3. contents' \in [Keys -> Values \cup {Absent}]
  BY <1>2 DEF IInv, TypeInv
<1>4. \A k \in Keys : contents'[k] = IF k = item.key THEN Version(item) ELSE contents[k]
  BY DEF IInv, TypeInv
<1>5. first1 = 1 /\ first2 = 1 /\ out = <<>>
  BY <1>1 DEF IInv, CallInv
<1>6. CASE InsertDropped(item)
  <2>1. UNCHANGED <<data, used_levels, num_levels, pgm, call>>
    BY <1>6 DEF InsertDropped, index
  <2>2. TypeInv' /\ CallInv' /\ LevelInv' /\ OrderInv'
    BY <1>1, <1>3, <2>1 DEF call, IInv, TypeInv, CallInv, LevelInv, OrderInv, Pool
  <2>3. ASSUME ZeroFree PROVE VersionInv'
    <3>1. contents[item.key] = Version(item)
      BY <1>1, <1>6, <2>3, DroppedIsNewest DEF InsertDropped
    <3>2. \A k \in Keys : contents'[k] = contents[k]
      BY <1>4, <3>1
    <3> QED
      BY <1>1, <2>1, <2>3, <3>2 DEF call, IInv, VersionInv
  <2> QED
    BY <2>2, <2>3 DEF IInv
<1>7. CASE InsertIntoBuffer(item)
  <2> DEFINE t == Buffered(item)
  <2>1. /\ data' = [data EXCEPT ![MinLevel] = t]
        /\ used_levels' = IF used_levels = MinLevel THEN MinLevel + 1 ELSE used_levels
        /\ UNCHANGED <<num_levels, pgm, call>>
    BY <1>7 DEF InsertIntoBuffer
  <2>2. Buffer \in Seq(Genuine) /\ Ordered(Buffer)
    BY <1>1, LevelFacts DEF IInv, TypeInv, OrderInv, Buffer
  <2>3. /\ t \in Seq(Genuine) /\ Len(t) = Len(Buffer) + 1 /\ Ordered(t)
        /\ Shows(t, 1, item.key, Version(item))
        /\ \A k, v : k # item.key => /\ Shows(Buffer, 1, k, v) => Shows(t, 1, k, v)
                                     /\ Lacks(Buffer, 1, k) => Lacks(t, 1, k)
    BY <1>2, <2>2, SortedInsert DEF Buffered
  <2> HIDE DEF t
  <2>4. /\ MinLevel \in Levels /\ MinLevel \in Nat /\ data \in [Levels -> Seq(Genuine)]
        /\ used_levels \in MinLevel..(MaxLevel + 1) /\ MaxLevel \in Nat /\ MinLevel < MaxLevel
        /\ num_levels \in Nat
    BY <1>1, LevelFacts DEF IInv, TypeInv
  <2>5. /\ data' \in [Levels -> Seq(Genuine)] /\ data'[MinLevel] = t
        /\ \A i \in Levels \ {MinLevel} : data'[i] = data[i]
    BY <2>1, <2>3, <2>4
  <2>6. /\ used_levels' \in (MinLevel + 1)..(MaxLevel + 1)
        /\ used_levels <= used_levels'
    BY <2>1, <2>4
  <2>7. TypeInv' /\ CallInv'
    <3>1. /\ pc' = "idle" /\ first1' = 1 /\ first2' = 1 /\ out' = <<>>
          /\ UNCHANGED <<num_levels, pgm, level, slots_required, target, tmp>>
      BY <1>1, <1>5, <2>1 DEF call
    <3>2. used_levels' \in MinLevel..(MaxLevel + 1)
      BY <2>4, <2>6
    <3>3. TypeInv'
      BY <1>1, <1>3, <1>5, <2>5, <3>1, <3>2 DEF IInv, TypeInv
    <3> QED
      BY <3>1, <3>3 DEF CallInv
  <2>8. LevelInv'
    <3>1. ASSUME NEW i \in Levels, data'[i] # <<>> PROVE i < used_levels'
      <4>1. CASE i = MinLevel
        BY <2>4, <2>6, <4>1
      <4>2. CASE i # MinLevel
        <5>1. i < used_levels /\ i \in Int
          BY <2>5, <3>1, <4>2, LevelFacts DEF IInv, LevelInv
        <5> QED
          BY <2>4, <2>6, <5>1
      <4> QED
        BY <4>1, <4>2
    <3>2. used_levels' <= MinLevel + num_levels'
      <4>1. CASE used_levels = MinLevel
        <5>1. num_levels > 0
          BY DEF IInv, TypeInv
        <5> QED
          BY <2>1, <2>4, <4>1, <5>1
      <4>2. CASE used_levels # MinLevel
        BY <2>1, <2>4, <4>2 DEF IInv, LevelInv
      <4> QED
        BY <4>1, <4>2
    <3>3. \A i \in Levels : i >= MinIndexed => pgm'[i] = data'[i]
      BY <2>1, <2>5, LevelFacts DEF IInv, LevelInv
    <3> QED
      BY <3>1, <3>2, <3>3 DEF LevelInv
  <2>9. OrderInv'
    BY <1>1, <2>1, <2>3, <2>5 DEF call, IInv, OrderInv
  <2>10. ASSUME ZeroFree, NEW k \in Keys
         PROVE  LevelsShow(data', used_levels', MinLevel, k, contents'[k])
    <3>1. /\ used_levels' \in Int /\ MinLevel < used_levels' /\ MinLevel \in Int
          /\ used_levels' <= MaxLevel + 1 /\ MaxLevel \in Int
      BY <2>4, <2>6
    <3>2. CASE k = item.key
      <4>1. Shows(data'[MinLevel], 1, k, contents'[k])
        BY <1>4, <2>3, <2>5, <3>2
      <4> QED
        BY <3>1, <4>1, LevelsShowStep
    <3>3. CASE k # item.key
      <4>1. LevelsShow(data, used_levels, MinLevel, k, contents[k]) /\ contents'[k] = contents[k]
        BY <1>1, <1>4, <2>10, <3>3 DEF IInv, VersionInv
      <4>2. LevelsShow(data, used_levels', MinLevel, k, contents[k])
        <5>1. CASE used_levels = MinLevel
          <6>1. data[used_levels] = <<>>
            BY <2>4, <5>1 DEF IInv, LevelInv
          <6>2. used_levels' = used_levels + 1 /\ used_levels \in Int
            BY <2>1, <2>4, <5>1
          <6> QED
            BY <3>1, <4>1, <5>1, <6>1, <6>2, LevelsShowGrow
        <5>2. CASE used_levels # MinLevel
          BY <2>1, <4>1, <5>2
        <5> QED
          BY <5>1, <5>2
      <4>3. \/ Shows(Buffer, 1, k, contents[k])
            \/ Lacks(Buffer, 1, k) /\ LevelsShow(data, used_levels', MinLevel + 1, k, contents[k])
        BY <3>1, <4>2, LevelsShowStep DEF Buffer
      <4>4. CASE Shows(Buffer, 1, k, contents[k])
        BY <2>3, <2>5, <3>1, <3>3, <4>1, <4>4, LevelsShowStep
      <4>5. CASE Lacks(Buffer, 1, k) /\ LevelsShow(data, used_levels', MinLevel + 1, k, contents[k])
        <5>1. \A j \in (MinLevel + 1)..(used_levels' - 1) : data[j] = data'[j]
          <6>1. ASSUME NEW j \in (MinLevel + 1)..(used_levels' - 1)
                PROVE  j \in Levels \ {MinLevel}
            <7>1. MinLevel + 1 \in Int /\ MinLevel <= MinLevel + 1
              BY <3>1
            <7>2. j \in Levels /\ j \in Int /\ MinLevel + 1 <= j
              BY <3>1, <7>1, LevelRange
            <7> QED
              BY <3>1, <7>2
          <6> QED
            BY <2>5, <6>1
        <5>2. LevelsShow(data', used_levels', MinLevel + 1, k, contents[k])
          BY <3>1, <4>5, <5>1, LevelsShowSame, MinLevel + 1 \in Int
        <5>3. Lacks(data'[MinLevel], 1, k)
          BY <2>3, <2>5, <3>3, <4>5
        <5> QED
          BY <3>1, <4>1, <5>2, <5>3, LevelsShowStep
      <4> QED
        BY <4>3, <4>4, <4>5
    <3> QED
      BY <3>2, <3>3
  <2>11. pc' = "idle"
    BY <1>1, <2>1 DEF call
  <2>12. ZeroFree => VersionInv'
    BY <2>10, <2>11 DEF VersionInv
  <2> QED
    BY <2>7, <2>8, <2>9, <2>12 DEF IInv
<1>8. CASE BeginMerge(item)
  <2>1. /\ pc' = "slots" /\ new_item' = item /\ level' = MinLevel + 1
        /\ slots_required' = BufferCapacity + 1 /\ Len(Buffer) >= BufferCapacity
        /\ UNCHANGED <<data, used_levels, num_levels, pgm, target, tmp, first1, first2, out>>
    BY <1>8 DEF BeginMerge, index
  <2>2. Buffer # <<>>
    BY <2>1, SlotFacts
  <2>3. used_levels \in Int /\ MinLevel < used_levels
    BY <2>2, BufferFirst
  <2>4. /\ MinLevel + 1 \in Levels \cup {MaxLevel + 1} /\ BufferCapacity + 1 \in Nat
        /\ MinLevel + 1 \in (MinLevel + 1)..used_levels
    BY <2>3, LevelFacts, SlotFacts
  <2>5. TypeInv' /\ CallInv' /\ LevelInv' /\ OrderInv'
    BY <1>1, <1>3, <1>5, <2>1, <2>4 DEF IInv, TypeInv, CallInv, LevelInv, OrderInv
  <2>6. ZeroFree => VersionInv'
    BY <1>1, <1>4, <2>1 DEF IInv, VersionInv
  <2> QED
    BY <2>5, <2>6 DEF IInv
<1> QED
  BY <1>6, <1>7, <1>8 DEF InsertItem

\* The next level that a merge may go to.
LEMMA NoRoomKeeps ==
  ASSUME IInv, NoRoom
  PROVE  IInv'
<1>1. /\ pc = "slots" /\ level < used_levels
      /\ slots_required' = slots_required + Len(data[level]) /\ level' = level + 1
      /\ UNCHANGED <<data, used_levels, num_levels, pgm, clobbered, contents, pc, new_item,
                     target, tmp, first1, first2, out>>
  BY DEF NoRoom, index
<1>2. /\ level \in (MinLevel + 1)..used_levels /\ used_levels \in MinLevel..(MaxLevel + 1)
      /\ MinLevel \in Nat /\ MaxLevel \in Nat
  BY <1>1, LevelFacts DEF IInv, TypeInv, CallInv
<1>3. /\ level \in Levels /\ level + 1 \in Levels \cup {MaxLevel + 1}
      /\ level + 1 \in (MinLevel + 1)..used_levels
  BY <1>1, <1>2 DEF Levels
<1>4. slots_required + Len(data[level]) \in Nat
  <2>1. data[level] \in Seq(Pool) /\ slots_required \in Nat
    BY <1>3 DEF IInv, TypeInv
  <2> QED
    BY <2>1
<1>5. TypeInv'
  BY <1>1, <1>3, <1>4 DEF IInv, TypeInv, Pool
<1>6. CallInv' /\ LevelInv'
  BY <1>1, <1>3 DEF IInv, CallInv, LevelInv, Pool
<1>7. ~clobbered' => OrderInv' /\ (ZeroFree => VersionInv')
  BY <1>1 DEF IInv, OrderInv, VersionInv
<1> QED
  BY <1>5, <1>6, <1>7 DEF IInv

\* A merge starts with the buffer and the new item as what its first pass reads.
LEMMA TargetFoundKeeps ==
  ASSUME IInv, TargetFound
  PROVE  /\ IInv'
         /\ Newer' = Buffered(new_item) /\ Newer' \in Seq(Genuine)
         /\ Len(Newer') = Len(Buffer) + 1
<1> DEFINE t == Buffered(new_item)
<1>1. /\ pc = "slots" /\ level <= MaxLevel
      /\ used_levels' = IF level = used_levels THEN used_levels + 1 ELSE used_levels
      /\ num_levels' = IF level = used_levels THEN num_levels + 1 ELSE num_levels
      /\ target' = level /\ clobbered' = (data[level] # <<>>)
      /\ tmp' = [tmp EXCEPT ![Writes(MinLevel, level)] = t]
      /\ pc' = "merge" /\ level' = MinLevel + 1
      /\ UNCHANGED <<data, pgm, contents, new_item, slots_required, first1, first2, out>>
  BY DEF TargetFound, UsedAfter
<1>2. /\ ~clobbered /\ Pool = Genuine /\ new_item \in Genuine
      /\ level \in (MinLevel + 1)..used_levels /\ used_levels \in MinLevel..(MaxLevel + 1)
      /\ MinLevel \in Nat /\ MaxLevel \in Nat /\ MinLevel < MaxLevel
      /\ first1 = 1 /\ first2 = 1 /\ out = <<>>
  BY <1>1, LevelFacts DEF IInv, TypeInv, CallInv, Pool
<1>3. /\ Genuine \subseteq Pool' /\ Pool' \subseteq Items
  BY ItemFields DEF Pool
<1>4. Buffer \in Seq(Genuine) /\ Ordered(Buffer) /\ Genuine \subseteq Items
  BY <1>2, LevelFacts, ItemFields DEF IInv, TypeInv, OrderInv, Buffer
<1>5. /\ t \in Seq(Genuine) /\ Len(t) = Len(Buffer) + 1 /\ Ordered(t)
      /\ Shows(t, 1, new_item.key, Version(new_item))
      /\ \A k, v : k # new_item.key => /\ Shows(Buffer, 1, k, v) => Shows(t, 1, k, v)
                                       /\ Lacks(Buffer, 1, k) => Lacks(t, 1, k)
  BY <1>2, <1>4, SortedInsert DEF Buffered
<1> HIDE DEF t
<1>6. /\ level \in Levels /\ level \in Int
      /\ used_levels' \in (MinLevel + 2)..(MaxLevel + 1) /\ used_levels <= used_levels'
      /\ level \in (MinLevel + 1)..(used_levels' - 1)
      /\ MinLevel + 1 \in (MinLevel + 1)..(level + 1) /\ MinLevel + 1 <= level
      /\ MinLevel + 1 \in Levels
  BY <1>1, <1>2 DEF Levels
<1>7. /\ Seq(Genuine) \subseteq Seq(Pool')
      /\ t \in Seq(Pool') /\ data \in [Levels -> Seq(Pool')] /\ pgm \in [Levels -> Seq(Pool')]
      /\ tmp \in [{"a", "b"} -> Seq(Pool')] /\ out \in Seq(Pool')
  <2>1. Seq(Genuine) \subseteq Seq(Pool')
    BY <1>3, SeqMonotonic
  <2>2. /\ data \in [Levels -> Seq(Genuine)] /\ pgm \in [Levels -> Seq(Genuine)]
        /\ tmp \in [{"a", "b"} -> Seq(Genuine)] /\ out \in Seq(Genuine)
    BY <1>2 DEF IInv, TypeInv
  <2> QED
    BY <1>5, <2>1, <2>2
<1>8. Writes(MinLevel, level) \in {"a", "b"} /\ Reads(MinLevel + 1, level) = Writes(MinLevel, level)
  <2>1. MinLevel \in Int /\ level \in Int
    BY <1>2
  <2> QED
    BY <2>1, Alternation
<1>9. tmp' \in [{"a", "b"} -> Seq(Pool')] /\ tmp'[Reads(MinLevel + 1, level)] = t
  BY <1>1, <1>7, <1>8
<1>10. Newer' = t
  BY <1>1, <1>9 DEF Newer
<1>11. TypeInv'
  <2>1. num_levels' \in Nat \ {0} /\ clobbered' \in BOOLEAN
    BY <1>1 DEF IInv, TypeInv
  <2>2. used_levels' \in MinLevel..(MaxLevel + 1)
    BY <1>2, <1>6
  <2>3. /\ contents \in [Keys -> Values \cup {Absent}] /\ slots_required \in Nat
    BY DEF IInv, TypeInv
  <2> QED
    BY <1>1, <1>2, <1>6, <1>7, <1>9, <2>1, <2>2, <2>3 DEF TypeInv
<1>12. CallInv'
  <2>1. Len(t) \in Nat /\ \A i \in Levels : Len(data[i]) \in Nat
    BY <1>5, <1>7
  <2>2. /\ first1' <= Len(Newer') + 1
        /\ level' <= target' => first2' <= Len(data'[level']) + 1
        /\ first1' = 1 /\ first2' = 1 /\ out' = <<>>
    BY <1>1, <1>2, <1>6, <1>10, <2>1
  <2>3. ~clobbered' => level' <= target' /\ data'[target'] = <<>>
    BY <1>1, <1>6
  <2>4. \A j \in (MinLevel + 1)..(level' - 1) : data'[j] = <<>>
    BY <1>1, <1>2
  <2> QED
    BY <1>1, <1>6, <2>2, <2>3, <2>4 DEF CallInv
<1>13. LevelInv'
  <2>1. ASSUME NEW i \in Levels, data'[i] # <<>> PROVE i < used_levels'
    <3>1. i < used_levels /\ i \in Int
      BY <1>1, <2>1, LevelFacts DEF IInv, LevelInv
    <3> QED
      BY <1>2, <1>6, <3>1
  <2>2. used_levels' <= MinLevel + num_levels'
    <3>1. used_levels <= MinLevel + num_levels /\ num_levels \in Nat
      BY DEF IInv, LevelInv, TypeInv
    <3> QED
      BY <1>1, <1>2, <3>1
  <2> QED
    BY <1>1, <2>1, <2>2 DEF IInv, LevelInv
<1>14. OrderInv'
  <2>1. \A i \in Levels : Ordered(data'[i])
    BY <1>1, <1>2 DEF IInv, OrderInv
  <2>2. Ordered(Newer') /\ Ordered(out') /\ Len(out') = 0
    BY <1>1, <1>2, <1>5, <1>10 DEF Ordered
  <2> QED
    BY <2>1, <2>2 DEF OrderInv
<1>15. ASSUME ZeroFree PROVE VersionInv'
  <2> SUFFICES ASSUME NEW k \in Keys
               PROVE  /\ Lacks(out', 1, k)
                      /\ \/ Shows(t, 1, k, contents[k])
                         \/ /\ Lacks(t, 1, k)
                            /\ \/ Shows(data[MinLevel + 1], 1, k, contents[k])
                               \/ /\ Lacks(data[MinLevel + 1], 1, k)
                                  /\ LevelsShow(data, used_levels', MinLevel + 1 + 1, k, contents[k])
    BY <1>1, <1>2, <1>10 DEF VersionInv, PassShows
  <2>1. Lacks(out', 1, k)
    BY <1>1, <1>2 DEF Lacks
  <2>2. CASE k = new_item.key
    <3>1. contents[k] = Version(new_item)
      BY <1>1, <1>2, <1>15, <2>2 DEF IInv, VersionInv
    <3> QED
      BY <1>5, <2>1, <2>2, <3>1
  <2>3. CASE k # new_item.key
    <3>1. LevelsShow(data, used_levels, MinLevel, k, contents[k])
      BY <1>1, <1>2, <1>15, <2>3 DEF IInv, VersionInv
    <3>2. LevelsShow(data, used_levels', MinLevel, k, contents[k])
      <4>1. CASE level = used_levels
        <5>1. data[used_levels] = <<>>
          BY <1>6, <4>1 DEF IInv, LevelInv
        <5>2. used_levels \in Int /\ MinLevel \in Int /\ MinLevel <= used_levels
          BY <1>2
        <5> QED
          BY <1>1, <3>1, <4>1, <5>1, <5>2, LevelsShowGrow
      <4>2. CASE level # used_levels
        BY <1>1, <3>1, <4>2
      <4> QED
        BY <4>1, <4>2
    <3>3. /\ used_levels' \in Int /\ MinLevel \in Int /\ MinLevel + 1 \in Int
          /\ MinLevel < used_levels' /\ MinLevel + 1 < used_levels'
      BY <1>2, <1>6
    <3>4. \/ Shows(Buffer, 1, k, contents[k])
          \/ Lacks(Buffer, 1, k) /\ LevelsShow(data, used_levels', MinLevel + 1, k, contents[k])
      BY <3>2, <3>3, LevelsShowStep DEF Buffer
    <3>5. \/ Shows(t, 1, k, contents[k])
          \/ Lacks(t, 1, k) /\ LevelsShow(data, used_levels', MinLevel + 1, k, contents[k])
      BY <1>5, <2>3, <3>4
    <3>6. LevelsShow(data, used_levels', MinLevel + 1, k, contents[k]) =>
            \/ Shows(data[MinLevel + 1], 1, k, contents[k])
            \/ /\ Lacks(data[MinLevel + 1], 1, k)
               /\ LevelsShow(data, used_levels', MinLevel + 1 + 1, k, contents[k])
      BY <3>3, LevelsShowStep
    <3> QED
      BY <2>1, <3>5, <3>6
  <2> QED
    BY <2>2, <2>3
<1> QED
  BY <1>5, <1>10, <1>11, <1>12, <1>13, <1>14, <1>15 DEF IInv, t

\* What a pass works on.
LEMMA PassFacts ==
  ASSUME IInv, pc = "merge", level <= Limit
  PROVE  /\ level \in Levels /\ level \in Int /\ target \in Levels /\ target \in Int
         /\ used_levels \in Int /\ used_levels <= MaxLevel + 1
         /\ MinLevel < level /\ level <= target /\ target < used_levels
         /\ Newer \in Seq(Pool) /\ data[level] \in Seq(Pool) /\ out \in Seq(Pool)
         /\ Newer \in Seq(Items) /\ data[level] \in Seq(Items) /\ out \in Seq(Items)
         /\ first1 \in 1..(Len(Newer) + 1) /\ first2 \in 1..(Len(data[level]) + 1)
         /\ ~clobbered => level < target
<1>1. /\ target \in (MinLevel + 1)..(used_levels - 1) /\ level \in (MinLevel + 1)..(target + 1)
      /\ used_levels \in MinLevel..(MaxLevel + 1)
      /\ MinLevel \in Nat /\ MaxLevel \in Nat
  BY LevelFacts DEF IInv, CallInv, TypeInv
<1>2. Limit <= target /\ (~clobbered => Limit = target - 1)
  BY <1>1 DEF IInv, CallInv, Limit
<1>3. Limit \in Int
  BY <1>1 DEF Limit
<1>4. /\ level \in Levels /\ level \in Int /\ target \in Levels /\ target \in Int
      /\ used_levels \in Int /\ used_levels <= MaxLevel + 1
      /\ MinLevel < level /\ level <= target /\ target < used_levels
      /\ ~clobbered => level < target
  BY <1>1, <1>2, <1>3 DEF Levels
<1>5. Reads(level, target) \in {"a", "b"}
  BY <1>4, Alternation
<1>6. Newer \in Seq(Pool) /\ data[level] \in Seq(Pool) /\ out \in Seq(Pool)
  BY <1>4, <1>5 DEF IInv, TypeInv, Newer
<1>7. Newer \in Seq(Items) /\ data[level] \in Seq(Items) /\ out \in Seq(Items)
  BY <1>6, ItemFields, SeqMonotonic
<1>8. /\ first1 \in Nat \ {0} /\ first2 \in Nat \ {0}
      /\ first1 <= Len(Newer) + 1 /\ first2 <= Len(data[level]) + 1
  BY <1>4 DEF IInv, TypeInv, CallInv
<1>9. first1 \in 1..(Len(Newer) + 1) /\ first2 \in 1..(Len(data[level]) + 1)
  BY <1>7, <1>8
<1> QED
  BY <1>4, <1>6, <1>7, <1>9

\* An iteration of merge.
LEMMA MergeStepKeeps ==
  ASSUME IInv, MergeStep
  PROVE  IInv'
<1> DEFINE N == Newer
           D == data[level]
           x == N[first1]
           y == D[first2]
<1>1. /\ pc = "merge" /\ level <= Limit
      /\ first1 <= Len(N) /\ first2 <= Len(D)
      /\ UNCHANGED <<data, used_levels, num_levels, pgm, clobbered, contents, pc, new_item,
                     level, slots_required, target, tmp>>
  BY DEF MergeStep, index
<1>2. \/ /\ y.key < x.key
         /\ out' = Append(out, y) /\ first1' = first1 /\ first2' = first2 + 1
      \/ /\ x.key < y.key
         /\ out' = Append(out, x) /\ first1' = first1 + 1 /\ first2' = first2
      \/ /\ x.key = y.key
         /\ out' = IF level = used_levels - 1 /\ x.deleted THEN out ELSE Append(out, x)
         /\ first1' = first1 + 1 /\ first2' = first2 + 1
  BY DEF MergeStep, Survivor
<1>3. /\ level \in Levels /\ level \in Int /\ used_levels \in Int /\ target \in Int
      /\ level <= target /\ target < used_levels /\ (~clobbered => level < target)
      /\ N \in Seq(Pool) /\ D \in Seq(Pool) /\ out \in Seq(Pool)
      /\ N \in Seq(Items) /\ D \in Seq(Items) /\ out \in Seq(Items)
      /\ first1 \in 1..(Len(N) + 1) /\ first2 \in 1..(Len(D) + 1)
  BY <1>1, PassFacts
<1>4. Newer' = N /\ data'[level'] = D /\ Limit' = Limit /\ Pool' = Pool
  BY <1>1 DEF Newer, Limit, Pool
<1>5. first1 \in 1..Len(N) /\ first2 \in 1..Len(D) /\ Len(N) \in Nat /\ Len(D) \in Nat
  BY <1>1, <1>3
<1> HIDE DEF N, D
<1>6. x \in Pool /\ y \in Pool /\ x \in Items /\ y \in Items /\ x.key \in Int /\ y.key \in Int
  BY <1>3, <1>5, ItemFields
<1>7. /\ out' \in Seq(Pool)
      /\ first1' \in Nat \ {0} /\ first2' \in Nat \ {0}
      /\ first1' <= Len(N) + 1 /\ first2' <= Len(D) + 1
  <2>1. out' \in {out, Append(out, x), Append(out, y)}
    BY <1>2
  <2>2. /\ first1' = first1 \/ first1' = first1 + 1
        /\ first2' = first2 \/ first2' = first2 + 1
    BY <1>2
  <2>3. Append(out, x) \in Seq(Pool) /\ Append(out, y) \in Seq(Pool)
    BY <1>3, <1>6, AppendProperties
  <2>4. out' \in Seq(Pool)
    BY <1>3, <2>1, <2>3
  <2> QED
    BY <1>5, <2>2, <2>4
<1>8. TypeInv'
  BY <1>1, <1>4, <1>7 DEF IInv, TypeInv
<1>9. CallInv'
  <2>1. ~(level' > Limit')
    <3>1. Limit \in Int
      BY <1>3 DEF Limit
    <3> QED
      BY <1>1, <1>3, <1>4, <3>1
  <2> QED
    BY <1>1, <1>4, <1>7, <2>1 DEF IInv, CallInv
<1>10. LevelInv'
  BY <1>1 DEF IInv, LevelInv
<1>11. ASSUME ~clobbered' PROVE OrderInv' /\ (ZeroFree => VersionInv')
  <2>1. ~clobbered /\ level # used_levels - 1
    BY <1>1, <1>3, <1>11
  <2>2. /\ \A i \in Levels : Ordered(data[i])
        /\ Ordered(N) /\ Ordered(D) /\ Ordered(out)
        /\ \A n \in 1..Len(out) : out[n].key <= x.key /\ out[n].key <= y.key
    BY <1>1, <1>3, <1>5, <2>1 DEF IInv, OrderInv, N, D
  <2>3. /\ \A n \in 1..Len(N) : N[n].key \in Int /\ (first1 <= n => x.key <= N[n].key)
        /\ \A n \in 1..Len(D) : D[n].key \in Int /\ (first2 <= n => y.key <= D[n].key)
    <3>1. /\ \A n \in 1..Len(N) : N[n].key \in Int
          /\ \A n \in 1..Len(D) : D[n].key \in Int
      BY <1>3, ItemFields
    <3> QED
      BY <1>5, <2>2, <3>1 DEF Ordered
  <2>4. PICK z \in {x, y} :
          /\ out' = Append(out, z) /\ z.key <= x.key /\ z.key <= y.key
          /\ \/ z = y /\ y.key < x.key /\ first1' = first1 /\ first2' = first2 + 1
             \/ z = x /\ x.key < y.key /\ first1' = first1 + 1 /\ first2' = first2
             \/ z = x /\ x.key = y.key /\ first1' = first1 + 1 /\ first2' = first2 + 1
    BY <1>2, <1>6, <2>1
  <2>5. z \in Items /\ z.key \in Int /\ \A n \in 1..Len(out) : out[n].key <= z.key
    BY <1>6, <2>2, <2>4
  <2>6. Ordered(out') /\ \A n \in 1..Len(out') : out'[n].key <= z.key
    BY <1>3, <2>2, <2>4, <2>5, AppendOrdered
  <2>7. OrderInv'
    <3>1. /\ first1' <= Len(N) => z.key <= N[first1'].key
          /\ first2' <= Len(D) => z.key <= D[first2'].key
      <4>1. first1' >= first1 /\ first2' >= first2 /\ first1' \in Int /\ first2' \in Int
        BY <1>5, <2>4
      <4>2. ASSUME first1' <= Len(N) PROVE z.key <= N[first1'].key
        <5>1. first1' \in 1..Len(N)
          BY <1>5, <4>1, <4>2
        <5>2. x.key <= N[first1'].key /\ N[first1'].key \in Int
          BY <1>5, <2>3, <4>1, <5>1
        <5> QED
          BY <1>6, <2>4, <2>5, <5>2
      <4>3. ASSUME first2' <= Len(D) PROVE z.key <= D[first2'].key
        <5>1. first2' \in 1..Len(D)
          BY <1>5, <4>1, <4>3
        <5>2. y.key <= D[first2'].key /\ D[first2'].key \in Int
          BY <1>5, <2>3, <4>1, <5>1
        <5> QED
          BY <1>6, <2>4, <2>5, <5>2
      <4> QED
        BY <4>2, <4>3
    <3>2. ASSUME NEW n \in 1..Len(out')
          PROVE  /\ first1' <= Len(N) => out'[n].key <= N[first1'].key
                 /\ first2' <= Len(D) => out'[n].key <= D[first2'].key
      <4>1. out'[n].key <= z.key /\ out'[n].key \in Int
        BY <1>7, <2>6, ItemFields
      <4>2. /\ first1' <= Len(N) => first1' \in 1..Len(N)
            /\ first2' <= Len(D) => first2' \in 1..Len(D)
        BY <1>5, <1>7
      <4> QED
        BY <2>3, <2>5, <3>1, <4>1, <4>2
    <3> QED
      BY <1>1, <1>4, <2>2, <2>6, <3>2 DEF OrderInv
  <2>8. ASSUME ZeroFree, NEW k \in Keys
        PROVE  PassShows(out', N, first1', D, first2', k, contents[k],
                         LevelsShow(data, used_levels, level + 1, k, contents[k]))
    <3> DEFINE elsewhere == LevelsShow(data, used_levels, level + 1, k, contents[k])
    <3>1. PassShows(out, N, first1, D, first2, k, contents[k], elsewhere)
      BY <1>1, <2>1, <2>8 DEF IInv, VersionInv, N, D
    <3>2. elsewhere \in BOOLEAN /\ k \in Int
      BY ItemFields DEF LevelsShow
    <3> HIDE DEF elsewhere
    <3>3. /\ y.key < x.key =>
               PassShows(Append(out, y), N, first1, D, first2 + 1, k, contents[k], elsewhere)
          /\ x.key < y.key =>
               PassShows(Append(out, x), N, first1 + 1, D, first2, k, contents[k], elsewhere)
          /\ x.key = y.key =>
               PassShows(Append(out, x), N, first1 + 1, D, first2 + 1, k, contents[k], elsewhere)
      BY <1>3, <1>5, <2>2, <3>1, <3>2, MergeShows
    <3> QED
      BY <2>4, <3>3 DEF elsewhere
  <2>9. ZeroFree => VersionInv'
    BY <1>1, <1>4, <2>8 DEF VersionInv
  <2> QED
    BY <2>7, <2>9
<1> QED
  BY <1>8, <1>9, <1>10, <1>11 DEF IInv

\* The end of a pass: what it has written is what the next one reads.
LEMMA PassDoneKeeps ==
  ASSUME IInv, PassDone
  PROVE  /\ IInv'
         /\ Newer' = out \o SubSeq(Newer, first1, Len(Newer))
                         \o SubSeq(data[level], first2, Len(data[level]))
<1> DEFINE N == Newer
           D == data[level]
           w == out \o SubSeq(N, first1, Len(N)) \o SubSeq(D, first2, Len(D))
<1>1. /\ pc = "merge" /\ level <= Limit /\ (first1 > Len(N) \/ first2 > Len(D))
      /\ tmp' = [tmp EXCEPT ![Writes(level, target)] = w]
      /\ data' = [data EXCEPT ![level] = <<>>] /\ pgm' = [pgm EXCEPT ![level] = <<>>]
      /\ level' = level + 1 /\ first1' = 1 /\ first2' = 1 /\ out' = <<>>
      /\ UNCHANGED <<used_levels, num_levels, clobbered, contents, pc, new_item,
                     slots_required, target>>
  BY DEF PassDone, Emptied
<1>2. /\ level \in Levels /\ level \in Int /\ target \in Levels /\ target \in Int
      /\ used_levels \in Int /\ used_levels <= MaxLevel + 1
      /\ MinLevel < level /\ level <= target /\ target < used_levels
      /\ N \in Seq(Pool) /\ D \in Seq(Pool) /\ out \in Seq(Pool)
      /\ first1 \in 1..(Len(N) + 1) /\ first2 \in 1..(Len(D) + 1)
      /\ ~clobbered => level < target
  BY <1>1, PassFacts
<1>3. Pool \subseteq Items /\ Pool' = Pool /\ <<>> \in Seq(Pool)
  BY <1>1, ItemFields DEF Pool
<1> HIDE DEF N, D
<1>4. /\ w \in Seq(Pool)
      /\ \A k, v : \A elsewhere \in BOOLEAN :
           PassShows(out, N, first1, D, first2, k, v, elsewhere) =>
             Shows(w, 1, k, v) \/ (Lacks(w, 1, k) /\ elsewhere)
  BY <1>2, <1>3, PassWrites
<1>5. ~clobbered => Ordered(w)
  <2> SUFFICES ASSUME ~clobbered PROVE Ordered(w)
    OBVIOUS
  <2>1. /\ Ordered(N) /\ Ordered(D) /\ Ordered(out)
        /\ \A n \in 1..Len(out) : /\ first1 <= Len(N) => out[n].key <= N[first1].key
                                  /\ first2 <= Len(D) => out[n].key <= D[first2].key
    BY <1>1, <1>2 DEF IInv, OrderInv, N, D
  <2> QED
    BY <1>1, <1>2, <1>3, <2>1, PassOrdered
<1> HIDE DEF w
<1>6. Writes(level, target) \in {"a", "b"} /\ Reads(level + 1, target) = Writes(level, target)
  BY <1>2, Alternation
<1>7. /\ tmp' \in [{"a", "b"} -> Seq(Pool)] /\ tmp'[Reads(level + 1, target)] = w
  <2>1. tmp \in [{"a", "b"} -> Seq(Pool)]
    BY DEF IInv, TypeInv
  <2> QED
    BY <1>1, <1>4, <1>6, <2>1
<1>8. Newer' = w
  BY <1>1, <1>7 DEF Newer
<1>9. /\ data' \in [Levels -> Seq(Pool)] /\ pgm' \in [Levels -> Seq(Pool)]
      /\ data'[level] = <<>> /\ pgm'[level] = <<>>
      /\ \A i \in Levels \ {level} : data'[i] = data[i] /\ pgm'[i] = pgm[i]
  <2>1. data \in [Levels -> Seq(Pool)] /\ pgm \in [Levels -> Seq(Pool)]
    BY DEF IInv, TypeInv
  <2> QED
    BY <1>1, <1>2, <1>3, <2>1
<1>10. level + 1 \in Levels \cup {MaxLevel + 1} /\ level + 1 \in (MinLevel + 1)..(target + 1)
  BY <1>2, LevelFacts
<1>11. TypeInv'
  BY <1>1, <1>3, <1>7, <1>9, <1>10 DEF IInv, TypeInv
<1>12. CallInv'
  <2>1. Len(w) \in Nat /\ \A i \in Levels : Len(data'[i]) \in Nat
    BY <1>4, <1>9
  <2>2. first1' <= Len(Newer') + 1
    BY <1>1, <1>8, <2>1
  <2>3. ASSUME level' <= target' PROVE first2' <= Len(data'[level']) + 1
    <3>1. level' \in Levels
      BY <1>1, <1>2, <2>3, LevelFacts
    <3> QED
      BY <1>1, <2>1, <3>1
  <2>4. ASSUME ~clobbered' PROVE level' <= target' /\ data'[target'] = <<>>
    <3>1. level < target /\ data[target] = <<>>
      BY <1>1, <1>2, <2>4 DEF IInv, CallInv
    <3> QED
      BY <1>1, <1>2, <1>9, <3>1
  <2>5. ASSUME NEW j \in (MinLevel + 1)..(level' - 1) PROVE data'[j] = <<>>
    <3>1. j \in Levels /\ (j = level \/ j \in (MinLevel + 1)..(level - 1))
      BY <1>1, <1>2, LevelFacts
    <3>2. CASE j = level
      BY <1>9, <3>2
    <3>3. CASE j # level
      BY <1>1, <1>9, <3>1, <3>3 DEF IInv, CallInv
    <3> QED
      BY <3>2, <3>3
  <2>6. target' \in (MinLevel + 1)..(used_levels' - 1) /\ level' \in (MinLevel + 1)..(target' + 1)
    BY <1>1, <1>10 DEF IInv, CallInv
  <2> QED
    BY <1>1, <2>2, <2>3, <2>4, <2>5, <2>6 DEF CallInv
<1>13. LevelInv'
  BY <1>1, <1>9 DEF IInv, LevelInv
<1>14. ASSUME ~clobbered' PROVE OrderInv' /\ (ZeroFree => VersionInv')
  <2>1. ~clobbered /\ level < target
    BY <1>1, <1>2, <1>14
  <2>2. OrderInv'
    <3>1. \A i \in Levels : Ordered(data'[i])
      <4>1. Ordered(<<>>)
        BY DEF Ordered
      <4> QED
        BY <1>9, <2>1, <4>1 DEF IInv, OrderInv
    <3>2. Ordered(Newer') /\ Ordered(out') /\ Len(out') = 0
      BY <1>1, <1>5, <1>8, <2>1 DEF Ordered
    <3> QED
      BY <3>1, <3>2 DEF OrderInv
  <2>3. ASSUME ZeroFree, NEW k \in Keys
        PROVE  PassShows(out', w, 1, data'[level + 1], 1, k, contents[k],
                         LevelsShow(data', used_levels, level + 1 + 1, k, contents[k]))
    <3> DEFINE v == contents[k]
               elsewhere == LevelsShow(data, used_levels, level + 1, k, v)
    <3>1. PassShows(out, N, first1, D, first2, k, v, elsewhere)
      BY <1>1, <2>1, <2>3 DEF IInv, VersionInv, N, D
    <3>2. elsewhere \in BOOLEAN
      BY DEF LevelsShow
    <3>3. Shows(w, 1, k, v) \/ (Lacks(w, 1, k) /\ elsewhere)
      BY <1>4, <3>1, <3>2
    <3>4. level + 1 \in Int /\ level + 1 < used_levels /\ MinLevel <= level + 1
      BY <1>2, <2>1, LevelFacts
    <3>5. elsewhere => LevelsShow(data', used_levels, level + 1, k, v)
      <4>1. \A j \in (level + 1)..(used_levels - 1) : j \in Levels /\ level + 1 <= j /\ j \in Int
        BY <1>2, <3>4, LevelRange
      <4>2. \A j \in (level + 1)..(used_levels - 1) : j # level
        BY <1>2
      <4>3. \A j \in (level + 1)..(used_levels - 1) : data[j] = data'[j]
        BY <1>9, <4>1, <4>2
      <4> QED
        BY <1>2, <3>4, <4>3, LevelsShowSame
    <3>6. LevelsShow(data', used_levels, level + 1, k, v) =>
            \/ Shows(data'[level + 1], 1, k, v)
            \/ Lacks(data'[level + 1], 1, k) /\ LevelsShow(data', used_levels, level + 1 + 1, k, v)
      BY <1>2, <3>4, LevelsShowStep
    <3>7. Lacks(out', 1, k)
      BY <1>1 DEF Lacks
    <3> QED
      BY <3>3, <3>5, <3>6, <3>7 DEF PassShows
  <2>4. ZeroFree => VersionInv'
    BY <1>1, <1>8, <2>3 DEF VersionInv
  <2> QED
    BY <2>2, <2>4
<1> QED
  BY <1>8, <1>11, <1>12, <1>13, <1>14 DEF IInv, w, N, D

\* What is stored.
LEMMA StoredFacts ==
  ASSUME IInv, pc = "merge", level > Limit, NEW junk
  PROVE  /\ junk \in Items => Stored(junk) \in Seq(Items)
         /\ ~clobbered => /\ level = target /\ Newer = tmp["b"] /\ Newer \in Seq(Pool)
                          /\ Stored(junk) = Newer
<1>1. /\ target \in (MinLevel + 1)..(used_levels - 1) /\ level \in (MinLevel + 1)..(target + 1)
      /\ used_levels \in Int /\ MinLevel \in Int /\ tmp \in [{"a", "b"} -> Seq(Pool)]
  BY LevelFacts DEF IInv, CallInv, TypeInv
<1>2. level \in Int /\ target \in Int
  BY <1>1
<1>3. Reads(level, target) \in {"a", "b"} /\ Reads(target, target) = "b"
  BY <1>2, Alternation
<1>4. /\ Newer \in Seq(Pool) /\ Newer \in Seq(Items) /\ tmp["b"] \in Seq(Items)
  <2>1. Newer \in Seq(Pool) /\ tmp["b"] \in Seq(Pool)
    BY <1>1, <1>3 DEF Newer
  <2> QED
    BY <2>1, ItemFields, SeqMonotonic
<1>5. ASSUME junk \in Items PROVE Stored(junk) \in Seq(Items)
  <2>1. Len(Newer) \in Nat /\ Len(tmp["b"]) \in Nat
    BY <1>4
  <2>2. ASSUME NEW n \in 1..Len(Newer)
        PROVE  (IF n <= Len(tmp["b"]) THEN tmp["b"][n] ELSE junk) \in Items
    <3>1. CASE n <= Len(tmp["b"])
      <4>1. n \in 1..Len(tmp["b"])
        BY <2>1, <3>1
      <4> QED
        BY <1>4, <3>1, <4>1
    <3>2. CASE ~(n <= Len(tmp["b"]))
      BY <1>5, <3>2
    <3> QED
      BY <3>1, <3>2
  <2>3. Stored(junk) \in [1..Len(Newer) -> Items]
    BY <2>2 DEF Stored
  <2> QED
    BY <2>1, <2>3
<1>6. ASSUME ~clobbered
      PROVE  level = target /\ Newer = tmp["b"] /\ Stored(junk) = Newer
  <2>1. level <= target /\ Limit = target - 1
    BY <1>1, <1>6 DEF IInv, CallInv, Limit
  <2>2. level = target
    BY <1>2, <2>1
  <2>3. Newer = tmp["b"]
    BY <1>3, <2>2 DEF Newer
  <2>4. Stored(junk) = [n \in 1..Len(Newer) |-> Newer[n]]
    BY <2>3 DEF Stored
  <2>5. Newer = [n \in 1..Len(Newer) |-> Newer[n]]
    BY <1>4
  <2> QED
    BY <2>2, <2>3, <2>4, <2>5
<1> QED
  BY <1>4, <1>5, <1>6

\* The end of a merge: the target gets what the last pass has written.
LEMMA StoreKeeps ==
  ASSUME IInv, Store
  PROVE  IInv'
<1>1. /\ pc = "merge" /\ level > Limit
      /\ pc' = "idle" /\ level' = MinLevel /\ slots_required' = 0 /\ target' = MinLevel
      /\ tmp' = [q \in {"a", "b"} |-> <<>>]
      /\ UNCHANGED <<used_levels, num_levels, clobbered, contents, first1, first2, out>>
  BY DEF Store
<1>2. PICK junk \in IF clobbered THEN Items ELSE {Tombstone(0)} :
        /\ data' = [data EXCEPT ![MinLevel] = <<>>, ![target] = Stored(junk)]
        /\ pgm' = [pgm EXCEPT ![target] = IF target >= MinIndexed THEN Stored(junk) ELSE <<>>]
  BY DEF Store
<1> DEFINE w == Stored(junk)
<1>3. /\ junk \in Items => w \in Seq(Items)
      /\ ~clobbered => level = target /\ Newer \in Seq(Pool) /\ w = Newer
  BY <1>1, StoredFacts
<1>4. w \in Seq(Pool) /\ Pool' = Pool /\ <<>> \in Seq(Pool)
  <2>1. CASE clobbered
    BY <1>1, <1>2, <1>3, <2>1 DEF Pool
  <2>2. CASE ~clobbered
    BY <1>1, <1>3, <2>2 DEF Pool
  <2> QED
    BY <2>1, <2>2
<1> HIDE DEF w
<1>5. /\ target \in (MinLevel + 1)..(used_levels - 1) /\ used_levels \in MinLevel..(MaxLevel + 1)
      /\ MinLevel \in Nat /\ MaxLevel \in Nat /\ MinLevel < MinIndexed /\ MinIndexed \in Nat
      /\ first1 = 1 /\ first2 = 1 /\ out = <<>>
  BY <1>1, LevelFacts DEF IInv, CallInv, TypeInv
<1>6. /\ target \in Levels /\ target # MinLevel /\ MinLevel \in Levels /\ target \in Int
      /\ MinLevel < target /\ target < used_levels /\ used_levels \in Int
      /\ used_levels <= MaxLevel + 1
  BY <1>5 DEF Levels
<1>7. /\ data' \in [Levels -> Seq(Pool)] /\ pgm' \in [Levels -> Seq(Pool)]
      /\ data'[target] = w /\ data'[MinLevel] = <<>> /\ (target >= MinIndexed => pgm'[target] = w)
      /\ \A i \in Levels \ {MinLevel, target} : data'[i] = data[i] /\ pgm'[i] = pgm[i]
  <2>1. data \in [Levels -> Seq(Pool)] /\ pgm \in [Levels -> Seq(Pool)]
    BY DEF IInv, TypeInv
  <2>2. /\ data' = [data EXCEPT ![MinLevel] = <<>>, ![target] = w]
        /\ pgm' = [pgm EXCEPT ![target] = IF target >= MinIndexed THEN w ELSE <<>>]
    BY <1>2 DEF w
  <2> QED
    BY <1>4, <1>6, <2>1, <2>2
<1>8. TypeInv'
  <2>1. tmp' \in [{"a", "b"} -> Seq(Pool)]
    BY <1>1, <1>4
  <2> QED
    BY <1>1, <1>4, <1>6, <1>7, <2>1 DEF IInv, TypeInv
<1>9. CallInv'
  BY <1>1, <1>5 DEF CallInv
<1>10. LevelInv'
  <2>1. ASSUME NEW i \in Levels, data'[i] # <<>> PROVE i < used_levels'
    <3>1. CASE i = target
      BY <1>1, <1>6, <3>1
    <3>2. CASE i # target
      BY <1>1, <1>7, <2>1, <3>2 DEF IInv, LevelInv
    <3> QED
      BY <3>1, <3>2
  <2>2. ASSUME NEW i \in Levels, i >= MinIndexed PROVE pgm'[i] = data'[i]
    <3>1. i # MinLevel
      BY <1>5, <2>2
    <3>2. CASE i = target
      BY <1>7, <2>2, <3>2
    <3>3. CASE i # target
      BY <1>7, <2>2, <3>1, <3>3 DEF IInv, LevelInv
    <3> QED
      BY <3>2, <3>3
  <2> QED
    BY <1>1, <2>1, <2>2 DEF IInv, LevelInv
<1>11. ASSUME ~clobbered' PROVE OrderInv' /\ (ZeroFree => VersionInv')
  <2>1. /\ ~clobbered /\ level = target /\ w = Newer /\ data[target] = <<>>
        /\ \A j \in (MinLevel + 1)..(target - 1) : data[j] = <<>>
    BY <1>1, <1>3, <1>11 DEF IInv, CallInv
  <2>2. OrderInv'
    <3>1. Ordered(<<>>) /\ Ordered(w) /\ \A i \in Levels : Ordered(data[i])
      BY <1>1, <2>1 DEF IInv, OrderInv, Ordered
    <3> QED
      BY <1>1, <1>7, <3>1 DEF OrderInv
  <2>3. ASSUME ZeroFree, NEW k \in Keys
        PROVE  LevelsShow(data', used_levels, MinLevel, k, contents[k])
    <3> DEFINE v == contents[k]
               elsewhere == LevelsShow(data, used_levels, target + 1, k, v)
    <3>1. PassShows(<<>>, w, 1, <<>>, 1, k, v, elsewhere)
      <4>1. PassShows(out, Newer, first1, data[level], first2, k, v,
                      LevelsShow(data, used_levels, level + 1, k, v))
        BY <1>1, <2>1, <2>3 DEF IInv, VersionInv
      <4> QED
        BY <1>5, <2>1, <4>1
    <3>2. Shows(w, 1, k, v) \/ (Lacks(w, 1, k) /\ elsewhere)
      BY <3>1 DEF PassShows, Shows
    <3>3. elsewhere => LevelsShow(data', used_levels, target + 1, k, v)
      <4>1. target + 1 \in Int /\ MinLevel <= target + 1
        BY <1>5, <1>6
      <4>2. \A j \in (target + 1)..(used_levels - 1) : j \in Levels
        BY <1>6, <4>1, LevelRange
      <4>3. \A j \in (target + 1)..(used_levels - 1) : j # target /\ j # MinLevel
        BY <1>5, <1>6
      <4>4. \A j \in (target + 1)..(used_levels - 1) : data[j] = data'[j]
        BY <1>7, <4>2, <4>3
      <4> QED
        BY <1>6, <4>1, <4>4, LevelsShowSame
    <3>4. LevelsShow(data', used_levels, target, k, v)
      BY <1>6, <1>7, <3>2, <3>3, LevelsShowStep
    <3>5. \A j \in MinLevel..(target - 1) : data'[j] = <<>>
      <4> SUFFICES ASSUME NEW j \in MinLevel..(target - 1) PROVE data'[j] = <<>>
        OBVIOUS
      <4>1. CASE j = MinLevel
        BY <1>7, <4>1
      <4>2. CASE j # MinLevel
        <5>1. j \in (MinLevel + 1)..(target - 1) /\ j # target /\ j \in Levels
          BY <1>5, <1>6, <4>2, LevelFacts
        <5> QED
          BY <1>7, <2>1, <4>2, <5>1
      <4> QED
        BY <4>1, <4>2
    <3>6. target \in MinLevel..used_levels /\ MinLevel \in Int
      BY <1>5, <1>6
    <3> QED
      BY <1>6, <3>4, <3>5, <3>6, LevelsShowSkip
  <2>4. ZeroFree => VersionInv'
    BY <1>1, <2>3 DEF VersionInv
  <2> QED
    BY <2>2, <2>4
<1> QED
  BY <1>8, <1>9, <1>10, <1>11 DEF IInv

\* Both constructors.
LEMMA EmptyHolds ==
  ASSUME Empty, clobbered = FALSE, Idle
  PROVE  IInv
<1>1. /\ data = NoData /\ pgm = NoData /\ used_levels = MinLevel
      /\ num_levels = InitLevels - MinLevel /\ contents = [k \in Keys |-> Absent]
      /\ pc = "idle" /\ level = MinLevel /\ slots_required = 0 /\ target = MinLevel
      /\ tmp = [x \in {"a", "b"} |-> <<>>] /\ first1 = 1 /\ first2 = 1 /\ out = <<>>
  BY DEF Empty, Idle
<1>2. /\ \A i \in Levels : data[i] = <<>> /\ pgm[i] = <<>>
      /\ data \in [Levels -> Seq(Pool)] /\ pgm \in [Levels -> Seq(Pool)]
  BY <1>1 DEF NoData
<1>3. /\ MinLevel \in Nat /\ MinLevel \in Levels /\ MinLevel \in MinLevel..(MaxLevel + 1)
      /\ num_levels \in Nat \ {0} /\ MinLevel <= MinLevel + num_levels
  BY <1>1, LevelFacts, LevelAssumption
<1>4. TypeInv
  <2>1. contents \in [Keys -> Values \cup {Absent}]
    BY <1>1
  <2>2. tmp \in [{"a", "b"} -> Seq(Pool)] /\ out \in Seq(Pool)
    BY <1>1
  <2>3. clobbered \in BOOLEAN
    BY Zenon
  <2>4. /\ pc \in {"idle", "slots", "merge"}
        /\ level \in Levels \cup {MaxLevel + 1} /\ slots_required \in Nat /\ target \in Levels
        /\ first1 \in Nat \ {0} /\ first2 \in Nat \ {0}
        /\ used_levels \in MinLevel..(MaxLevel + 1)
    BY <1>1, <1>3
  <2> QED
    BY <1>2, <1>3, <2>1, <2>2, <2>3, <2>4, Zenon DEF TypeInv
<1>5. CallInv /\ LevelInv
  BY <1>1, <1>2, <1>3 DEF CallInv, LevelInv
<1>6. OrderInv
  BY <1>1, <1>2 DEF OrderInv, Ordered
<1>7. VersionInv
  <2>1. MinLevel..(MinLevel - 1) = {}
    BY <1>3
  <2> QED
    BY <1>1, <2>1 DEF VersionInv, LevelsShow
<1> QED
  BY <1>4, <1>5, <1>6, <1>7 DEF IInv

LEMMA BulkLoadHolds ==
  ASSUME NEW size \in BulkSizes \ {0}, NEW keys \in SortedKeys(size), BulkLoad(keys),
         clobbered = FALSE, Idle
  PROVE  IInv
<1>1. PICK top \in Levels, v \in Values :
        LET items == [n \in 1..Len(keys) |-> Item(keys[n], v)]
        IN  /\ data = [NoData EXCEPT ![top] = items]
            /\ pgm = [NoData EXCEPT ![top] = IF top >= MinIndexed THEN items ELSE <<>>]
            /\ used_levels = top + 1 /\ num_levels = top + 1 - MinLevel
            /\ contents = [k \in Keys |-> IF k \in Range(keys) THEN v ELSE Absent]
  BY DEF BulkLoad
<1> DEFINE items == [n \in 1..Len(keys) |-> Item(keys[n], v)]
<1>2. /\ pc = "idle" /\ level = MinLevel /\ slots_required = 0 /\ target = MinLevel
      /\ tmp = [x \in {"a", "b"} |-> <<>>] /\ first1 = 1 /\ first2 = 1 /\ out = <<>>
  BY DEF Idle
<1>3. /\ keys \in Seq(Keys) /\ Len(keys) = size /\ size \in Nat
      /\ \A l, m \in 1..size : keys[l] \in Keys /\ keys[l] \in Int /\ (l < m => keys[l] < keys[m])
  <2>1. /\ size \in Nat /\ keys \in [1..size -> Keys]
        /\ \A l, m \in 1..size : l < m => keys[l] < keys[m]
    BY DataAssumption DEF SortedKeys
  <2>2. keys \in Seq(Keys) /\ Len(keys) = size
    BY <2>1
  <2>3. \A l \in 1..size : keys[l] \in Keys /\ keys[l] \in Int
    BY <2>1, ItemFields
  <2> QED
    BY <2>1, <2>2, <2>3
<1>4. \A k \in Keys : /\ Item(k, v) \in Genuine /\ Item(k, v).key = k /\ Version(Item(k, v)) = v
  BY DEF Item, Genuine, Items, Version
<1>5. /\ items \in Seq(Genuine) /\ Len(items) = size
      /\ \A n \in 1..size : items[n].key = keys[n] /\ Version(items[n]) = v
  <2>1. \A n \in 1..size : Item(keys[n], v) \in Genuine
    BY <1>3, <1>4
  <2>2. items \in [1..size -> Genuine]
    BY <1>3, <2>1
  <2>3. \A n \in 1..size : items[n] = Item(keys[n], v)
    BY <1>3
  <2> HIDE DEF items
  <2> QED
    BY <1>3, <1>4, <2>2, <2>3
<1>6. /\ data = [NoData EXCEPT ![top] = items]
      /\ pgm = [NoData EXCEPT ![top] = IF top >= MinIndexed THEN items ELSE <<>>]
      /\ used_levels = top + 1 /\ num_levels = top + 1 - MinLevel
      /\ contents = [k \in Keys |-> IF k \in Range(keys) THEN v ELSE Absent]
  BY <1>1
<1> HIDE DEF items
<1>7. /\ data[top] = items /\ (top >= MinIndexed => pgm[top] = items)
      /\ \A i \in Levels \ {top} : data[i] = <<>> /\ pgm[i] = <<>>
      /\ data \in [Levels -> Seq(Genuine)] /\ pgm \in [Levels -> Seq(Genuine)]
  <2>1. NoData \in [Levels -> Seq(Genuine)] /\ \A i \in Levels : NoData[i] = <<>>
    BY DEF NoData
  <2>2. (IF top >= MinIndexed THEN items ELSE <<>>) \in Seq(Genuine)
    BY <1>5
  <2> QED
    BY <1>5, <1>6, <2>1, <2>2
<1>8. Pool = Genuine
  BY DEF Pool
<1>9. /\ MinLevel \in Nat /\ MaxLevel \in Nat /\ MinLevel \in Levels /\ top \in Int
      /\ MinLevel <= top /\ top <= MaxLevel
      /\ used_levels \in MinLevel..(MaxLevel + 1) /\ num_levels \in Nat \ {0}
      /\ used_levels = MinLevel + num_levels /\ top < used_levels /\ used_levels \in Int
  BY <1>6, LevelFacts
<1>10. TypeInv
  <2>1. contents \in [Keys -> Values \cup {Absent}]
    BY <1>6
  <2>2. tmp \in [{"a", "b"} -> Seq(Pool)] /\ out \in Seq(Pool)
    BY <1>2
  <2>3. clobbered \in BOOLEAN
    BY Zenon
  <2>4. /\ pc \in {"idle", "slots", "merge"}
        /\ level \in Levels \cup {MaxLevel + 1} /\ slots_required \in Nat /\ target \in Levels
        /\ first1 \in Nat \ {0} /\ first2 \in Nat \ {0}
    BY <1>2, <1>9
  <2> QED
    BY <1>7, <1>8, <1>9, <2>1, <2>2, <2>3, <2>4, Zenon DEF TypeInv
<1>11. CallInv /\ LevelInv
  BY <1>2, <1>7, <1>9 DEF CallInv, LevelInv
<1>12. Ordered(items)
  <2> SUFFICES ASSUME NEW l \in 1..size, NEW m \in 1..size, l <= m
               PROVE  items[l].key <= items[m].key
    BY <1>5 DEF Ordered
  <2>1. keys[l] \in Int /\ keys[m] \in Int /\ (l < m => keys[l] < keys[m])
    BY <1>3
  <2>2. items[l].key = keys[l] /\ items[m].key = keys[m]
    BY <1>5
  <2>3. keys[l] <= keys[m]
    BY <2>1
  <2> QED
    BY <2>2, <2>3
<1>13. OrderInv
  <2>1. Ordered(<<>>)
    BY DEF Ordered
  <2> QED
    BY <1>2, <1>7, <1>12, <2>1 DEF OrderInv
<1>14. ASSUME NEW k \in Keys
       PROVE  LevelsShow(data, used_levels, MinLevel, k, contents[k])
  <2>1. \/ Shows(items, 1, k, contents[k])
        \/ Lacks(items, 1, k) /\ LevelsShow(data, used_levels, top + 1, k, contents[k])
    <3>1. CASE k \in Range(keys)
      <4>1. contents[k] = v
        BY <1>6, <3>1
      <4>2. PICK n \in 1..size : keys[n] = k
        BY <1>3, <3>1 DEF Range
      <4>3. \A m \in 1..(n - 1) : m \in 1..size /\ m < n
        BY <1>3
      <4>4. ASSUME NEW m \in 1..(n - 1) PROVE items[m].key # k
        <5>1. keys[m] < keys[n] /\ keys[m] \in Int /\ keys[n] \in Int
          BY <1>3, <4>3
        <5>2. items[m].key = keys[m]
          BY <1>5, <4>3
        <5> QED
          BY <4>2, <5>1, <5>2
      <4>5. n \in 1..Len(items) /\ items[n].key = k /\ Version(items[n]) = v
        BY <1>5, <4>2
      <4> QED
        BY <4>1, <4>4, <4>5 DEF Shows
    <3>2. CASE k \notin Range(keys)
      <4>1. contents[k] = Absent
        BY <1>6, <3>2
      <4>2. \A n \in 1..size : keys[n] # k
        BY <1>3, <3>2 DEF Range
      <4>3. (top + 1)..(used_levels - 1) = {}
        BY <1>6, <1>9
      <4> QED
        BY <1>5, <4>1, <4>2, <4>3 DEF Lacks, LevelsShow
    <3> QED
      BY <3>1, <3>2
  <2>2. LevelsShow(data, used_levels, top, k, contents[k])
    BY <1>7, <1>9, <2>1, LevelsShowStep
  <2>3. \A j \in MinLevel..(top - 1) : data[j] = <<>>
    <3>1. \A j \in MinLevel..(top - 1) : j \in Levels \ {top}
      BY <1>9, LevelFacts
    <3> QED
      BY <1>7, <3>1
  <2>4. top \in MinLevel..used_levels /\ MinLevel \in Int
    BY <1>9
  <2> QED
    BY <1>9, <2>2, <2>3, <2>4, LevelsShowSkip
<1>15. VersionInv
  BY <1>2, <1>14 DEF VersionInv
<1> QED
  BY <1>10, <1>11, <1>13, <1>15 DEF IInv

LEMMA InitHolds ==
  ASSUME Init
  PROVE  IInv
  BY EmptyHolds, BulkLoadHolds DEF Init

\* Every step keeps the invariant.
LEMMA NextKeeps ==
  ASSUME IInv, [Next]_vars
  PROVE  IInv'
<1>1. ASSUME NEW k \in Keys, NEW v \in Values, Insert(k, v)
      PROVE  IInv'
  <2>1. Item(k, v) \in Genuine /\ Item(k, v).key = k /\ Version(Item(k, v)) = v
    BY DEF Item, Genuine, Items, Version
  <2>2. InsertItem(Item(k, v)) /\ contents' = [contents EXCEPT ![k] = v]
    BY <1>1 DEF Insert
  <2> QED
    BY <2>1, <2>2, InsertItemKeeps
<1>2. ASSUME NEW k \in Keys, Erase(k)
      PROVE  IInv'
  <2>1. Tombstone(k) \in Genuine /\ Tombstone(k).key = k /\ Version(Tombstone(k)) = Absent
    BY <1>2 DEF Erase, Tombstone, Genuine, Items, Version
  <2>2. InsertItem(Tombstone(k)) /\ contents' = [contents EXCEPT ![k] = Absent]
    BY <1>2 DEF Erase
  <2> QED
    BY <2>1, <2>2, InsertItemKeeps
<1>3. ASSUME Merging PROVE IInv'
  BY <1>3, NoRoomKeeps, TargetFoundKeeps, MergeStepKeeps, PassDoneKeeps, StoreKeeps DEF Merging
<1>4. ASSUME UNCHANGED vars PROVE IInv'
  <2>1. UNCHANGED <<data, used_levels, num_levels, pgm, clobbered, contents, pc, new_item, level,
                    slots_required, target, tmp, first1, first2, out>>
    BY <1>4 DEF vars, index, call
  <2>2. Newer' = Newer /\ Limit' = Limit /\ Pool' = Pool
    BY <2>1 DEF Newer, Limit, Pool
  <2> QED
    BY <2>1, <2>2 DEF IInv, TypeInv, CallInv, LevelInv, OrderInv, VersionInv
<1> QED
  BY <1>1, <1>2, <1>3, <1>4 DEF Next

-----------------------------------------------------------------------------
(* Theorems about every workload. *)

\* The inductive invariant: the positions and arrays of the merge that is running, which
\* levels are in use, their order, and where the newest version of each key is.
THEOREM PGMInvariant == Spec => []IInv
  BY InitHolds, NextKeeps, PTL DEF Spec

\* As long as no merge has met items in its target, every level is sorted by key, whatever
\* the calls were: lower_bound may search it.
THEOREM PGMTypeOK == Spec => []TypeOK
<1>1. IInv => TypeOK
  <2> SUFFICES ASSUME IInv PROVE TypeOK
    OBVIOUS
  <2>1. Seq(Pool) \subseteq Seq(Items)
    BY ItemFields, SeqMonotonic
  <2>2. data \in [Levels -> Seq(Items)] /\ pgm \in [Levels -> Seq(Items)]
    BY <2>1 DEF IInv, TypeInv
  <2>3. clobbered \/ \A i \in Levels : Ordered(data[i])
    BY DEF IInv, OrderInv
  <2> QED
    BY <2>2, <2>3 DEF IInv, TypeInv, TypeOK
<1> QED
  BY <1>1, PGMInvariant, PTL

\* find's answer, from the first level with the key.
LEMMA FindShows ==
  ASSUME IInv, ~clobbered, NEW k \in Keys, NEW v,
         LevelsShow(data, used_levels, MinLevel, k, v)
  PROVE  Find(k) = v
<1> DEFINE holding == {i \in MinLevel..(used_levels - 1) : Holds(i, k)}
           first == CHOOSE i \in holding : \A j \in holding : i <= j
<1>1. /\ used_levels \in Int /\ used_levels <= MaxLevel + 1 /\ MinLevel \in Int
      /\ MinLevel <= MinLevel
  BY LevelFacts DEF IInv, TypeInv
<1>2. \A i \in MinLevel..(used_levels - 1) : i \in Levels /\ i \in Int
  BY <1>1, LevelRange
<1>3. \A i \in MinLevel..(used_levels - 1) : i \in holding <=> ~Lacks(data[i], 1, k)
  BY <1>2 DEF IInv, LevelInv, Holds, Searchable, Lacks
<1>4. Find(k) = IF holding = {} THEN Absent
                ELSE LET item == data[first][Before(data[first], k) + 1]
                     IN  IF item.deleted THEN Absent ELSE item.value
  BY DEF Find
<1>5. holding \subseteq MinLevel..(used_levels - 1)
  OBVIOUS
<1> HIDE DEF holding
<1>6. CASE \E j \in MinLevel..(used_levels - 1) :
             Shows(data[j], 1, k, v) /\ \A h \in MinLevel..(j - 1) : Lacks(data[h], 1, k)
  <2>1. PICK j \in MinLevel..(used_levels - 1) :
             Shows(data[j], 1, k, v) /\ \A h \in MinLevel..(j - 1) : Lacks(data[h], 1, k)
    BY <1>6
  <2>2. PICK n \in 1..Len(data[j]) : /\ data[j][n].key = k /\ Version(data[j][n]) = v
                                     /\ \A m \in 1..(n - 1) : data[j][m].key # k
    BY <2>1 DEF Shows
  <2>3. j \in holding
    BY <1>3, <2>2 DEF Lacks
  <2>4. ASSUME NEW i \in holding PROVE j <= i
    <3>1. i \in MinLevel..(used_levels - 1) /\ ~Lacks(data[i], 1, k)
      BY <1>3, <1>5
    <3>2. i \notin MinLevel..(j - 1)
      BY <2>1, <3>1
    <3> QED
      BY <1>1, <3>1, <3>2
  <2>5. first \in holding /\ \A i \in holding : first <= i
    BY <2>3, <2>4
  <2>6. first = j
    <3>1. first <= j /\ j <= first
      BY <2>3, <2>4, <2>5
    <3>2. first \in Int /\ j \in Int
      BY <1>2, <1>5, <2>5
    <3> HIDE DEF first
    <3> QED
      BY <3>1, <3>2
  <2> HIDE DEF first
  <2> DEFINE D == data[j]
             b == Before(D, k)
  <2>7. D \in Seq(Items) /\ Ordered(D) /\ j \in Levels
    <3>1. j \in Levels
      BY <1>2
    <3>2. D \in Seq(Pool) /\ Ordered(D)
      BY <3>1 DEF IInv, TypeInv, OrderInv
    <3> QED
      BY <3>1, <3>2, ItemFields, SeqMonotonic
  <2>8. D[n].key = k /\ Version(D[n]) = v /\ n \in 1..Len(D) /\ \A m \in 1..(n - 1) : D[m].key # k
    BY <2>2
  <2> HIDE DEF D
  <2>9. k \in Int /\ Len(D) \in Nat /\ \A m \in 1..Len(D) : D[m].key \in Int
    BY <2>7, ItemFields
  <2>10. b \in 0..Len(D) /\ \A m \in 1..Len(D) : m <= b <=> D[m].key < k
    BY <2>7, <2>9, LowerBound
  <2> HIDE DEF b
  <2>11. b + 1 = n
    <3>1. b < n
      BY <2>8, <2>9, <2>10
    <3>2. b + 1 \in 1..Len(D) /\ b + 1 <= n
      BY <2>8, <2>9, <2>10, <3>1
    <3>3. D[b + 1].key <= D[n].key
      BY <2>7, <2>8, <3>2 DEF Ordered
    <3>4. ~(D[b + 1].key < k)
      BY <2>10, <3>2
    <3>5. D[b + 1].key = k
      BY <2>8, <2>9, <3>2, <3>3, <3>4
    <3>6. ~(b + 1 \in 1..(n - 1))
      BY <2>8, <3>5
    <3> QED
      BY <2>8, <2>9, <2>10, <3>2, <3>6
  <2>12. Find(k) = IF D[b + 1].deleted THEN Absent ELSE D[b + 1].value
    BY <1>4, <2>3, <2>6 DEF D, b
  <2> QED
    BY <2>8, <2>11, <2>12 DEF Version
<1>7. CASE v = Absent /\ \A j \in MinLevel..(used_levels - 1) : Lacks(data[j], 1, k)
  <2>1. holding = {}
    BY <1>3, <1>5, <1>7
  <2> QED
    BY <1>4, <1>7, <2>1
<1> QED
  BY <1>6, <1>7 DEF LevelsShow

\* Unless a merge has met items in its target, find answers as a map would after the same
\* calls, with updates and with erasures.  The one thing asked of the workload is that it
\* does not erase keys and store the value 0: a call of insert(k, 0) while a tombstone of k
\* is in the buffer is dropped.
THEOREM PGMFindCorrectUnlessClobbered ==
  ASSUME ZeroFree
  PROVE  Spec => []FindCorrectUnlessClobbered
<1>1. IInv => FindCorrectUnlessClobbered
  <2> SUFFICES ASSUME IInv, ~clobbered, pc = "idle", NEW k \in Keys
               PROVE  Find(k) = contents[k]
    BY DEF FindCorrectUnlessClobbered, FindCorrect
  <2>1. LevelsShow(data, used_levels, MinLevel, k, contents[k])
    BY DEF IInv, VersionInv
  <2> QED
    BY <2>1, FindShows
<1> QED
  BY <1>1, PGMInvariant, PTL

-----------------------------------------------------------------------------
(* Workloads that insert each key once and erase none: the benchmark's on data without
   equal keys. *)

LEMMA LevelNumbers ==
  ASSUME IInv
  PROVE  /\ MinLevel \in Nat /\ MaxLevel \in Nat /\ MinLevel < MaxLevel
         /\ used_levels \in MinLevel..(MaxLevel + 1)
         /\ \A i \in Levels :
              /\ i \in Nat /\ MinLevel <= i /\ i <= MaxLevel
              /\ Len(data[i]) \in Nat /\ (Len(data[i]) = 0 <=> data[i] = <<>>)
              /\ Slots[i] \in Nat \ {0} /\ Slots[i + 1] = 2 * Slots[i]
              /\ data[i] \in Seq(Items)
              /\ i >= used_levels => data[i] = <<>>
<1>1. /\ MinLevel \in Nat /\ MaxLevel \in Nat /\ MinLevel < MaxLevel
      /\ used_levels \in MinLevel..(MaxLevel + 1) /\ Levels = MinLevel..MaxLevel
  BY LevelFacts DEF IInv, TypeInv
<1>2. ASSUME NEW i \in Levels
      PROVE  /\ i \in Nat /\ MinLevel <= i /\ i <= MaxLevel
             /\ Len(data[i]) \in Nat /\ (Len(data[i]) = 0 <=> data[i] = <<>>)
             /\ Slots[i] \in Nat \ {0} /\ Slots[i + 1] = 2 * Slots[i]
             /\ data[i] \in Seq(Items)
             /\ i >= used_levels => data[i] = <<>>
  <2>1. i \in Nat /\ MinLevel <= i /\ i <= MaxLevel
    BY <1>1
  <2>2. i \in 0..MaxLevel /\ i \in 0..(MaxLevel + 1)
    BY <1>1, <2>1
  <2>3. Slots[i] \in Nat \ {0} /\ Slots[i + 1] = 2 * Slots[i]
    BY <2>2, SlotFacts
  <2>4. data[i] \in Seq(Pool) /\ (data[i] # <<>> => i < used_levels)
    BY DEF IInv, TypeInv, LevelInv
  <2>5. data[i] \in Seq(Items)
    BY <2>4, ItemFields, SeqMonotonic
  <2>6. Len(data[i]) \in Nat /\ (Len(data[i]) = 0 <=> data[i] = <<>>)
    BY <2>5
  <2>7. i >= used_levels => data[i] = <<>>
    BY <1>1, <2>1, <2>4
  <2> QED
    BY <2>1, <2>3, <2>5, <2>6, <2>7
<1> QED
  BY <1>1, <1>2

\* A key that has not been inserted is in no level.
LEMMA UniqueKey ==
  ASSUME IInv, ~clobbered, ~Erasures, pc = "idle", NEW k \in Keys, contents[k] = Absent
  PROVE  \A i \in Levels : Lacks(data[i], 1, k)
<1>1. LevelsShow(data, used_levels, MinLevel, k, Absent)
  BY DEF IInv, VersionInv, ZeroFree
<1>2. ASSUME NEW j \in MinLevel..(used_levels - 1) PROVE ~Shows(data[j], 1, k, Absent)
  <2>1. j \in Levels
    BY LevelNumbers, LevelFacts
  <2>2. data[j] \in Seq(Genuine)
    BY <2>1 DEF IInv, TypeInv, Pool
  <2>3. \A n \in 1..Len(data[j]) : data[j][n] \in Genuine
    BY <2>2
  <2>4. \A x \in Genuine : Version(x) # Absent
    BY ItemFields DEF Genuine, Version
  <2> QED
    BY <2>3, <2>4 DEF Shows
<1>3. \A j \in MinLevel..(used_levels - 1) : Lacks(data[j], 1, k)
  BY <1>1, <1>2 DEF LevelsShow
<1>4. ASSUME NEW i \in Levels PROVE Lacks(data[i], 1, k)
  <2>1. CASE i >= used_levels
    BY <2>1, LevelNumbers DEF Lacks
  <2>2. CASE i < used_levels
    <3>1. i \in MinLevel..(used_levels - 1)
      BY <2>2, LevelNumbers
    <3> QED
      BY <1>3, <3>1
  <2> QED
    BY <2>1, <2>2, LevelNumbers
<1> QED
  BY <1>4

LEMMA DisjointLacks ==
  ASSUME NEW s, NEW t
  PROVE  Disjoint(s, t) <=> \A n \in 1..Len(t) : Lacks(s, 1, t[n].key)
  BY DEF Disjoint, Lacks

\* The new item has a key of its own.
LEMMA BufferedDisjoint ==
  ASSUME NEW S, S \subseteq Items, NEW s \in Seq(S), Ordered(s), NEW x \in S,
         NEW d, Disjoint(s, d), Lacks(d, 1, x.key)
  PROVE  Disjoint(InsertAt(s, Before(s, x.key) + 1, x), d)
<1> DEFINE t == InsertAt(s, Before(s, x.key) + 1, x)
<1>1. \A k, v : k # x.key => (Lacks(s, 1, k) => Lacks(t, 1, k))
  BY SortedInsert
<1> HIDE DEF t
<1>2. ASSUME NEW n \in 1..Len(d) PROVE Lacks(t, 1, d[n].key)
  <2>1. d[n].key # x.key
    BY DEF Lacks
  <2>2. Lacks(s, 1, d[n].key)
    BY DisjointLacks
  <2> QED
    BY <1>1, <2>1, <2>2
<1> QED
  BY <1>2, DisjointLacks DEF t

LEMMA UInitHolds ==
  ASSUME Init
  PROVE  UInv
<1>1. IInv /\ pc = "idle" /\ ~clobbered
  BY InitHolds DEF Init, Idle
<1>2. CASE Empty
  <2>1. /\ \A i \in Levels : data[i] = <<>> /\ Len(data[i]) = 0
        /\ used_levels = MinLevel /\ MinLevel \in Levels /\ MinLevel \in Nat
    BY <1>2, LevelFacts DEF Empty, NoData
  <2>2. DisjointInv
    BY <1>1, <2>1 DEF DisjointInv, Disjoint
  <2>3. SizeInv
    <3>1. Len(Buffer) <= BufferCapacity
      BY <2>1, SlotFacts DEF Buffer
    <3>2. (MinLevel + 1)..(used_levels - 2) = {} /\ used_levels # MinLevel + 1
          /\ ~(used_levels > MinLevel + 1)
      BY <2>1
    <3> QED
      BY <1>1, <3>1, <3>2 DEF SizeInv
  <2> QED
    BY <1>1, <2>2, <2>3 DEF UInv
<1>3. ASSUME NEW size \in BulkSizes \ {0}, NEW keys \in SortedKeys(size), BulkLoad(keys)
      PROVE  UInv
  <2>1. size \in Nat \ {0} /\ Len(keys) = size
    <3>1. size \in Nat \ {0} /\ keys \in [1..size -> Keys]
      BY DataAssumption DEF SortedKeys
    <3> QED
      BY <3>1
  <2>2. PICK top \in Levels, v \in Values :
          LET items == [n \in 1..Len(keys) |-> Item(keys[n], v)]
          IN  /\ Len(keys) <= Slots[top] /\ data = [NoData EXCEPT ![top] = items]
              /\ used_levels = top + 1
    BY <1>3 DEF BulkLoad, IsCeilLog2
  <2>3. /\ data[top] = [n \in 1..Len(keys) |-> Item(keys[n], v)]
        /\ \A i \in Levels \ {top} : data[i] = <<>>
    BY <2>2 DEF NoData
  <2>4. Len(data[top]) = size
    BY <2>1, <2>3
  <2>5. \A i \in Levels \ {top} : Len(data[i]) = 0
    BY <2>3
  <2>6. DisjointInv
    <3> SUFFICES ASSUME NEW i \in Levels, NEW j \in Levels, i < j
                 PROVE  Disjoint(data[i], data[j])
      BY <1>1 DEF DisjointInv
    <3>1. i # j
      BY LevelFacts
    <3>2. Len(data[i]) = 0 \/ Len(data[j]) = 0
      BY <2>5, <3>1
    <3> QED
      BY <3>2 DEF Disjoint
  <2>7. /\ top \in Nat /\ MinLevel <= top /\ size <= Slots[top] /\ Slots[top] \in Nat
        /\ used_levels = top + 1 /\ MinLevel \in Nat
    BY <1>1, <2>1, <2>2, LevelNumbers
  <2>8. SizeInv
    <3>1. Len(Buffer) <= BufferCapacity
      <4>1. CASE top = MinLevel
        BY <2>1, <2>4, <2>7, <4>1, SlotFacts DEF Buffer
      <4>2. CASE top # MinLevel
        BY <2>5, <4>2, LevelFacts, SlotFacts DEF Buffer
      <4> QED
        BY <4>1, <4>2
    <3>2. ASSUME used_levels = MinLevel + 1 PROVE Buffer # <<>>
      <4>1. top = MinLevel
        BY <2>7, <3>2
      <4> QED
        BY <2>1, <2>4, <4>1 DEF Buffer
    <3>3. used_levels - 1 = top
      BY <2>7
    <3>4. Partial(used_levels - 1)
      BY <2>1, <2>4, <2>7, <3>3 DEF Partial
    <3>5. ASSUME NEW i \in (MinLevel + 1)..(used_levels - 2) PROVE data[i] = <<>>
      <4>1. i \in Levels \ {top}
        BY <2>7, LevelFacts
      <4> QED
        BY <2>3, <4>1
    <3> QED
      BY <1>1, <3>1, <3>2, <3>4, <3>5 DEF SizeInv
  <2> QED
    BY <1>1, <2>6, <2>8 DEF UInv
<1> QED
  BY <1>2, <1>3 DEF Init

\* insert of a key that has not been inserted.
LEMMA InsertItemKeepsU ==
  ASSUME IInv, UInv, ~Erasures, NEW item \in Genuine, contents[item.key] = Absent,
         InsertItem(item)
  PROVE  UInv'
<1>1. pc = "idle" /\ ~clobbered /\ ~clobbered' /\ item.key \in Keys
  BY ItemFields DEF InsertItem
<1>2. \A i \in Levels : Lacks(data[i], 1, item.key)
  BY <1>1, UniqueKey
<1>3. \A i, j \in Levels : i < j => Disjoint(data[i], data[j])
  BY <1>1 DEF UInv, DisjointInv
<1>4. /\ Len(Buffer) <= BufferCapacity
      /\ used_levels = MinLevel + 1 => Buffer # <<>>
      /\ used_levels > MinLevel + 1 => Partial(used_levels - 1)
      /\ \A i \in (MinLevel + 1)..(used_levels - 2) : data[i] = <<>> \/ Full(i)
  BY <1>1 DEF UInv, SizeInv
<1>5. CASE InsertDropped(item)
  <2>1. UNCHANGED <<data, used_levels, pc>>
    BY <1>5 DEF InsertDropped, index, call
  <2>2. DisjointInv' /\ SizeInv'
    BY <1>1, <1>3, <1>4, <2>1 DEF DisjointInv, SizeInv, Partial, Full, Buffer
  <2> QED
    BY <1>1, <2>2 DEF UInv
<1>6. CASE InsertIntoBuffer(item)
  <2> DEFINE t == Buffered(item)
  <2>1. /\ data' = [data EXCEPT ![MinLevel] = t] /\ Len(Buffer) < BufferCapacity
        /\ used_levels' = IF used_levels = MinLevel THEN MinLevel + 1 ELSE used_levels
        /\ pc' = "idle"
    BY <1>1, <1>6 DEF InsertIntoBuffer, call
  <2>2. Buffer \in Seq(Genuine) /\ Ordered(Buffer) /\ Genuine \subseteq Items
    BY <1>1, LevelFacts, ItemFields DEF IInv, TypeInv, OrderInv, Buffer, Pool
  <2>3. t \in Seq(Genuine) /\ Len(t) = Len(Buffer) + 1 /\ Len(Buffer) \in Nat
    BY <2>2, SortedInsert DEF Buffered
  <2>4. \A d : Disjoint(Buffer, d) /\ Lacks(d, 1, item.key) => Disjoint(t, d)
    BY <2>2, BufferedDisjoint DEF Buffered
  <2> HIDE DEF t
  <2>5. data'[MinLevel] = t /\ \A i \in Levels \ {MinLevel} : data'[i] = data[i]
    BY <2>1, LevelFacts DEF IInv, TypeInv
  <2>6. DisjointInv'
    <3> SUFFICES ASSUME NEW i \in Levels, NEW j \in Levels, i < j
                 PROVE  Disjoint(data'[i], data'[j])
      BY <2>1 DEF DisjointInv
    <3>1. j # MinLevel /\ MinLevel \in Levels
      BY LevelFacts
    <3>2. CASE i = MinLevel
      BY <1>2, <1>3, <2>4, <2>5, <3>1, <3>2 DEF Buffer
    <3>3. CASE i # MinLevel
      BY <1>3, <2>5, <3>1, <3>3
    <3> QED
      BY <3>2, <3>3
  <2>7. SizeInv'
    <3>1. Buffer' = t /\ Len(t) <= BufferCapacity /\ t # <<>>
      <4>1. Len(t) <= BufferCapacity
        BY <2>1, <2>3, SlotFacts
      <4> QED
        BY <2>3, <2>5, <4>1 DEF Buffer
    <3>2. /\ MinLevel \in Nat /\ MaxLevel \in Nat
          /\ used_levels \in MinLevel..(MaxLevel + 1)
      BY LevelNumbers
    <3>3. ASSUME used_levels' > MinLevel + 1 PROVE Partial(used_levels - 1)' 
      <4>1. used_levels' = used_levels /\ used_levels - 1 \in Levels \ {MinLevel}
        BY <2>1, <3>2, <3>3, LevelFacts
      <4> QED
        BY <1>4, <2>5, <3>3, <4>1 DEF Partial
    <3>4. ASSUME NEW i \in (MinLevel + 1)..(used_levels' - 2)
          PROVE  data'[i] = <<>> \/ Full(i)'
      <4>1. /\ i \in (MinLevel + 1)..(used_levels - 2)
            /\ i \in Levels \ {MinLevel}
        BY <2>1, <3>2, LevelFacts
      <4> QED
        BY <1>4, <2>5, <4>1 DEF Full
    <3> QED
      BY <2>1, <3>1, <3>3, <3>4 DEF SizeInv
  <2> QED
    BY <1>1, <2>6, <2>7 DEF UInv
<1>7. CASE BeginMerge(item)
  <2>1. /\ pc' = "slots" /\ new_item' = item /\ level' = MinLevel + 1
        /\ slots_required' = BufferCapacity + 1 /\ Len(Buffer) >= BufferCapacity
        /\ UNCHANGED <<data, used_levels>>
    BY <1>7 DEF BeginMerge, index
  <2>2. DisjointInv'
    BY <1>2, <1>3, <2>1 DEF DisjointInv
  <2>3. SizeInv'
    <3>1. Len(Buffer) = BufferCapacity
      <4>1. Len(Buffer) \in Nat
        BY LevelNumbers, LevelFacts DEF Buffer
      <4> QED
        BY <1>4, <2>1, <4>1, SlotFacts
    <3>2. slots_required' = Slots[level'] /\ Slots[level'] \in Nat
      <4>1. MinLevel + 1 \in 0..(MaxLevel + 1)
        BY LevelFacts
      <4> QED
        BY <2>1, <4>1, SlotFacts
    <3>3. (MinLevel + 1)..(level' - 1) = {} /\ ~(level' > MinLevel + 1) /\ slots_required' <= Slots[level']
      BY <2>1, <3>2, LevelFacts
    <3> QED
      BY <1>4, <2>1, <3>1, <3>2, <3>3 DEF SizeInv, Partial, Full, Buffer
  <2> QED
    BY <1>1, <2>2, <2>3 DEF UInv
<1> QED
  BY <1>5, <1>6, <1>7 DEF InsertItem

\* While the search for the target runs, a level that it leaves behind is full, so that the
\* room it needs is what the next level has.
LEMMA NoRoomKeepsU ==
  ASSUME IInv, UInv, NoRoom
  PROVE  UInv'
<1>1. /\ pc = "slots" /\ level < used_levels /\ slots_required > Slots[level] - Len(data[level])
      /\ slots_required' = slots_required + Len(data[level]) /\ level' = level + 1
      /\ UNCHANGED <<data, used_levels, clobbered, pc, new_item>>
  BY DEF NoRoom, index, SlotsLeft
<1>2. DisjointInv'
  BY <1>1 DEF UInv, DisjointInv
<1>3. /\ level \in (MinLevel + 1)..used_levels /\ used_levels \in MinLevel..(MaxLevel + 1)
      /\ MinLevel \in Nat /\ MaxLevel \in Nat
  BY <1>1, LevelNumbers DEF IInv, CallInv
<1>4. level \in Levels /\ level \in Int /\ used_levels \in Int
  BY <1>1, <1>3, LevelFacts
<1>5. /\ Len(Buffer) = BufferCapacity /\ slots_required = Slots[level]
      /\ \A j \in (MinLevel + 1)..(level - 1) : data[j] # <<>>
      /\ used_levels > MinLevel + 1 => Partial(used_levels - 1)
      /\ \A i \in (MinLevel + 1)..(used_levels - 2) : data[i] = <<>> \/ Full(i)
  BY <1>1 DEF UInv, SizeInv
<1>6. /\ Slots[level] \in Nat \ {0} /\ Len(data[level]) \in Nat
      /\ Slots[level + 1] = 2 * Slots[level] /\ (Len(data[level]) = 0 <=> data[level] = <<>>)
  BY <1>4, LevelNumbers
<1>7. data[level] # <<>>
  BY <1>1, <1>5, <1>6
<1>8. level < used_levels - 1 => Len(data[level]) = Slots[level]
  <2> SUFFICES ASSUME level < used_levels - 1 PROVE Len(data[level]) = Slots[level]
    OBVIOUS
  <2>1. level \in (MinLevel + 1)..(used_levels - 2)
    BY <1>3
  <2> QED
    BY <1>5, <1>7, <2>1 DEF Full
<1>9. Len(data[level]) <= Slots[level]
  <2>1. CASE level < used_levels - 1
    BY <1>6, <1>8, <2>1
  <2>2. CASE level = used_levels - 1
    <3>1. Partial(level)
      BY <1>3, <1>5, <2>2
    <3> QED
      BY <1>6, <3>1 DEF Partial
  <2> QED
    BY <1>1, <1>4, <2>1, <2>2
<1>10. /\ slots_required' = Slots[level] + Len(data[level])
       /\ slots_required' <= Slots[level'] /\ level' - 1 = level
       /\ level' < used_levels' => slots_required' = Slots[level']
  <2>1. slots_required' = Slots[level] + Len(data[level]) /\ Slots[level'] = 2 * Slots[level]
    BY <1>1, <1>5, <1>6
  <2>2. slots_required' <= Slots[level'] /\ level' - 1 = level
    BY <1>1, <1>4, <1>6, <1>9, <2>1
  <2>3. level' < used_levels' => slots_required' = Slots[level']
    BY <1>1, <1>4, <1>6, <1>8, <2>1
  <2> QED
    BY <2>1, <2>2, <2>3
<1>11. ASSUME NEW j \in (MinLevel + 1)..(level' - 1) PROVE data'[j] # <<>>
  <2>1. j = level \/ j \in (MinLevel + 1)..(level - 1)
    BY <1>3, <1>10
  <2> QED
    BY <1>1, <1>5, <1>7, <2>1
<1>12. SizeInv'
  BY <1>1, <1>5, <1>10, <1>11 DEF UInv, SizeInv, Partial, Full, Buffer
<1> QED
  BY <1>1, <1>2, <1>12 DEF UInv

\* The target has no items: the room that is needed is all that it has.
LEMMA TargetFoundKeepsU ==
  ASSUME IInv, UInv, TargetFound
  PROVE  UInv'
<1>1. /\ pc = "slots" /\ level <= MaxLevel
      /\ level = used_levels \/ slots_required <= Slots[level] - Len(data[level])
      /\ used_levels' = IF level = used_levels THEN used_levels + 1 ELSE used_levels
      /\ target' = level /\ clobbered' = (data[level] # <<>>)
      /\ pc' = "merge" /\ level' = MinLevel + 1
      /\ UNCHANGED <<data, slots_required, first1, first2, out>>
  BY DEF TargetFound, UsedAfter, SlotsLeft
<1>2. /\ level \in (MinLevel + 1)..used_levels /\ used_levels \in MinLevel..(MaxLevel + 1)
      /\ MinLevel \in Nat /\ MaxLevel \in Nat
      /\ first1 = 1 /\ first2 = 1 /\ out = <<>> /\ new_item \in Genuine /\ ~clobbered
  BY <1>1, LevelNumbers DEF IInv, CallInv, Pool
<1>3. level \in Levels /\ level \in Int /\ used_levels \in Int /\ MinLevel + 1 <= level
  BY <1>1, <1>2, LevelFacts
<1>4. /\ Len(Buffer) = BufferCapacity
      /\ \A j \in (MinLevel + 1)..(level - 1) : data[j] # <<>>
      /\ level < used_levels => slots_required = Slots[level]
      /\ level > MinLevel + 1 => slots_required = Slots[level - 1] + Len(data[level - 1])
      /\ used_levels > MinLevel + 1 => Partial(used_levels - 1)
      /\ \A i \in (MinLevel + 1)..(used_levels - 2) : data[i] = <<>> \/ Full(i)
  BY <1>1 DEF UInv, SizeInv
<1>5. data[level] = <<>>
  <2>1. CASE level = used_levels
    BY <1>3, <2>1, LevelNumbers
  <2>2. CASE level < used_levels
    <3>1. slots_required = Slots[level] /\ slots_required <= Slots[level] - Len(data[level])
      BY <1>1, <1>3, <1>4, <2>2
    <3>2. Slots[level] \in Nat /\ Len(data[level]) \in Nat /\ (Len(data[level]) = 0 <=> data[level] = <<>>)
      BY <1>3, LevelNumbers
    <3> QED
      BY <3>1, <3>2
  <2> QED
    BY <1>2, <2>1, <2>2
<1>6. ~clobbered'
  BY <1>1, <1>5
<1>7. /\ Newer' = Buffered(new_item) /\ Newer' \in Seq(Genuine)
      /\ Len(Newer') = Len(Buffer) + 1
  BY TargetFoundKeeps
<1>8. DisjointInv'
  <2>1. Buffer \in Seq(Genuine) /\ Ordered(Buffer) /\ Genuine \subseteq Items
    BY <1>2, LevelFacts, ItemFields DEF IInv, TypeInv, OrderInv, Buffer, Pool
  <2>2. \A d : Disjoint(Buffer, d) /\ Lacks(d, 1, new_item.key) => Disjoint(Newer', d)
    BY <1>2, <1>7, <2>1, BufferedDisjoint DEF Buffered
  <2>3. /\ \A i, j \in Levels : i < j => Disjoint(data[i], data[j])
        /\ \A i \in Levels : Lacks(data[i], 1, new_item.key)
    BY <1>1 DEF UInv, DisjointInv
  <2>4. \A j \in level'..MaxLevel : j \in Levels /\ MinLevel < j /\ MinLevel \in Levels
    BY <1>1, LevelFacts
  <2>5. \A j \in level'..MaxLevel : Disjoint(Newer', data[j])
    BY <2>2, <2>3, <2>4 DEF Buffer
  <2>6. \A j \in (level' + 1)..MaxLevel : Disjoint(out', data[j])
    BY <1>1, <1>2 DEF Disjoint
  <2>7. \A i, j \in level'..MaxLevel : i < j => Disjoint(data[i], data[j])
    BY <2>3, <2>4
  <2> QED
    BY <1>1, <2>5, <2>6, <2>7 DEF DisjointInv
<1>9. SizeInv'
  <2>1. Len(Newer') \in 1..Slots[level'] /\ Len(Newer') = Slots[level']
    BY <1>1, <1>4, <1>7, SlotFacts
  <2>2. used_levels' \in Int /\ level < used_levels' /\ used_levels <= used_levels'
    BY <1>1, <1>2, <1>3
  <2>3. ASSUME NEW j \in level'..(target' - 1)
        PROVE  Partial(j)' /\ (j < used_levels' - 2 => Full(j)')
    <3>1. /\ j \in (MinLevel + 1)..(level - 1) /\ j \in Levels /\ j \in Int
          /\ j <= used_levels - 1 /\ MinLevel + 1 < used_levels
      BY <1>1, <1>2, <1>3, LevelFacts
    <3>2. data[j] # <<>> /\ Len(data[j]) \in Nat \ {0} /\ Slots[j] \in Nat \ {0}
      BY <1>4, <3>1, LevelNumbers
    <3>3. CASE j = used_levels - 1
      <4>1. Partial(j)
        BY <1>4, <3>1, <3>3
      <4>2. ~(j < used_levels' - 2)
        BY <1>1, <1>3, <3>1, <3>3
      <4> QED
        BY <1>1, <4>1, <4>2 DEF Partial
    <3>4. CASE j < used_levels - 1
      <4>1. j \in (MinLevel + 1)..(used_levels - 2)
        BY <1>2, <3>1, <3>4
      <4>2. Len(data[j]) = Slots[j]
        BY <1>4, <3>2, <4>1 DEF Full
      <4> QED
        BY <1>1, <3>2, <4>2 DEF Partial, Full
    <3> QED
      BY <1>3, <3>1, <3>3, <3>4
  <2>4. ASSUME NEW j \in (target' + 1)..(used_levels' - 2)
        PROVE  data'[j] = <<>> \/ Full(j)'
    <3>1. j \in (MinLevel + 1)..(used_levels - 2)
      BY <1>1, <1>2, <1>3, <2>2
    <3> QED
      BY <1>1, <1>4, <3>1 DEF Full
  <2>5. ASSUME target' < used_levels' - 1 PROVE Partial(used_levels - 1)'
    <3>1. used_levels' = used_levels /\ used_levels > MinLevel + 1
      BY <1>1, <1>2, <1>3, <2>5
    <3> QED
      BY <1>1, <1>4, <3>1 DEF Partial
  <2>6. ASSUME level' < target'
        PROVE  slots_required' >= Slots[target' - 1] + Len(data'[target' - 1])
    <3>1. slots_required = Slots[level - 1] + Len(data[level - 1])
      BY <1>1, <1>2, <1>4, <2>6
    <3>2. level - 1 \in Levels
      BY <1>1, <1>3, <2>6, LevelFacts
    <3>3. Slots[level - 1] \in Nat /\ Len(data[level - 1]) \in Nat
      BY <3>2, LevelNumbers
    <3> QED
      BY <1>1, <3>1, <3>3
  <2>7. Len(out') = first1' - 1 + first2' - 1
    BY <1>1, <1>2
  <2>8. Len(Buffer') <= BufferCapacity
    BY <1>1, <1>4, SlotFacts DEF Buffer
  <2> QED
    BY <1>1, <2>1, <2>3, <2>4, <2>5, <2>6, <2>7, <2>8 DEF SizeInv
<1> QED
  BY <1>6, <1>8, <1>9 DEF UInv

\* The two items of a step have different keys: one of them is written.
LEMMA MergeStepKeepsU ==
  ASSUME IInv, UInv, MergeStep
  PROVE  UInv'
<1> DEFINE N == Newer
           D == data[level]
<1>1. /\ pc = "merge" /\ level <= Limit
      /\ first1 <= Len(N) /\ first2 <= Len(D)
      /\ UNCHANGED <<data, used_levels, clobbered, pc, level, slots_required, target, tmp>>
  BY DEF MergeStep, index
<1>2. /\ level \in Levels /\ level \in Int /\ target \in Int
      /\ out \in Seq(Items) /\ N \in Seq(Items) /\ D \in Seq(Items)
      /\ first1 \in 1..Len(N) /\ first2 \in 1..Len(D)
  <2>1. /\ level \in Levels /\ level \in Int /\ target \in Int
        /\ out \in Seq(Items) /\ N \in Seq(Items) /\ D \in Seq(Items)
        /\ first1 \in 1..(Len(N) + 1) /\ first2 \in 1..(Len(D) + 1)
    BY <1>1, PassFacts
  <2> QED
    BY <1>1, <2>1
<1>3. /\ \A i, j \in level..MaxLevel : i < j => Disjoint(data[i], data[j])
      /\ \A j \in level..MaxLevel : Disjoint(N, data[j])
      /\ \A j \in (level + 1)..MaxLevel : Disjoint(out, data[j])
  BY <1>1 DEF UInv, DisjointInv
<1>4. level \in level..MaxLevel /\ \A j \in (level + 1)..MaxLevel : j \in level..MaxLevel /\ level < j
  BY <1>2, LevelFacts
<1>5. N[first1].key # D[first2].key
  BY <1>2, <1>3, <1>4 DEF Disjoint
<1>6. PICK z \in {N[first1], D[first2]} :
        /\ out' = Append(out, z)
        /\ \/ first1' = first1 /\ first2' = first2 + 1
           \/ first1' = first1 + 1 /\ first2' = first2
  BY <1>5 DEF MergeStep
<1>7. Newer' = N
  BY <1>1 DEF Newer
<1>8. DisjointInv'
  <2>1. ASSUME NEW j \in (level + 1)..MaxLevel PROVE Disjoint(Append(out, z), data[j])
    <3>1. Disjoint(N, data[j]) /\ Disjoint(D, data[j]) /\ Disjoint(out, data[j])
      BY <1>3, <1>4
    <3>2. \A n \in 1..Len(data[j]) : z.key # data[j][n].key
      BY <1>2, <1>6, <3>1 DEF Disjoint
    <3>3. \A n \in 1..Len(data[j]) : Lacks(out, 1, data[j][n].key)
      BY <3>1, DisjointLacks
    <3>4. z \in Items
      BY <1>2, <1>6
    <3>5. \A n \in 1..Len(data[j]) : Lacks(Append(out, z), 1, data[j][n].key)
      BY <1>2, <3>2, <3>3, <3>4, AppendShows
    <3> QED
      BY <3>5, DisjointLacks
  <2> QED
    BY <1>1, <1>3, <1>6, <1>7, <2>1 DEF DisjointInv
<1>9. SizeInv'
  <2>1. Len(out) = first1 - 1 + first2 - 1 /\ z \in Items
    BY <1>1, <1>2, <1>6 DEF UInv, SizeInv
  <2>2. Len(out') = Len(out) + 1
    BY <1>2, <1>6, <2>1, AppendProperties
  <2>3. Len(out') = first1' - 1 + first2' - 1
    BY <1>2, <1>6, <2>1, <2>2
  <2> QED
    BY <1>1, <1>7, <2>3 DEF UInv, SizeInv, Partial, Full, Buffer
<1> QED
  BY <1>1, <1>8, <1>9 DEF UInv

\* What two full levels hold fills the next.
LEMMA PassDoneKeepsU ==
  ASSUME IInv, UInv, PassDone
  PROVE  UInv'
<1> DEFINE N == Newer
           D == data[level]
           w == out \o SubSeq(N, first1, Len(N)) \o SubSeq(D, first2, Len(D))
<1>1. /\ pc = "merge" /\ level <= Limit
      /\ data' = [data EXCEPT ![level] = <<>>]
      /\ level' = level + 1 /\ first1' = 1 /\ first2' = 1 /\ out' = <<>>
      /\ UNCHANGED <<used_levels, clobbered, pc, slots_required, target>>
  BY DEF PassDone, Emptied
<1>2. Newer' = w
  BY PassDoneKeeps
<1>3. /\ level \in Levels /\ level \in Int /\ target \in Levels /\ target \in Int
      /\ used_levels \in Int /\ used_levels <= MaxLevel + 1
      /\ MinLevel < level /\ level < target /\ target < used_levels
      /\ N \in Seq(Items) /\ D \in Seq(Items) /\ out \in Seq(Items)
      /\ first1 \in 1..(Len(N) + 1) /\ first2 \in 1..(Len(D) + 1)
  BY <1>1, PassFacts DEF UInv
<1>4. data'[level] = <<>> /\ \A i \in Levels \ {level} : data'[i] = data[i]
  BY <1>1, <1>3 DEF IInv, TypeInv
<1>5. /\ Len(w) = Len(out) + (Len(N) - first1 + 1) + (Len(D) - first2 + 1)
      /\ \A k : Lacks(out, 1, k) /\ Lacks(N, first1, k) /\ Lacks(D, first2, k) => Lacks(w, 1, k)
  <2> HIDE DEF N, D
  <2>1. Items \subseteq Items
    OBVIOUS
  <2>2. Len(w) = Len(out) + (Len(N) - first1 + 1) + (Len(D) - first2 + 1)
    BY <1>3, PassLength
  <2>3. \A k : Lacks(out, 1, k) /\ Lacks(N, first1, k) /\ Lacks(D, first2, k) => Lacks(w, 1, k)
    BY <1>3, <2>1, PassWrites
  <2> QED
    BY <2>2, <2>3
<1> HIDE DEF w, N, D
<1>6. DisjointInv'
  <2>1. /\ \A i, j \in level..MaxLevel : i < j => Disjoint(data[i], data[j])
        /\ \A j \in level..MaxLevel : Disjoint(N, data[j])
        /\ \A j \in (level + 1)..MaxLevel : Disjoint(out, data[j])
    BY <1>1 DEF UInv, DisjointInv, N
  <2>2. /\ level \in level..MaxLevel
        /\ \A j \in (level + 1)..MaxLevel : /\ j \in level..MaxLevel /\ level < j
                                            /\ j \in Levels \ {level}
    BY <1>3, LevelFacts
  <2>3. ASSUME NEW j \in (level + 1)..MaxLevel PROVE Disjoint(w, data'[j])
    <3>1. data'[j] = data[j]
      BY <1>4, <2>2
    <3>2. Disjoint(N, data[j]) /\ Disjoint(D, data[j]) /\ Disjoint(out, data[j])
      BY <2>1, <2>2 DEF D
    <3>3. ASSUME NEW n \in 1..Len(data[j]) PROVE Lacks(w, 1, data[j][n].key)
      <4>1. /\ Lacks(out, 1, data[j][n].key) /\ Lacks(N, 1, data[j][n].key)
            /\ Lacks(D, 1, data[j][n].key)
        BY <3>2, DisjointLacks
      <4>2. Lacks(N, first1, data[j][n].key) /\ Lacks(D, first2, data[j][n].key)
        BY <1>3, <4>1 DEF Lacks
      <4> QED
        BY <1>5, <4>1, <4>2
    <3> QED
      BY <3>1, <3>3, DisjointLacks
  <2>4. \A i, j \in (level + 1)..MaxLevel : i < j => Disjoint(data'[i], data'[j])
    BY <1>4, <2>1, <2>2
  <2>5. \A j \in (level' + 1)..MaxLevel : Disjoint(out', data'[j])
    BY <1>1 DEF Disjoint
  <2> QED
    BY <1>1, <1>2, <2>3, <2>4, <2>5 DEF DisjointInv
<1>7. SizeInv'
  <2>1. /\ Len(Buffer) <= BufferCapacity
        /\ Len(N) \in 1..Slots[level]
        /\ level < used_levels - 1 => Len(N) = Slots[level]
        /\ \A j \in level..(target - 1) : Partial(j) /\ (j < used_levels - 2 => Full(j))
        /\ \A j \in (target + 1)..(used_levels - 2) : data[j] = <<>> \/ Full(j)
        /\ target < used_levels - 1 => Partial(used_levels - 1)
        /\ level < target => slots_required >= Slots[target - 1] + Len(data[target - 1])
        /\ Len(out) = first1 - 1 + first2 - 1
    BY <1>1 DEF UInv, SizeInv, N
  <2>2. Slots[level] \in Nat /\ Slots[level + 1] = 2 * Slots[level] /\ Len(N) \in Nat /\ Len(D) \in Nat
    <3>1. Len(N) \in Nat /\ Len(D) \in Nat
      BY <1>3
    <3>2. Slots[level] \in Nat /\ Slots[level + 1] = 2 * Slots[level]
      BY <1>3, LevelNumbers
    <3> QED
      BY <3>1, <3>2
  <2>3. Len(w) = Len(N) + Len(D)
    BY <1>3, <1>5, <2>1, <2>2
  <2>4. Len(D) \in 1..Slots[level] /\ (level < used_levels - 2 => Len(D) = Slots[level])
    <3>1. level \in level..(target - 1)
      BY <1>3
    <3> QED
      BY <2>1, <3>1 DEF Partial, Full, D
  <2>5. /\ Len(Newer') \in 1..Slots[level']
        /\ level' < used_levels' - 1 => Len(Newer') = Slots[level']
    <3>1. Len(w) \in 1..Slots[level + 1]
      BY <2>1, <2>2, <2>3, <2>4
    <3>2. ASSUME level + 1 < used_levels - 1 PROVE Len(w) = Slots[level + 1]
      <4>1. level < used_levels - 1 /\ level < used_levels - 2
        BY <1>3, <3>2
      <4> QED
        BY <2>1, <2>2, <2>3, <2>4, <4>1
    <3> QED
      BY <1>1, <1>2, <3>1, <3>2
  <2>6. ASSUME NEW j \in level'..(target' - 1)
        PROVE  Partial(j)' /\ (j < used_levels' - 2 => Full(j)')
    <3>1. j \in level..(target - 1) /\ j \in Levels \ {level}
      BY <1>1, <1>3, LevelFacts
    <3>2. data'[j] = data[j]
      BY <1>4, <3>1
    <3> QED
      BY <1>1, <2>1, <3>1, <3>2 DEF Partial, Full
  <2>7. ASSUME NEW j \in (target' + 1)..(used_levels' - 2)
        PROVE  data'[j] = <<>> \/ Full(j)'
    <3>1. j \in (target + 1)..(used_levels - 2) /\ j \in Levels \ {level}
      BY <1>1, <1>3, LevelFacts
    <3>2. data'[j] = data[j]
      BY <1>4, <3>1
    <3> QED
      BY <2>1, <3>1, <3>2 DEF Full
  <2>8. ASSUME target' < used_levels' - 1 PROVE Partial(used_levels - 1)'
    <3>1. target < used_levels - 1 /\ used_levels - 1 \in Levels \ {level}
      BY <1>1, <1>3, <2>8, LevelFacts
    <3>2. data'[used_levels - 1] = data[used_levels - 1]
      BY <1>4, <3>1
    <3> QED
      BY <1>1, <2>1, <3>1, <3>2 DEF Partial
  <2>9. ASSUME level' < target'
        PROVE  slots_required' >= Slots[target' - 1] + Len(data'[target' - 1])
    <3>1. target - 1 \in Levels \ {level}
      BY <1>1, <1>3, <2>9, LevelFacts
    <3>2. data'[target - 1] = data[target - 1]
      BY <1>4, <3>1
    <3> QED
      BY <1>1, <1>3, <2>1, <3>2
  <2>10. Len(Buffer') <= BufferCapacity
    <3>1. MinLevel \in Levels \ {level}
      BY <1>3, LevelFacts
    <3> QED
      BY <1>4, <2>1, <3>1 DEF Buffer
  <2>11. Len(out') = first1' - 1 + first2' - 1
    BY <1>1
  <2> QED
    BY <1>1, <2>5, <2>6, <2>7, <2>8, <2>9, <2>10, <2>11 DEF SizeInv
<1> QED
  BY <1>1, <1>6, <1>7 DEF UInv

LEMMA StoreKeepsU ==
  ASSUME IInv, UInv, Store
  PROVE  UInv'
<1>1. /\ pc = "merge" /\ level > Limit /\ pc' = "idle" /\ ~clobbered
      /\ UNCHANGED <<used_levels, clobbered>>
  BY DEF Store, UInv
<1>2. PICK junk : data' = [data EXCEPT ![MinLevel] = <<>>, ![target] = Stored(junk)]
  BY DEF Store
<1>3. level = target /\ Stored(junk) = Newer
  BY <1>1, StoredFacts
<1>4. /\ target \in (MinLevel + 1)..(used_levels - 1) /\ used_levels \in MinLevel..(MaxLevel + 1)
      /\ MinLevel \in Nat /\ MaxLevel \in Nat
      /\ \A j \in (MinLevel + 1)..(target - 1) : data[j] = <<>>
  BY <1>1, <1>3, LevelNumbers DEF IInv, CallInv
<1>5. /\ target \in Levels /\ target \in Int /\ MinLevel \in Levels /\ target # MinLevel
      /\ MinLevel < target /\ target < used_levels /\ used_levels \in Int
  BY <1>4, LevelFacts
<1>6. /\ data'[target] = Newer /\ data'[MinLevel] = <<>>
      /\ \A i \in Levels \ {MinLevel, target} : data'[i] = data[i]
  BY <1>2, <1>3, <1>5 DEF IInv, TypeInv
<1>7. \A i \in Levels : i < target => data'[i] = <<>>
  <2> SUFFICES ASSUME NEW i \in Levels, i < target PROVE data'[i] = <<>>
    OBVIOUS
  <2>1. i = MinLevel \/ i \in (MinLevel + 1)..(target - 1)
    BY <1>5, LevelFacts
  <2>2. i # target
    BY <1>5
  <2> QED
    BY <1>4, <1>6, <2>1, <2>2
<1>8. DisjointInv'
  <2> SUFFICES ASSUME NEW i \in Levels, NEW j \in Levels, i < j
               PROVE  Disjoint(data'[i], data'[j])
    BY <1>1 DEF DisjointInv
  <2>1. /\ \A m, n \in target..MaxLevel : m < n => Disjoint(data[m], data[n])
        /\ \A n \in target..MaxLevel : Disjoint(Newer, data[n])
    BY <1>1, <1>3 DEF UInv, DisjointInv
  <2>2. CASE i < target
    BY <1>7, <2>2 DEF Disjoint
  <2>3. CASE i >= target
    <3>1. i \in target..MaxLevel /\ j \in target..MaxLevel /\ j # target /\ j # MinLevel /\ i # MinLevel
      BY <1>5, <2>3, LevelFacts
    <3>2. data'[j] = data[j] /\ (i # target => data'[i] = data[i])
      BY <1>6, <3>1
    <3> QED
      BY <1>6, <2>1, <3>1, <3>2
  <2> QED
    BY <1>5, <2>2, <2>3, LevelFacts
<1>9. SizeInv'
  <2>1. /\ Len(Newer) \in 1..Slots[target]
        /\ target < used_levels - 1 => Len(Newer) = Slots[target]
        /\ \A j \in (target + 1)..(used_levels - 2) : data[j] = <<>> \/ Full(j)
        /\ target < used_levels - 1 => Partial(used_levels - 1)
    BY <1>1, <1>3 DEF UInv, SizeInv
  <2>2. Len(Buffer') <= BufferCapacity /\ used_levels' # MinLevel + 1
    BY <1>1, <1>5, <1>6, SlotFacts, LevelFacts DEF Buffer
  <2>3. Partial(used_levels - 1)'
    <3>1. CASE target = used_levels - 1
      BY <1>1, <1>6, <2>1, <3>1 DEF Partial
    <3>2. CASE target < used_levels - 1
      <4>1. used_levels - 1 \in Levels \ {MinLevel, target}
        BY <1>4, <1>5, <3>2, LevelFacts
      <4>2. data'[used_levels - 1] = data[used_levels - 1]
        BY <1>6, <4>1
      <4> QED
        BY <1>1, <2>1, <3>2, <4>2 DEF Partial
    <3> QED
      BY <1>5, <3>1, <3>2
  <2>4. ASSUME NEW i \in (MinLevel + 1)..(used_levels' - 2)
        PROVE  data'[i] = <<>> \/ Full(i)'
    <3>1. i \in Levels /\ i \in Int /\ i # MinLevel /\ i < used_levels - 1
      BY <1>1, <1>4, <1>5, LevelFacts
    <3>2. CASE i < target
      BY <1>7, <3>1, <3>2
    <3>3. CASE i = target
      BY <1>6, <2>1, <3>1, <3>3 DEF Full
    <3>4. CASE i > target
      <4>1. i \in (target + 1)..(used_levels - 2) /\ i # target
        BY <1>5, <3>1, <3>4
      <4> QED
        BY <1>6, <2>1, <3>1, <4>1 DEF Full
    <3> QED
      BY <1>5, <3>1, <3>2, <3>3, <3>4
  <2> QED
    BY <1>1, <2>2, <2>3, <2>4 DEF SizeInv
<1> QED
  BY <1>1, <1>8, <1>9 DEF UInv

LEMMA UNextKeeps ==
  ASSUME ~Updates, ~Erasures, IInv, UInv, [Next]_vars
  PROVE  UInv'
<1>1. ASSUME NEW k \in Keys, NEW v \in Values, Insert(k, v)
      PROVE  UInv'
  <2>1. Item(k, v) \in Genuine /\ Item(k, v).key = k
    BY DEF Item, Genuine, Items
  <2>2. InsertItem(Item(k, v)) /\ contents[k] = Absent
    BY <1>1 DEF Insert
  <2> QED
    BY <2>1, <2>2, InsertItemKeepsU
<1>2. \A k \in Keys : ~Erase(k)
  BY DEF Erase
<1>3. ASSUME Merging PROVE UInv'
  BY <1>3, NoRoomKeepsU, TargetFoundKeepsU, MergeStepKeepsU, PassDoneKeepsU, StoreKeepsU
     DEF Merging
<1>4. ASSUME UNCHANGED vars PROVE UInv'
  <2>1. UNCHANGED <<data, used_levels, clobbered, pc, new_item, level,
                    slots_required, target, tmp, first1, first2, out>>
    BY <1>4 DEF vars, index, call
  <2>2. Newer' = Newer /\ Buffer' = Buffer
    BY <2>1 DEF Newer, Buffer
  <2> QED
    BY <2>1, <2>2 DEF UInv, DisjointInv, SizeInv, Partial, Full
<1> QED
  BY <1>1, <1>2, <1>3, <1>4 DEF Next

\* The inductive invariant: the sequences to be merged have no key in common, and every
\* level but the last is empty or full.
THEOREM PGMUniqueInvariant ==
  ASSUME ~Updates, ~Erasures
  PROVE  Spec => [](IInv /\ UInv)
  BY InitHolds, NextKeeps, UInitHolds, UNextKeeps, PTL DEF Spec

\* No merge meets items in its target, so the alternation of tmp_a and tmp_b is right.
THEOREM PGMTargetsEmpty ==
  ASSUME ~Updates, ~Erasures
  PROVE  Spec => []TargetsEmpty
<1>1. UInv => TargetsEmpty
  BY DEF UInv, TargetsEmpty
<1> QED
  BY <1>1, PGMUniqueInvariant, PTL

\* find answers as a map would after the same insertions, whatever the merges have moved.
THEOREM PGMFindCorrect ==
  ASSUME ~Updates, ~Erasures
  PROVE  Spec => []FindCorrect
<1>1. ZeroFree
  BY DEF ZeroFree
<1>2. TargetsEmpty /\ FindCorrectUnlessClobbered => FindCorrect
  BY DEF TargetsEmpty, FindCorrectUnlessClobbered
<1> QED
  BY <1>1, <1>2, PGMTargetsEmpty, PGMFindCorrectUnlessClobbered, PTL

\* No level outgrows its slots, no pass its array, and used_levels is one more than the
\* last level with items.
THEOREM PGMLevelsFit ==
  ASSUME ~Updates, ~Erasures
  PROVE  Spec => []LevelsFit
<1> SUFFICES ASSUME IInv, UInv PROVE LevelsFit
  BY PGMUniqueInvariant, PTL
<1>1. /\ MinLevel \in Nat /\ MaxLevel \in Nat /\ used_levels \in Int
      /\ used_levels <= MaxLevel + 1 /\ MinLevel <= used_levels
  BY LevelNumbers
<1>2. Len(Buffer) < Slots[MinLevel + 1]
  <2>1. Len(Buffer) \in Nat /\ Len(Buffer) <= BufferCapacity
    BY LevelNumbers, LevelFacts DEF UInv, SizeInv, Buffer
  <2> QED
    BY <2>1, SlotFacts
<1>3. ASSUME NEW i \in (MinLevel + 1)..MaxLevel PROVE Len(data[i]) <= Slots[i]
  <2>1. /\ i \in Levels /\ i \in Int /\ Slots[i] \in Nat /\ Len(data[i]) \in Nat
        /\ (data[i] = <<>> => Len(data[i]) = 0)
    <3>1. i \in Levels
      BY <1>1, LevelFacts
    <3> QED
      BY <3>1, LevelNumbers
  <2>2. CASE i >= used_levels
    BY <2>1, <2>2, LevelNumbers
  <2>3. ASSUME Partial(i) \/ data[i] = <<>> \/ Full(i) PROVE Len(data[i]) <= Slots[i]
    BY <2>1, <2>3 DEF Partial, Full
  <2>4. CASE i < used_levels /\ pc # "merge"
    <3>1. CASE i = used_levels - 1
      <4>1. used_levels > MinLevel + 1
        BY <1>1, <3>1
      <4> QED
        BY <2>3, <2>4, <3>1, <4>1 DEF UInv, SizeInv
    <3>2. CASE i < used_levels - 1
      <4>1. i \in (MinLevel + 1)..(used_levels - 2)
        BY <1>1, <3>2
      <4> QED
        BY <2>3, <2>4, <4>1 DEF UInv, SizeInv
    <3> QED
      BY <1>1, <2>1, <2>4, <3>1, <3>2
  <2>5. CASE i < used_levels /\ pc = "merge"
    <3>1. /\ target \in (MinLevel + 1)..(used_levels - 1) /\ level \in (MinLevel + 1)..(target + 1)
          /\ data[target] = <<>> /\ \A j \in (MinLevel + 1)..(level - 1) : data[j] = <<>>
      BY <2>5 DEF IInv, CallInv, UInv
    <3>2. CASE i < level
      <4>1. i \in (MinLevel + 1)..(level - 1)
        BY <1>1, <3>1, <3>2
      <4> QED
        BY <2>3, <3>1, <4>1
    <3>3. CASE level <= i /\ i < target
      <4>1. i \in level..(target - 1)
        BY <1>1, <3>1, <3>3
      <4> QED
        BY <2>3, <2>5, <4>1 DEF UInv, SizeInv
    <3>4. CASE i = target
      BY <2>3, <3>1, <3>4
    <3>5. CASE target < i /\ i < used_levels - 1
      <4>1. i \in (target + 1)..(used_levels - 2)
        BY <1>1, <3>1, <3>5
      <4> QED
        BY <2>3, <2>5, <4>1 DEF UInv, SizeInv
    <3>6. CASE target < i /\ i = used_levels - 1
      BY <2>3, <2>5, <3>6 DEF UInv, SizeInv
    <3> QED
      BY <1>1, <2>1, <2>5, <3>1, <3>2, <3>3, <3>4, <3>5, <3>6
  <2> QED
    BY <1>1, <2>1, <2>2, <2>4, <2>5
<1>4. ASSUME pc = "merge" PROVE Len(out) <= slots_required
  <2>1. slots_required \in Nat
    BY DEF IInv, TypeInv
  <2>2. CASE level > Limit
    BY <1>4, <2>1, <2>2 DEF IInv, CallInv
  <2>3. CASE level <= Limit
    <3>1. /\ level \in Levels /\ level \in Int /\ target \in Levels /\ target \in Int
          /\ MinLevel < level /\ level < target
          /\ Newer \in Seq(Items) /\ data[level] \in Seq(Items)
          /\ first1 \in 1..(Len(Newer) + 1) /\ first2 \in 1..(Len(data[level]) + 1)
      BY <1>4, <2>3, PassFacts DEF UInv
    <3>2. /\ Len(Newer) \in 1..Slots[level] /\ Partial(level)
          /\ slots_required >= Slots[target - 1] + Len(data[target - 1])
          /\ Len(out) = first1 - 1 + first2 - 1
      <4>1. level \in level..(target - 1)
        BY <3>1
      <4> QED
        BY <1>4, <3>1, <4>1 DEF UInv, SizeInv
    <3>3. Slots[level] \in Nat /\ Slots[level + 1] = 2 * Slots[level] /\ Len(data[level]) \in Nat
      BY <3>1, LevelNumbers
    <3>4. Len(data[level]) <= Slots[level] /\ Len(Newer) <= Slots[level]
      BY <3>2, <3>3 DEF Partial
    <3>5. Len(Newer) \in Nat /\ Len(out) <= Len(Newer) + Len(data[level]) /\ Len(out) \in Int
      <4>1. Len(Newer) \in Nat
        BY <3>1
      <4>2. /\ first1 \in Int /\ first2 \in Int
            /\ first1 <= Len(Newer) + 1 /\ first2 <= Len(data[level]) + 1
        BY <3>1, <3>3, <4>1
      <4> QED
        BY <3>2, <3>3, <4>1, <4>2
    <3>6. target - 1 \in Levels
      BY <3>1, LevelFacts
    <3>7. Slots[target - 1] \in Nat /\ Len(data[target - 1]) \in Nat
      BY <3>6, LevelNumbers
    <3>8. CASE level = target - 1
      BY <2>1, <3>2, <3>3, <3>4, <3>5, <3>8
    <3>9. CASE level < target - 1
      <4>1. level + 1 \in 0..(MaxLevel + 1) /\ target - 1 \in 0..(MaxLevel + 1) /\ level + 1 <= target - 1
        BY <3>1, <3>9, LevelFacts
      <4>2. Slots[level + 1] <= Slots[target - 1]
        BY <4>1, SlotFacts
      <4> QED
        BY <2>1, <3>2, <3>3, <3>4, <3>5, <3>7, <4>2
    <3> QED
      BY <3>1, <3>8, <3>9
  <2>4. Limit \in Int /\ level \in Int
    BY <1>1 DEF IInv, TypeInv, Limit, Levels
  <2> QED
    BY <2>2, <2>3, <2>4
<1>5. ASSUME pc = "idle" PROVE used_levels = MinLevel \/ data[used_levels - 1] # <<>>
  <2>1. CASE used_levels = MinLevel + 1
    <3>1. Buffer # <<>> /\ used_levels - 1 = MinLevel
      BY <1>1, <1>5, <2>1 DEF UInv, SizeInv
    <3> QED
      BY <3>1 DEF Buffer
  <2>2. CASE used_levels > MinLevel + 1
    <3>1. Partial(used_levels - 1)
      BY <1>5, <2>2 DEF UInv, SizeInv
    <3>2. used_levels - 1 \in Levels
      BY <1>1, <2>2, LevelFacts
    <3>3. Len(data[used_levels - 1]) # 0
      BY <3>1 DEF Partial
    <3> QED
      BY <3>3
  <2> QED
    BY <1>1, <2>1, <2>2
<1>6. ASSUME NEW i \in Levels, data[i] # <<>>
      PROVE  i < used_levels /\ i < MinLevel + num_levels
  <2>1. i < used_levels /\ used_levels <= MinLevel + num_levels /\ num_levels \in Nat
    BY <1>6 DEF IInv, LevelInv, TypeInv
  <2> QED
    BY <1>1, <2>1, LevelFacts
<1> QED
  BY <1>2, <1>3, <1>4, <1>5, <1>6 DEF LevelsFit

-----------------------------------------------------------------------------
(* No key is twice in a level. *)

Distinct(s) == \A m, n \in 1..Len(s) : m # n => s[m].key # s[n].key

\* No sequence has a key twice, and no key that a pass has written is met again.
DistinctInv ==
  /\ \A i \in Levels : Distinct(data[i])
  /\ pc = "merge" =>
       /\ Distinct(Newer) /\ Distinct(out)
       /\ \A n \in 1..Len(out) : /\ Lacks(Newer, first1, out[n].key)
                                 /\ level \in Levels => Lacks(data[level], first2, out[n].key)

\* Two sequences without a common key, one after the other.
LEMMA ConcatDistinct ==
  ASSUME NEW S, NEW a \in Seq(S), NEW b \in Seq(S), Distinct(a), Distinct(b), Disjoint(a, b)
  PROVE  /\ Distinct(a \o b)
         /\ \A d : Disjoint(a, d) /\ Disjoint(b, d) => Disjoint(a \o b, d)
<1> DEFINE c == a \o b
<1>1. /\ Len(a) \in Nat /\ Len(b) \in Nat /\ Len(c) = Len(a) + Len(b)
      /\ \A n \in 1..Len(c) : c[n] = IF n <= Len(a) THEN a[n] ELSE b[n - Len(a)]
  BY ConcatProperties
<1> HIDE DEF c
<1>2. ASSUME NEW n \in 1..Len(c)
      PROVE  \/ n \in 1..Len(a) /\ c[n] = a[n]
             \/ n - Len(a) \in 1..Len(b) /\ c[n] = b[n - Len(a)] /\ n > Len(a)
  BY <1>1
<1>3. ASSUME NEW m \in 1..Len(c), NEW n \in 1..Len(c), m # n
      PROVE  c[m].key # c[n].key
  <2>1. m \in Int /\ n \in Int /\ Len(a) \in Int
    BY <1>1
  <2>2. CASE m \in 1..Len(a) /\ n \in 1..Len(a) /\ c[m] = a[m] /\ c[n] = a[n]
    BY <1>3, <2>2 DEF Distinct
  <2>3. CASE m \in 1..Len(a) /\ n - Len(a) \in 1..Len(b) /\ c[m] = a[m] /\ c[n] = b[n - Len(a)]
    BY <2>3 DEF Disjoint
  <2>4. CASE n \in 1..Len(a) /\ m - Len(a) \in 1..Len(b) /\ c[n] = a[n] /\ c[m] = b[m - Len(a)]
    BY <2>4 DEF Disjoint
  <2>5. CASE /\ m - Len(a) \in 1..Len(b) /\ n - Len(a) \in 1..Len(b)
             /\ c[m] = b[m - Len(a)] /\ c[n] = b[n - Len(a)]
    <3>1. m - Len(a) # n - Len(a)
      BY <1>3, <2>1
    <3> QED
      BY <2>5, <3>1 DEF Distinct
  <2> QED
    BY <1>2, <2>2, <2>3, <2>4, <2>5
<1>4. ASSUME NEW d, Disjoint(a, d), Disjoint(b, d) PROVE Disjoint(c, d)
  BY <1>2, <1>4 DEF Disjoint
<1> QED
  BY <1>3, <1>4 DEF Distinct, c

\* The rest of a sequence.
LEMMA RestDistinct ==
  ASSUME NEW s \in Seq(Items), NEW lo \in 1..(Len(s) + 1), Distinct(s)
  PROVE  LET t == SubSeq(s, lo, Len(s))
         IN  /\ t \in Seq(Items) /\ Distinct(t)
             /\ \A d : (\A n \in 1..Len(d) : Lacks(s, lo, d[n].key)) => Disjoint(d, t)
<1> DEFINE t == SubSeq(s, lo, Len(s))
<1>1. /\ t \in Seq(Items) /\ Len(t) = Len(s) - lo + 1
      /\ \A n \in 1..Len(t) : t[n] = s[lo + n - 1]
  BY RestOf
<1>2. Len(s) \in Nat /\ lo \in Nat /\ lo >= 1
  OBVIOUS
<1> HIDE DEF t
<1>3. \A n \in 1..Len(t) : lo + n - 1 \in 1..Len(s) /\ lo + n - 1 \in lo..Len(s)
  BY <1>1, <1>2
<1>4. Distinct(t)
  <2> SUFFICES ASSUME NEW m \in 1..Len(t), NEW n \in 1..Len(t), m # n
               PROVE  t[m].key # t[n].key
    BY DEF Distinct
  <2>1. lo + m - 1 # lo + n - 1
    BY <1>2
  <2> QED
    BY <1>1, <1>3, <2>1 DEF Distinct
<1>5. ASSUME NEW d, \A n \in 1..Len(d) : Lacks(s, lo, d[n].key) PROVE Disjoint(d, t)
  BY <1>1, <1>3, <1>5 DEF Disjoint, Lacks
<1> QED
  BY <1>1, <1>4, <1>5 DEF t

\* The buffer with a new key.
LEMMA BufferedDistinct ==
  ASSUME NEW s \in Seq(Items), Ordered(s), Distinct(s), NEW x \in Items, Lacks(s, 1, x.key)
  PROVE  Distinct(InsertAt(s, Before(s, x.key) + 1, x))
<1> DEFINE p == Before(s, x.key) + 1
           t == InsertAt(s, p, x)
<1>1. p \in 1..(Len(s) + 1) /\ Len(s) \in Nat
  <2>1. x.key \in Int
    BY ItemFields
  <2>2. Before(s, x.key) \in 0..Len(s) /\ Len(s) \in Nat
    BY <2>1, LowerBound
  <2> QED
    BY <2>2
<1> HIDE DEF p
<1>2. /\ Len(t) = Len(s) + 1 /\ t[p] = x
      /\ \A m \in 1..(p - 1) : t[m] = s[m]
      /\ \A m \in (p + 1)..(Len(s) + 1) : t[m] = s[m - 1]
  BY <1>1, InsertedAt
<1> HIDE DEF t
<1> DEFINE from(m) == IF m < p THEN m ELSE m - 1
<1>3. ASSUME NEW m \in 1..Len(t), m # p
      PROVE  from(m) \in 1..Len(s) /\ t[m] = s[from(m)]
  <2>1. CASE m < p
    BY <1>1, <1>2, <2>1
  <2>2. CASE m > p
    BY <1>1, <1>2, <2>2
  <2> QED
    BY <1>1, <1>3, <2>1, <2>2
<1>4. ASSUME NEW m \in 1..Len(t), NEW n \in 1..Len(t), m # n
      PROVE  t[m].key # t[n].key
  <2>1. CASE m = p
    BY <1>2, <1>3, <1>4, <2>1 DEF Lacks
  <2>2. CASE n = p
    BY <1>2, <1>3, <1>4, <2>2 DEF Lacks
  <2>3. CASE m # p /\ n # p
    <3>1. from(m) # from(n)
      BY <1>1, <1>2, <1>4, <2>3
    <3>2. /\ from(m) \in 1..Len(s) /\ t[m] = s[from(m)]
          /\ from(n) \in 1..Len(s) /\ t[n] = s[from(n)]
      BY <1>3, <2>3
    <3> HIDE DEF from
    <3> QED
      BY <3>1, <3>2 DEF Distinct
  <2> QED
    BY <2>1, <2>2, <2>3
<1> QED
  BY <1>4 DEF Distinct, t, p

-----------------------------------------------------------------------------
(* Every step keeps the keys apart. *)

\* An empty index, and a bulk load of sorted keys.
LEMMA DInitHolds ==
  ASSUME Init
  PROVE  DistinctInv
<1>1. pc = "idle"
  BY DEF Init, Idle
<1>2. CASE Empty
  <2>1. \A i \in Levels : data[i] = <<>>
    BY <1>2 DEF Empty, NoData
  <2> QED
    BY <1>1, <2>1 DEF DistinctInv, Distinct
<1>3. ASSUME NEW size \in BulkSizes \ {0}, NEW keys \in SortedKeys(size), BulkLoad(keys)
      PROVE  DistinctInv
  <2> DEFINE items(v) == [n \in 1..Len(keys) |-> Item(keys[n], v)]
  <2>1. PICK top \in Levels, v \in Values : data = [NoData EXCEPT ![top] = items(v)]
    BY <1>3 DEF BulkLoad
  <2>2. /\ size \in Nat /\ keys \in [1..size -> Keys]
        /\ \A l, m \in 1..size : l < m => keys[l] < keys[m]
    BY DataAssumption DEF SortedKeys
  <2>3. keys \in Seq(Keys) /\ Len(keys) = size
    BY <2>2
  <2>4. /\ data[top] = items(v)
        /\ \A i \in Levels : i # top => data[i] = <<>>
    BY <2>1 DEF NoData
  <2>5. Len(data[top]) = size /\ \A n \in 1..size : data[top][n].key = keys[n]
    BY <2>2, <2>3, <2>4 DEF Item
  <2>6. Distinct(data[top])
    <3> SUFFICES ASSUME NEW m \in 1..size, NEW n \in 1..size, m # n
                 PROVE  keys[m] # keys[n]
      BY <2>5 DEF Distinct
    <3>1. keys[m] \in Keys /\ keys[n] \in Keys /\ Keys \subseteq Int /\ (m < n \/ n < m)
      BY <2>2, ItemFields
    <3>2. keys[m] < keys[n] \/ keys[n] < keys[m]
      BY <2>2, <3>1
    <3>3. \A x, y \in Int : x < y => x # y
      OBVIOUS
    <3> QED
      BY <3>1, <3>2, <3>3
  <2>7. \A i \in Levels : Distinct(data[i])
    <3>1. Distinct(<<>>)
      BY DEF Distinct
    <3> QED
      BY <2>4, <2>6, <3>1, Zenon
  <2> QED
    BY <1>1, <2>7 DEF DistinctInv
<1> QED
  BY <1>2, <1>3 DEF Init

\* insert of a key that has not been inserted.
LEMMA InsertItemKeepsD ==
  ASSUME IInv, UInv, DistinctInv, ~Erasures, NEW item \in Genuine,
         contents[item.key] = Absent, InsertItem(item)
  PROVE  DistinctInv'
<1>1. pc = "idle" /\ ~clobbered /\ item.key \in Keys /\ item \in Items
  BY ItemFields DEF InsertItem
<1>2. Lacks(Buffer, 1, item.key)
  BY <1>1, UniqueKey, LevelFacts DEF Buffer
<1>3. Buffer \in Seq(Items) /\ Ordered(Buffer) /\ Distinct(Buffer)
  BY <1>1, LevelFacts, LevelNumbers DEF IInv, OrderInv, DistinctInv, Buffer
<1>4. CASE InsertDropped(item)
  <2>1. UNCHANGED <<data, pc>>
    BY <1>4 DEF InsertDropped, index, call
  <2> QED
    BY <1>1, <2>1 DEF DistinctInv, Distinct
<1>5. CASE InsertIntoBuffer(item)
  <2>1. data' = [data EXCEPT ![MinLevel] = Buffered(item)] /\ pc' = pc
    BY <1>5 DEF InsertIntoBuffer, call
  <2>2. Distinct(Buffered(item))
    BY <1>1, <1>2, <1>3, BufferedDistinct DEF Buffered
  <2>3. \A i \in Levels : data'[i] = IF i = MinLevel THEN Buffered(item) ELSE data[i]
    BY <2>1 DEF IInv, TypeInv
  <2>4. \A i \in Levels : Distinct(data'[i])
    BY <2>2, <2>3 DEF DistinctInv
  <2> QED
    BY <1>1, <2>1, <2>4 DEF DistinctInv, Distinct
<1>6. CASE BeginMerge(item)
  <2>1. data' = data /\ pc' = "slots"
    BY <1>6 DEF BeginMerge, index
  <2> QED
    BY <2>1 DEF DistinctInv, Distinct
<1> QED
  BY <1>4, <1>5, <1>6 DEF InsertItem

\* The buffer with the new key is what the first pass reads.
LEMMA TargetFoundKeepsD ==
  ASSUME IInv, UInv, DistinctInv, TargetFound
  PROVE  DistinctInv'
<1>1. /\ pc = "slots" /\ ~clobbered /\ pc' = "merge"
      /\ UNCHANGED <<data, first1, first2, out>>
  BY DEF TargetFound, UInv
<1>2. out = <<>> /\ new_item \in Items
  BY <1>1, ItemFields DEF IInv, CallInv
<1>3. Newer' = Buffered(new_item)
  BY TargetFoundKeeps
<1>4. Buffer \in Seq(Items) /\ Ordered(Buffer) /\ Distinct(Buffer)
  BY <1>1, LevelFacts, LevelNumbers DEF IInv, OrderInv, DistinctInv, Buffer
<1>5. Lacks(Buffer, 1, new_item.key)
  BY <1>1, LevelFacts DEF UInv, DisjointInv, Buffer
<1>6. Distinct(Newer')
  BY <1>2, <1>3, <1>4, <1>5, BufferedDistinct DEF Buffered
<1>7. Len(out') = 0
  BY <1>1, <1>2
<1> QED
  BY <1>1, <1>6, <1>7 DEF DistinctInv, Distinct

\* A key that is written leaves what is still to be merged.
LEMMA MergeStepKeepsD ==
  ASSUME IInv, UInv, DistinctInv, MergeStep
  PROVE  DistinctInv'
<1> DEFINE N == Newer
           D == data[level]
<1>1. /\ pc = "merge" /\ level <= Limit
      /\ first1 <= Len(N) /\ first2 <= Len(D)
      /\ UNCHANGED <<data, pc, level, target, tmp>>
  BY DEF MergeStep, index
<1>2. /\ level \in Levels /\ level \in Int
      /\ out \in Seq(Items) /\ N \in Seq(Items) /\ D \in Seq(Items)
      /\ first1 \in 1..(Len(N) + 1) /\ first2 \in 1..(Len(D) + 1)
  BY <1>1, PassFacts
<1>3. first1 \in 1..Len(N) /\ first2 \in 1..Len(D) /\ Len(N) \in Nat /\ Len(D) \in Nat
  BY <1>1, <1>2
<1>4. Disjoint(N, D)
  <2>1. level \in level..MaxLevel
    BY <1>2, LevelFacts
  <2> QED
    BY <1>1, <2>1 DEF UInv, DisjointInv
<1>5. Newer' = N /\ data'[level'] = D /\ level' = level
  BY <1>1 DEF Newer
<1>6. /\ Distinct(N) /\ Distinct(out) /\ Distinct(D)
      /\ \A n \in 1..Len(out) : Lacks(N, first1, out[n].key) /\ Lacks(D, first2, out[n].key)
  BY <1>1, <1>2 DEF DistinctInv
<1>7. \/ out' = Append(out, D[first2]) /\ first1' = first1 /\ first2' = first2 + 1
      \/ out' = Append(out, N[first1]) /\ first1' = first1 + 1 /\ first2' = first2
  <2>1. N[first1].key # D[first2].key
    BY <1>3, <1>4 DEF Disjoint
  <2> QED
    BY <2>1 DEF MergeStep
<1> HIDE DEF N, D
<1>8. PICK z \in {N[first1], D[first2]} :
        /\ out' = Append(out, z)
        /\ Lacks(N, first1', z.key) /\ Lacks(D, first2', z.key)
        /\ first1' \in Nat /\ first1' >= first1 /\ first2' \in Nat /\ first2' >= first2
  <2>1. CASE out' = Append(out, D[first2]) /\ first1' = first1 /\ first2' = first2 + 1
    <3>1. Lacks(N, first1, D[first2].key)
      BY <1>3, <1>4 DEF Disjoint, Lacks
    <3>2. Lacks(D, first2 + 1, D[first2].key)
      BY <1>3, <1>6 DEF Distinct, Lacks
    <3> QED
      BY <1>3, <2>1, <3>1, <3>2
  <2>2. CASE out' = Append(out, N[first1]) /\ first1' = first1 + 1 /\ first2' = first2
    <3>1. Lacks(D, first2, N[first1].key)
      BY <1>3, <1>4 DEF Disjoint, Lacks
    <3>2. Lacks(N, first1 + 1, N[first1].key)
      BY <1>3, <1>6 DEF Distinct, Lacks
    <3> QED
      BY <1>3, <2>2, <3>1, <3>2
  <2> QED
    BY <1>7, <2>1, <2>2
<1>9. /\ Len(out) \in Nat /\ Len(out') = Len(out) + 1 /\ out'[Len(out) + 1] = z
      /\ \A n \in 1..Len(out) : out'[n] = out[n]
  <2>1. z \in Items
    BY <1>2, <1>3, <1>8
  <2> QED
    BY <1>2, <1>8, <2>1
<1>10. \A n \in 1..Len(out) : out[n].key # z.key
  BY <1>3, <1>6, <1>8 DEF Lacks
<1>11. Distinct(out')
  BY <1>6, <1>9, <1>10 DEF Distinct
<1>12. \A n \in 1..Len(out') : Lacks(N, first1', out'[n].key) /\ Lacks(D, first2', out'[n].key)
  <2> SUFFICES ASSUME NEW n \in 1..Len(out')
               PROVE  Lacks(N, first1', out'[n].key) /\ Lacks(D, first2', out'[n].key)
    OBVIOUS
  <2>1. CASE n = Len(out) + 1
    BY <1>8, <1>9, <2>1
  <2>2. CASE n # Len(out) + 1
    <3>1. n \in 1..Len(out) /\ out'[n] = out[n]
      BY <1>9, <2>2
    <3>2. Lacks(N, first1, out[n].key) /\ Lacks(D, first2, out[n].key)
      BY <1>6, <3>1
    <3> QED
      BY <1>3, <1>8, <3>1, <3>2 DEF Lacks
  <2> QED
    BY <2>1, <2>2
<1> QED
  BY <1>1, <1>5, <1>6, <1>11, <1>12 DEF DistinctInv, Distinct

\* What a pass leaves is its output and the rests of the two, which have no key in common.
LEMMA PassDoneKeepsD ==
  ASSUME IInv, UInv, DistinctInv, PassDone
  PROVE  DistinctInv'
<1> DEFINE N == Newer
           D == data[level]
           s == SubSeq(N, first1, Len(N))
           t == SubSeq(D, first2, Len(D))
<1>1. /\ pc = "merge" /\ level <= Limit /\ data' = [data EXCEPT ![level] = <<>>]
      /\ out' = <<>>
  BY DEF PassDone, Emptied
<1>2. Newer' = out \o s \o t
  BY PassDoneKeeps
<1>3. /\ level \in Levels /\ level \in Int
      /\ out \in Seq(Items) /\ N \in Seq(Items) /\ D \in Seq(Items)
      /\ first1 \in 1..(Len(N) + 1) /\ first2 \in 1..(Len(D) + 1)
  BY <1>1, PassFacts
<1>4. Disjoint(N, D)
  <2>1. level \in level..MaxLevel
    BY <1>3, LevelFacts
  <2> QED
    BY <1>1, <2>1 DEF UInv, DisjointInv
<1>5. /\ Distinct(N) /\ Distinct(out) /\ Distinct(D)
      /\ \A n \in 1..Len(out) : Lacks(N, first1, out[n].key) /\ Lacks(D, first2, out[n].key)
  BY <1>1, <1>3 DEF DistinctInv
<1> HIDE DEF N, D
<1>6. s \in Seq(Items) /\ Distinct(s) /\ Disjoint(out, s)
  BY <1>3, <1>5, RestDistinct
<1>7. /\ t \in Seq(Items) /\ Distinct(t) /\ Disjoint(out, t)
      /\ \A n \in 1..Len(t) : t[n] = D[first2 + n - 1] /\ first2 + n - 1 \in 1..Len(D)
  <2>1. t \in Seq(Items) /\ Distinct(t) /\ Disjoint(out, t)
    BY <1>3, <1>5, RestDistinct
  <2>2. Len(t) = Len(D) - first2 + 1 /\ \A n \in 1..Len(t) : t[n] = D[first2 + n - 1]
    BY <1>3, RestOf
  <2>3. Len(D) \in Nat /\ first2 \in Nat /\ first2 >= 1
    BY <1>3
  <2> HIDE DEF t
  <2> QED
    BY <2>1, <2>2, <2>3
<1>8. Disjoint(s, t)
  <2>1. /\ Len(s) = Len(N) - first1 + 1 /\ Len(N) \in Nat /\ first1 \in Nat /\ first1 >= 1
        /\ \A n \in 1..Len(s) : s[n] = N[first1 + n - 1]
    BY <1>3, RestOf
  <2> HIDE DEF s, t
  <2>2. \A n \in 1..Len(s) : first1 + n - 1 \in 1..Len(N)
    BY <2>1
  <2> QED
    <3> SUFFICES ASSUME NEW m \in 1..Len(s), NEW n \in 1..Len(t)
                 PROVE  s[m].key # t[n].key
      BY DEF Disjoint
    <3>1. s[m] = N[first1 + m - 1] /\ first1 + m - 1 \in 1..Len(N)
      BY <2>1, <2>2
    <3>2. t[n] = D[first2 + n - 1] /\ first2 + n - 1 \in 1..Len(D)
      BY <1>7
    <3> QED
      BY <1>4, <3>1, <3>2, Zenon DEF Disjoint
<1> HIDE DEF s, t
<1>9. out \o s \in Seq(Items) /\ Distinct(out \o s) /\ Disjoint(out \o s, t)
  BY <1>3, <1>5, <1>6, <1>7, <1>8, ConcatDistinct, ConcatProperties
<1>10. Distinct(Newer')
  BY <1>2, <1>7, <1>9, ConcatDistinct
<1>11. \A i \in Levels : Distinct(data'[i])
  <2>1. \A i \in Levels : data'[i] = IF i = level THEN <<>> ELSE data[i]
    BY <1>1, <1>3 DEF IInv, TypeInv
  <2> QED
    BY <2>1 DEF DistinctInv, Distinct
<1>12. Len(out') = 0
  BY <1>1
<1> QED
  BY <1>10, <1>11, <1>12 DEF DistinctInv, Distinct

\* The target gets what the last pass has written.
LEMMA StoreKeepsD ==
  ASSUME IInv, UInv, DistinctInv, Store
  PROVE  DistinctInv'
<1>1. pc = "merge" /\ level > Limit /\ pc' = "idle" /\ ~clobbered
  BY DEF Store, UInv
<1>2. PICK junk : data' = [data EXCEPT ![MinLevel] = <<>>, ![target] = Stored(junk)]
  BY DEF Store
<1>3. Stored(junk) = Newer /\ Distinct(Newer)
  BY <1>1, StoredFacts DEF DistinctInv
<1>4. \A i \in Levels : data'[i] \in {data[i], <<>>, Newer}
  BY <1>2, <1>3 DEF IInv, TypeInv
<1>5. \A i \in Levels : Distinct(data'[i])
  <2>1. Distinct(<<>>)
    BY DEF Distinct
  <2> QED
    BY <1>3, <1>4, <2>1 DEF DistinctInv
<1> QED
  BY <1>1, <1>5 DEF DistinctInv, Distinct

\* Every step of a workload that inserts each key once.
LEMMA DNextKeeps ==
  ASSUME ~Updates, ~Erasures, IInv, UInv, DistinctInv, [Next]_vars
  PROVE  DistinctInv'
<1>1. ASSUME NEW k \in Keys, NEW v \in Values, Insert(k, v)
      PROVE  DistinctInv'
  <2>1. Item(k, v) \in Genuine /\ Item(k, v).key = k
    BY DEF Item, Genuine, Items
  <2>2. InsertItem(Item(k, v)) /\ contents[k] = Absent
    BY <1>1 DEF Insert
  <2> QED
    BY <2>1, <2>2, InsertItemKeepsD
<1>2. \A k \in Keys : ~Erase(k)
  BY DEF Erase
<1>3. ASSUME NoRoom PROVE DistinctInv'
  <2>1. pc # "merge" /\ UNCHANGED <<data, pc>>
    BY <1>3 DEF NoRoom, index
  <2> QED
    BY <2>1 DEF DistinctInv, Distinct
<1>4. ASSUME Merging PROVE DistinctInv'
  BY <1>3, <1>4, TargetFoundKeepsD, MergeStepKeepsD, PassDoneKeepsD, StoreKeepsD DEF Merging
<1>5. ASSUME UNCHANGED vars PROVE DistinctInv'
  <2>1. UNCHANGED <<data, pc, level, target, tmp, first1, first2, out>>
    BY <1>5 DEF vars, index, call
  <2>2. Newer' = Newer
    BY <2>1 DEF Newer
  <2> QED
    BY <2>1, <2>2 DEF DistinctInv, Distinct, Lacks
<1> QED
  BY <1>1, <1>2, <1>4, <1>5 DEF Next

\* No key is twice in a level, in what a pass merges or in what it has written.
THEOREM PGMDistinctInvariant ==
  ASSUME ~Updates, ~Erasures
  PROVE  Spec => [](IInv /\ UInv /\ DistinctInv)
  BY InitHolds, NextKeeps, UInitHolds, UNextKeeps, DInitHolds, DNextKeeps, PTL DEF Spec

-----------------------------------------------------------------------------
(* What the iterator visits. *)

At(p) == data[p[1]][p[2]]

\* The positions from lo to hi, and their order, as in Visited.
Positions(lo, hi) ==
  UNION {{<<i, n>> : n \in {m \in Start(i, lo)..Len(data[i]) : data[i][m].key <= hi}} :
           i \in MinLevel..(used_levels - 1)}
Earlier(p, q) ==
  \/ data[p[1]][p[2]].key < data[q[1]][q[2]].key
  \/ /\ data[p[1]][p[2]].key = data[q[1]][q[2]].key
     /\ p[1] < q[1] \/ (p[1] = q[1] /\ p[2] < q[2])

\* Visited with its operators written out.
LEMMA VisitedAre ==
  ASSUME NEW lo, NEW hi
  PROVE  Visited(lo, hi) =
           [n \in 1..Cardinality(Positions(lo, hi)) |->
              CHOOSE p \in Positions(lo, hi) :
                Cardinality({q \in Positions(lo, hi) : Earlier(q, p)}) = n - 1]
BY DEF Visited, InOrder, Positions, Earlier

\* Without tombstones there is nothing to skip.
LEMMA StartIs ==
  ASSUME IInv, ~clobbered, ~Erasures, NEW i \in Levels, NEW lo \in Int
  PROVE  Start(i, lo) = Before(data[i], lo) + 1
<1> DEFINE b == Before(data[i], lo)
           alive == {m \in (b + 1)..Len(data[i]) : ~data[i][m].deleted}
<1>1. data[i] \in Seq(Genuine) /\ data[i] \in Seq(Items) /\ Ordered(data[i])
  BY LevelNumbers DEF IInv, TypeInv, OrderInv, Pool
<1>2. b \in 0..Len(data[i]) /\ Len(data[i]) \in Nat
  BY <1>1, LowerBound
<1>3. \A m \in 1..Len(data[i]) : ~data[i][m].deleted
  <2>1. \A x \in Genuine : ~x.deleted
    BY ItemFields DEF Genuine
  <2> QED
    BY <1>1, <2>1
<1>4. Start(i, lo) = IF i >= MinIndexed THEN b + 1
                     ELSE IF alive = {} THEN Len(data[i]) + 1
                     ELSE CHOOSE m \in alive : \A l \in alive : m <= l
  BY DEF Start
<1> HIDE DEF b
<1>5. alive = (b + 1)..Len(data[i])
  BY <1>2, <1>3
<1> HIDE DEF alive
<1>6. CASE alive = {}
  <2>1. b = Len(data[i])
    BY <1>2, <1>5, <1>6
  <2> QED
    BY <1>4, <1>6, <2>1 DEF b
<1>7. CASE alive # {}
  <2>1. b + 1 \in alive /\ \A l \in alive : b + 1 <= l /\ l \in Int
    BY <1>2, <1>5, <1>7
  <2> DEFINE c == CHOOSE m \in alive : \A l \in alive : m <= l
  <2>2. c \in alive /\ \A l \in alive : c <= l
    BY <2>1
  <2> HIDE DEF c
  <2>3. c = b + 1
    BY <1>2, <2>1, <2>2
  <2> QED
    BY <1>4, <1>7, <2>3 DEF b, c
<1> QED
  BY <1>6, <1>7

\* The positions are the ones of the keys between the two.
LEMMA PositionsAre ==
  ASSUME IInv, ~clobbered, ~Erasures, NEW lo \in Int, NEW hi \in Int
  PROVE  /\ \A p \in Positions(lo, hi) :
              /\ p[1] \in MinLevel..(used_levels - 1) /\ p[2] \in 1..Len(data[p[1]])
              /\ p = <<p[1], p[2]>> /\ lo <= At(p).key /\ At(p).key <= hi
         /\ \A i \in MinLevel..(used_levels - 1) : \A n \in 1..Len(data[i]) :
              lo <= data[i][n].key /\ data[i][n].key <= hi => <<i, n>> \in Positions(lo, hi)
<1>1. ASSUME NEW i \in MinLevel..(used_levels - 1), NEW n
      PROVE  n \in Start(i, lo)..Len(data[i]) <=> n \in 1..Len(data[i]) /\ lo <= data[i][n].key
  <2>1. i \in Levels
    BY LevelNumbers, LevelFacts
  <2>2. data[i] \in Seq(Items) /\ Ordered(data[i]) /\ Start(i, lo) = Before(data[i], lo) + 1
    BY <2>1, LevelNumbers, StartIs DEF IInv, OrderInv
  <2>3. /\ Before(data[i], lo) \in 0..Len(data[i]) /\ Len(data[i]) \in Nat
        /\ \A m \in 1..Len(data[i]) : m <= Before(data[i], lo) <=> data[i][m].key < lo
    <3> DEFINE s == data[i]
    <3>1. s \in Seq(Items) /\ Ordered(s)
      BY <2>2
    <3> HIDE DEF s
    <3>2. Len(s) \in Nat
      BY <3>1
    <3>3. /\ Before(s, lo) \in 0..Len(s)
          /\ \A m \in 1..Len(s) : m <= Before(s, lo) <=> s[m].key < lo
      BY <3>1, LowerBound
    <3> QED
      BY <3>2, <3>3 DEF s
  <2>4. \A m \in 1..Len(data[i]) : data[i][m].key \in Int
    BY <2>2, ItemFields
  <2> QED
    BY <2>2, <2>3, <2>4
<1>2. ASSUME NEW p \in Positions(lo, hi)
      PROVE  /\ p[1] \in MinLevel..(used_levels - 1) /\ p[2] \in 1..Len(data[p[1]])
             /\ p = <<p[1], p[2]>> /\ lo <= At(p).key /\ At(p).key <= hi
  <2>1. PICK i \in MinLevel..(used_levels - 1) :
          p \in {<<i, n>> : n \in {m \in Start(i, lo)..Len(data[i]) : data[i][m].key <= hi}}
    BY DEF Positions
  <2>2. PICK n \in Start(i, lo)..Len(data[i]) : p = <<i, n>> /\ data[i][n].key <= hi
    BY <2>1
  <2>3. p[1] = i /\ p[2] = n
    BY <2>2
  <2> QED
    BY <1>1, <2>2, <2>3 DEF At
<1>3. ASSUME NEW i \in MinLevel..(used_levels - 1), NEW n \in 1..Len(data[i]),
             lo <= data[i][n].key, data[i][n].key <= hi
      PROVE  <<i, n>> \in Positions(lo, hi)
  <2>1. n \in {m \in Start(i, lo)..Len(data[i]) : data[i][m].key <= hi}
    BY <1>1, <1>3
  <2> QED
    BY <2>1 DEF Positions
<1> QED
  BY <1>2, <1>3

\* Each key is stored once, with the value of its insertion.
LEMMA StoredOnce ==
  ASSUME IInv, UInv, DistinctInv, ~Erasures, pc = "idle"
  PROVE  /\ \A i, j \in Levels : \A m \in 1..Len(data[i]), n \in 1..Len(data[j]) :
              data[i][m].key = data[j][n].key => i = j /\ m = n
         /\ \A i \in Levels : \A m \in 1..Len(data[i]) :
              /\ contents[data[i][m].key] = data[i][m].value
              /\ contents[data[i][m].key] # Absent
         /\ \A k \in Keys : contents[k] # Absent =>
              \E i \in MinLevel..(used_levels - 1) : \E m \in 1..Len(data[i]) : data[i][m].key = k
<1>1. ASSUME NEW i \in Levels, NEW j \in Levels, NEW m \in 1..Len(data[i]),
             NEW n \in 1..Len(data[j]), data[i][m].key = data[j][n].key
      PROVE  i = j /\ m = n
  <2>1. i \in Int /\ j \in Int
    BY LevelNumbers
  <2>2. \A a, b \in Levels : a < b => Disjoint(data[a], data[b])
    BY DEF UInv, DisjointInv
  <2>3. ~(i < j)
    BY <1>1, <2>2 DEF Disjoint
  <2>4. ~(j < i)
    BY <1>1, <2>2 DEF Disjoint
  <2>5. i = j
    BY <2>1, <2>3, <2>4
  <2>6. Distinct(data[i])
    BY DEF DistinctInv
  <2> QED
    BY <1>1, <2>5, <2>6 DEF Distinct
<1>2. \A k \in Keys : LevelsShow(data, used_levels, MinLevel, k, contents[k])
  BY DEF IInv, UInv, VersionInv, ZeroFree
<1>3. \A i \in MinLevel..(used_levels - 1) : i \in Levels
  BY LevelNumbers, LevelFacts
<1>4. \A i \in Levels : data[i] \in Seq(Genuine)
  BY DEF IInv, TypeInv, UInv, Pool
<1>5. \A x \in Genuine : x.key \in Keys /\ Version(x) = x.value /\ x.value # Absent
  BY ItemFields DEF Genuine, Version
<1>6. ASSUME NEW k \in Keys, NEW j \in MinLevel..(used_levels - 1), NEW v, Shows(data[j], 1, k, v)
      PROVE  \E m \in 1..Len(data[j]) : data[j][m].key = k /\ data[j][m].value = v
  <2>1. PICK m \in 1..Len(data[j]) : data[j][m].key = k /\ Version(data[j][m]) = v
    BY <1>6 DEF Shows
  <2>2. data[j][m] \in Genuine
    BY <1>3, <1>4
  <2> QED
    BY <1>5, <2>1, <2>2
<1>7. ASSUME NEW k \in Keys
      PROVE  \/ /\ contents[k] = Absent
                /\ \A i \in MinLevel..(used_levels - 1) : Lacks(data[i], 1, k)
             \/ \E i \in MinLevel..(used_levels - 1) : \E m \in 1..Len(data[i]) :
                  data[i][m].key = k /\ data[i][m].value = contents[k]
  <2>1. CASE \E j \in MinLevel..(used_levels - 1) : Shows(data[j], 1, k, contents[k])
    BY <1>6, <2>1
  <2>2. CASE contents[k] = Absent /\ \A j \in MinLevel..(used_levels - 1) : Lacks(data[j], 1, k)
    BY <2>2
  <2> QED
    BY <1>2, <2>1, <2>2 DEF LevelsShow
<1>8. ASSUME NEW i \in Levels, NEW m \in 1..Len(data[i])
      PROVE  /\ contents[data[i][m].key] = data[i][m].value
             /\ contents[data[i][m].key] # Absent
  <2> DEFINE k == data[i][m].key
  <2>1. data[i][m] \in Genuine
    BY <1>4
  <2>2. k \in Keys /\ data[i][m].value # Absent
    BY <1>5, <2>1
  <2>3. i \in MinLevel..(used_levels - 1)
    <3>1. data[i] # <<>>
      BY <1>8
    <3> QED
      BY <3>1, LevelNumbers
  <2>4. ~Lacks(data[i], 1, k)
    BY DEF Lacks
  <2> HIDE DEF k
  <2>5. PICK j \in MinLevel..(used_levels - 1) : \E n \in 1..Len(data[j]) :
          data[j][n].key = k /\ data[j][n].value = contents[k]
    BY <1>7, <2>2, <2>3, <2>4
  <2>6. PICK n \in 1..Len(data[j]) : data[j][n].key = k /\ data[j][n].value = contents[k]
    BY <2>5
  <2>7. j = i /\ n = m
    BY <1>1, <1>3, <2>6 DEF k
  <2> QED
    BY <2>2, <2>6, <2>7 DEF k
<1>9. ASSUME NEW k \in Keys, contents[k] # Absent
      PROVE  \E i \in MinLevel..(used_levels - 1) : \E m \in 1..Len(data[i]) : data[i][m].key = k
  BY <1>7, <1>9
<1> QED
  BY <1>1, <1>8, <1>9

\* The keys between lo and hi that have been inserted.
Selected(lo, hi) == {k \in Keys : lo <= k /\ k <= hi /\ contents[k] # Absent}

\* A range query gives, at each place, the key with as many selected keys before it.
LEMMA RangeIsOrdered ==
  ASSUME IInv, UInv, DistinctInv, ~Erasures, pc = "idle", NEW lo \in Keys, NEW hi \in Keys
  PROVE  LET K == Selected(lo, hi)
         IN  RangeQuery(lo, hi) =
               [n \in 1..Cardinality(K) |->
                  LET k == CHOOSE x \in K : Rank(K, x) = n - 1 IN <<k, contents[k]>>]
<1> DEFINE K == Selected(lo, hi)
           P == Positions(lo, hi)
           f == [p \in P |-> At(p).key]
<1>1. lo \in Int /\ hi \in Int /\ ~clobbered /\ lo \in Nat /\ hi \in Nat
  BY DataAssumption DEF UInv
<1>2. /\ \A p \in P : /\ p[1] \in MinLevel..(used_levels - 1) /\ p[2] \in 1..Len(data[p[1]])
                      /\ p = <<p[1], p[2]>> /\ lo <= At(p).key /\ At(p).key <= hi
      /\ \A i \in MinLevel..(used_levels - 1) : \A n \in 1..Len(data[i]) :
           lo <= data[i][n].key /\ data[i][n].key <= hi => <<i, n>> \in P
  BY <1>1, PositionsAre
<1>3. \A i \in MinLevel..(used_levels - 1) : i \in Levels /\ data[i] \in Seq(Items)
  BY LevelNumbers, LevelFacts
<1>4. K \in SUBSET Int /\ IsFiniteSet(K)
  <2>1. K \in SUBSET Nat /\ \A k \in K : k <= hi
    BY DataAssumption DEF Selected
  <2> HIDE DEF K
  <2>2. IsFiniteSet(K)
    BY <1>1, <2>1, FS_BoundedSetOfNaturals
  <2> QED
    BY <2>1, <2>2
<1> HIDE DEF P
<1>5. \A p \in P : /\ At(p) = data[p[1]][p[2]] /\ At(p).key \in Keys
                   /\ contents[At(p).key] = At(p).value /\ contents[At(p).key] # Absent
  <2> SUFFICES ASSUME NEW p \in P
               PROVE  /\ At(p).key \in Keys
                      /\ contents[At(p).key] = At(p).value /\ contents[At(p).key] # Absent
    BY DEF At
  <2>1. p[1] \in Levels /\ p[2] \in 1..Len(data[p[1]]) /\ data[p[1]] \in Seq(Items)
    BY <1>2, <1>3
  <2>2. At(p) \in Items
    BY <2>1 DEF At
  <2> QED
    BY <2>1, <2>2, StoredOnce, ItemFields DEF At
<1>6. f \in [P -> K]
  BY <1>2, <1>5 DEF Selected
<1>7. ASSUME NEW p \in P, NEW q \in P, At(p).key = At(q).key PROVE p = q
  <2>1. /\ p[1] \in Levels /\ p[2] \in 1..Len(data[p[1]]) /\ p = <<p[1], p[2]>>
        /\ q[1] \in Levels /\ q[2] \in 1..Len(data[q[1]]) /\ q = <<q[1], q[2]>>
    BY <1>2, <1>3
  <2>2. p[1] = q[1] /\ p[2] = q[2]
    BY <1>7, <2>1, StoredOnce DEF At
  <2> QED
    BY <2>1, <2>2
<1>8. ASSUME NEW k \in K PROVE \E p \in P : f[p] = k
  <2>1. k \in Keys /\ contents[k] # Absent /\ lo <= k /\ k <= hi
    BY DEF Selected
  <2>2. PICK i \in MinLevel..(used_levels - 1) : \E m \in 1..Len(data[i]) : data[i][m].key = k
    BY <2>1, StoredOnce
  <2>3. PICK m \in 1..Len(data[i]) : data[i][m].key = k
    BY <2>2
  <2>4. <<i, m>> \in P
    BY <1>2, <2>1, <2>3
  <2>5. At(<<i, m>>).key = k
    BY <2>3 DEF At
  <2> QED
    BY <2>4, <2>5
<1>9. ASSUME NEW p \in P, NEW q \in P PROVE Earlier(q, p) <=> f[q] < f[p]
  <2>1. f[q] = data[q[1]][q[2]].key /\ f[p] = data[p[1]][p[2]].key
    BY DEF At
  <2>2. f[q] \in Int /\ f[p] \in Int
    BY <1>4, <1>6
  <2>3. CASE f[q] = f[p]
    <3>1. q = p
      BY <1>7, <2>3
    <3>2. p[1] \in Int /\ p[2] \in Int
      BY <1>2, <1>3, LevelNumbers
    <3> QED
      BY <2>1, <2>2, <3>1, <3>2 DEF Earlier
  <2>4. CASE f[q] # f[p]
    BY <2>1, <2>4 DEF Earlier
  <2> QED
    BY <2>3, <2>4
<1>10. /\ Cardinality(P) = Cardinality(K) /\ Cardinality(K) \in Nat
       /\ \A p \in P : Cardinality({q \in P : f[q] < f[p]}) = Rank(K, f[p])
  <2>1. \A p, q \in P : f[p] = f[q] => p = q
    BY <1>7
  <2> HIDE DEF f, K
  <2> QED
    BY <1>4, <1>6, <1>8, <2>1, SameRank, FS_CardinalityType
<1> DEFINE here(c) == CHOOSE p \in P : Cardinality({q \in P : Earlier(q, p)}) = c
           there(c) == CHOOSE x \in K : Rank(K, x) = c
<1>11. ASSUME NEW c \in 0..(Cardinality(K) - 1)
       PROVE  here(c) \in P /\ At(here(c)).key = there(c)
  <2>1. ASSUME NEW p \in P PROVE Cardinality({q \in P : Earlier(q, p)}) = Rank(K, f[p])
    <3>1. {q \in P : Earlier(q, p)} = {q \in P : f[q] < f[p]}
      BY <1>9
    <3> QED
      BY <1>10, <3>1
  <2>2. PICK x \in K : Rank(K, x) = c
    BY <1>4, RankOnto
  <2>3. there(c) \in K /\ Rank(K, there(c)) = c
    BY <2>2
  <2>4. PICK p \in P : f[p] = x
    BY <1>8
  <2>5. here(c) \in P /\ Cardinality({q \in P : Earlier(q, here(c))}) = c
    <3>1. Cardinality({q \in P : Earlier(q, p)}) = c
      BY <2>1, <2>2, <2>4
    <3> QED
      BY <3>1, Zenon
  <2> HIDE DEF here, there
  <2>6. Rank(K, f[here(c)]) = c /\ f[here(c)] \in K
    BY <1>6, <2>1, <2>5
  <2>7. f[here(c)] = there(c)
    BY <1>4, <2>3, <2>6, RankOnto
  <2> QED
    BY <2>5, <2>7
<1>12. Visited(lo, hi) = [n \in 1..Cardinality(K) |-> here(n - 1)]
  BY <1>10, VisitedAre DEF P
<1>13. RangeQuery(lo, hi) =
         [n \in 1..Len(Visited(lo, hi)) |->
            <<At(Visited(lo, hi)[n]).key, At(Visited(lo, hi)[n]).value>>]
  BY DEF RangeQuery, At
<1> HIDE DEF here, there, f, K
<1>14. Len(Visited(lo, hi)) = Cardinality(K)
  BY <1>10, <1>12
<1>15. ASSUME NEW n \in 1..Cardinality(K)
       PROVE  <<At(Visited(lo, hi)[n]).key, At(Visited(lo, hi)[n]).value>> =
                <<there(n - 1), contents[there(n - 1)]>>
  <2>1. n - 1 \in 0..(Cardinality(K) - 1)
    BY <1>10
  <2>2. Visited(lo, hi)[n] = here(n - 1)
    BY <1>12
  <2>3. here(n - 1) \in P /\ At(here(n - 1)).key = there(n - 1)
    BY <1>11, <2>1
  <2> QED
    BY <1>5, <2>2, <2>3
<1>16. RangeQuery(lo, hi) =
         [n \in 1..Cardinality(K) |-> <<there(n - 1), contents[there(n - 1)]>>]
  BY <1>13, <1>14, <1>15
<1> QED
  BY <1>16 DEF there, K

\* A range query visits every inserted key between its bounds once, in order, with its
\* value, and nothing else, whatever levels the merges have moved the keys to.
THEOREM PGMRangeCorrect ==
  ASSUME ~Updates, ~Erasures
  PROVE  Spec => []RangeCorrect
<1>1. ASSUME IInv, UInv, DistinctInv PROVE RangeCorrect
  <2> SUFFICES ASSUME pc = "idle", NEW lo \in Keys, NEW hi \in Keys
               PROVE  RangeQuery(lo, hi) =
                        LET ks == InOrder({k \in Keys : lo <= k /\ k <= hi /\ contents[k] # Absent}, <)
                        IN  [n \in 1..Len(ks) |-> <<ks[n], contents[ks[n]]>>]
    BY DEF RangeCorrect
  <2> DEFINE K == Selected(lo, hi)
             ks == InOrder(K, <)
             r(n) == CHOOSE x \in K : Rank(K, x) = n - 1
  <2>1. ks = [n \in 1..Cardinality(K) |-> r(n)]
    BY DEF InOrder, Rank
  <2>2. Cardinality(K) \in Nat
    <3>1. K \in SUBSET Nat /\ hi \in Nat /\ \A k \in K : k <= hi
      BY DataAssumption DEF Selected
    <3> QED
      BY <3>1, FS_BoundedSetOfNaturals, FS_CardinalityType
  <2>3. RangeQuery(lo, hi) = [n \in 1..Cardinality(K) |-> <<r(n), contents[r(n)]>>]
    BY <1>1, RangeIsOrdered
  <2> HIDE DEF ks, r
  <2>4. Len(ks) = Cardinality(K) /\ \A n \in 1..Cardinality(K) : ks[n] = r(n)
    BY <2>1, <2>2
  <2>5. RangeQuery(lo, hi) = [n \in 1..Len(ks) |-> <<ks[n], contents[ks[n]]>>]
    BY <2>3, <2>4
  <2> QED
    BY <2>5 DEF ks, Selected
<1> QED
  BY <1>1, PGMDistinctInvariant, PTL
=============================================================================
