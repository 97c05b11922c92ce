-------------------------- MODULE Workload_proofs --------------------------
(***************************************************************************)
(* Proofs about Workload, for every data set and every setting.            *)
(***************************************************************************)
EXTENDS Workload, OrderTheorems, SequenceTheorems, TLAPS

-----------------------------------------------------------------------------
(* The inductive invariant. *)

Inserts == {j \in 0..(op_cnt - 1) : ops[j].op = INSERT}
Inserted == {ops[j].result : j \in Inserts}
InsertCount == Min({set.insert_cnt, set.hi - set.lo})

\* The items that are in the index when operation j is executed.
Before(j) == Range(bulk_loads) \cup {ops[m].result : m \in {i \in Inserts : i < j}}

\* The generator has divided the items.
HasPartition == pc \notin {"layout", "partition"}
\* The driver has a complete workload.
HasWorkload == pc \in {"run", "next", "done"}

Typed ==
  /\ keys \in DataSets /\ set \in Settings
  /\ pc \in {"layout", "partition", "sample", "fill", "run", "next", "done", "failed"}
  /\ DOMAIN ops = 0..(op_cnt - 1)
  /\ \A j \in 0..(op_cnt - 1) :
       /\ DOMAIN ops[j] = {"op", "lo_key", "hi_key", "result"}
       /\ ops[j].op \in {INSERT, LOOKUP, RANGE_QUERY}
       /\ ops[j].op = INSERT => ops[j].result \in Items
  /\ bulk_loads \in Seq(Items)
  /\ pc \in {"layout", "partition"} => Inserts = {}

\* Every operation has a place of its own.
Places ==
  pc \in {"partition", "sample"} =>
    /\ op_id \in [1..op_cnt -> 0..(op_cnt - 1)]
    /\ \A i, j \in 1..op_cnt : op_id[i] = op_id[j] => i = j
    /\ set.block_num > 1 => op_id = Blockwise

\* The places of the inserts, while op_id tells.
InsertPlaces ==
  pc = "sample" => Inserts = {op_id[i] : i \in 1..InsertCount}

\* Where block i ends.
BlockEnd(i) ==
  Through(set.insert_cnt, i) + Through(set.lookup_cnt, i) + Through(set.range_cnt, i)

\* A block has its inserts first.
InsertsFirst ==
  HasPartition /\ pc # "sample" /\ set.block_num > 1 =>
    \A i \in 1..set.block_num : \A c, d \in BlockEnd(i - 1)..(BlockEnd(i) - 1) :
      d < c /\ c \in Inserts => d \in Inserts

\* s has the items of S, once each, sorted by key.
Listing(s, S) ==
  /\ s \in Seq(S) /\ \A x \in S : \E i \in 1..Len(s) : s[i] = x
  /\ \A i, j \in 1..Len(s) : s[i] = s[j] => i = j
  /\ \A i, j \in 1..Len(s) : i < j => Key(s[i]) <= Key(s[j])

\* The items are divided between the bulk load and the inserts.
Partition ==
  HasPartition =>
    /\ Cardinality(Inserts) = InsertCount
    /\ Listing(bulk_loads, Range(bulk_loads))
    /\ \A i, j \in Inserts : ops[i].result = ops[j].result => i = j
    /\ Range(bulk_loads) \cap Inserted = {}
    /\ pc = "sample" \/ set.bulkload_cnt = -1 => Range(bulk_loads) \cup Inserted = Items

\* Operation j has the answer of an index with the items that are there by then.
Answered(j) ==
  LET there == {v \in Before(j) : Key(v) = ops[j].lo_key} IN
  /\ ops[j].op = LOOKUP =>
       \/ ops[j].result = NOT_FOUND /\ there = {}
       \/ ops[j].result = 0 /\ there # {}
  /\ ops[j].op = RANGE_QUERY =>
       ops[j].result = SumSet(Within(Before(j), ops[j].lo_key, ops[j].hi_key))

Answers ==
  /\ pc = "fill" =>
       /\ idx \in 0..op_cnt /\ present = Before(idx)
       /\ \A j \in 0..(idx - 1) : Answered(j)
  /\ HasWorkload => \A j \in 0..(op_cnt - 1) : Answered(j)

\* The loops of the driver: what has been executed is the operations before idx.
Progress ==
  /\ ~run_failed
  /\ pc = "run" =>
       /\ segment \in 0..(SegmentCount - 1) /\ idx \in Start(segment)..Limit(segment)
       /\ index = Before(idx) /\ executed = [j \in 1..idx |-> j - 1]
  /\ pc \in {"next", "done"} => executed = [j \in 1..op_cnt |-> j - 1]

IInv ==
  Typed /\ Places /\ InsertPlaces /\ InsertsFirst /\ Partition /\ Answers /\ Progress

-----------------------------------------------------------------------------
(* Operators of the generator. *)

\* Ascending lists the elements of a set once each, the smaller ones first.
LEMMA AscendingLists ==
  ASSUME NEW S \in SUBSET Int, IsFiniteSet(S)
  PROVE  /\ Cardinality(S) \in Nat /\ Ascending(S) \in [1..Cardinality(S) -> S]
         /\ Ascending(S) \in Seq(S) /\ Len(Ascending(S)) = Cardinality(S)
         /\ \A i, j \in 1..Cardinality(S) : i < j => Ascending(S)[i] < Ascending(S)[j]
         /\ \A x \in S : \E i \in 1..Cardinality(S) : Ascending(S)[i] = x
<1>1. Cardinality(S) \in Nat /\ Ascending(S) \in [1..Cardinality(S) -> S]
  BY AscendingRanks
<1>2. Ascending(S) \in Seq(S) /\ Len(Ascending(S)) = Cardinality(S)
  BY <1>1
<1> QED
  BY <1>1, <1>2, AscendingRanks

\* A block holds a part of the operations of each kind, and the blocks hold all.
LEMMA ThroughGrows ==
  ASSUME set.block_num \in Nat \ {0}, NEW cnt \in Nat
  PROVE  /\ \A i \in 0..set.block_num : Through(cnt, i) \in 0..cnt
         /\ \A i, j \in 0..set.block_num : i <= j => Through(cnt, i) <= Through(cnt, j)
         /\ Through(cnt, 0) = 0 /\ Through(cnt, set.block_num) = cnt
<1> DEFINE b == set.block_num
           e == cnt \div b
<1>1. b \in Nat /\ b > 0
  OBVIOUS
<1>2. e \in Nat /\ b * e <= cnt
  <2> HIDE DEF b
  <2> QED
    BY <1>1, SMT
<1>3. \A i, j \in Nat : i <= j => i * e <= j * e /\ i * e \in Nat
  <2> HIDE DEF e
  <2> QED
    BY <1>2
<1>4. \A i \in 0..b : Through(cnt, i) = IF i = b THEN cnt ELSE i * e
  BY DEF Through
<1> HIDE DEF b, e
<1>5. \A i \in 0..b : i \in Nat /\ i * e <= cnt /\ i * e \in Nat
  BY <1>1, <1>2, <1>3
<1>6. Through(cnt, 0) = 0
  BY <1>1, <1>2, <1>4
<1>7. \A i \in 0..b : Through(cnt, i) \in 0..cnt
  BY <1>4, <1>5
<1>8. \A i, j \in 0..b : i <= j => Through(cnt, i) <= Through(cnt, j)
  <2> SUFFICES ASSUME NEW i \in 0..b, NEW j \in 0..b, i <= j
               PROVE  Through(cnt, i) <= Through(cnt, j)
    OBVIOUS
  <2>1. CASE j = b
    BY <2>1, <1>4, <1>7
  <2>2. CASE j # b
    <3>1. i # b
      BY <2>2, <1>1
    <3> QED
      BY <2>2, <3>1, <1>4, <1>5, <1>3
  <2> QED
    BY <2>1, <2>2
<1>9. Through(cnt, b) = cnt
  BY <1>1, <1>4
<1> QED
  BY <1>6, <1>7, <1>8, <1>9 DEF b

\* The block of an operation is the one it is in.
LEMMA BlockOfOperation ==
  ASSUME set.block_num \in Nat \ {0}, NEW cnt \in Nat, NEW j \in 1..cnt
  PROVE  /\ BlockOf(cnt, j) \in 1..set.block_num
         /\ Through(cnt, BlockOf(cnt, j) - 1) < j /\ j <= Through(cnt, BlockOf(cnt, j))
<1> DEFINE b == set.block_num
           S == {i \in 1..b : j <= Through(cnt, i)}
           m == Min(S)
<1>1. b \in Nat /\ b > 0
  OBVIOUS
<1>2. \A i \in 0..b : Through(cnt, i) \in 0..cnt
  BY ThroughGrows
<1>3. Through(cnt, 0) = 0 /\ Through(cnt, b) = cnt
  BY ThroughGrows
<1> HIDE DEF b
<1>4. b \in S
  BY <1>1, <1>3
<1>5. S \in SUBSET Int /\ S # {} /\ \A x \in S : 1 <= x
  BY <1>4, <1>1
<1>6. m \in S /\ \A x \in S : m <= x
  <2> HIDE DEF S
  <2> QED
    BY <1>5, LeastElement
<1>7. m \in 1..b /\ j <= Through(cnt, m)
  BY <1>6
<1>8. Through(cnt, m - 1) < j
  <2> HIDE DEF m
  <2>1. CASE m = 1
    BY <2>1, <1>3
  <2>2. CASE m # 1
    <3>1. m - 1 \in 1..b /\ m - 1 < m
      BY <2>2, <1>7, <1>1
    <3>2. m - 1 \notin S
      BY <3>1, <1>6, <1>7
    <3> QED
      BY <3>1, <3>2, <1>2
  <2> QED
    BY <2>1, <2>2
<1>9. BlockOf(cnt, j) = m
  BY DEF BlockOf, b
<1> QED
  BY <1>7, <1>8, <1>9 DEF b

\* generate_permute_blockwise gives every operation a place of its own, and in a block
\* the places before the place of an insert are those of earlier inserts.
LEMMA BlockwisePlaces ==
  ASSUME set.block_num \in Nat \ {0},
         set.insert_cnt \in Nat, set.lookup_cnt \in Nat, set.range_cnt \in Nat
  PROVE  /\ Blockwise \in [1..op_cnt -> 0..(op_cnt - 1)]
         /\ \A j, k \in 1..op_cnt : Blockwise[j] = Blockwise[k] => j = k
         /\ \A i \in 1..set.block_num : \A d \in BlockEnd(i - 1)..(BlockEnd(i) - 1) :
              \A j \in 1..set.insert_cnt :
                d < Blockwise[j] /\ Blockwise[j] < BlockEnd(i) =>
                  \E m \in 1..j : Blockwise[m] = d
<1> DEFINE b == set.block_num
           I == set.insert_cnt
           L == set.lookup_cnt
           R == set.range_cnt
           TI(i) == Through(I, i)
           TL(i) == Through(L, i)
           TR(i) == Through(R, i)
           Of(j) == IF j <= I THEN BlockOf(I, j)
                    ELSE IF j <= I + L THEN BlockOf(L, j - I) ELSE BlockOf(R, j - I - L)
           IsInsert(j) == j <= I
           IsLookup(j) == I < j /\ j <= I + L
           IsRange(j)  == I + L < j
<1>1. b \in Nat /\ b > 0 /\ I \in Nat /\ L \in Nat /\ R \in Nat /\ op_cnt = I + L + R
  BY DEF op_cnt
<1>2. /\ \A i \in 0..b : TI(i) \in 0..I
      /\ \A i, j \in 0..b : i <= j => TI(i) <= TI(j)
      /\ TI(0) = 0 /\ TI(b) = I
  BY ThroughGrows
<1>3. /\ \A i \in 0..b : TL(i) \in 0..L
      /\ \A i, j \in 0..b : i <= j => TL(i) <= TL(j)
      /\ TL(0) = 0 /\ TL(b) = L
  BY ThroughGrows
<1>4. /\ \A i \in 0..b : TR(i) \in 0..R
      /\ \A i, j \in 0..b : i <= j => TR(i) <= TR(j)
      /\ TR(0) = 0 /\ TR(b) = R
  BY ThroughGrows
<1>5. \A i \in 0..b : BlockEnd(i) = TI(i) + TL(i) + TR(i)
  BY DEF BlockEnd
<1>6. ASSUME NEW j \in 1..op_cnt, IsInsert(j)
      PROVE  /\ Of(j) \in 1..b /\ TI(Of(j) - 1) < j /\ j <= TI(Of(j))
             /\ Blockwise[j] = j - 1 + TL(Of(j) - 1) + TR(Of(j) - 1)
  <2>1. j \in 1..I
    BY <1>1, <1>6
  <2>2. Of(j) = BlockOf(I, j)
    BY <1>6
  <2>3. Blockwise[j] = j - 1 + TL(Of(j) - 1) + TR(Of(j) - 1)
    BY <1>6, <2>2 DEF Blockwise
  <2> QED
    BY <2>1, <2>2, <2>3, BlockOfOperation
<1>7. ASSUME NEW j \in 1..op_cnt, IsLookup(j)
      PROVE  /\ Of(j) \in 1..b /\ TL(Of(j) - 1) < j - I /\ j - I <= TL(Of(j))
             /\ Blockwise[j] = j - I - 1 + TI(Of(j)) + TR(Of(j) - 1)
  <2>1. j - I \in 1..L /\ ~(j <= I)
    BY <1>1, <1>7
  <2>2. Of(j) = BlockOf(L, j - I)
    BY <1>7, <2>1
  <2>3. Blockwise[j] = j - I - 1 + TI(Of(j)) + TR(Of(j) - 1)
    BY <1>7, <2>1, <2>2 DEF Blockwise
  <2> QED
    BY <2>1, <2>2, <2>3, BlockOfOperation
<1>8. ASSUME NEW j \in 1..op_cnt, IsRange(j)
      PROVE  /\ Of(j) \in 1..b /\ TR(Of(j) - 1) < j - I - L /\ j - I - L <= TR(Of(j))
             /\ Blockwise[j] = j - I - L - 1 + TI(Of(j)) + TL(Of(j))
  <2>1. j - I - L \in 1..R /\ ~(j <= I) /\ ~(j <= I + L)
    BY <1>1, <1>8
  <2>2. Of(j) = BlockOf(R, j - I - L)
    BY <2>1
  <2>3. Blockwise[j] = j - I - L - 1 + TI(Of(j)) + TL(Of(j))
    BY <2>1, <2>2 DEF Blockwise
  <2> QED
    BY <2>1, <2>2, <2>3, BlockOfOperation
<1> HIDE DEF b, I, L, R, TI, TL, TR, Of
<1>9. \A j \in 1..op_cnt : j \in Int /\ (IsInsert(j) \/ IsLookup(j) \/ IsRange(j))
  BY <1>1
<1>10. ASSUME NEW j \in 1..op_cnt
       PROVE  /\ Of(j) \in 1..b /\ Of(j) - 1 \in 0..b /\ Of(j) \in 0..b
              /\ Blockwise[j] \in BlockEnd(Of(j) - 1)..(BlockEnd(Of(j)) - 1)
  <2>1. Of(j) \in 1..b
    BY <1>6, <1>7, <1>8, <1>9
  <2>2. Of(j) - 1 \in 0..b /\ Of(j) \in 0..b /\ Of(j) - 1 <= Of(j)
    BY <2>1, <1>1
  <2>3. /\ BlockEnd(Of(j)) = TI(Of(j)) + TL(Of(j)) + TR(Of(j))
        /\ BlockEnd(Of(j) - 1) = TI(Of(j) - 1) + TL(Of(j) - 1) + TR(Of(j) - 1)
    BY <2>2, <1>5
  <2>4. /\ TI(Of(j)) \in Nat /\ TL(Of(j)) \in Nat /\ TR(Of(j)) \in Nat
        /\ TI(Of(j) - 1) \in Nat /\ TL(Of(j) - 1) \in Nat /\ TR(Of(j) - 1) \in Nat
        /\ TI(Of(j) - 1) <= TI(Of(j)) /\ TL(Of(j) - 1) <= TL(Of(j))
        /\ TR(Of(j) - 1) <= TR(Of(j))
    BY <2>2, <1>2, <1>3, <1>4
  <2>5. CASE IsInsert(j)
    BY <2>5, <2>3, <2>4, <1>6, <1>1
  <2>6. CASE IsLookup(j)
    BY <2>6, <2>3, <2>4, <1>7, <1>1
  <2>7. CASE IsRange(j)
    BY <2>7, <2>3, <2>4, <1>8, <1>1
  <2> QED
    BY <2>1, <2>2, <2>5, <2>6, <2>7, <1>9
<1>11. /\ \A i \in 0..b : BlockEnd(i) \in 0..op_cnt
       /\ \A i, j \in 0..b : i <= j => BlockEnd(i) <= BlockEnd(j)
  <2>1. ASSUME NEW i \in 0..b
        PROVE  /\ TI(i) \in 0..I /\ TL(i) \in 0..L /\ TR(i) \in 0..R
               /\ BlockEnd(i) = TI(i) + TL(i) + TR(i) /\ BlockEnd(i) \in 0..op_cnt
    <3>1. TI(i) \in 0..I /\ TL(i) \in 0..L /\ TR(i) \in 0..R
      BY <1>2, <1>3, <1>4
    <3>2. BlockEnd(i) = TI(i) + TL(i) + TR(i)
      BY <1>5
    <3> QED
      BY <3>1, <3>2, <1>1
  <2>2. ASSUME NEW i \in 0..b, NEW j \in 0..b, i <= j
        PROVE  BlockEnd(i) <= BlockEnd(j)
    <3>1. TI(i) <= TI(j) /\ TL(i) <= TL(j) /\ TR(i) <= TR(j)
      BY <2>2, <1>2, <1>3, <1>4
    <3> QED
      BY <3>1, <2>1
  <2> QED
    BY <2>1, <2>2
<1>12. Blockwise \in [1..op_cnt -> 0..(op_cnt - 1)]
  <2>1. \A j \in 1..op_cnt : Blockwise[j] \in 0..(op_cnt - 1)
    BY <1>1, <1>10, <1>11
  <2>2. Blockwise = [j \in 1..op_cnt |-> Blockwise[j]]
    BY DEF Blockwise
  <2> QED
    BY <2>1, <2>2
<1>13. ASSUME NEW j \in 1..op_cnt, NEW k \in 1..op_cnt, Of(j) < Of(k)
       PROVE  Blockwise[j] < Blockwise[k]
  <2>1. Of(j) <= Of(k) - 1 /\ Of(j) \in 0..b /\ Of(k) - 1 \in 0..b
    BY <1>1, <1>10, <1>13
  <2>2. BlockEnd(Of(j)) <= BlockEnd(Of(k) - 1) /\ BlockEnd(Of(j)) \in Int
    BY <2>1, <1>11
  <2> QED
    BY <2>2, <1>10, <1>11
<1>14. ASSUME NEW j \in 1..op_cnt, NEW k \in 1..op_cnt, Blockwise[j] = Blockwise[k]
       PROVE  j = k
  <2>1. Of(j) = Of(k)
    <3>1. Of(j) \in Int /\ Of(k) \in Int /\ Blockwise[j] \in Int
      BY <1>1, <1>10, <1>12
    <3>2. ~(Of(j) < Of(k)) /\ ~(Of(k) < Of(j))
      BY <3>1, <1>13, <1>14
    <3> QED
      BY <3>1, <3>2
  <2>2. Of(j) - 1 \in 0..b /\ Of(j) \in 0..b
    BY <1>10
  <2>3. /\ TI(Of(j)) \in Nat /\ TL(Of(j)) \in Nat /\ TR(Of(j)) \in Nat
        /\ TI(Of(j) - 1) \in Nat /\ TL(Of(j) - 1) \in Nat /\ TR(Of(j) - 1) \in Nat
        /\ TI(Of(j) - 1) <= TI(Of(j)) /\ TL(Of(j) - 1) <= TL(Of(j))
        /\ TR(Of(j) - 1) <= TR(Of(j))
    BY <2>2, <1>2, <1>3, <1>4, <1>1
  <2>4. CASE IsInsert(j)
    BY <2>1, <2>3, <2>4, <1>1, <1>6, <1>7, <1>8, <1>9, <1>14
  <2>5. CASE IsLookup(j)
    BY <2>1, <2>3, <2>5, <1>1, <1>6, <1>7, <1>8, <1>9, <1>14
  <2>6. CASE IsRange(j)
    BY <2>1, <2>3, <2>6, <1>1, <1>6, <1>7, <1>8, <1>9, <1>14
  <2> QED
    BY <2>4, <2>5, <2>6, <1>9
<1>15. ASSUME NEW i \in 1..b, NEW d \in BlockEnd(i - 1)..(BlockEnd(i) - 1), NEW j \in 1..I,
              d < Blockwise[j], Blockwise[j] < BlockEnd(i)
       PROVE  \E m \in 1..j : Blockwise[m] = d
  <2>1. j \in 1..op_cnt /\ IsInsert(j)
    BY <1>1
  <2>2. i \in 0..b /\ i - 1 \in 0..b /\ i \in Int
    BY <1>1
  <2>3. Of(j) \in 0..b /\ Of(j) - 1 \in 0..b /\ Of(j) \in Int
        /\ Blockwise[j] \in BlockEnd(Of(j) - 1)..(BlockEnd(Of(j)) - 1)
    BY <2>1, <1>10, <1>1
  <2>4. Of(j) = i
    <3>1. BlockEnd(i) \in Int /\ BlockEnd(i - 1) \in Int /\ BlockEnd(Of(j)) \in Int
          /\ BlockEnd(Of(j) - 1) \in Int
      BY <2>2, <2>3, <1>11
    <3>2. ~(Of(j) < i)
      <4> SUFFICES ASSUME Of(j) < i PROVE FALSE
        OBVIOUS
      <4>1. Of(j) <= i - 1
        BY <2>2, <2>3
      <4>2. BlockEnd(Of(j)) <= BlockEnd(i - 1)
        BY <4>1, <2>2, <2>3, <1>11
      <4> QED
        BY <4>2, <3>1, <2>3, <1>15
    <3>3. ~(i < Of(j))
      <4> SUFFICES ASSUME i < Of(j) PROVE FALSE
        OBVIOUS
      <4>1. i <= Of(j) - 1
        BY <2>2, <2>3
      <4>2. BlockEnd(i) <= BlockEnd(Of(j) - 1)
        BY <4>1, <2>2, <2>3, <1>11
      <4> QED
        BY <4>2, <3>1, <2>3, <1>15
    <3> QED
      BY <2>2, <2>3, <3>2, <3>3
  <2> DEFINE m == j - (Blockwise[j] - d)
  <2>5. /\ TI(i) \in Nat /\ TI(i - 1) \in Nat /\ TL(i - 1) \in Nat /\ TR(i - 1) \in Nat
        /\ BlockEnd(i - 1) = TI(i - 1) + TL(i - 1) + TR(i - 1)
    BY <2>2, <1>2, <1>3, <1>4, <1>5, <1>1
  <2>6. /\ TI(i - 1) < j /\ j <= TI(i)
        /\ Blockwise[j] = j - 1 + TL(i - 1) + TR(i - 1)
    BY <2>1, <2>4, <1>6
  <2>7. BlockEnd(i - 1) <= d /\ d \in Int
    BY <2>5
  <2>8. m \in Int /\ TI(i - 1) < m /\ m < j /\ 1 <= m
    BY <2>5, <2>6, <2>7, <1>15
  <2>9. m \in 1..op_cnt /\ IsInsert(m) /\ m \in 1..j
    BY <2>8, <2>1, <1>1
  <2>10. Of(m) = i
    <3> HIDE DEF m
    <3>1. Of(m) \in 1..b /\ TI(Of(m) - 1) < m /\ m <= TI(Of(m))
      BY <2>9, <1>6
    <3>2. Of(m) \in 0..b /\ Of(m) - 1 \in 0..b /\ Of(m) \in Int
      BY <3>1, <1>1
    <3>3. TI(Of(m)) \in Int /\ TI(Of(m) - 1) \in Int
      BY <3>2, <1>2, <1>1
    <3>4. ~(Of(m) < i)
      <4> SUFFICES ASSUME Of(m) < i PROVE FALSE
        OBVIOUS
      <4>1. Of(m) <= i - 1
        BY <2>2, <3>2
      <4>2. TI(Of(m)) <= TI(i - 1)
        BY <4>1, <2>2, <3>2, <1>2
      <4> QED
        BY <4>2, <3>1, <3>3, <2>5, <2>8
    <3>5. ~(i < Of(m))
      <4> SUFFICES ASSUME i < Of(m) PROVE FALSE
        OBVIOUS
      <4>1. i <= Of(m) - 1
        BY <2>2, <3>2
      <4>2. TI(i) <= TI(Of(m) - 1)
        BY <4>1, <2>2, <3>2, <1>2
      <4> QED
        BY <4>2, <3>1, <3>3, <2>5, <2>8, <2>6
    <3> QED
      BY <2>2, <3>2, <3>4, <3>5
  <2>11. Blockwise[m] = m - 1 + TL(i - 1) + TR(i - 1)
    <3> HIDE DEF m
    <3> QED
      BY <2>9, <2>10, <1>6
  <2>12. Blockwise[m] = d
    BY <2>5, <2>6, <2>7, <2>11
  <2> QED
    BY <2>9, <2>12
<1> QED
  BY <1>12, <1>14, <1>15 DEF b, I

-----------------------------------------------------------------------------
(* The boundaries of the driver's segments. *)

\* First finds the next operation that is an insert, or that is none, or the end.
LEMMA FirstFinds ==
  ASSUME op_cnt \in Nat, NEW from \in 0..op_cnt, NEW wanted \in BOOLEAN
  PROVE  /\ First(from, wanted) \in from..op_cnt
         /\ First(from, wanted) # op_cnt =>
              (ops[First(from, wanted)].op = INSERT) = wanted
<1> DEFINE S == {c \in from..op_cnt : c = op_cnt \/ (ops[c].op = INSERT) = wanted}
<1>1. S \in SUBSET Int /\ op_cnt \in S /\ \A x \in S : from <= x
  OBVIOUS
<1>2. Min(S) \in S
  <2> HIDE DEF S
  <2>1. S # {} /\ from \in Int
    BY <1>1
  <2> QED
    BY <1>1, <2>1, LeastElement
<1> QED
  BY <1>2 DEF First

\* The recursive definition of the boundaries has a solution.
LEMMA BoundsDefined ==
  ASSUME op_cnt \in Nat, set.block_num \in Nat \ {0}
  PROVE  /\ BlockBounds \in [0..(2 * set.block_num) -> 0..op_cnt]
         /\ BlockBounds[0] = 0
         /\ \A j \in 1..(2 * set.block_num) :
              BlockBounds[j] = First(BlockBounds[j - 1], j % 2 = 0)
<1> DEFINE Solves(f, m) ==
             /\ f \in [0..m -> 0..op_cnt] /\ f[0] = 0
             /\ \A j \in 1..m : f[j] = First(f[j - 1], j % 2 = 0)
           Bad == {m \in Nat : ~ \E f : Solves(f, m)}
           M == 2 * set.block_num
<1>1. Bad = {}
  <2> SUFFICES ASSUME Bad # {} PROVE FALSE
    OBVIOUS
  <2>1. Bad \in SUBSET Int /\ 0 \in Int /\ \A x \in Bad : 0 <= x
    OBVIOUS
  <2> DEFINE m == Min(Bad)
  <2>2. m \in Bad /\ \A x \in Bad : m <= x
    <3> HIDE DEF Bad
    <3> QED
      BY <2>1, LeastElement
  <2> HIDE DEF m
  <2>3. CASE m = 0
    <3> DEFINE f == [j \in 0..0 |-> 0]
    <3>1. Solves(f, 0)
      OBVIOUS
    <3> QED
      BY <2>2, <2>3, <3>1
  <2>4. CASE m # 0
    <3>1. m \in Nat /\ m - 1 \in Nat /\ m - 1 \notin Bad
      <4>1. m \in Nat
        BY <2>2
      <4> HIDE DEF Bad
      <4> QED
        BY <4>1, <2>2, <2>4
    <3>2. PICK f : Solves(f, m - 1)
      BY <3>1
    <3> DEFINE next == First(f[m - 1], m % 2 = 0)
               g == [j \in 0..m |-> IF j = m THEN next ELSE f[j]]
    <3>3. f[m - 1] \in 0..op_cnt
      BY <3>1, <3>2
    <3>4. next \in 0..op_cnt
      <4>1. First(f[m - 1], m % 2 = 0) \in f[m - 1]..op_cnt
        BY <3>3, FirstFinds
      <4> QED
        BY <4>1, <3>3
    <3> HIDE DEF next
    <3>5. g \in [0..m -> 0..op_cnt]
      BY <3>1, <3>2, <3>4
    <3>6. g[0] = 0
      BY <3>1, <3>2, <2>4
    <3>7. ASSUME NEW j \in 1..m
          PROVE  g[j] = First(g[j - 1], j % 2 = 0)
      <4>1. j - 1 \in 0..m /\ j - 1 # m /\ j \in 0..m
        BY <3>1
      <4>2. g[j - 1] = f[j - 1]
        BY <4>1
      <4>3. CASE j = m
        BY <4>2, <4>3, <4>1 DEF next
      <4>4. CASE j # m
        <5>1. j \in 1..(m - 1)
          BY <4>4, <3>1
        <5> QED
          BY <4>1, <4>2, <4>4, <5>1, <3>2
      <4> QED
        BY <4>3, <4>4
    <3>8. Solves(g, m)
      BY <3>5, <3>6, <3>7
    <3> QED
      BY <2>2, <3>8
  <2> QED
    BY <2>3, <2>4
<1>2. M \in Nat
  OBVIOUS
<1>3. PICK f : Solves(f, M)
  BY <1>1, <1>2
<1> DEFINE Body(g) == [j \in 0..M |-> IF j = 0 THEN 0 ELSE First(g[j - 1], j % 2 = 0)]
<1>4. f = Body(f)
  <2>1. \A j \in 0..M : f[j] = Body(f)[j]
    <3> SUFFICES ASSUME NEW j \in 0..M
                 PROVE  f[j] = IF j = 0 THEN 0 ELSE First(f[j - 1], j % 2 = 0)
      OBVIOUS
    <3>1. j # 0 => j \in 1..M
      BY <1>2
    <3> QED
      BY <3>1, <1>3
  <2> QED
    BY <2>1, <1>3
<1>5. BlockBounds = CHOOSE g : g = Body(g)
  BY DEF BlockBounds
<1>6. BlockBounds = Body(BlockBounds)
  <2> HIDE DEF Body
  <2> QED
    BY <1>4, <1>5
<1>7. DOMAIN BlockBounds = 0..M /\ BlockBounds[0] = 0
  BY <1>2, <1>6
<1>8. \A j \in 1..M : BlockBounds[j] = First(BlockBounds[j - 1], j % 2 = 0)
  <2> SUFFICES ASSUME NEW j \in 1..M
               PROVE  BlockBounds[j] = First(BlockBounds[j - 1], j % 2 = 0)
    OBVIOUS
  <2>1. j \in 0..M /\ j # 0
    BY <1>2
  <2>2. Body(BlockBounds)[j] = First(BlockBounds[j - 1], j % 2 = 0)
    BY <2>1
  <2> QED
    BY <2>2, <1>6
<1> DEFINE Out == {j \in 0..M : BlockBounds[j] \notin 0..op_cnt}
<1>9. Out = {}
  <2> SUFFICES ASSUME Out # {} PROVE FALSE
    OBVIOUS
  <2>1. Out \in SUBSET Int /\ 0 \in Int /\ \A x \in Out : 0 <= x
    OBVIOUS
  <2> DEFINE m == Min(Out)
  <2>2. m \in Out /\ \A x \in Out : m <= x
    <3> HIDE DEF Out
    <3> QED
      BY <2>1, LeastElement
  <2> HIDE DEF m
  <2>3. m \in 1..M /\ m - 1 \in 0..M /\ m - 1 \notin Out
    BY <2>2, <1>2, <1>7
  <2>4. BlockBounds[m - 1] \in 0..op_cnt
    BY <2>3
  <2>5. First(BlockBounds[m - 1], m % 2 = 0) \in BlockBounds[m - 1]..op_cnt
    BY <2>4, FirstFinds
  <2>6. BlockBounds[m] = First(BlockBounds[m - 1], m % 2 = 0)
    BY <2>3, <1>8
  <2>7. BlockBounds[m] \in 0..op_cnt
    BY <2>4, <2>5, <2>6
  <2> QED
    BY <2>2, <2>7
<1>10. BlockBounds = [j \in 0..M |-> BlockBounds[j]]
  BY <1>6
<1>11. BlockBounds \in [0..M -> 0..op_cnt]
  BY <1>9, <1>10
<1> QED
  BY <1>7, <1>8, <1>11

\* If every block has its inserts first, the boundaries reach the last operation.
LEMMA BoundsReachEnd ==
  ASSUME set.block_num \in Nat \ {0},
         set.insert_cnt \in Nat, set.lookup_cnt \in Nat, set.range_cnt \in Nat,
         \A i \in 1..set.block_num : \A c, d \in BlockEnd(i - 1)..(BlockEnd(i) - 1) :
           d < c /\ c \in Inserts => d \in Inserts
  PROVE  BlockBounds[2 * set.block_num] = op_cnt
<1> DEFINE b == set.block_num
           Behind == {i \in 0..b : BlockBounds[2 * i] < BlockEnd(i)}
<1>1. b \in Nat /\ b > 0 /\ op_cnt \in Nat
  BY DEF op_cnt
<1>2. /\ BlockBounds \in [0..(2 * b) -> 0..op_cnt]
      /\ BlockBounds[0] = 0
      /\ \A j \in 1..(2 * b) : BlockBounds[j] = First(BlockBounds[j - 1], j % 2 = 0)
  BY <1>1, BoundsDefined
<1>3. /\ \A i \in 0..b : BlockEnd(i) \in 0..op_cnt
      /\ BlockEnd(0) = 0 /\ BlockEnd(b) = op_cnt
  <2>1. \A cnt \in Nat : /\ \A i \in 0..b : Through(cnt, i) \in 0..cnt
                         /\ Through(cnt, 0) = 0 /\ Through(cnt, b) = cnt
    BY ThroughGrows
  <2> HIDE DEF b
  <2>2. ASSUME NEW i \in 0..b
        PROVE  BlockEnd(i) \in 0..op_cnt
    <3>1. /\ Through(set.insert_cnt, i) \in 0..set.insert_cnt
          /\ Through(set.lookup_cnt, i) \in 0..set.lookup_cnt
          /\ Through(set.range_cnt, i) \in 0..set.range_cnt
      BY <2>1
    <3> QED
      BY <3>1 DEF BlockEnd, op_cnt
  <2> QED
    BY <2>1, <2>2 DEF BlockEnd, op_cnt
<1>4. Behind = {}
  <2> SUFFICES ASSUME Behind # {} PROVE FALSE
    OBVIOUS
  <2>1. Behind \in SUBSET Int /\ 0 \in Int /\ \A x \in Behind : 0 <= x
    OBVIOUS
  <2> DEFINE i == Min(Behind)
  <2>2. i \in Behind /\ \A x \in Behind : i <= x
    <3> HIDE DEF Behind
    <3> QED
      BY <2>1, LeastElement
  <2> HIDE DEF i
  <2>3. i \in 0..b /\ BlockBounds[2 * i] < BlockEnd(i)
    BY <2>2
  <2>4. i # 0
    BY <2>3, <1>2, <1>3
  <2>5. i \in 1..b /\ i - 1 \in 0..b /\ i - 1 \notin Behind
    BY <2>2, <2>3, <2>4, <1>1
  <2> DEFINE x == BlockBounds[2 * i - 2]
             y == BlockBounds[2 * i - 1]
             z == BlockBounds[2 * i]
  <2>6. /\ 2 * i - 2 \in 0..(2 * b) /\ 2 * i - 1 \in 1..(2 * b) /\ 2 * i \in 1..(2 * b)
        /\ 2 * i - 1 \in 0..(2 * b) /\ 2 * i \in 0..(2 * b)
        /\ (2 * i - 1) - 1 = 2 * i - 2 /\ 2 * (i - 1) = 2 * i - 2
        /\ (2 * i) % 2 = 0 /\ (2 * i - 1) % 2 = 1
    BY <2>5, <1>1
  <2>7. x \in 0..op_cnt /\ y \in 0..op_cnt /\ z \in 0..op_cnt
    BY <2>6, <1>2
  <2>8. y = First(x, FALSE) /\ z = First(y, TRUE)
    <3>1. y = First(x, (2 * i - 1) % 2 = 0) /\ z = First(y, (2 * i) % 2 = 0)
      BY <2>6, <1>2
    <3>2. ((2 * i - 1) % 2 = 0) = FALSE /\ ((2 * i) % 2 = 0) = TRUE
      BY <2>6
    <3> QED
      BY <3>1, <3>2
  <2>9. BlockEnd(i - 1) <= x
    <3>1. ~(BlockBounds[2 * (i - 1)] < BlockEnd(i - 1))
      BY <2>5
    <3> QED
      BY <3>1, <2>5, <2>6, <2>7, <1>3
  <2> HIDE DEF x, y, z
  <2>10. y \in x..op_cnt /\ (y # op_cnt => ops[y].op # INSERT)
    BY <2>7, <2>8, <1>1, FirstFinds
  <2>11. z \in y..op_cnt /\ (z # op_cnt => ops[z].op = INSERT)
    BY <2>7, <2>8, <1>1, FirstFinds
  <2>12. z < BlockEnd(i) /\ BlockEnd(i) \in 0..op_cnt /\ BlockEnd(i - 1) \in 0..op_cnt
    BY <2>3, <2>5, <1>3 DEF z
  <2>13. z # op_cnt /\ y # op_cnt /\ y <= z
    BY <2>7, <2>11, <2>12
  <2>14. ops[z].op = INSERT /\ ops[y].op # INSERT
    BY <2>10, <2>11, <2>13
  <2>15. z \in Inserts /\ y \notin Inserts
    BY <2>7, <2>13, <2>14, <1>1 DEF Inserts
  <2>16. y < z
    BY <2>7, <2>13, <2>15
  <2>17. y \in BlockEnd(i - 1)..(BlockEnd(i) - 1) /\ z \in BlockEnd(i - 1)..(BlockEnd(i) - 1)
    BY <2>7, <2>9, <2>10, <2>12, <2>13
  <2> QED
    BY <2>5, <2>15, <2>16, <2>17
<1>5. ~(BlockBounds[2 * b] < BlockEnd(b))
  BY <1>4, <1>1
<1>6. BlockBounds[2 * b] \in 0..op_cnt
  BY <1>1, <1>2
<1> QED
  BY <1>3, <1>5, <1>6, <1>1

\* What the settings are.
LEMMA SettingFacts ==
  ASSUME keys \in DataSets, set \in Settings
  PROVE  /\ n \in Nat /\ keys \in Seq(Nat) /\ op_cnt \in Nat
         /\ set.insert_cnt \in 0..n /\ set.lookup_cnt \in Nat /\ set.range_cnt \in Nat
         /\ set.lo \in 0..n /\ set.hi \in set.lo..n
         /\ set.pat = "delta" => set.hi = n /\ set.lo = n - set.insert_cnt
         /\ set.block_num \in Nat \ {0}
         /\ set.block_num > 1 =>
              ~set.mix /\ set.insert_cnt > 0 /\ set.lookup_cnt + set.range_cnt > 0
         /\ set.bulkload_cnt \in -1..(n - set.insert_cnt)
<1>1. SettingOK(set, n) /\ keys \in Seq(Nat)
  BY WorkloadAssumption DEF n
<1>2. n \in Nat
  BY <1>1 DEF n
<1>3. /\ set.insert_cnt \in 0..n /\ set.lookup_cnt \in Nat /\ set.range_cnt \in Nat
      /\ set.lo \in 0..n /\ set.hi \in set.lo..n
      /\ set.pat = "delta" => set.hi = n /\ set.lo = n - set.insert_cnt
      /\ set.block_num \in Nat \ {0}
      /\ set.block_num > 1 =>
              ~set.mix /\ set.insert_cnt > 0 /\ set.lookup_cnt + set.range_cnt > 0
      /\ set.bulkload_cnt \in -1..(n - set.insert_cnt)
  BY <1>1 DEF SettingOK
<1>4. op_cnt \in Nat
  BY <1>2, <1>3 DEF op_cnt
<1> QED
  BY <1>1, <1>2, <1>3, <1>4

\* Numbers that do not decrease from one to the next do not decrease at all.
LEMMA AdjacentSorted ==
  ASSUME NEW m \in Nat, NEW f \in [1..m -> Int],
         \A i \in 1..(m - 1) : f[i] <= f[i + 1]
  PROVE  \A i, j \in 1..m : i <= j => f[i] <= f[j]
<1> SUFFICES ASSUME NEW i \in 1..m PROVE \A j \in 1..m : i <= j => f[i] <= f[j]
  OBVIOUS
<1> DEFINE Less == {j \in 1..m : i <= j /\ ~(f[i] <= f[j])}
<1>1. Less = {}
  <2> SUFFICES ASSUME Less # {} PROVE FALSE
    OBVIOUS
  <2>1. Less \in SUBSET Int /\ 0 \in Int /\ \A x \in Less : 0 <= x
    OBVIOUS
  <2> DEFINE j == Min(Less)
  <2>2. j \in Less /\ \A x \in Less : j <= x
    <3> HIDE DEF Less
    <3> QED
      BY <2>1, LeastElement
  <2> HIDE DEF j
  <2>3. j \in 1..m /\ i <= j /\ ~(f[i] <= f[j])
    BY <2>2
  <2>4. i # j
    BY <2>3
  <2>5. j - 1 \in 1..m /\ i <= j - 1 /\ j - 1 < j /\ j - 1 \in 1..(m - 1)
    BY <2>3, <2>4
  <2>6. j - 1 \notin Less
    <3> HIDE DEF Less
    <3> QED
      BY <2>2, <2>3, <2>5
  <2>7. f[i] <= f[j - 1]
    BY <2>5, <2>6
  <2>8. f[j - 1] <= f[j]
    BY <2>5, <2>3
  <2> QED
    BY <2>3, <2>5, <2>7, <2>8
<1> QED
  BY <1>1

\* The keys are sorted.
LEMMA KeysSorted ==
  ASSUME keys \in DataSets
  PROVE  /\ \A v \in Items : v \in Int /\ Key(v) \in Nat
         /\ \A v, w \in Items : v <= w => Key(v) <= Key(w)
<1>1. keys \in Seq(Nat) /\ n \in Nat /\ \A i \in 1..(n - 1) : keys[i] <= keys[i + 1]
  BY WorkloadAssumption DEF n
<1>2. keys \in [1..n -> Int]
  BY <1>1 DEF n
<1>3. \A i, j \in 1..n : i <= j => keys[i] <= keys[j]
  BY <1>1, <1>2, AdjacentSorted
<1>4. \A v \in Items : v \in Int /\ v + 1 \in 1..n /\ Key(v) \in Nat
  BY <1>1 DEF Items, Key, n
<1>5. ASSUME NEW v \in Items, NEW w \in Items, v <= w
      PROVE  Key(v) <= Key(w)
  <2>1. v + 1 \in 1..n /\ w + 1 \in 1..n /\ v + 1 <= w + 1
    BY <1>4, <1>5
  <2> QED
    BY <2>1, <1>3 DEF Key
<1> QED
  BY <1>4, <1>5

\* A shuffle lists the elements of a set once each.
LEMMA ShufflesList ==
  ASSUME NEW S, IsFiniteSet(S), NEW p \in Shuffles(S)
  PROVE  /\ Cardinality(S) \in Nat /\ p \in [1..Cardinality(S) -> S]
         /\ p \in Seq(S) /\ Len(p) = Cardinality(S)
         /\ \A i, j \in 1..Cardinality(S) : p[i] = p[j] => i = j
         /\ \A x \in S : \E i \in 1..Cardinality(S) : p[i] = x
<1> DEFINE c == Cardinality(S)
<1>1. c \in Nat
  BY FS_CardinalityType
<1>2. p \in [1..c -> S] /\ Range(p) = S
  BY DEF Shuffles
<1>3. \A x \in S : \E i \in 1..c : p[i] = x
  BY <1>2 DEF Range
<1>4. IsFiniteSet(1..c) /\ Cardinality(1..c) = c
  BY <1>1, FS_Interval
<1>5. p \in Surjection(1..c, S)
  BY <1>2, <1>3 DEF Surjection
<1>6. p \in Injection(1..c, S)
  BY <1>4, <1>5, FS_SurjSameCardinalityImpliesInj
<1>7. \A i, j \in 1..c : p[i] = p[j] => i = j
  BY <1>2, <1>6 DEF Injection, IsInjective
<1>8. p \in Seq(S) /\ Len(p) = c
  BY <1>1, <1>2
<1> QED
  BY <1>1, <1>2, <1>3, <1>7, <1>8

\* As many images as arguments, if no two are the same.
LEMMA ImageSize ==
  ASSUME NEW m \in Nat, NEW f, \A i, j \in 1..m : f[i] = f[j] => i = j
  PROVE  /\ IsFiniteSet({f[i] : i \in 1..m})
         /\ Cardinality({f[i] : i \in 1..m}) = m
<1> DEFINE T == {f[i] : i \in 1..m}
           g == [i \in 1..m |-> f[i]]
<1>1. g \in Bijection(1..m, T)
  BY DEF Bijection, Injection, Surjection, IsInjective
<1>2. ExistsBijection(1..m, T)
  BY <1>1 DEF ExistsBijection
<1>3. IsFiniteSet(1..m) /\ Cardinality(1..m) = m
  BY FS_Interval
<1> QED
  BY <1>2, <1>3, FS_Bijection

\* A mixed layout, with its inserts sorted, has a place for every operation.
LEMMA InOrderPlaces ==
  ASSUME op_cnt \in Nat, set.insert_cnt \in 0..op_cnt,
         NEW p \in Shuffles(0..(op_cnt - 1))
  PROVE  /\ InOrder(p) \in [1..op_cnt -> 0..(op_cnt - 1)]
         /\ \A i, j \in 1..op_cnt : InOrder(p)[i] = InOrder(p)[j] => i = j
<1> DEFINE I == set.insert_cnt
           N == op_cnt
           P == 0..(N - 1)
           A == {p[i] : i \in 1..I}
           a == Ascending(A)
           rest == SubSeq(p, I + 1, N)
<1>1. IsFiniteSet(P) /\ Cardinality(P) = N
  BY FS_Interval
<1>2. /\ p \in [1..N -> P] /\ p \in Seq(P) /\ Len(p) = N
      /\ \A i, j \in 1..N : p[i] = p[j] => i = j
  BY <1>1, ShufflesList
<1>3. N \in Nat /\ I \in Nat /\ I <= N
  OBVIOUS
<1> HIDE DEF I, N
<1>4. Range(SubSeq(p, 1, I)) = A
  <2>1. /\ SubSeq(p, 1, I) \in Seq(P) /\ Len(SubSeq(p, 1, I)) = I
        /\ \A i \in 1..I : SubSeq(p, 1, I)[i] = p[i]
    BY <1>2, <1>3
  <2> QED
    BY <2>1 DEF Range
<1>5. A \in SUBSET P /\ A \in SUBSET Int
  BY <1>2, <1>3
<1>6. IsFiniteSet(A) /\ Cardinality(A) = I
  <2>1. \A i, j \in 1..I : p[i] = p[j] => i = j
    BY <1>2, <1>3
  <2> QED
    BY <1>3, <2>1, ImageSize
<1>7. /\ a \in [1..I -> A] /\ a \in Seq(A) /\ Len(a) = I
      /\ \A i, j \in 1..I : i < j => a[i] < a[j]
  <2> HIDE DEF A
  <2> QED
    BY <1>5, <1>6, AscendingLists
<1>8. rest \in Seq(P) /\ Len(rest) = N - I /\ \A i \in 1..(N - I) : rest[i] = p[I + i]
  BY <1>2, <1>3
<1>9. InOrder(p) = a \o rest
  BY <1>2, <1>4 DEF InOrder, I
<1> HIDE DEF a, rest
<1>10. /\ a \o rest \in [1..N -> P]
       /\ \A i \in 1..I : (a \o rest)[i] = a[i]
       /\ \A i \in (I + 1)..N : (a \o rest)[i] = p[i]
  <2>1. a \in Seq(P)
    BY <1>5, <1>7, SeqMonotonic
  <2> HIDE DEF P, A
  <2>2. /\ a \o rest \in Seq(P) /\ Len(a \o rest) = Len(a) + Len(rest)
        /\ \A i \in 1..(Len(a) + Len(rest)) :
             (a \o rest)[i] = IF i <= Len(a) THEN a[i] ELSE rest[i - Len(a)]
    BY <2>1, <1>8, ConcatProperties
  <2>3. Len(a) = I /\ Len(a) + Len(rest) = N
    BY <1>3, <1>7, <1>8
  <2> DEFINE both == a \o rest
  <2> HIDE DEF both
  <2>4. both \in Seq(P) /\ Len(both) = N
    BY <2>2, <2>3 DEF both
  <2>5. \A i \in 1..N : both[i] = IF i <= I THEN a[i] ELSE rest[i - I]
    BY <2>2, <2>3 DEF both
  <2>6. ASSUME NEW i \in (I + 1)..N
        PROVE  both[i] = p[i]
    <3>1. i \in 1..N /\ ~(i <= I) /\ i - I \in 1..(N - I) /\ I + (i - I) = i
      BY <1>3
    <3> QED
      BY <3>1, <2>5, <1>8
  <2>7. \A i \in 1..I : both[i] = a[i]
    BY <2>5, <1>3
  <2>8. both \in [1..N -> P]
    BY <2>4
  <2> QED
    BY <2>6, <2>7, <2>8 DEF both
<1>11. ASSUME NEW i \in 1..N, NEW j \in 1..N, (a \o rest)[i] = (a \o rest)[j], i < j
       PROVE  FALSE
  <2>1. CASE j <= I
    <3>1. i \in 1..I /\ j \in 1..I
      BY <2>1, <1>3, <1>11
    <3>2. a[i] < a[j] /\ a[i] = a[j] /\ a[i] \in Int
      BY <3>1, <1>5, <1>7, <1>10, <1>11
    <3> QED
      BY <3>2
  <2>2. CASE i <= I /\ I < j
    <3>1. i \in 1..I /\ j \in (I + 1)..N
      BY <2>2, <1>3
    <3>2. a[i] \in A /\ a[i] = p[j]
      BY <3>1, <1>7, <1>10, <1>11
    <3>3. PICK k \in 1..I : p[k] = p[j]
      BY <3>2
    <3>4. k = j
      BY <3>3, <1>2, <1>3
    <3> QED
      BY <3>4, <2>2, <1>3
  <2>3. CASE I < i
    <3>1. i \in (I + 1)..N /\ j \in (I + 1)..N
      BY <2>3, <1>3, <1>11
    <3>2. p[i] = p[j]
      BY <3>1, <1>10, <1>11
    <3> QED
      BY <3>2, <1>2, <1>11
  <2> QED
    BY <2>1, <2>2, <2>3, <1>3
<1>12. ASSUME NEW i \in 1..N, NEW j \in 1..N, (a \o rest)[i] = (a \o rest)[j]
       PROVE  i = j
  <2>1. ~(i < j) /\ ~(j < i)
    BY <1>11, <1>12
  <2> QED
    BY <2>1, <1>3
<1> QED
  BY <1>9, <1>10, <1>12 DEF N

\* The items of a set in ascending order are a listing of it, as the data are sorted.
LEMMA AscendingListing ==
  ASSUME keys \in DataSets, NEW S \in SUBSET Items
  PROVE  Listing(Ascending(S), S)
<1> DEFINE a == Ascending(S)
           c == Cardinality(S)
<1>1. /\ \A v \in Items : v \in Int /\ Key(v) \in Nat
      /\ \A v, w \in Items : v <= w => Key(v) <= Key(w)
  BY KeysSorted
<1>2. IsFiniteSet(S)
  <2>1. IsFiniteSet(Items)
    <3>1. n \in Nat
      BY WorkloadAssumption DEF n
    <3> QED
      BY <3>1, FS_Interval DEF Items
  <2> QED
    BY <2>1, FS_Subset
<1>3. /\ c \in Nat /\ a \in [1..c -> S] /\ a \in Seq(S) /\ Len(a) = c
      /\ \A i, j \in 1..c : i < j => a[i] < a[j]
      /\ \A x \in S : \E i \in 1..c : a[i] = x
  <2>1. S \in SUBSET Int
    BY <1>1
  <2> QED
    BY <2>1, <1>2, AscendingLists
<1> HIDE DEF a, c
<1>4. \A i \in 1..c : a[i] \in Items /\ a[i] \in Int
  BY <1>1, <1>3
<1>5. \A i, j \in 1..c : a[i] = a[j] => i = j
  BY <1>3, <1>4
<1>6. \A i, j \in 1..c : i < j => Key(a[i]) <= Key(a[j])
  BY <1>1, <1>3, <1>4
<1> QED
  BY <1>3, <1>5, <1>6 DEF Listing, a

\* std::sort leaves a listing of what it sorts.
LEMMA SortedListing ==
  ASSUME keys \in DataSets, NEW S \in SUBSET Items, NEW p \in Sorted(S)
  PROVE  Listing(p, S)
<1>1. \A v \in Items : v \in Int /\ Key(v) \in Nat
  BY KeysSorted
<1>2. IsFiniteSet(S)
  <2>1. IsFiniteSet(Items)
    <3>1. n \in Nat
      BY WorkloadAssumption DEF n
    <3> QED
      BY <3>1, FS_Interval DEF Items
  <2> QED
    BY <2>1, FS_Subset
<1>3. p \in Shuffles(S) /\ \A i \in 1..(Len(p) - 1) : Key(p[i]) <= Key(p[i + 1])
  BY DEF Sorted
<1>4. /\ Len(p) \in Nat /\ p \in [1..Len(p) -> S] /\ p \in Seq(S)
      /\ \A i, j \in 1..Len(p) : p[i] = p[j] => i = j
      /\ \A x \in S : \E i \in 1..Len(p) : p[i] = x
  BY <1>2, <1>3, ShufflesList
<1> DEFINE m == Len(p)
           f == [i \in 1..m |-> Key(p[i])]
<1>5. m \in Nat /\ f \in [1..m -> Int]
  BY <1>1, <1>4
<1>6. \A i \in 1..(m - 1) : f[i] <= f[i + 1]
  BY <1>3, <1>4
<1>7. \A i, j \in 1..m : i <= j => f[i] <= f[j]
  <2> HIDE DEF f, m
  <2> QED
    BY <1>5, <1>6, AdjacentSorted
<1>8. \A i, j \in 1..m : i < j => Key(p[i]) <= Key(p[j])
  <2> SUFFICES ASSUME NEW i \in 1..m, NEW j \in 1..m, i < j
               PROVE  Key(p[i]) <= Key(p[j])
    OBVIOUS
  <2>1. f[i] = Key(p[i]) /\ f[j] = Key(p[j]) /\ i <= j
    BY <1>5
  <2> HIDE DEF f
  <2> QED
    BY <2>1, <1>7
<1> QED
  BY <1>4, <1>8 DEF Listing

\* Two listings, the items of the first all before those of the second, make a listing
\* of both.
LEMMA ListingsConcatenate ==
  ASSUME keys \in DataSets, NEW S \in SUBSET Items, NEW T \in SUBSET Items,
         NEW s, NEW t, Listing(s, S), Listing(t, T),
         \A x \in S, y \in T : x < y
  PROVE  Listing(s \o t, S \cup T)
<1>1. /\ \A v \in Items : v \in Int /\ Key(v) \in Nat
      /\ \A v, w \in Items : v <= w => Key(v) <= Key(w)
  BY KeysSorted
<1> DEFINE U == S \cup T
           both == s \o t
           a == Len(s)
           b == Len(t)
<1>2. s \in Seq(U) /\ t \in Seq(U) /\ s \in Seq(S) /\ t \in Seq(T)
  BY SeqMonotonic DEF Listing
<1>3. a \in Nat /\ b \in Nat /\ s \in [1..a -> S] /\ t \in [1..b -> T]
  BY <1>2
<1>4. /\ both \in Seq(U) /\ Len(both) = a + b
      /\ \A i \in 1..(a + b) : both[i] = IF i <= a THEN s[i] ELSE t[i - a]
  BY <1>2, ConcatProperties
<1>5. /\ \A x \in S : \E i \in 1..a : s[i] = x
      /\ \A i, j \in 1..a : s[i] = s[j] => i = j
      /\ \A i, j \in 1..a : i < j => Key(s[i]) <= Key(s[j])
      /\ \A x \in T : \E i \in 1..b : t[i] = x
      /\ \A i, j \in 1..b : t[i] = t[j] => i = j
      /\ \A i, j \in 1..b : i < j => Key(t[i]) <= Key(t[j])
  BY DEF Listing
<1> HIDE DEF both, a, b
<1>6. ASSUME NEW i \in 1..(a + b)
      PROVE  \/ i \in 1..a /\ both[i] = s[i] /\ s[i] \in S
             \/ i - a \in 1..b /\ both[i] = t[i - a] /\ t[i - a] \in T
  <2>1. CASE i <= a
    BY <2>1, <1>3, <1>4
  <2>2. CASE ~(i <= a)
    BY <2>2, <1>3, <1>4
  <2> QED
    BY <2>1, <2>2
<1>7. ASSUME NEW i \in 1..(a + b), NEW j \in 1..(a + b), i < j
      PROVE  both[i] # both[j] /\ Key(both[i]) <= Key(both[j])
  <2>1. i \in Int /\ j \in Int /\ a \in Int
    BY <1>3
  <2>2. CASE j \in 1..a /\ both[j] = s[j] /\ s[j] \in S
    <3>1. i \in 1..a /\ both[i] = s[i]
      BY <2>1, <2>2, <1>6, <1>7
    <3> QED
      BY <2>1, <2>2, <3>1, <1>5, <1>7
  <2>3. CASE j - a \in 1..b /\ both[j] = t[j - a] /\ t[j - a] \in T
    <3>1. CASE i \in 1..a /\ both[i] = s[i] /\ s[i] \in S
      <4>1. both[i] < both[j] /\ both[i] \in Items /\ both[j] \in Items
        BY <2>3, <3>1
      <4> QED
        BY <4>1, <1>1
    <3>2. CASE i - a \in 1..b /\ both[i] = t[i - a] /\ t[i - a] \in T
      <4>1. i - a < j - a /\ i - a # j - a
        BY <2>1, <1>7
      <4> QED
        BY <2>3, <3>2, <4>1, <1>5
    <3> QED
      BY <3>1, <3>2, <1>6
  <2> QED
    BY <2>2, <2>3, <1>6
<1>8. \A i, j \in 1..(a + b) : both[i] = both[j] => i = j
  <2> SUFFICES ASSUME NEW i \in 1..(a + b), NEW j \in 1..(a + b), both[i] = both[j]
               PROVE  i = j
    OBVIOUS
  <2>1. ~(i < j) /\ ~(j < i)
    BY <1>7
  <2> QED
    BY <2>1, <1>3
<1>9. \A x \in U : \E i \in 1..(a + b) : both[i] = x
  <2> SUFFICES ASSUME NEW x \in U PROVE \E i \in 1..(a + b) : both[i] = x
    OBVIOUS
  <2>1. CASE x \in S
    <3>1. PICK i \in 1..a : s[i] = x
      BY <2>1, <1>5
    <3>2. i \in 1..(a + b) /\ i <= a
      BY <1>3
    <3> QED
      BY <3>1, <3>2, <1>4
  <2>2. CASE x \in T
    <3>1. PICK i \in 1..b : t[i] = x
      BY <2>2, <1>5
    <3>2. i + a \in 1..(a + b) /\ ~(i + a <= a) /\ (i + a) - a = i
      BY <1>3
    <3> QED
      BY <3>1, <3>2, <1>4
  <2> QED
    BY <2>1, <2>2
<1> QED
  BY <1>4, <1>7, <1>8, <1>9 DEF Listing, both

\* std::sample keeps the order, so a sample of a listing is one.
LEMMA ListingSampled ==
  ASSUME NEW s, NEW S, Listing(s, S), NEW Q \in SUBSET (1..Len(s))
  PROVE  Listing(At(s, Ascending(Q)), {s[i] : i \in Q})
<1> DEFINE a == Ascending(Q)
           c == Cardinality(Q)
           T == {s[i] : i \in Q}
           r == At(s, a)
<1>1. Len(s) \in Nat
  BY DEF Listing
<1>2. IsFiniteSet(Q) /\ Q \in SUBSET Int
  <2>1. IsFiniteSet(1..Len(s))
    BY <1>1, FS_Interval
  <2>2. IsFiniteSet(Q)
    BY <2>1, FS_Subset
  <2> QED
    BY <2>2, <1>1
<1>3. /\ c \in Nat /\ a \in [1..c -> Q] /\ a \in Seq(Q) /\ Len(a) = c
      /\ \A i, j \in 1..c : i < j => a[i] < a[j]
      /\ \A x \in Q : \E i \in 1..c : a[i] = x
  BY <1>2, AscendingLists
<1> HIDE DEF a, c
<1>4. r = [i \in 1..c |-> s[a[i]]]
  BY <1>3 DEF At
<1> HIDE DEF r
<1>5. r \in [1..c -> T]
  BY <1>3, <1>4
<1>6. r \in Seq(T) /\ Len(r) = c
  BY <1>3, <1>5
<1>7. /\ \A i, j \in 1..Len(s) : s[i] = s[j] => i = j
      /\ \A i, j \in 1..Len(s) : i < j => Key(s[i]) <= Key(s[j])
  BY DEF Listing
<1>8. \A i \in 1..c : a[i] \in 1..Len(s) /\ a[i] \in Int /\ r[i] = s[a[i]]
  <2> SUFFICES ASSUME NEW i \in 1..c
               PROVE  a[i] \in 1..Len(s) /\ a[i] \in Int /\ r[i] = s[a[i]]
    OBVIOUS
  <2>1. a[i] \in Q
    BY <1>3
  <2>2. r[i] = s[a[i]]
    BY <1>4, Zenon
  <2>3. a[i] \in 1..Len(s)
    BY <2>1, Zenon
  <2>4. a[i] \in Int
    BY <1>2, <2>1, Zenon
  <2> QED
    BY <2>2, <2>3, <2>4
<1>9. \A i, j \in 1..c : i < j => Key(r[i]) <= Key(r[j])
  BY <1>3, <1>7, <1>8
<1>10. \A i, j \in 1..c : r[i] = r[j] => i = j
  <2> SUFFICES ASSUME NEW i \in 1..c, NEW j \in 1..c, r[i] = r[j]
               PROVE  i = j
    OBVIOUS
  <2>1. a[i] = a[j]
    BY <1>7, <1>8
  <2> QED
    BY <2>1, <1>3, <1>8
<1>11. \A x \in T : \E i \in 1..c : r[i] = x
  <2> SUFFICES ASSUME NEW q \in Q PROVE \E i \in 1..c : r[i] = s[q]
    OBVIOUS
  <2>1. PICK i \in 1..c : a[i] = q
    BY <1>3
  <2> QED
    BY <2>1, <1>8
<1> QED
  BY <1>6, <1>9, <1>10, <1>11 DEF Listing, r, a

\* The segments begin at the first operation, follow one another without a gap and end
\* at the last operation.
LEMMA SegmentsCover ==
  ASSUME keys \in DataSets, set \in Settings,
         set.block_num > 1 =>
           \A i \in 1..set.block_num : \A c, d \in BlockEnd(i - 1)..(BlockEnd(i) - 1) :
             d < c /\ c \in Inserts => d \in Inserts
  PROVE  /\ SegmentCount \in Nat \ {0} /\ Start(0) = 0
         /\ \A i \in 0..(SegmentCount - 1) :
              /\ Start(i) \in 0..op_cnt /\ Limit(i) \in Start(i)..op_cnt
              /\ i + 1 < SegmentCount => Limit(i) = Start(i + 1)
         /\ Limit(SegmentCount - 1) = op_cnt
<1>1. /\ op_cnt \in Nat /\ set.insert_cnt \in Nat /\ set.lookup_cnt \in Nat
      /\ set.range_cnt \in Nat /\ set.block_num \in Nat \ {0}
      /\ set.block_num > 1 =>
           ~set.mix /\ set.insert_cnt > 0 /\ set.lookup_cnt + set.range_cnt > 0
  BY SettingFacts
<1>2. CASE set.block_num > 1
  <2> DEFINE M == 2 * set.block_num
  <2>1. flag = 0
    BY <1>1, <1>2 DEF flag, op_cnt
  <2>2. SegmentCount = M /\ M \in Nat \ {0} /\ M - 1 \in 0..(M - 1)
    BY <1>1, <2>1 DEF SegmentCount
  <2>3. \A i : Start(i) = BlockBounds[i] /\ Limit(i) = BlockBounds[i + 1]
    BY <1>2 DEF Start, Limit, BoundPoints
  <2>4. /\ BlockBounds \in [0..M -> 0..op_cnt] /\ BlockBounds[0] = 0
        /\ \A j \in 1..M : BlockBounds[j] = First(BlockBounds[j - 1], j % 2 = 0)
    BY <1>1, BoundsDefined
  <2>5. BlockBounds[M] = op_cnt
    BY <1>1, <1>2, BoundsReachEnd
  <2> HIDE DEF M
  <2>6. ASSUME NEW i \in 0..(M - 1)
        PROVE  BlockBounds[i] \in 0..op_cnt /\ BlockBounds[i + 1] \in BlockBounds[i]..op_cnt
    <3>1. i \in 0..M /\ i + 1 \in 1..M /\ (i + 1) - 1 = i
      BY <2>2
    <3>2. BlockBounds[i] \in 0..op_cnt
      BY <3>1, <2>4
    <3>3. BlockBounds[i + 1] = First(BlockBounds[i], (i + 1) % 2 = 0)
      BY <3>1, <2>4
    <3> QED
      BY <3>2, <3>3, <1>1, FirstFinds
  <2>7. \A i \in 0..(M - 1) : Start(i) \in 0..op_cnt /\ Limit(i) \in Start(i)..op_cnt
    BY <2>3, <2>6
  <2>8. (M - 1) + 1 = M
    BY <2>2
  <2> QED
    BY <2>2, <2>3, <2>4, <2>5, <2>7, <2>8
<1>3. CASE ~(set.block_num > 1)
  <2>1. set.block_num = 1
    BY <1>1, <1>3
  <2>2. flag \in {0, 1} /\ SegmentCount = 2 - flag
    BY <2>1 DEF flag, SegmentCount
  <2> DEFINE first == First(0, FALSE)
             one == IF flag = 1 THEN 0 ELSE first
  <2>3. one \in 0..op_cnt
    <3>1. 0 \in 0..op_cnt /\ FALSE \in BOOLEAN
      BY <1>1
    <3>2. first \in 0..op_cnt
      BY <3>1, <1>1, FirstFinds, Zenon
    <3> HIDE DEF first
    <3> QED
      BY <3>1, <3>2
  <2>4. /\ Start(0) = 0 /\ Start(1) = one
        /\ flag = 1 => Limit(0) = op_cnt
        /\ flag = 0 => Limit(0) = one /\ Limit(1) = op_cnt
    <3> HIDE DEF one
    <3>1. BoundPoints = [j \in 0..2 |-> IF j = 2 THEN op_cnt
                                        ELSE IF j = 1 /\ flag = 0 THEN first ELSE 0]
      BY <1>3 DEF BoundPoints
    <3> HIDE DEF first
    <3>2. BoundPoints[0] = 0 /\ BoundPoints[1] = one /\ BoundPoints[2] = op_cnt
      BY <2>2, <3>1 DEF one
    <3>3. \A i : Start(i) = BoundPoints[i] /\ Limit(i) = BoundPoints[i + 1 + flag]
      BY <1>3 DEF Start, Limit
    <3> QED
      BY <3>2, <3>3
  <2> HIDE DEF one
  <2>5. CASE flag = 1
    BY <2>2, <2>4, <2>5, <1>1
  <2>6. CASE flag = 0
    BY <2>2, <2>3, <2>4, <2>6, <1>1
  <2> QED
    BY <2>2, <2>5, <2>6
<1> QED
  BY <1>2, <1>3

-----------------------------------------------------------------------------
(* What a step leaves alone. *)

\* Of the data set and the setting.
LEMMA SameSetting ==
  ASSUME keys' = keys, set' = set
  PROVE  /\ n' = n /\ Items' = Items /\ op_cnt' = op_cnt /\ InsertCount' = InsertCount
         /\ \A v : Key(v)' = Key(v)
         /\ \A i : BlockEnd(i)' = BlockEnd(i)
         /\ Blockwise' = Blockwise
         /\ \A s, S : Listing(s, S)' <=> Listing(s, S)
         /\ \A S, a, b : Within(S, a, b)' = Within(S, a, b)
<1>1. n' = n
  BY DEF n
<1>2. Items' = Items /\ op_cnt' = op_cnt /\ InsertCount' = InsertCount
  BY <1>1 DEF Items, op_cnt, InsertCount
<1>3. \A v : Key(v)' = Key(v)
  BY DEF Key
<1>4. \A c, i : Through(c, i)' = Through(c, i)
  BY DEF Through
<1>5. \A i : BlockEnd(i)' = BlockEnd(i)
  BY DEF BlockEnd, Through
<1>6. Blockwise' = Blockwise
  BY DEF Blockwise, BlockOf, Through, op_cnt
<1>7. \A s, S : Listing(s, S)' <=> Listing(s, S)
  BY DEF Listing, Key
<1>8. \A S, a, b : Within(S, a, b)' = Within(S, a, b)
  BY DEF Within, Key
<1> QED
  BY <1>1, <1>2, <1>3, <1>5, <1>6, <1>7, <1>8

\* Of a workload.
LEMMA SameWorkload ==
  ASSUME keys' = keys, set' = set, ops' = ops, bulk_loads' = bulk_loads
  PROVE  /\ Inserts' = Inserts /\ Inserted' = Inserted
         /\ \A j : Before(j)' = Before(j)
         /\ \A j : Answered(j)' <=> Answered(j)
         /\ SegmentCount' = SegmentCount
         /\ \A i : Start(i)' = Start(i) /\ Limit(i)' = Limit(i)
<1>1. op_cnt' = op_cnt
  BY SameSetting
<1>2. Inserts' = Inserts
  BY <1>1 DEF Inserts
<1>3. Inserted' = Inserted
  BY <1>2 DEF Inserted
<1>4. \A j : Before(j)' = Before(j)
  BY <1>2 DEF Before
<1>5. \A j : Answered(j)' <=> Answered(j)
  BY <1>4 DEF Answered, Within, Key
<1>6. flag' = flag
  BY <1>1 DEF flag
<1>7. SegmentCount' = SegmentCount
  BY <1>6 DEF SegmentCount
<1>8. BoundPoints' = BoundPoints
  BY DEF BoundPoints, BlockBounds, First, flag, op_cnt
<1>9. \A i : Start(i)' = Start(i) /\ Limit(i)' = Limit(i)
  BY <1>6, <1>8 DEF Start, Limit
<1> QED
  BY <1>2, <1>3, <1>4, <1>5, <1>7, <1>9

-----------------------------------------------------------------------------
(* The steps of the driver. *)

Layouts == Typed /\ Places /\ InsertPlaces /\ InsertsFirst /\ Partition

\* They leave the workload alone.
LEMMA DriverFrame ==
  ASSUME Layouts, keys' = keys, set' = set, ops' = ops, bulk_loads' = bulk_loads,
         pc \in {"fill", "run", "next"},
         pc' \in {"fill", "run", "next", "done", "failed"}
  PROVE  Layouts'
<1> USE DEF Layouts
<1>1. /\ n' = n /\ Items' = Items /\ op_cnt' = op_cnt /\ InsertCount' = InsertCount
      /\ \A i : BlockEnd(i)' = BlockEnd(i)
      /\ \A r, S : Listing(r, S)' <=> Listing(r, S)
  BY SameSetting
<1>2. Inserts' = Inserts /\ Inserted' = Inserted
  BY SameWorkload
<1>3. Typed'
  BY <1>1, <1>2 DEF Typed
<1>4. Places' /\ InsertPlaces'
  BY DEF Places, InsertPlaces
<1>5. InsertsFirst'
  BY <1>1, <1>2 DEF InsertsFirst, HasPartition
<1>6. Partition'
  <2>1. HasPartition
    BY DEF HasPartition
  <2>2. Listing(bulk_loads, Range(bulk_loads))'
    BY <2>1, <1>1 DEF Partition, Listing, Key
  <2> QED
    BY <2>1, <2>2, <1>1, <1>2 DEF Partition
<1> QED
  BY <1>3, <1>4, <1>5, <1>6

\* What IInv says of the segments.
LEMMA SegmentFacts ==
  ASSUME Layouts, pc \in {"fill", "run", "next"}
  PROVE  /\ op_cnt \in Nat /\ SegmentCount \in Nat \ {0} /\ Start(0) = 0
         /\ \A i \in 0..(SegmentCount - 1) :
              /\ Start(i) \in 0..op_cnt /\ Limit(i) \in Start(i)..op_cnt
              /\ i + 1 < SegmentCount => Limit(i) = Start(i + 1)
         /\ Limit(SegmentCount - 1) = op_cnt
<1>1. keys \in DataSets /\ set \in Settings
  BY DEF Layouts, Typed
<1>2. set.block_num > 1 =>
           \A i \in 1..set.block_num : \A c, d \in BlockEnd(i - 1)..(BlockEnd(i) - 1) :
             d < c /\ c \in Inserts => d \in Inserts
  BY DEF Layouts, InsertsFirst, HasPartition
<1> QED
  BY <1>1, <1>2, SettingFacts, SegmentsCover

\* The items in the index are items of the data set.
LEMMA BeforeItems ==
  ASSUME Typed, NEW j
  PROVE  Before(j) \in SUBSET Items
<1>1. Range(bulk_loads) \in SUBSET Items
  BY DEF Typed, Range
<1>2. \A m \in Inserts : ops[m].result \in Items
  BY DEF Typed, Inserts
<1> QED
  BY <1>1, <1>2 DEF Before

\* Executing an operation that is an insert adds its item, and no other adds one.
LEMMA BeforeNext ==
  ASSUME op_cnt \in Nat, NEW j \in 0..(op_cnt - 1)
  PROVE  /\ ops[j].op = INSERT => Before(j + 1) = Before(j) \cup {ops[j].result}
         /\ ops[j].op # INSERT => Before(j + 1) = Before(j)
<1>1. \A i \in Inserts : i \in Int
  BY DEF Inserts
<1>2. CASE ops[j].op = INSERT
  <2>1. {i \in Inserts : i < j + 1} = {i \in Inserts : i < j} \cup {j}
    BY <1>1, <1>2 DEF Inserts
  <2> QED
    BY <1>2, <2>1 DEF Before
<1>3. CASE ops[j].op # INSERT
  <2>1. j \notin Inserts
    BY <1>3 DEF Inserts
  <2>2. {i \in Inserts : i < j + 1} = {i \in Inserts : i < j}
    BY <1>1, <2>1
  <2> QED
    BY <1>3, <2>2 DEF Before
<1> QED
  BY <1>2, <1>3

\* A repetition begins at the first operation, with an index of the bulk load.
LEMMA BuildIndexStep ==
  ASSUME IInv, BuildIndex
  PROVE  IInv'
<1>1. /\ keys' = keys /\ set' = set /\ ops' = ops /\ bulk_loads' = bulk_loads
      /\ pc \in {"fill", "next"} /\ pc' = "run"
      /\ index' = Range(bulk_loads) /\ segment' = 0 /\ idx' = Start(0)
      /\ executed' = <<>> /\ run_failed' = run_failed
      /\ pc = "fill" => idx = op_cnt
  BY DEF BuildIndex, generated
<1>2. Layouts
  BY DEF IInv, Layouts
<1>3. Layouts'
  BY <1>1, <1>2, DriverFrame
<1>4. /\ op_cnt \in Nat /\ SegmentCount \in Nat \ {0} /\ Start(0) = 0
      /\ Limit(0) \in 0..op_cnt
  BY <1>1, <1>2, SegmentFacts
<1>5. /\ op_cnt' = op_cnt /\ SegmentCount' = SegmentCount
      /\ \A i : Start(i)' = Start(i) /\ Limit(i)' = Limit(i)
      /\ \A j : Before(j)' = Before(j) /\ (Answered(j)' <=> Answered(j))
  BY <1>1, SameSetting, SameWorkload
<1>6. Answers'
  <2>1. \A j \in 0..(op_cnt - 1) : Answered(j)
    BY <1>1, <1>4 DEF IInv, Answers, HasWorkload
  <2>2. \A j \in 0..(op_cnt' - 1) : Answered(j)'
    BY <2>1, <1>5
  <2> QED
    BY <2>2, <1>1 DEF Answers
<1>7. Progress'
  <2>1. ~run_failed'
    BY <1>1 DEF IInv, Progress
  <2>2. segment' \in 0..(SegmentCount' - 1)
    BY <1>1, <1>4, <1>5
  <2>3. Start(segment)' = 0 /\ Limit(segment)' = Limit(0)
    <3>1. Start(segment)' = Start(0)' /\ Limit(segment)' = Limit(0)'
      BY <1>1 DEF Start, Limit
    <3> QED
      BY <3>1, <1>4, <1>5
  <2>4. idx' \in Start(segment)'..Limit(segment)'
    BY <2>3, <1>1, <1>4
  <2>5. Before(idx)' = Range(bulk_loads)
    <3>1. \A i \in Inserts : ~(i < 0)
      BY <1>4 DEF Inserts
    <3>2. Before(0) = Range(bulk_loads)
      BY <3>1 DEF Before
    <3>3. Before(idx)' = Before(0)'
      BY <1>1, <1>4 DEF Before
    <3> QED
      BY <3>2, <3>3, <1>5
  <2>6. executed' = [j \in 1..idx' |-> j - 1]
    BY <1>1, <1>4
  <2> QED
    BY <2>1, <2>2, <2>4, <2>5, <2>6, <1>1 DEF Progress
<1> QED
  BY <1>3, <1>6, <1>7 DEF IInv, Layouts

\* An operation is executed, and its answer is the expected one.
LEMMA ExecutedStep ==
  ASSUME IInv, pc = "run", idx < Limit(segment), index' = Before(idx + 1),
         Executed(FALSE)
  PROVE  IInv'
<1>1. /\ keys' = keys /\ set' = set /\ ops' = ops /\ bulk_loads' = bulk_loads
      /\ idx' = idx + 1 /\ executed' = Append(executed, idx) /\ segment' = segment
  BY DEF Executed, generated
<1>2. ~run_failed' /\ pc' = "run"
  <2>1. ~run_failed
    BY DEF IInv, Progress
  <2>2. ~run_failed'
    BY <2>1 DEF Executed
  <2> QED
    BY <2>2 DEF Executed
<1>3. Layouts
  BY DEF IInv, Layouts
<1>4. Layouts'
  BY <1>1, <1>2, <1>3, DriverFrame
<1>5. /\ segment \in 0..(SegmentCount - 1) /\ idx \in Start(segment)..Limit(segment)
      /\ executed = [j \in 1..idx |-> j - 1]
  BY DEF IInv, Progress
<1>6. /\ op_cnt \in Nat /\ Start(segment) \in 0..op_cnt
      /\ Limit(segment) \in Start(segment)..op_cnt
  BY <1>3, <1>5, SegmentFacts
<1>7. /\ op_cnt' = op_cnt /\ SegmentCount' = SegmentCount
      /\ \A i : Start(i)' = Start(i) /\ Limit(i)' = Limit(i)
      /\ \A j : Before(j)' = Before(j) /\ (Answered(j)' <=> Answered(j))
  BY <1>1, SameSetting, SameWorkload
<1>8. Answers'
  <2>1. \A j \in 0..(op_cnt - 1) : Answered(j)
    BY DEF IInv, Answers, HasWorkload
  <2>2. \A j \in 0..(op_cnt' - 1) : Answered(j)'
    BY <2>1, <1>7
  <2> QED
    BY <2>2, <1>2 DEF Answers
<1>9. Progress'
  <2>1. Start(segment)' = Start(segment) /\ Limit(segment)' = Limit(segment)
    <3> DEFINE i == segment
    <3>1. Start(segment)' = Start(i)' /\ Limit(segment)' = Limit(i)'
      BY <1>1 DEF Start, Limit
    <3>2. BoundPoints' = BoundPoints /\ flag' = flag
      BY <1>1 DEF BoundPoints, BlockBounds, First, flag, op_cnt
    <3> QED
      BY <3>2, <1>1 DEF Start, Limit
  <2>2. idx \in Nat /\ idx' \in Start(segment)'..Limit(segment)'
    BY <2>1, <1>1, <1>5, <1>6
  <2>3. Before(idx)' = Before(idx + 1)
    BY <1>1, SameWorkload DEF Before
  <2>4. executed' = [j \in 1..idx' |-> j - 1]
    <3> DEFINE e == [j \in 1..idx |-> j - 1]
    <3>1. e \in Seq(Nat) /\ Len(e) = idx
      BY <2>2
    <3>2. /\ Append(e, idx) \in Seq(Nat) /\ Len(Append(e, idx)) = idx + 1
          /\ \A j \in 1..(idx + 1) : Append(e, idx)[j] = j - 1
      BY <2>2, <3>1
    <3>3. Append(e, idx) = [j \in 1..(idx + 1) |-> j - 1]
      BY <3>2
    <3> QED
      BY <3>3, <1>1, <1>5
  <2> QED
    BY <2>2, <2>3, <2>4, <1>1, <1>2, <1>5, <1>7 DEF Progress
<1> QED
  BY <1>4, <1>8, <1>9 DEF IInv, Layouts

\* DoOpsCoreLoop: each kind of operation is executed with the expected answer.
LEMMA DoStep ==
  ASSUME IInv, DoInsert \/ DoLookup \/ DoRangeQuery
  PROVE  IInv'
<1>1. pc = "run" /\ idx < Limit(segment)
  BY DEF DoInsert, DoLookup, DoRangeQuery, Running
<1>2. /\ index = Before(idx) /\ segment \in 0..(SegmentCount - 1)
      /\ idx \in Start(segment)..Limit(segment) /\ Typed /\ Layouts
  BY <1>1 DEF IInv, Progress, Layouts
<1>3. op_cnt \in Nat /\ idx \in 0..(op_cnt - 1)
  BY <1>1, <1>2, SegmentFacts
<1>4. Answered(idx)
  BY <1>1, <1>3 DEF IInv, Answers, HasWorkload
<1>5. /\ ops[idx].op = INSERT => Before(idx + 1) = Before(idx) \cup {ops[idx].result}
      /\ ops[idx].op # INSERT => Before(idx + 1) = Before(idx)
  BY <1>3, BeforeNext
<1>6. CASE DoInsert
  <2>1. index' = Before(idx + 1) /\ Executed(FALSE)
    BY <1>2, <1>5, <1>6 DEF DoInsert, Running
  <2> QED
    BY <2>1, <1>1, ExecutedStep
<1>7. CASE DoLookup
  <2> DEFINE key == ops[idx].lo_key
             there == {v \in index : Key(v) = key}
  <2>1. PICK answer \in (IF there = {} THEN {NOT_FOUND} ELSE there) :
               Executed(~through /\ WrongLookup(answer, key, ops[idx].result))
    BY <1>7 DEF DoLookup
  <2>2. ops[idx].op = LOOKUP /\ index' = index
    BY <1>7 DEF DoLookup, Running
  <2>3. \/ ops[idx].result = NOT_FOUND /\ there = {}
        \/ ops[idx].result = 0 /\ there # {}
    BY <2>2, <1>2, <1>4 DEF Answered
  <2>4. \A v \in there : v # NOT_FOUND
    <3>1. there \in SUBSET Items
      BY <1>2, BeforeItems
    <3> QED
      BY <3>1 DEF Items, NOT_FOUND
  <2>5. ~WrongLookup(answer, key, ops[idx].result)
    BY <2>1, <2>3, <2>4 DEF WrongLookup, NOT_FOUND
  <2>6. (~through /\ WrongLookup(answer, key, ops[idx].result)) = FALSE
    BY <2>5
  <2>7. Executed(FALSE)
    BY <2>1, <2>6
  <2>8. index' = Before(idx + 1)
    BY <2>2, <1>2, <1>5 DEF INSERT, LOOKUP
  <2> QED
    BY <2>7, <2>8, <1>1, ExecutedStep
<1>8. CASE DoRangeQuery
  <2>1. /\ ops[idx].op = RANGE_QUERY /\ index' = index
        /\ Executed(~through /\ SumSet(Within(index, ops[idx].lo_key, ops[idx].hi_key))
                                  # ops[idx].result)
    BY <1>8 DEF DoRangeQuery, Running
  <2>2. ops[idx].result = SumSet(Within(index, ops[idx].lo_key, ops[idx].hi_key))
    BY <2>1, <1>2, <1>4 DEF Answered
  <2>3. (~through /\ SumSet(Within(index, ops[idx].lo_key, ops[idx].hi_key))
                       # ops[idx].result) = FALSE
    BY <2>2
  <2>4. Executed(FALSE)
    BY <2>1, <2>3
  <2>5. index' = Before(idx + 1)
    BY <2>1, <1>2, <1>5 DEF INSERT, RANGE_QUERY
  <2> QED
    BY <2>4, <2>5, <1>1, ExecutedStep
<1> QED
  BY <1>6, <1>7, <1>8

\* DoOps: a segment begins where the one before it ended, and the last ends at the
\* last operation.
LEMMA EndSegmentStep ==
  ASSUME IInv, EndSegment
  PROVE  IInv'
<1>1. /\ keys' = keys /\ set' = set /\ ops' = ops /\ bulk_loads' = bulk_loads
      /\ pc = "run" /\ idx = Limit(segment) /\ segment' = segment + 1
      /\ index' = index /\ run_failed' = run_failed /\ executed' = executed
  BY DEF EndSegment, generated
<1>2. Layouts
  BY DEF IInv, Layouts
<1>3. pc' \in {"run", "next", "done"}
  BY <1>1 DEF EndSegment
<1>4. Layouts'
  BY <1>1, <1>2, <1>3, DriverFrame
<1>5. /\ segment \in 0..(SegmentCount - 1) /\ index = Before(idx) /\ ~run_failed
      /\ executed = [j \in 1..idx |-> j - 1]
  BY <1>1 DEF IInv, Progress
<1>6. /\ op_cnt \in Nat /\ SegmentCount \in Nat \ {0}
      /\ \A i \in 0..(SegmentCount - 1) :
           /\ Start(i) \in 0..op_cnt /\ Limit(i) \in Start(i)..op_cnt
           /\ i + 1 < SegmentCount => Limit(i) = Start(i + 1)
      /\ Limit(SegmentCount - 1) = op_cnt
  BY <1>1, <1>2, SegmentFacts
<1>7. /\ op_cnt' = op_cnt /\ SegmentCount' = SegmentCount
      /\ \A j : Before(j)' = Before(j) /\ (Answered(j)' <=> Answered(j))
  BY <1>1, SameSetting, SameWorkload
<1>8. Answers'
  <2>1. \A j \in 0..(op_cnt - 1) : Answered(j)
    BY <1>1 DEF IInv, Answers, HasWorkload
  <2>2. \A j \in 0..(op_cnt' - 1) : Answered(j)'
    BY <2>1, <1>7
  <2> QED
    BY <2>2, <1>3 DEF Answers
<1>9. Progress'
  <2>1. CASE segment + 1 < SegmentCount
    <3>1. pc' = "run" /\ idx' = Start(segment')
      BY <2>1, <1>1 DEF EndSegment
    <3>2. segment' \in 0..(SegmentCount - 1)
      BY <2>1, <1>1, <1>5, <1>6
    <3>3. idx' = idx
      BY <2>1, <3>1, <1>1, <1>5, <1>6
    <3>4. Start(segment)' = Start(segment') /\ Limit(segment)' = Limit(segment')
      <4>1. BoundPoints' = BoundPoints /\ flag' = flag
        BY <1>1 DEF BoundPoints, BlockBounds, First, flag, op_cnt
      <4> QED
        BY <4>1, <1>1 DEF Start, Limit
    <3>5. idx' \in Start(segment)'..Limit(segment)'
      <4>1. Start(segment') \in 0..op_cnt /\ Limit(segment') \in Start(segment')..op_cnt
        BY <3>2, <1>6
      <4> QED
        BY <4>1, <3>1, <3>4, <1>6
    <3>6. Before(idx)' = Before(idx)
      BY <3>3, <1>1, SameWorkload DEF Before
    <3> QED
      BY <3>1, <3>2, <3>3, <3>5, <3>6, <1>1, <1>5, <1>7 DEF Progress
  <2>2. CASE ~(segment + 1 < SegmentCount)
    <3>1. pc' \in {"next", "done"}
      BY <2>2, <1>1 DEF EndSegment
    <3>2. segment = SegmentCount - 1
      BY <2>2, <1>5, <1>6
    <3>3. idx = op_cnt
      BY <3>2, <1>1, <1>6
    <3> QED
      BY <3>1, <3>3, <1>1, <1>5, <1>7 DEF Progress
  <2> QED
    BY <2>1, <2>2
<1> QED
  BY <1>4, <1>8, <1>9 DEF IInv, Layouts

-----------------------------------------------------------------------------
(* The steps of generate_equality_lookups. *)

\* An operation keeps its kind and gets the answer that the present items give.
LEMMA FilledStep ==
  ASSUME IInv, NEW rec, pc = "fill", idx < op_cnt, Filled(rec),
         DOMAIN rec = {"op", "lo_key", "hi_key", "result"},
         rec.op = ops[idx].op, rec.op = INSERT => rec = ops[idx],
         present' = IF rec.op = INSERT THEN present \cup {rec.result} ELSE present,
         rec.op = LOOKUP =>
           \/ rec.result = NOT_FOUND /\ {v \in present : Key(v) = rec.lo_key} = {}
           \/ rec.result = 0 /\ {v \in present : Key(v) = rec.lo_key} # {},
         rec.op = RANGE_QUERY =>
           rec.result = SumSet(Within(present, rec.lo_key, rec.hi_key))
  PROVE  IInv'
<1>1. /\ keys' = keys /\ set' = set /\ bulk_loads' = bulk_loads /\ pc' = "fill"
      /\ ops' = [ops EXCEPT ![idx] = rec] /\ idx' = idx + 1 /\ run_failed' = run_failed
  BY DEF Filled
<1>2. /\ Typed /\ InsertsFirst /\ Partition /\ idx \in 0..op_cnt /\ ~run_failed
      /\ present = Before(idx) /\ \A j \in 0..(idx - 1) : Answered(j)
  BY DEF IInv, Answers, Progress
<1>3. op_cnt \in Nat /\ idx \in 0..(op_cnt - 1)
  <2>1. op_cnt \in Nat
    BY <1>2, SettingFacts DEF Typed
  <2> QED
    BY <2>1, <1>2
<1>4. /\ n' = n /\ Items' = Items /\ op_cnt' = op_cnt /\ InsertCount' = InsertCount
      /\ \A i : BlockEnd(i)' = BlockEnd(i)
      /\ \A v : Key(v)' = Key(v)
      /\ \A S, a, b : Within(S, a, b)' = Within(S, a, b)
  BY <1>1, SameSetting
<1>5. /\ DOMAIN ops = 0..(op_cnt - 1) /\ DOMAIN ops' = 0..(op_cnt - 1)
      /\ ops'[idx] = rec
      /\ \A j \in 0..(op_cnt - 1) : j # idx => ops'[j] = ops[j]
      /\ \A j \in 0..(op_cnt - 1) : ops'[j].op = ops[j].op
      /\ \A j \in 0..(op_cnt - 1) : ops[j].op = INSERT => ops'[j] = ops[j]
  <2>1. DOMAIN ops = 0..(op_cnt - 1)
    BY <1>2 DEF Typed
  <2>2. DOMAIN ops' = 0..(op_cnt - 1)
    BY <2>1, <1>1
  <2>3. ops'[idx] = rec /\ \A j \in 0..(op_cnt - 1) : j # idx => ops'[j] = ops[j]
    BY <2>1, <1>1, <1>3
  <2> QED
    BY <2>1, <2>2, <2>3
<1>6. Inserts' = Inserts
  BY <1>4, <1>5 DEF Inserts
<1>7. \A j \in Inserts : ops'[j] = ops[j]
  BY <1>5 DEF Inserts
<1>8. Inserted' = Inserted /\ \A j : Before(j)' = Before(j)
  BY <1>1, <1>6, <1>7 DEF Inserted, Before
<1>9. Typed'
  <2>1. \A j \in 0..(op_cnt - 1) :
          /\ DOMAIN ops'[j] = {"op", "lo_key", "hi_key", "result"}
          /\ ops'[j].op \in {INSERT, LOOKUP, RANGE_QUERY}
          /\ ops'[j].op = INSERT => ops'[j].result \in Items
    BY <1>2, <1>5 DEF Typed
  <2>2. bulk_loads' \in Seq(Items)
    BY <1>1, <1>2 DEF Typed
  <2> QED
    BY <2>1, <2>2, <1>1, <1>2, <1>4, <1>5 DEF Typed
<1>10. Places' /\ InsertPlaces'
  BY <1>1 DEF Places, InsertPlaces
<1>11. InsertsFirst'
  BY <1>1, <1>2, <1>4, <1>6 DEF InsertsFirst, HasPartition
<1>12. Partition'
  <2>1. HasPartition
    BY DEF HasPartition
  <2>2. Listing(bulk_loads, Range(bulk_loads))'
    BY <2>1, <1>1, <1>2 DEF Partition, Listing, Key
  <2>3. \A i, j \in Inserts : ops'[i].result = ops'[j].result => i = j
    BY <2>1, <1>2, <1>7 DEF Partition
  <2>4. /\ Cardinality(Inserts) = InsertCount
        /\ Range(bulk_loads) \cap Inserted = {}
        /\ set.bulkload_cnt = -1 => Range(bulk_loads) \cup Inserted = Items
    BY <2>1, <1>2 DEF Partition
  <2> QED
    BY <2>2, <2>3, <2>4, <1>1, <1>4, <1>6, <1>8 DEF Partition
<1>13. Answers'
  <2>1. present' = Before(idx + 1)
    <3>1. CASE rec.op = INSERT
      BY <3>1, <1>2, <1>3, BeforeNext
    <3>2. CASE rec.op # INSERT
      BY <3>2, <1>2, <1>3, BeforeNext
    <3> QED
      BY <3>1, <3>2
  <2>2. present' = Before(idx)'
    <3>1. Before(idx)' = Before(idx + 1)
      BY <1>1, <1>6, <1>7 DEF Before
    <3> QED
      BY <2>1, <3>1
  <2>3. \A j \in 0..(idx - 1) : Answered(j)'
    <3> SUFFICES ASSUME NEW j \in 0..(idx - 1) PROVE Answered(j)'
      OBVIOUS
    <3>1. j \in 0..(op_cnt - 1) /\ j # idx
      BY <1>3
    <3>2. ops'[j] = ops[j] /\ Before(j)' = Before(j)
      BY <3>1, <1>5, <1>8
    <3>3. Answered(j)
      BY <1>2
    <3> QED
      BY <3>2, <3>3, <1>1, <1>4 DEF Answered, Within, Key
  <2>4. ASSUME NEW j \in 0..(op_cnt - 1), j = idx
        PROVE  Answered(j)'
    <3>1. ops'[j] = rec /\ Before(j)' = present
      BY <2>4, <1>2, <1>5, <1>8
    <3> QED
      BY <3>1, <1>1 DEF Answered, Within, Key
  <2>5. \A j \in 0..(idx' - 1) : Answered(j)'
    <3> SUFFICES ASSUME NEW j \in 0..(idx' - 1) PROVE Answered(j)'
      OBVIOUS
    <3>1. j \in 0..(idx - 1) \/ (j = idx /\ j \in 0..(op_cnt - 1))
      BY <1>1, <1>3
    <3> QED
      BY <3>1, <2>3, <2>4
  <2>6. idx' \in 0..op_cnt'
    BY <1>1, <1>3, <1>4
  <2> QED
    BY <2>2, <2>5, <2>6, <1>1 DEF Answers, HasWorkload
<1>14. Progress'
  BY <1>1, <1>2 DEF Progress
<1> QED
  BY <1>9, <1>10, <1>11, <1>12, <1>13, <1>14 DEF IInv

\* The answer that generate_equality_lookups computes is the one of the items that are
\* there by then.
LEMMA FillStep ==
  ASSUME IInv, FillInsert \/ FillNegative \/ FillPositive \/ FillRange
  PROVE  IInv'
<1>1. pc = "fill" /\ idx < op_cnt
  BY DEF FillInsert, FillNegative, FillPositive, FillRange, Filling
<1>2. op_cnt \in Nat /\ idx \in 0..(op_cnt - 1) /\ Typed
  <2>1. op_cnt \in Nat
    BY SettingFacts DEF IInv, Typed
  <2> QED
    BY <2>1, <1>1 DEF IInv, Answers
<1>3. DOMAIN ops[idx] = {"op", "lo_key", "hi_key", "result"}
  BY <1>2 DEF Typed
<1> USE DEF INSERT, LOOKUP, RANGE_QUERY
<1>4. CASE FillInsert
  <2>1. /\ ops[idx].op = INSERT /\ Filled(ops[idx])
        /\ present' = present \cup {ops[idx].result}
    BY <1>4 DEF FillInsert, Filling, AfterInsert
  <2> QED
    BY <2>1, <1>1, <1>3, FilledStep
<1>5. CASE FillNegative
  <2>1. PICK k \in MinKey..MaxKey :
          /\ \A v \in present : Key(v) # k
          /\ Filled([ops[idx] EXCEPT !.lo_key = k, !.result = NOT_FOUND])
    BY <1>5 DEF FillNegative
  <2>2. ops[idx].op = LOOKUP /\ present' = present
    BY <1>5 DEF FillNegative, Filling
  <2> DEFINE rec == [ops[idx] EXCEPT !.lo_key = k, !.result = NOT_FOUND]
  <2>3. /\ DOMAIN rec = {"op", "lo_key", "hi_key", "result"} /\ rec.op = LOOKUP
        /\ rec.lo_key = k /\ rec.result = NOT_FOUND
    BY <2>2, <1>3
  <2>4. Filled(rec)
    BY <2>1
  <2> HIDE DEF rec
  <2> QED
    BY <2>1, <2>2, <2>3, <2>4, <1>1, FilledStep
<1>6. CASE FillPositive
  <2>1. PICK w \in present : Filled([ops[idx] EXCEPT !.lo_key = Key(w), !.result = 0])
    BY <1>6 DEF FillPositive
  <2>2. ops[idx].op = LOOKUP /\ present' = present
    BY <1>6 DEF FillPositive, Filling
  <2> DEFINE rec == [ops[idx] EXCEPT !.lo_key = Key(w), !.result = 0]
  <2>3. /\ DOMAIN rec = {"op", "lo_key", "hi_key", "result"} /\ rec.op = LOOKUP
        /\ rec.lo_key = Key(w) /\ rec.result = 0
    BY <2>2, <1>3
  <2>4. Filled(rec)
    BY <2>1
  <2>5. w \in {v \in present : Key(v) = rec.lo_key}
    BY <2>3
  <2> HIDE DEF rec
  <2> QED
    BY <2>2, <2>3, <2>4, <2>5, <1>1, FilledStep
<1>7. CASE FillRange
  <2>1. PICK lo \in MinKey..Key(LastStart), steps \in RangeMin..RangeMax :
          Filled([ops[idx] EXCEPT !.lo_key = lo, !.hi_key = HighKey(lo, steps),
                    !.result = SumSet(Within(present, lo, HighKey(lo, steps)))])
    BY <1>7 DEF FillRange
  <2>2. ops[idx].op = RANGE_QUERY /\ present' = present
    BY <1>7 DEF FillRange, Filling
  <2> DEFINE hi == HighKey(lo, steps)
             sum == SumSet(Within(present, lo, hi))
             rec == [ops[idx] EXCEPT !.lo_key = lo, !.hi_key = hi, !.result = sum]
  <2>4. Filled(rec)
    BY <2>1
  <2> HIDE DEF hi, sum
  <2>3. /\ DOMAIN rec = {"op", "lo_key", "hi_key", "result"} /\ rec.op = RANGE_QUERY
        /\ rec.lo_key = lo /\ rec.hi_key = hi /\ rec.result = sum
    BY <2>2, <1>3
  <2> HIDE DEF rec
  <2>5. rec.result = SumSet(Within(present, rec.lo_key, rec.hi_key))
    BY <2>3 DEF sum
  <2> QED
    BY <2>2, <2>3, <2>4, <2>5, <1>1, FilledStep
<1> QED
  BY <1>4, <1>5, <1>6, <1>7

\* A range query that is tried again.
LEMMA RetryStep ==
  ASSUME IInv, RetryRange
  PROVE  IInv'
<1>1. /\ keys' = keys /\ set' = set /\ ops' = ops /\ bulk_loads' = bulk_loads
      /\ pc = "fill" /\ pc' \in {"fill", "failed"} /\ present' = present /\ idx' = idx
      /\ run_failed' = run_failed
  BY DEF RetryRange, Filling, run
<1>2. Layouts'
  BY <1>1, DriverFrame DEF IInv, Layouts
<1>3. /\ op_cnt' = op_cnt
      /\ \A j : Before(j)' = Before(j) /\ (Answered(j)' <=> Answered(j))
  BY <1>1, SameSetting, SameWorkload
<1>4. Answers'
  <2>1. Before(idx)' = Before(idx)
    BY <1>1, SameWorkload DEF Before
  <2> QED
    BY <2>1, <1>1, <1>3 DEF IInv, Answers, HasWorkload
<1>5. Progress'
  BY <1>1 DEF IInv, Progress
<1> QED
  BY <1>2, <1>4, <1>5 DEF IInv, Layouts

-----------------------------------------------------------------------------
(* Layout and partition. *)

\* Before the layout there is no insert.
LEMMA InitHolds ==
  ASSUME Init
  PROVE  IInv
<1>1. op_cnt \in Nat
  BY SettingFacts DEF Init
<1>2. \A j \in 0..(op_cnt - 1) : ops[j] = NoOp
  BY DEF Init
<1>3. /\ DOMAIN NoOp = {"op", "lo_key", "hi_key", "result"}
      /\ NoOp.op = LOOKUP /\ NoOp.op # INSERT
  BY DEF NoOp, LOOKUP, INSERT
<1>4. Inserts = {}
  BY <1>2, <1>3 DEF Inserts
<1>5. Typed
  <2>1. bulk_loads \in Seq(Items)
    BY DEF Init
  <2> QED
    BY <2>1, <1>2, <1>3, <1>4 DEF Typed, Init
<1>6. Places /\ InsertPlaces /\ InsertsFirst /\ Partition
  BY DEF Init, Places, InsertPlaces, InsertsFirst, Partition, HasPartition
<1>7. Answers /\ Progress
  BY DEF Init, Answers, Progress, HasWorkload
<1> QED
  BY <1>5, <1>6, <1>7 DEF IInv

\* Each of the three layouts gives every operation a place of its own.
LEMMA LayoutStep ==
  ASSUME IInv, Layout
  PROVE  IInv'
<1>1. /\ keys' = keys /\ set' = set /\ ops' = ops /\ bulk_loads' = bulk_loads
      /\ pc = "layout" /\ pc' = "partition" /\ run_failed' = run_failed
  BY DEF Layout, run
<1>2. /\ op_cnt \in Nat /\ set.insert_cnt \in 0..op_cnt /\ set.block_num \in Nat \ {0}
      /\ set.insert_cnt \in Nat /\ set.lookup_cnt \in Nat /\ set.range_cnt \in Nat
  <2>1. keys \in DataSets /\ set \in Settings
    BY DEF IInv, Typed
  <2>2. /\ set.insert_cnt \in Nat /\ set.lookup_cnt \in Nat /\ set.range_cnt \in Nat
        /\ op_cnt \in Nat /\ set.block_num \in Nat \ {0}
    BY <2>1, SettingFacts
  <2> QED
    BY <2>2 DEF op_cnt
<1>3. n' = n /\ Items' = Items /\ op_cnt' = op_cnt /\ Blockwise' = Blockwise
  BY <1>1, SameSetting
<1>4. Inserts' = Inserts
  BY <1>1, SameWorkload
<1>5. Typed'
  BY <1>1, <1>3, <1>4 DEF IInv, Typed
<1>6. /\ op_id' \in [1..op_cnt -> 0..(op_cnt - 1)]
      /\ \A i, j \in 1..op_cnt : op_id'[i] = op_id'[j] => i = j
      /\ set.block_num > 1 => op_id' = Blockwise
  <2>1. CASE set.block_num > 1
    <3>1. op_id' = Blockwise
      BY <2>1 DEF Layout
    <3>2. /\ Blockwise \in [1..op_cnt -> 0..(op_cnt - 1)]
          /\ \A j, k \in 1..op_cnt : Blockwise[j] = Blockwise[k] => j = k
      BY <1>2, BlockwisePlaces
    <3> QED
      BY <3>1, <3>2
  <2>2. CASE ~(set.block_num > 1) /\ set.mix
    <3>1. PICK p \in Shuffles(0..(op_cnt - 1)) : op_id' = InOrder(p)
      BY <2>2 DEF Layout
    <3>2. /\ InOrder(p) \in [1..op_cnt -> 0..(op_cnt - 1)]
          /\ \A j, k \in 1..op_cnt : InOrder(p)[j] = InOrder(p)[k] => j = k
      BY <1>2, InOrderPlaces
    <3> QED
      BY <3>1, <3>2, <2>2
  <2>3. CASE ~(set.block_num > 1) /\ ~set.mix
    <3>1. op_id' = [j \in 1..op_cnt |-> j - 1]
      BY <2>3 DEF Layout
    <3> QED
      BY <3>1, <2>3, <1>2
  <2> QED
    BY <2>1, <2>2, <2>3
<1>7. Places'
  BY <1>1, <1>3, <1>6 DEF Places
<1>8. InsertPlaces' /\ InsertsFirst' /\ Partition'
  BY <1>1 DEF InsertPlaces, InsertsFirst, Partition, HasPartition
<1>9. Answers' /\ Progress'
  BY <1>1 DEF IInv, Answers, Progress, HasWorkload
<1> QED
  BY <1>5, <1>7, <1>8, <1>9 DEF IInv

\* The number of inserts that there are.
LEMMA InsertCountFacts ==
  ASSUME keys \in DataSets, set \in Settings
  PROVE  /\ InsertCount \in Nat /\ InsertCount <= set.insert_cnt
         /\ InsertCount <= set.hi - set.lo /\ InsertCount <= op_cnt
         /\ InsertCount = set.insert_cnt \/ InsertCount = set.hi - set.lo
<1> DEFINE S == {set.insert_cnt, set.hi - set.lo}
<1>1. /\ n \in Nat /\ set.insert_cnt \in 0..n /\ set.lookup_cnt \in Nat
      /\ set.range_cnt \in Nat /\ set.lo \in 0..n /\ set.hi \in set.lo..n
  BY SettingFacts
<1>2. S \in SUBSET Int /\ S # {} /\ 0 \in Int /\ \A x \in S : 0 <= x
  BY <1>1
<1>3. Min(S) \in S /\ \A x \in S : Min(S) <= x
  <2> HIDE DEF S
  <2> QED
    BY <1>2, LeastElement
<1>4. /\ InsertCount = set.insert_cnt \/ InsertCount = set.hi - set.lo
      /\ InsertCount <= set.insert_cnt /\ InsertCount <= set.hi - set.lo
  BY <1>3 DEF InsertCount
<1> QED
  BY <1>1, <1>4 DEF op_cnt

\* Without inserts the bulk load lists all items.
LEMMA LoadAllStep ==
  ASSUME IInv, LoadAll
  PROVE  IInv'
<1>1. /\ keys' = keys /\ set' = set /\ ops' = ops /\ op_id' = op_id
      /\ pc = "partition" /\ pc' = "sample" /\ run_failed' = run_failed
      /\ bulk_loads' = Ascending(Items) /\ ~is_insert
  BY DEF LoadAll, run
<1>2. keys \in DataSets /\ set \in Settings /\ Inserts = {}
  BY <1>1 DEF IInv, Typed
<1>3. /\ n' = n /\ Items' = Items /\ op_cnt' = op_cnt /\ Blockwise' = Blockwise
      /\ InsertCount' = InsertCount /\ \A r, S : Listing(r, S)' <=> Listing(r, S)
  BY <1>1, SameSetting
<1>4. Inserts' = {} /\ Inserted' = {}
  <2>1. Inserts' = Inserts
    BY <1>1, <1>3 DEF Inserts
  <2> QED
    BY <2>1, <1>2 DEF Inserted
<1>5. InsertCount = 0
  BY <1>1, <1>2, InsertCountFacts, SettingFacts DEF is_insert
<1>6. Listing(Ascending(Items), Items)
  BY <1>2, AscendingListing
<1>7. bulk_loads' \in Seq(Items) /\ Range(bulk_loads') = Items
  <2> DEFINE a == Ascending(Items)
  <2>1. a \in Seq(Items) /\ \A x \in Items : \E i \in 1..Len(a) : a[i] = x
    BY <1>6 DEF Listing
  <2> HIDE DEF a
  <2>2. Range(a) = Items
    BY <2>1 DEF Range
  <2> QED
    BY <2>1, <2>2, <1>1 DEF a
<1>8. Typed'
  BY <1>1, <1>3, <1>7 DEF IInv, Typed
<1>9. Places'
  BY <1>1, <1>3 DEF IInv, Places
<1>10. InsertPlaces'
  BY <1>3, <1>4, <1>5 DEF InsertPlaces
<1>11. InsertsFirst'
  BY <1>1 DEF InsertsFirst
<1>12. Partition'
  <2>1. Listing(bulk_loads, Range(bulk_loads))'
    BY <1>1, <1>6, <1>7 DEF Listing, Key
  <2> QED
    BY <2>1, <1>1, <1>3, <1>4, <1>5, <1>7, FS_EmptySet DEF Partition
<1>13. Answers' /\ Progress'
  BY <1>1 DEF IInv, Answers, Progress, HasWorkload
<1> QED
  BY <1>8, <1>9, <1>10, <1>11, <1>12, <1>13 DEF IInv

\* generate_inserts numbers the items from lo to hi - 1.
LEMMA KvIdLists ==
  ASSUME keys \in DataSets, set \in Settings,
         NEW kv_id \in (IF set.pat = "delta" THEN {Ascending(set.lo..(set.hi - 1))}
                        ELSE Shuffles(set.lo..(set.hi - 1)))
  PROVE  /\ \A i \in 1..(set.hi - set.lo) : kv_id[i] \in set.lo..(set.hi - 1)
         /\ \A i, j \in 1..(set.hi - set.lo) : kv_id[i] = kv_id[j] => i = j
         /\ \A x \in set.lo..(set.hi - 1) : \E i \in 1..(set.hi - set.lo) : kv_id[i] = x
<1> DEFINE S == set.lo..(set.hi - 1)
           c == set.hi - set.lo
<1>1. n \in Nat /\ set.lo \in 0..n /\ set.hi \in set.lo..n
  BY SettingFacts
<1>2. IsFiniteSet(S) /\ Cardinality(S) = c /\ S \in SUBSET Int /\ c \in Nat
  BY <1>1, IntervalSize
<1>3. CASE set.pat = "delta"
  <2>1. kv_id = Ascending(S)
    BY <1>3
  <2> HIDE DEF S, c
  <2>2. /\ kv_id \in [1..c -> S]
        /\ \A i, j \in 1..c : i < j => kv_id[i] < kv_id[j]
        /\ \A x \in S : \E i \in 1..c : kv_id[i] = x
    BY <2>1, <1>2, AscendingLists
  <2>3. \A i \in 1..c : kv_id[i] \in S /\ kv_id[i] \in Int
    BY <2>2, <1>2
  <2>4. \A i, j \in 1..c : kv_id[i] = kv_id[j] => i = j
    BY <2>2, <2>3, <1>2
  <2> QED
    BY <2>2, <2>3, <2>4 DEF S, c
<1>4. CASE set.pat # "delta"
  <2>1. kv_id \in Shuffles(S)
    BY <1>4
  <2> HIDE DEF S, c
  <2>2. /\ kv_id \in [1..c -> S]
        /\ \A i, j \in 1..c : kv_id[i] = kv_id[j] => i = j
        /\ \A x \in S : \E i \in 1..c : kv_id[i] = x
    BY <2>1, <1>2, ShufflesList
  <2> QED
    BY <2>2 DEF S, c
<1> QED
  BY <1>3, <1>4

\* generate_inserts divides the items between the inserts and the bulk load.
LEMMA GenerateInsertsStep ==
  ASSUME IInv, GenerateInserts
  PROVE  IInv'
<1> DEFINE c == set.hi - set.lo
           K == InsertCount
           I == set.insert_cnt
           N == op_cnt
<1>1. /\ keys' = keys /\ set' = set /\ op_id' = op_id
      /\ pc = "partition" /\ pc' = "sample" /\ run_failed' = run_failed
  BY DEF GenerateInserts, run
<1>2. keys \in DataSets /\ set \in Settings /\ Inserts = {} /\ Typed
  BY <1>1 DEF IInv, Typed
<1>3. /\ n \in Nat /\ I \in 0..n /\ N \in Nat
      /\ set.lo \in 0..n /\ set.hi \in set.lo..n
  BY <1>2, SettingFacts
<1>4. K \in Nat /\ K <= I /\ K <= c /\ K <= N /\ (K = I \/ K = c)
  BY <1>2, InsertCountFacts
<1>5. /\ op_id \in [1..N -> 0..(N - 1)]
      /\ \A i, j \in 1..N : op_id[i] = op_id[j] => i = j
  BY <1>1 DEF IInv, Places
<1>6. PICK kv_id \in (IF set.pat = "delta" THEN {Ascending(set.lo..(set.hi - 1))}
                      ELSE Shuffles(set.lo..(set.hi - 1))) :
        /\ ops' = [j \in 0..(N - 1) |->
                     IF \E i \in 1..K : op_id[i] = j
                     THEN LET v == kv_id[CHOOSE i \in 1..K : op_id[i] = j]
                          IN  [op |-> INSERT, lo_key |-> Key(v), hi_key |-> 0, result |-> v]
                     ELSE ops[j]]
        /\ \E rest \in Sorted({kv_id[i] : i \in (I + 1)..c}) :
             bulk_loads' = Ascending(0..(set.lo - 1)) \o rest \o Ascending(set.hi..(n - 1))
  BY DEF GenerateInserts, InsertCount
<1>7. /\ \A i \in 1..c : kv_id[i] \in set.lo..(set.hi - 1)
      /\ \A i, j \in 1..c : kv_id[i] = kv_id[j] => i = j
      /\ \A x \in set.lo..(set.hi - 1) : \E i \in 1..c : kv_id[i] = x
  BY <1>2, KvIdLists
<1>8. PICK rest \in Sorted({kv_id[i] : i \in (I + 1)..c}) :
        bulk_loads' = Ascending(0..(set.lo - 1)) \o rest \o Ascending(set.hi..(n - 1))
  BY <1>6
<1>9. /\ n' = n /\ Items' = Items /\ op_cnt' = op_cnt /\ Blockwise' = Blockwise
      /\ InsertCount' = InsertCount
  BY <1>1, SameSetting
<1> HIDE DEF K, I, N, c
<1>10. \A i \in 1..K : /\ i \in 1..N /\ i \in 1..c /\ op_id[i] \in 0..(N - 1)
                       /\ kv_id[i] \in Items
  <2> SUFFICES ASSUME NEW i \in 1..K
               PROVE  /\ i \in 1..N /\ i \in 1..c /\ op_id[i] \in 0..(N - 1)
                      /\ kv_id[i] \in Items
    OBVIOUS
  <2>1. c \in Int
    BY <1>3 DEF c
  <2>2. i \in 1..N /\ i \in 1..c
    BY <2>1, <1>3, <1>4
  <2>3. kv_id[i] \in set.lo..(set.hi - 1)
    BY <2>2, <1>7
  <2>4. kv_id[i] \in Items
    BY <2>3, <1>3 DEF Items
  <2> QED
    BY <2>2, <2>4, <1>5
<1>11. ASSUME NEW i \in 1..K
       PROVE  /\ ops'[op_id[i]].op = INSERT /\ ops'[op_id[i]].result = kv_id[i]
              /\ DOMAIN ops'[op_id[i]] = {"op", "lo_key", "hi_key", "result"}
  <2> DEFINE j == op_id[i]
             m == CHOOSE k \in 1..K : op_id[k] = j
             v == kv_id[m]
  <2>1. j \in 0..(N - 1)
    BY <1>10
  <2>2. m \in 1..K /\ op_id[m] = j
    OBVIOUS
  <2>3. m = i
    <3> HIDE DEF m
    <3> QED
      BY <2>2, <1>10, <1>5
  <2>4. ops'[j] = [op |-> INSERT, lo_key |-> Key(v), hi_key |-> 0, result |-> v]
    BY <2>1, <1>6, Zenon
  <2>5. v = kv_id[i]
    BY <2>3
  <2> HIDE DEF v, j
  <2>6. ops'[j].op = INSERT /\ ops'[j].result = v
        /\ DOMAIN ops'[j] = {"op", "lo_key", "hi_key", "result"}
    BY <2>4
  <2> QED
    BY <2>5, <2>6 DEF j
<1>12. ASSUME NEW j \in 0..(N - 1), \A i \in 1..K : op_id[i] # j
       PROVE  ops'[j] = ops[j]
  BY <1>6, <1>12
<1>13. \A j \in 0..(N - 1) : ops[j].op # INSERT
  BY <1>2 DEF Inserts, N
<1>14. Inserts' = {op_id[i] : i \in 1..K}
  <2>1. Inserts' = {j \in 0..(N - 1) : ops'[j].op = INSERT}
    BY <1>9 DEF Inserts, N
  <2>2. ASSUME NEW j \in 0..(N - 1), ops'[j].op = INSERT
        PROVE  \E i \in 1..K : op_id[i] = j
    BY <2>2, <1>12, <1>13
  <2>3. ASSUME NEW i \in 1..K
        PROVE  op_id[i] \in 0..(N - 1) /\ ops'[op_id[i]].op = INSERT
    BY <1>10, <1>11
  <2> QED
    BY <2>1, <2>2, <2>3
<1>15. Inserted' = {kv_id[i] : i \in 1..K}
  <2>1. Inserted' = {ops'[j].result : j \in Inserts'}
    BY DEF Inserted
  <2> QED
    BY <2>1, <1>14, <1>11
<1> DEFINE A == 0..(set.lo - 1)
           R == {kv_id[i] : i \in (I + 1)..c}
           Z == set.hi..(n - 1)
<1>16. c \in Nat /\ \A i \in (I + 1)..c : i \in 1..c
  BY <1>3 DEF c
<1>17. /\ A \in SUBSET Items /\ R \in SUBSET Items /\ Z \in SUBSET Items
       /\ R \in SUBSET (set.lo..(set.hi - 1))
  <2>1. R \in SUBSET (set.lo..(set.hi - 1))
    BY <1>7, <1>16
  <2> HIDE DEF R
  <2> QED
    BY <2>1, <1>3 DEF Items
<1>18. Listing(bulk_loads', (A \cup R) \cup Z)
  <2>1. Listing(Ascending(A), A) /\ Listing(Ascending(Z), Z)
    BY <1>2, <1>17, AscendingListing
  <2>2. Listing(rest, R)
    BY <1>2, <1>17, <1>8, SortedListing
  <2>3. /\ \A x \in A, y \in R : x < y
        /\ \A x \in A \cup R, y \in Z : x < y
    <3> HIDE DEF R
    <3> QED
      BY <1>17, <1>3
  <2> DEFINE front == Ascending(A) \o rest
             back == Ascending(Z)
  <2>4. Listing(front, A \cup R)
    <3> HIDE DEF A, R
    <3> QED
      BY <2>1, <2>2, <2>3, <1>2, <1>17, ListingsConcatenate
  <2>5. A \cup R \in SUBSET Items
    BY <1>17, Zenon
  <2>6. Listing(front \o back, (A \cup R) \cup Z)
    <3> HIDE DEF A, R, Z, front
    <3> QED
      BY <2>1, <2>3, <2>4, <2>5, <1>2, <1>17, ListingsConcatenate
  <2> QED
    BY <2>6, <1>8
<1> DEFINE U == (A \cup R) \cup Z
<1> HIDE DEF A, R, Z
<1>19. U \in SUBSET Items /\ bulk_loads' \in Seq(Items) /\ Range(bulk_loads') = U
  <2>1. U \in SUBSET Items
    BY <1>17, Zenon
  <2> HIDE DEF U
  <2>2. /\ bulk_loads' \in Seq(U)
        /\ \A x \in U : \E i \in 1..Len(bulk_loads') : bulk_loads'[i] = x
    BY <1>18 DEF Listing, U
  <2>3. bulk_loads' \in Seq(Items)
    BY <2>1, <2>2, SeqMonotonic
  <2>4. Range(bulk_loads') = U
    BY <2>2 DEF Range
  <2> QED
    BY <2>1, <2>3, <2>4
<1>20. Typed'
  <2>1. \A j \in 0..(N - 1) :
          /\ DOMAIN ops'[j] = {"op", "lo_key", "hi_key", "result"}
          /\ ops'[j].op \in {INSERT, LOOKUP, RANGE_QUERY}
          /\ ops'[j].op = INSERT => ops'[j].result \in Items
    <3> SUFFICES ASSUME NEW j \in 0..(N - 1)
                 PROVE  /\ DOMAIN ops'[j] = {"op", "lo_key", "hi_key", "result"}
                        /\ ops'[j].op \in {INSERT, LOOKUP, RANGE_QUERY}
                        /\ ops'[j].op = INSERT => ops'[j].result \in Items
      OBVIOUS
    <3>1. CASE \E i \in 1..K : op_id[i] = j
      BY <3>1, <1>10, <1>11
    <3>2. CASE \A i \in 1..K : op_id[i] # j
      BY <3>2, <1>2, <1>12 DEF Typed, N
    <3> QED
      BY <3>1, <3>2
  <2>2. DOMAIN ops' = 0..(N - 1)
    BY <1>6
  <2> QED
    BY <2>1, <2>2, <1>1, <1>2, <1>9, <1>19 DEF Typed, N
<1>21. Places'
  BY <1>1, <1>9 DEF IInv, Places
<1>22. InsertPlaces'
  BY <1>1, <1>9, <1>14 DEF InsertPlaces, K
<1>23. InsertsFirst'
  BY <1>1 DEF InsertsFirst
<1>24. Partition'
  <2>1. Cardinality(Inserts') = K
    <3>1. \A i, j \in 1..K : op_id[i] = op_id[j] => i = j
      BY <1>5, <1>10
    <3> QED
      BY <3>1, <1>4, <1>14, ImageSize
  <2>2. Listing(bulk_loads, Range(bulk_loads))'
    BY <1>1, <1>18, <1>19 DEF Listing, Key
  <2>3. \A i, j \in Inserts' : ops'[i].result = ops'[j].result => i = j
    <3> SUFFICES ASSUME NEW i \in 1..K, NEW j \in 1..K,
                        ops'[op_id[i]].result = ops'[op_id[j]].result
                 PROVE  op_id[i] = op_id[j]
      BY <1>14
    <3>1. kv_id[i] = kv_id[j]
      BY <1>11
    <3> QED
      BY <3>1, <1>7, <1>10
  <2>4. U \cap Inserted' = {}
    <3> SUFFICES ASSUME NEW i \in 1..K, kv_id[i] \in U PROVE FALSE
      BY <1>15
    <3>1. i \in 1..c /\ i \in Int /\ kv_id[i] \in set.lo..(set.hi - 1)
      BY <1>10, <1>7
    <3>2. kv_id[i] \notin A /\ kv_id[i] \notin Z
      BY <3>1, <1>3 DEF A, Z
    <3>3. PICK j \in (I + 1)..c : kv_id[j] = kv_id[i]
      BY <3>2 DEF R
    <3>4. j = i
      BY <3>1, <3>3, <1>7, <1>16
    <3> QED
      BY <3>1, <3>4, <1>3, <1>4
  <2>5. U \cup Inserted' = Items
    <3>1. Inserted' \in SUBSET Items
      BY <1>10, <1>15
    <3>2. ASSUME NEW x \in Items, x \notin U
          PROVE  x \in Inserted'
      <4>1. x \in set.lo..(set.hi - 1)
        BY <3>2, <1>3 DEF A, Z, Items
      <4>2. PICK i \in 1..c : kv_id[i] = x
        BY <4>1, <1>7
      <4>3. i \notin (I + 1)..c
        BY <3>2, <4>2 DEF R
      <4>4. i \in 1..K
        BY <4>3, <1>3, <1>4, <1>16
      <4> QED
        BY <4>2, <4>4, <1>15
    <3> QED
      BY <3>1, <3>2, <1>19
  <2> QED
    BY <2>1, <2>2, <2>3, <2>4, <2>5, <1>1, <1>9, <1>19 DEF Partition, K
<1>25. Answers' /\ Progress'
  BY <1>1 DEF IInv, Answers, Progress, HasWorkload
<1> QED
  BY <1>20, <1>21, <1>22, <1>23, <1>24, <1>25 DEF IInv

\* Sampling leaves the inserts alone, and the ranges take none of their places.
LEMMA SampleStep ==
  ASSUME IInv, SampleBulkLoads
  PROVE  IInv'
<1> DEFINE N == op_cnt
           K == InsertCount
           B == Range(bulk_loads)
           Ranges == (set.insert_cnt + set.lookup_cnt + 1)..op_cnt
<1>1. /\ keys' = keys /\ set' = set /\ run_failed' = run_failed
      /\ pc = "sample" /\ pc' = "fill" /\ idx' = 0 /\ present' = Range(bulk_loads')
      /\ ops' = [j \in 0..(N - 1) |->
                   IF \E i \in Ranges : op_id[i] = j
                   THEN [ops[j] EXCEPT !.op = RANGE_QUERY] ELSE ops[j]]
  BY DEF SampleBulkLoads
<1>2. keys \in DataSets /\ set \in Settings /\ Typed
  BY DEF IInv, Typed
<1>3. /\ set.insert_cnt \in Nat /\ set.lookup_cnt \in Nat /\ set.range_cnt \in Nat
      /\ N \in Nat /\ set.block_num \in Nat \ {0}
  BY <1>2, SettingFacts
<1>4. K \in Nat /\ K <= set.insert_cnt /\ K <= N
  BY <1>2, InsertCountFacts
<1>5. /\ op_id \in [1..N -> 0..(N - 1)]
      /\ \A i, j \in 1..N : op_id[i] = op_id[j] => i = j
      /\ set.block_num > 1 => op_id = Blockwise
      /\ Inserts = {op_id[i] : i \in 1..K}
  BY <1>1 DEF IInv, Places, InsertPlaces
<1>6. /\ n' = n /\ Items' = Items /\ op_cnt' = op_cnt /\ InsertCount' = InsertCount
      /\ \A i : BlockEnd(i)' = BlockEnd(i)
  BY <1>1, SameSetting
<1> HIDE DEF N, K
<1>7. ASSUME NEW i \in 1..K, NEW j \in Ranges
      PROVE  op_id[i] # op_id[j]
  <2>1. i \in 1..N /\ j \in 1..N /\ i # j
    BY <1>3, <1>4 DEF N
  <2> QED
    BY <2>1, <1>5
<1>8. \A j \in Inserts : ops'[j] = ops[j]
  <2> SUFFICES ASSUME NEW i \in 1..K PROVE ops'[op_id[i]] = ops[op_id[i]]
    BY <1>5
  <2>1. op_id[i] \in 0..(N - 1)
    BY <1>3, <1>4, <1>5
  <2> QED
    BY <2>1, <1>1, <1>7
<1>9. ASSUME NEW j \in 0..(N - 1)
      PROVE  /\ DOMAIN ops'[j] = {"op", "lo_key", "hi_key", "result"}
             /\ ops'[j].op \in {INSERT, LOOKUP, RANGE_QUERY}
             /\ ops'[j].op = INSERT => ops'[j] = ops[j]
  <2>1. /\ DOMAIN ops[j] = {"op", "lo_key", "hi_key", "result"}
        /\ ops[j].op \in {INSERT, LOOKUP, RANGE_QUERY}
    BY <1>2 DEF Typed, N
  <2>2. CASE \E i \in Ranges : op_id[i] = j
    <3>1. ops'[j] = [ops[j] EXCEPT !.op = RANGE_QUERY]
      BY <2>2, <1>1
    <3>2. /\ DOMAIN ops'[j] = {"op", "lo_key", "hi_key", "result"}
          /\ ops'[j].op = RANGE_QUERY
      BY <3>1, <2>1
    <3> QED
      BY <3>2 DEF RANGE_QUERY, INSERT
  <2>3. CASE ~ \E i \in Ranges : op_id[i] = j
    <3>1. ops'[j] = ops[j]
      BY <2>3, <1>1
    <3> QED
      BY <3>1, <2>1
  <2> QED
    BY <2>2, <2>3
<1>10. Inserts' = Inserts
  <2>1. /\ Inserts = {j \in 0..(N - 1) : ops[j].op = INSERT}
        /\ Inserts' = {j \in 0..(N - 1) : ops'[j].op = INSERT}
    BY <1>6 DEF Inserts, N
  <2>2. \A j \in 0..(N - 1) : ops'[j].op = INSERT <=> ops[j].op = INSERT
    BY <2>1, <1>8, <1>9
  <2> QED
    BY <2>1, <2>2
<1>11. Inserted' = Inserted
  BY <1>8, <1>10 DEF Inserted
<1>12. Listing(bulk_loads, B) /\ bulk_loads \in Seq(Items) /\ B \in SUBSET Items
  <2>1. Listing(bulk_loads, B)
    BY <1>1 DEF IInv, Partition, HasPartition
  <2>2. bulk_loads \in Seq(Items)
    BY <1>2 DEF Typed
  <2>3. B \in SUBSET Items
    BY <2>2 DEF Range
  <2> QED
    BY <2>1, <2>2, <2>3
<1>13. /\ Range(bulk_loads') \in SUBSET B /\ Listing(bulk_loads', Range(bulk_loads'))
       /\ set.bulkload_cnt = -1 => bulk_loads' = bulk_loads
  <2>1. CASE set.bulkload_cnt = -1
    <3>1. bulk_loads' = bulk_loads
      BY <2>1 DEF SampleBulkLoads
    <3> QED
      BY <3>1, <1>12
  <2>2. CASE set.bulkload_cnt # -1
    <3>1. PICK Q \in kSubset(set.bulkload_cnt, 1..Len(bulk_loads)) :
            bulk_loads' = At(bulk_loads, Ascending(Q))
      BY <2>2 DEF SampleBulkLoads
    <3>2. Q \in SUBSET (1..Len(bulk_loads))
      BY DEF kSubset
    <3> DEFINE T == {bulk_loads[i] : i \in Q}
    <3>3. Listing(bulk_loads', T)
      BY <3>1, <3>2, <1>12, ListingSampled
    <3>4. T \in SUBSET B
      BY <3>2, <1>12 DEF Range
    <3> HIDE DEF T
    <3>5. Range(bulk_loads') = T
      BY <3>3 DEF Listing, Range
    <3> QED
      BY <3>3, <3>4, <3>5, <2>2
  <2> QED
    BY <2>1, <2>2
<1>14. bulk_loads' \in Seq(Items)
  <2>1. bulk_loads' \in Seq(Range(bulk_loads'))
    BY <1>13 DEF Listing
  <2>2. Range(bulk_loads') \in SUBSET Items
    BY <1>12, <1>13, Zenon
  <2> QED
    BY <2>1, <2>2, SeqMonotonic
<1>15. Typed'
  <2>1. DOMAIN ops' = 0..(N - 1)
    BY <1>1
  <2>2. \A j \in 0..(N - 1) : ops'[j].op = INSERT => ops'[j].result \in Items
    BY <1>2, <1>9 DEF Typed, N
  <2> QED
    BY <2>1, <2>2, <1>1, <1>2, <1>6, <1>9, <1>14 DEF Typed, N
<1>16. Places' /\ InsertPlaces'
  BY <1>1 DEF Places, InsertPlaces
<1>17. InsertsFirst'
  <2> SUFFICES ASSUME set.block_num > 1, NEW i \in 1..set.block_num,
                      NEW q \in BlockEnd(i - 1)..(BlockEnd(i) - 1),
                      NEW d \in BlockEnd(i - 1)..(BlockEnd(i) - 1),
                      d < q, q \in Inserts
               PROVE  d \in Inserts
    BY <1>1, <1>6, <1>10 DEF InsertsFirst
  <2>1. PICK j \in 1..K : op_id[j] = q
    BY <1>5
  <2>2. j \in 1..set.insert_cnt /\ op_id = Blockwise
    BY <1>3, <1>4, <1>5
  <2>3. q < BlockEnd(i) /\ d < Blockwise[j] /\ Blockwise[j] < BlockEnd(i)
    <3>1. q < BlockEnd(i)
      <4>1. BlockEnd(i) \in Int
        <5>1. i \in 0..set.block_num
          BY <1>3
        <5>2. /\ Through(set.insert_cnt, i) \in Int /\ Through(set.lookup_cnt, i) \in Int
              /\ Through(set.range_cnt, i) \in Int
          BY <5>1, <1>3, ThroughGrows
        <5> QED
          BY <5>2 DEF BlockEnd
      <4> QED
        BY <4>1
    <3> QED
      BY <3>1, <2>1, <2>2
  <2>4. PICK m \in 1..j : Blockwise[m] = d
    BY <2>2, <2>3, <1>3, BlockwisePlaces
  <2>5. m \in 1..K
    BY <2>1, <2>4, <1>4
  <2> QED
    BY <2>2, <2>4, <2>5, <1>5
<1>18. Partition'
  <2>1. HasPartition
    BY <1>1 DEF HasPartition
  <2>2. Listing(bulk_loads, Range(bulk_loads))'
    BY <1>1, <1>13 DEF Listing, Key
  <2>3. /\ Cardinality(Inserts) = K
        /\ \A i, j \in Inserts : ops[i].result = ops[j].result => i = j
        /\ B \cap Inserted = {} /\ B \cup Inserted = Items
    BY <2>1, <1>1 DEF IInv, Partition, K
  <2>4. \A i, j \in Inserts : ops'[i].result = ops'[j].result => i = j
    BY <2>3, <1>8
  <2>5. Range(bulk_loads') \cap Inserted = {}
    BY <2>3, <1>13
  <2>6. set.bulkload_cnt = -1 => Range(bulk_loads') \cup Inserted = Items
    BY <2>3, <1>13
  <2> QED
    BY <2>2, <2>3, <2>4, <2>5, <2>6, <1>1, <1>6, <1>10, <1>11 DEF Partition, K
<1>19. Answers'
  <2>1. \A i \in Inserts' : ~(i < 0)
    BY <1>10 DEF Inserts
  <2>2. Before(idx)' = Range(bulk_loads')
    BY <2>1, <1>1 DEF Before
  <2> QED
    BY <2>2, <1>1, <1>3, <1>6 DEF Answers, HasWorkload, N
<1>20. Progress'
  BY <1>1 DEF IInv, Progress
<1> QED
  BY <1>15, <1>16, <1>17, <1>18, <1>19, <1>20 DEF IInv

-----------------------------------------------------------------------------
(* The theorems. *)

\* The layout, the partition, the answers and the cutting into segments fit together:
\* IInv always holds.
THEOREM WorkloadInvariant == Spec => []IInv
<1>1. Init => IInv
  BY InitHolds
<1>2. IInv /\ [Next]_vars => IInv'
  <2> SUFFICES ASSUME IInv, [Next]_vars PROVE IInv'
    OBVIOUS
  <2>1. CASE Layout
    BY <2>1, LayoutStep
  <2>2. CASE GenerateInserts
    BY <2>2, GenerateInsertsStep
  <2>3. CASE LoadAll
    BY <2>3, LoadAllStep
  <2>4. CASE SampleBulkLoads
    BY <2>4, SampleStep
  <2>5. CASE FillInsert \/ FillNegative \/ FillPositive \/ FillRange
    BY <2>5, FillStep
  <2>6. CASE RetryRange
    BY <2>6, RetryStep
  <2>7. CASE BuildIndex
    BY <2>7, BuildIndexStep
  <2>8. CASE DoInsert \/ DoLookup \/ DoRangeQuery
    BY <2>8, DoStep
  <2>9. CASE EndSegment
    BY <2>9, EndSegmentStep
  <2>10. CASE UNCHANGED vars
    <3>1. /\ keys' = keys /\ set' = set /\ ops' = ops /\ bulk_loads' = bulk_loads
          /\ op_id' = op_id /\ pc' = pc /\ present' = present /\ idx' = idx
          /\ run_failed' = run_failed /\ segment' = segment /\ index' = index
          /\ executed' = executed
      BY <2>10 DEF vars, generated, run
    <3>2. /\ n' = n /\ Items' = Items /\ op_cnt' = op_cnt /\ InsertCount' = InsertCount
          /\ Blockwise' = Blockwise /\ \A i : BlockEnd(i)' = BlockEnd(i)
      BY <3>1, SameSetting
    <3>3. /\ Inserts' = Inserts /\ Inserted' = Inserted /\ SegmentCount' = SegmentCount
          /\ \A j : Answered(j)' <=> Answered(j)
      BY <3>1, SameWorkload
    <3>4. Before(idx)' = Before(idx)
      BY <3>1, <3>3 DEF Before
    <3>5. Start(segment)' = Start(segment) /\ Limit(segment)' = Limit(segment)
      <4>1. BoundPoints' = BoundPoints /\ flag' = flag
        BY <3>1 DEF BoundPoints, BlockBounds, First, flag, op_cnt
      <4> QED
        BY <4>1, <3>1 DEF Start, Limit
    <3>6. Listing(bulk_loads, Range(bulk_loads))' <=> Listing(bulk_loads, Range(bulk_loads))
      BY <3>1 DEF Listing, Key
    <3>7. Typed' /\ Places' /\ InsertPlaces' /\ InsertsFirst'
      BY <3>1, <3>2, <3>3 DEF IInv, Typed, Places, InsertPlaces, InsertsFirst, HasPartition
    <3>8. Partition'
      BY <3>1, <3>2, <3>3, <3>6 DEF IInv, Partition, HasPartition
    <3>9. Answers' /\ Progress'
      BY <3>1, <3>2, <3>3, <3>4, <3>5 DEF IInv, Answers, Progress, HasWorkload
    <3> QED
      BY <3>7, <3>8, <3>9 DEF IInv
  <2> QED
    BY <2>1, <2>2, <2>3, <2>4, <2>5, <2>6, <2>7, <2>8, <2>9, <2>10 DEF Next
<1> QED
  BY <1>1, <1>2, PTL DEF Spec

\* The driver's verification never blames an index that answers correctly, whatever the
\* data set, the ratios, the insert pattern, the mix and the number of blocks.
THEOREM WorkloadNoFalseAlarm == Spec => []NoFalseAlarm
<1>1. IInv => NoFalseAlarm
  BY DEF IInv, Progress, NoFalseAlarm
<1> QED
  BY <1>1, WorkloadInvariant, PTL

\* A repetition executes every operation of the file once and in order: the boundaries
\* the driver looks for in the operations cut them without a gap and reach the end.
THEOREM WorkloadEveryOperationOnce == Spec => []EveryOperationOnce
<1>1. IInv => EveryOperationOnce
  BY DEF IInv, Progress, EveryOperationOnce
<1> QED
  BY <1>1, WorkloadInvariant, PTL

\* generate_inserts and the sampling divide the items: the bulk load is sorted by key,
\* no item is loaded or inserted twice, and none is left out without sampling.
THEOREM WorkloadPartitionExact == Spec => []PartitionExact
<1>1. IInv => PartitionExact
  <2> SUFFICES ASSUME IInv, pc \notin {"layout", "partition", "sample"}
               PROVE  /\ Cardinality(Inserts) = InsertCount
                      /\ \A i \in 1..(Len(bulk_loads) - 1) :
                           Key(bulk_loads[i]) <= Key(bulk_loads[i + 1])
                      /\ IsInjective(bulk_loads)
                      /\ Cardinality(Inserted) = Cardinality(Inserts)
                      /\ Range(bulk_loads) \cap Inserted = {}
                      /\ set.bulkload_cnt = -1 => Range(bulk_loads) \cup Inserted = Items
    BY DEF PartitionExact, Inserts, Inserted, InsertCount
  <2>1. /\ Cardinality(Inserts) = InsertCount
        /\ Listing(bulk_loads, Range(bulk_loads))
        /\ \A i, j \in Inserts : ops[i].result = ops[j].result => i = j
        /\ Range(bulk_loads) \cap Inserted = {}
        /\ set.bulkload_cnt = -1 => Range(bulk_loads) \cup Inserted = Items
    BY DEF IInv, Partition, HasPartition
  <2>2. bulk_loads \in Seq(Items) /\ op_cnt \in Nat
    BY SettingFacts DEF IInv, Typed
  <2>3. /\ \A i, j \in 1..Len(bulk_loads) : bulk_loads[i] = bulk_loads[j] => i = j
        /\ \A i, j \in 1..Len(bulk_loads) : i < j => Key(bulk_loads[i]) <= Key(bulk_loads[j])
    BY <2>1 DEF Listing
  <2>4. Len(bulk_loads) \in Nat /\ DOMAIN bulk_loads = 1..Len(bulk_loads)
    BY <2>2
  <2>5. IsInjective(bulk_loads)
    BY <2>3, <2>4 DEF IsInjective
  <2>6. \A i \in 1..(Len(bulk_loads) - 1) : Key(bulk_loads[i]) <= Key(bulk_loads[i + 1])
    BY <2>3, <2>4
  <2>7. Cardinality(Inserted) = Cardinality(Inserts)
    <3> DEFINE f == [j \in Inserts |-> ops[j].result]
    <3>1. f \in Bijection(Inserts, Inserted)
      BY <2>1 DEF Bijection, Injection, Surjection, IsInjective, Inserted
    <3>2. IsFiniteSet(Inserts)
      <4>1. IsFiniteSet(0..(op_cnt - 1))
        BY <2>2, FS_Interval
      <4> QED
        BY <4>1, FS_Subset DEF Inserts
    <3> QED
      BY <3>1, <3>2, FS_Bijection DEF ExistsBijection
  <2> QED
    BY <2>1, <2>5, <2>6, <2>7
<1> QED
  BY <1>1, WorkloadInvariant, PTL
=============================================================================
