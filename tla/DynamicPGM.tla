----------------------------- MODULE DynamicPGM -----------------------------
(***************************************************************************)
(* The dynamic PGM index of PGM-index/include/pgm_index_dynamic.hpp: a     *)
(* logarithmic sequence of sorted levels.  Level min_level is a small      *)
(* sorted buffer; when it is full it is merged, with the levels above it,  *)
(* into the first level with room for the result.  Deletion inserts a      *)
(* tombstone.  Levels of at least MinIndexedLevel carry a PGM index; what  *)
(* that index answers is exact for the data it was built on, so the model  *)
(* keeps that data.                                                        *)
(***************************************************************************)
EXTENDS Integers, Sequences, FiniteSets, SequencesExt, Functions

CONSTANTS Keys,          \* keys, numbers
          Values,        \* values, numbers
          MinLevel,      \* min_level
          MinIndexed,    \* MinIndexedLevel
          InitLevels,    \* init_levels
          MaxLevel,      \* bound: the highest level the model fills
          Slots,         \* 1ull << i for each level i
          BulkSizes,     \* numbers of items the constructor may be given
          Updates,       \* whether the workload inserts a key again
          Erasures       \* whether it erases keys

ASSUME LevelAssumption ==
  /\ MinLevel \in Nat /\ MinIndexed \in Nat /\ MinLevel < MinIndexed
  /\ MaxLevel \in Nat /\ MaxLevel > MinLevel
  /\ InitLevels \in Nat /\ InitLevels > MinLevel
\* Powers of two, as long as the shift does not overflow.
ASSUME SlotsAssumption ==
  /\ Slots \in [0..(MaxLevel + 1) -> Nat] /\ Slots[0] = 1
  /\ \A i \in 0..MaxLevel : Slots[i + 1] = 2 * Slots[i]
  /\ \A i, j \in 0..(MaxLevel + 1) : i <= j => Slots[i] <= Slots[j]
ASSUME DataAssumption ==
  /\ Keys \subseteq Nat /\ Values \subseteq Nat /\ Values # {}
  /\ BulkSizes \subseteq Nat /\ Updates \in BOOLEAN /\ Erasures \in BOOLEAN

VARIABLES data,         \* the items of each level, sorted by key
          used_levels,  \* 1 + the last level in use, or min_level
          num_levels,   \* data.size(): how many levels exist
          pgm,          \* the data each level's index was built on
          clobbered,    \* history: a merge had a target level with items in it
          contents      \* history: what the calls so far should have stored
\* The call of insert that is running, if it has to merge.
VARIABLES pc,             \* "idle", "slots" (looking for the target) or "merge"
          new_item,       \* its argument
          level,          \* the level its loop is at
          slots_required, \* room that the merge needs
          target,         \* target_level
          tmp,            \* tmp_a and tmp_b: what the last pass to each has written
          first1, first2, \* positions of the pass in its array and in the level
          out             \* what the pass has written

index == <<data, used_levels, num_levels, pgm>>
call  == <<pc, new_item, level, slots_required, target, tmp, first1, first2, out>>
vars  == <<index, clobbered, contents, call>>

Levels == MinLevel..MaxLevel
Absent == -1

Item(k, v) == [key |-> k, value |-> v, deleted |-> FALSE]
\* Item(key): BaseItem() zeroes the value.
Tombstone(k) == [key |-> k, value |-> 0, deleted |-> TRUE]
Items == [key : Keys, value : Values \cup {0}, deleted : BOOLEAN]

NoData == [i \in Levels |-> <<>>]

\* Definitions of the form Op_Fault are faulty variants of Op.  No action uses
\* them; each shows that a property notices the fault.

-----------------------------------------------------------------------------
(* The two constructors. *)

\* No merge is running.
Idle ==
  /\ pc = "idle" /\ new_item = Tombstone(0)
  /\ level = MinLevel /\ slots_required = 0 /\ target = MinLevel
  /\ tmp = [x \in {"a", "b"} |-> <<>>]
  /\ first1 = 1 /\ first2 = 1 /\ out = <<>>

Empty ==
  /\ data = NoData /\ pgm = NoData
  /\ used_levels = MinLevel
  /\ num_levels = InitLevels - MinLevel
  /\ contents = [k \in Keys |-> Absent]

\* The sorted sequences of n keys.
SortedKeys(n) == {s \in [1..n -> Keys] : \A l, m \in 1..n : l < m => s[l] < s[m]}

\* ceil(log2(n)) is i.
IsCeilLog2(i, n) == n <= Slots[i] /\ \A j \in 0..(i - 1) : Slots[j] < n

\* All items go to the last level, which exists only if the number of items is
\* greater than 2^(min_level - 1).
BulkLoad(keys) ==
  \E top \in Levels, v \in Values :
    LET items == [n \in 1..Len(keys) |-> Item(keys[n], v)] IN
    /\ IsCeilLog2(top, Len(keys))
    /\ data = [NoData EXCEPT ![top] = items]
    /\ pgm = [NoData EXCEPT ![top] = IF top >= MinIndexed THEN items ELSE <<>>]
    /\ used_levels = top + 1
    /\ num_levels = top + 1 - MinLevel
    /\ contents = [k \in Keys |-> IF k \in Range(keys) THEN v ELSE Absent]

Init ==
  /\ Empty \/ \E n \in BulkSizes \ {0} : \E keys \in SortedKeys(n) : BulkLoad(keys)
  /\ clobbered = FALSE
  /\ Idle

-----------------------------------------------------------------------------
(* insert(const Item &), up to where it knows that it has to merge. *)

Buffer == data[MinLevel]

\* std::lower_bound in a sorted sequence: how many of its items are before key k.
Before(s, k) == Cardinality({n \in 1..Len(s) : s[n].key < k})

\* An item whose key and value are those of the newest buffered item with the
\* same key is dropped.  The test does not ask whether one is a tombstone.
Dropped(item) ==
  LET n == Before(Buffer, item.key) + 1
  IN  n <= Len(Buffer) /\ Buffer[n].key = item.key /\ Buffer[n].value = item.value

Buffered_AtEnd(item) == Append(Buffer, item)
\* The buffer with the item before every item of the same key.
Buffered(item) == InsertAt(Buffer, Before(Buffer, item.key) + 1, item)

BufferCapacity_OffByOne == Slots[MinLevel + 1]
\* first_level_max_size
BufferCapacity == Slots[MinLevel + 1] - 1

InsertDropped(item) ==
  /\ Dropped(item)
  /\ UNCHANGED <<index, call>>

InsertIntoBuffer(item) ==
  /\ ~Dropped(item)
  /\ Len(Buffer) < BufferCapacity
  /\ data' = [data EXCEPT ![MinLevel] = Buffered(item)]
  /\ used_levels' = IF used_levels = MinLevel THEN MinLevel + 1 ELSE used_levels
  /\ UNCHANGED <<num_levels, pgm, call>>

BeginMerge(item) ==
  /\ ~Dropped(item)
  /\ Len(Buffer) >= BufferCapacity
  /\ pc' = "slots" /\ new_item' = item
  /\ level' = MinLevel + 1 /\ slots_required' = BufferCapacity + 1
  /\ UNCHANGED <<index, target, tmp, first1, first2, out>>

\* The model ends with the first merge into a level with items in it: that one
\* may also write past the end of tmp_a, and no call after it is defined.
InsertItem(item) ==
  /\ pc = "idle" /\ ~clobbered
  /\ InsertDropped(item) \/ InsertIntoBuffer(item) \/ BeginMerge(item)
  /\ UNCHANGED clobbered

\* insert(key, value)
Insert(k, v) ==
  /\ Updates \/ contents[k] = Absent
  /\ InsertItem(Item(k, v))
  /\ contents' = [contents EXCEPT ![k] = v]

\* erase(key)
Erase(k) ==
  /\ Erasures
  /\ InsertItem(Tombstone(k))
  /\ contents' = [contents EXCEPT ![k] = Absent]

-----------------------------------------------------------------------------
(* The choice of the target: the first level with room for the merge, or a *)
(* new one.                                                                *)

SlotsLeft_NextSize(i) == Slots[i + 1] - Len(data[i])
\* slots_left_in_level
SlotsLeft(i) == Slots[i] - Len(data[i])

NoRoom ==
  /\ pc = "slots" /\ level < used_levels /\ slots_required > SlotsLeft(level)
  /\ slots_required' = slots_required + Len(data[level])
  /\ level' = level + 1
  /\ UNCHANGED <<index, clobbered, contents, pc, new_item, target, tmp, first1, first2, out>>

UsedAfter_NotGrown == used_levels
\* used_levels with the new level, if there is one.
UsedAfter == IF level = used_levels THEN used_levels + 1 ELSE used_levels

\* The passes of the merge alternate between the two arrays so that the one for level
\* up_to - 1 ends in tmp_b, which becomes the level.
Agree(i, up_to) == (i - MinLevel) % 2 = (up_to - 1 - MinLevel) % 2
Reads(i, up_to)  == IF Agree(i, up_to) THEN "a" ELSE "b"
Writes(i, up_to) == IF Agree(i, up_to) THEN "b" ELSE "a"

\* The buffer with the new item is what a pass for min_level would have written.
TargetFound ==
  /\ pc = "slots" /\ level <= MaxLevel
  /\ level = used_levels \/ slots_required <= SlotsLeft(level)
  /\ used_levels' = UsedAfter
  /\ num_levels' = IF level = used_levels THEN num_levels + 1 ELSE num_levels
  /\ target' = level
  /\ clobbered' = (data[level] # <<>>)
  /\ tmp' = [tmp EXCEPT ![Writes(MinLevel, level)] = Buffered(new_item)]
  /\ pc' = "merge" /\ level' = MinLevel + 1
  /\ UNCHANGED <<data, pgm, contents, new_item, slots_required, first1, first2, out>>

-----------------------------------------------------------------------------
(* pairwise_logarithmic_merge. *)

\* The last level that is merged: the target only if it has items.
Limit == IF data[target] = <<>> THEN target - 1 ELSE target

\* What the pass for the level merges with it: newer items.
Newer == tmp[Reads(level, target)]

Survivor_Older(x, y) == y
\* Of two items with equal keys the newer stays.
Survivor(x, y) == x

\* An iteration of merge<SkipDeleted>: a tombstone that may go for good takes the
\* item with the same key of the level with it.
MergeStep ==
  /\ pc = "merge" /\ level <= Limit
  /\ first1 <= Len(Newer) /\ first2 <= Len(data[level])
  /\ LET x == Newer[first1]
         y == data[level][first2]
     IN  \/ /\ y.key < x.key
            /\ out' = Append(out, y) /\ first1' = first1 /\ first2' = first2 + 1
         \/ /\ x.key < y.key
            /\ out' = Append(out, x) /\ first1' = first1 + 1 /\ first2' = first2
         \/ /\ x.key = y.key
            /\ out' = IF level = used_levels - 1 /\ x.deleted THEN out
                      ELSE Append(out, Survivor(x, y))
            /\ first1' = first1 + 1 /\ first2' = first2 + 1
  /\ UNCHANGED <<index, clobbered, contents, pc, new_item, level, slots_required, target, tmp>>

Emptied_Kept(f) == f
\* The level that a pass has merged is emptied, and so is its index.
Emptied(f) == [f EXCEPT ![level] = <<>>]

\* What is left of one of the two is copied.
PassDone ==
  /\ pc = "merge" /\ level <= Limit
  /\ first1 > Len(Newer) \/ first2 > Len(data[level])
  /\ tmp' = [tmp EXCEPT ![Writes(level, target)] =
               out \o SubSeq(Newer, first1, Len(Newer))
                   \o SubSeq(data[level], first2, Len(data[level]))]
  /\ data' = Emptied(data) /\ pgm' = Emptied(pgm)
  /\ level' = level + 1 /\ first1' = 1 /\ first2' = 1 /\ out' = <<>>
  /\ UNCHANGED <<used_levels, num_levels, clobbered, contents, pc, new_item, slots_required, target>>

\* tmp_b with the size of the last pass.  After a pass for a target with items, which
\* ends in tmp_a, it is cut off or followed by uninitialised items (one value, junk,
\* stands for all of them).
Stored(junk) ==
  [n \in 1..Len(Newer) |-> IF n <= Len(tmp["b"]) THEN tmp["b"][n] ELSE junk]

Store ==
  /\ pc = "merge" /\ level > Limit
  /\ \E junk \in IF clobbered THEN Items ELSE {Tombstone(0)} :
       /\ data' = [data EXCEPT ![MinLevel] = <<>>, ![target] = Stored(junk)]
       /\ pgm' = [pgm EXCEPT ![target] = IF target >= MinIndexed THEN Stored(junk) ELSE <<>>]
  /\ pc' = "idle" /\ new_item' = Tombstone(0)
  /\ level' = MinLevel /\ slots_required' = 0 /\ target' = MinLevel
  /\ tmp' = [x \in {"a", "b"} |-> <<>>]
  /\ UNCHANGED <<first1, first2, out>>
  /\ UNCHANGED <<used_levels, num_levels, clobbered, contents>>

Merging == NoRoom \/ TargetFound \/ MergeStep \/ PassDone \/ Store

Next ==
  \/ \E k \in Keys, v \in Values : Insert(k, v)
  \/ \E k \in Keys : Erase(k)
  \/ Merging

Spec == Init /\ [][Next]_vars

-----------------------------------------------------------------------------
(* Queries: they change nothing, and none is asked while an insertion runs. *)

\* A level can be searched if it has no index or one built on its data.
Searchable(i) == i >= MinIndexed => pgm[i] = data[i]

Holds(i, k) == Searchable(i) /\ \E n \in 1..Len(data[i]) : data[i][n].key = k

\* find: the first item with key k of the first level that has one.
Find(k) ==
  LET holding == {i \in MinLevel..(used_levels - 1) : Holds(i, k)}
  IN  IF holding = {} THEN Absent
      ELSE LET i    == CHOOSE i \in holding : \A j \in holding : i <= j
               item == data[i][Before(data[i], k) + 1]
           IN  IF item.deleted THEN Absent ELSE item.value

\* lower_bound's position in level i: without an index, tombstones at that
\* place are skipped.
Start(i, k) ==
  LET n     == Before(data[i], k)
      alive == {m \in (n + 1)..Len(data[i]) : ~data[i][m].deleted}
  IN  IF i >= MinIndexed THEN n + 1
      ELSE IF alive = {} THEN Len(data[i]) + 1
      ELSE CHOOSE m \in alive : \A l \in alive : m <= l

\* The elements of a finite set in a strict total order.
InOrder(S, before(_, _)) ==
  [n \in 1..Cardinality(S) |->
     CHOOSE x \in S : Cardinality({y \in S : before(y, x)}) = n - 1]

\* The positions the iterator visits from key lo on while the keys are at most
\* hi, in its order: by key, then by level, then along the level.
Visited(lo, hi) ==
  LET from == UNION {{<<i, n>> : n \in {m \in Start(i, lo)..Len(data[i]) : data[i][m].key <= hi}} :
                       i \in MinLevel..(used_levels - 1)}
      before(p, q) == \/ data[p[1]][p[2]].key < data[q[1]][q[2]].key
                      \/ /\ data[p[1]][p[2]].key = data[q[1]][q[2]].key
                         /\ p[1] < q[1] \/ (p[1] = q[1] /\ p[2] < q[2])
  IN  InOrder(from, before)

\* The keys and values that DynamicPGM::RangeQuery adds up.
RangeQuery(lo, hi) ==
  LET visited == Visited(lo, hi)
      at(p)   == data[p[1]][p[2]]
  IN  [n \in 1..Len(visited) |-> <<at(visited[n]).key, at(visited[n]).value>>]

-----------------------------------------------------------------------------
(* Properties. *)

Ordered(s) == \A m, n \in 1..Len(s) : m <= n => s[m].key <= s[n].key

\* Types.  As long as no merge has met items in its target, every level is sorted by
\* key, and lower_bound may search it.
TypeOK ==
  /\ data \in [Levels -> Seq(Items)]
  /\ pgm \in [Levels -> Seq(Items)]
  /\ clobbered \/ \A i \in Levels : Ordered(data[i])
  /\ used_levels \in MinLevel..(MaxLevel + 1)
  /\ num_levels \in Nat
  /\ clobbered \in BOOLEAN
  /\ contents \in [Keys -> Values \cup {Absent}]

\* find answers as a map would after the same calls, whatever merges have
\* moved the item to: the newest version of a key hides the older ones.
FindCorrect == pc = "idle" => \A k \in Keys : Find(k) = contents[k]

\* A range query visits every stored key between its bounds once, in order,
\* with its value, and nothing else.
RangeCorrect ==
  pc = "idle" =>
    \A lo, hi \in Keys :
      RangeQuery(lo, hi) =
        LET ks == InOrder({k \in Keys : lo <= k /\ k <= hi /\ contents[k] # Absent}, <)
        IN  [n \in 1..Len(ks) |-> <<ks[n], contents[ks[n]]>>]

\* A merge never meets items in its target: with all smaller levels full, a
\* level with items in it has no room.  The alternation of the two arrays
\* depends on it.
TargetsEmpty == ~clobbered

\* No level outgrows its slots (the assertion in pairwise_logarithmic_merge) and no
\* pass its array; and used_levels is what its comment says: one more than the last
\* level with items, every level up to it exists.
LevelsFit ==
  /\ Len(Buffer) < Slots[MinLevel + 1]
  /\ \A i \in (MinLevel + 1)..MaxLevel : Len(data[i]) <= Slots[i]
  /\ pc = "merge" => Len(out) <= slots_required
  /\ pc = "idle" => used_levels = MinLevel \/ data[used_levels - 1] # <<>>
  /\ \A i \in Levels : data[i] # <<>> => i < used_levels /\ i < MinLevel + num_levels

\* As long as no merge has met items in its target, updates and tombstones are
\* resolved right: that merge is the only way to lose or revive a key.
FindCorrectUnlessClobbered == ~clobbered => FindCorrect
=============================================================================
