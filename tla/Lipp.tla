-------------------------------- MODULE Lipp --------------------------------
(***************************************************************************)
(* LIPP of lipp/src/core/lipp.h: a tree of nodes in which a linear model   *)
(* says at which slot a key is.  A slot is empty, holds an item or points  *)
(* to a child.  A collision turns an item into a child for two keys, and a *)
(* subtree that has grown by collisions is written to an array and built   *)
(* anew.  Nodes for two keys are kept in a pool when they are discarded.   *)
(*                                                                         *)
(* The nodes are in a heap, so that a node in use, in the pool and         *)
(* deleted are different things.  An iteration of the loops over a stack   *)
(* of nodes (scan, build, destroy) is one step.  Models are exact          *)
(* fractions: the rounding of double is left out.                          *)
(***************************************************************************)
EXTENDS Integers, Sequences, FiniteSets, SequencesExt, FiniteSetsExt, Functions,
        Ascending

CONSTANTS Keys,           \* keys, numbers
          BulkSizes,      \* numbers of items bulk_load may be given
          RebuildMin,     \* 64: smaller subtrees are not rebuilt
          RebuildFactor,  \* 4: growth that asks for a rebuild
          FixedMin,       \* 10^6: larger nodes are never rebuilt
          MaxDepth        \* 128: MAX_DEPTH

ASSUME LippAssumption ==
  /\ Keys \subseteq Nat /\ IsFiniteSet(Keys) /\ BulkSizes \subseteq Nat
  /\ RebuildMin \in Nat /\ RebuildMin > 2 /\ RebuildFactor \in Nat \ {0}
  /\ FixedMin \in Nat /\ FixedMin >= 2 /\ MaxDepth \in Nat \ {0}

VARIABLES heap,         \* the allocated nodes, by address
          root,
          pending_two,  \* the pool, a stack of addresses
          pc,           \* "idle", or the loop that is running
          stack,        \* its stack
          entries,      \* the array a rebuild writes the items to
          key,          \* the key being inserted
          hook,         \* parent of the subtree being built, or 0
          built,        \* address of that subtree
          contents,     \* history: the keys that should be stored
          failed        \* an RT_ASSERT has failed

structure == <<heap, root, pending_two>>
rebuild   == <<stack, entries, hook, built>>
vars == <<heap, root, pending_two, pc, stack, entries, key, hook, built,
          contents, failed>>

\* Definitions of the form Op_Fault are faulty variants of Op.  No action uses
\* them; each shows that a property notices the fault.

-----------------------------------------------------------------------------
(* Items and nodes. *)

\* The value stored with a key; what matters is that two keys have two values.
ValueOf(k) == k + 100

Garbage  == -1
Data(k)  == [key |-> k, value |-> ValueOf(k), child |-> Garbage]
\* A child pointer shares its memory with the key, not with the value.
Child(a, old) == [key |-> Garbage, value |-> old.value, child |-> a]
Unwritten == [key |-> Garbage, value |-> Garbage, child |-> Garbage]

\* The bits of bitmaps for n items: whole bytes.
BitmapWidth == 8
Bits(n) == 0..(((n + BitmapWidth - 1) \div BitmapWidth) * BitmapWidth - 1)

\* The slot of a key is floor((p * key + q) / d), brought into the node.
Predict(node, k) ==
  LET v == node.model.p * k + node.model.q
  IN  IF v < 0 THEN 0 ELSE Min({node.num_items - 1, v \div node.model.d})

\* Fields of a node whose subtree has n keys when it is built.
NewNode(n, num_items, none, model, two) ==
  [is_two |-> two, build_size |-> n, size |-> n, fixed |-> n > FixedMin,
   num_inserts |-> 0, num_insert_to_data |-> 0, num_items |-> num_items,
   model |-> model, items |-> [i \in 0..(num_items - 1) |-> Unwritten],
   none |-> none, child |-> {}]

\* build_tree_none: one slot, and only its own bit says that it is empty.
NoneNode == NewNode(0, 1, {0}, [p |-> 0, q |-> 0, d |-> 1], FALSE)

\* new_nodes(1), not yet filled.
RawNode == [NoneNode EXCEPT !.num_items = 0, !.none = {}]

\* The first n addresses that are not in use.
Fresh(n) ==
  LET used == DOMAIN heap
  IN  SubSeq(Ascending((1..(Cardinality(used) + n)) \ used), 1, n)

\* The heap with a node at address a.
Put(h, a, node) == [b \in DOMAIN h \cup {a} |-> IF b = a THEN node ELSE h[b]]

-----------------------------------------------------------------------------
(* build_tree_two. *)

TwoItems == 8
TwoNode(k1, k2) ==
  NewNode(2, TwoItems, Bits(TwoItems),
          LET t1 == TwoItems \div 3
              t2 == (TwoItems * 2) \div 3
          IN  [p |-> t2 - t1, q |-> t1 * (k2 - k1) - (t2 - t1) * k1, d |-> k2 - k1],
          TRUE)

\* A node of the pool keeps all its fields but the model; otherwise a new one.
TwoFrame(k1, k2) ==
  IF pending_two = <<>> THEN TwoNode(k1, k2)
  ELSE [heap[Last(pending_two)] EXCEPT !.model = TwoNode(k1, k2).model]

BuildTwo_KeepsValues(x, y) ==
  LET lo == IF x.key > y.key THEN [x EXCEPT !.key = y.key] ELSE x
      hi == IF x.key > y.key THEN [y EXCEPT !.key = x.key] ELSE y
      frame == TwoFrame(lo.key, hi.key)
      p1 == Predict(frame, lo.key)
      p2 == Predict(frame, hi.key)
  IN  [frame EXCEPT !.none = @ \ {p1, p2}, !.items = [@ EXCEPT ![p1] = lo, ![p2] = hi]]
\* The node for items x and y, with their order put right.
BuildTwo(x, y) ==
  LET lo == IF x.key > y.key THEN y ELSE x
      hi == IF x.key > y.key THEN x ELSE y
      frame == TwoFrame(lo.key, hi.key)
      p1 == Predict(frame, lo.key)
      p2 == Predict(frame, hi.key)
  IN  [frame EXCEPT !.none = @ \ {p1, p2}, !.items = [@ EXCEPT ![p1] = lo, ![p2] = hi]]

\* The asserts of build_tree_two.
BuildTwoAsserts(x, y) ==
  /\ x.key # y.key
  /\ LET frame == TwoFrame(Min({x.key, y.key}), Max({x.key, y.key}))
         p1 == Predict(frame, x.key)
         p2 == Predict(frame, y.key)
     IN  {p1, p2} \subseteq frame.none /\ p1 # p2

\* Where build_tree_two puts its node.
TwoAddress == IF pending_two = <<>> THEN Fresh(1)[1] ELSE Last(pending_two)
PoolAfterTwo == IF pending_two = <<>> THEN <<>> ELSE Front(pending_two)

-----------------------------------------------------------------------------
(* build_tree_bulk_fmcd: the model for the items of one segment. *)

\* compute_gap_count.
GapCount(n) == IF n >= 1000000 THEN 1 ELSE IF n >= 100000 THEN 2 ELSE 5

\* The number added to U_T is 1 / EpsInverse; it has to be small (10^-6 in the
\* code; larger here for TLC's integers).
EpsInverse == 1000

\* U_T as a fraction.
Ut(s, D) ==
  LET L == Len(s) * (GapCount(Len(s)) + 1)
  IN  [num |-> (s[Len(s) - D].key - s[D + 1].key) * EpsInverse + (L - 2),
       den |-> (L - 2) * EpsInverse]

\* The search for D, from D = 1 and i = 0: the inner loop moves i over the pairs
\* at distance D that are far enough apart, and i is not reset when D grows.
Fmcd(s) ==
  LET n == Len(s)
      Stops(i, D) == \/ i + D >= n
                     \/ (s[i + D + 1].key - s[i + 1].key) * Ut(s, D).den < Ut(s, D).num
      \* i after the inner loop for D
      Reached[D \in 0..n] ==
        IF D = 0 THEN 0 ELSE Min({j \in Reached[D - 1]..n : Stops(j, D)})
      Ends(D) == D * 3 > n \/ Reached[D - 1] >= n - 1 - D \/ Reached[D] + D >= n
  IN  Min({D \in 1..n : Ends(D)})

FmcdModel_WholeRange(s, D) ==
  LET L == Len(s) * (GapCount(Len(s)) + 1)
      u == Ut(s, 0)
  IN  [p |-> 2 * u.den, q |-> L * u.num - (Last(s).key + s[1].key) * u.den, d |-> 2 * u.num]
FmcdModel(s, D) ==
  LET L  == Len(s) * (GapCount(Len(s)) + 1)
      u  == Ut(s, D)
      mid2 == s[Len(s) - D].key + s[D + 1].key
  IN  [p |-> 2 * u.den, q |-> L * u.num - mid2 * u.den, d |-> 2 * u.num]

\* Where the keys are split when FMCD finds no model.
MidPositions(n) == <<(n - 1) \div 3, ((n - 1) * 2) \div 3>>

FallbackModel(s) ==
  LET m  == MidPositions(Len(s))
      g  == GapCount(Len(s)) + 1
      s1 == s[m[1] + 1].key + s[m[1] + 2].key    \* twice mid1_key
      s2 == s[m[2] + 1].key + s[m[2] + 2].key
      t1 == m[1] * g + g \div 2
      t2 == m[2] * g + g \div 2
  IN  [p |-> 2 * (t2 - t1), q |-> t1 * (s2 - s1) - (t2 - t1) * s1, d |-> s2 - s1]

SegmentModel(s) == IF Fmcd(s) * 3 <= Len(s) THEN FmcdModel(s, Fmcd(s)) ELSE FallbackModel(s)

\* The asserts about a segment of more than two items: each D that U_T is computed for
\* leaves its two keys in order, the two places of a split are inside and apart, and the
\* model is finite and does not decrease.
SegmentAsserts(s) ==
  LET n == Len(s)
      m == MidPositions(n)
  IN  /\ \A D \in 1..Fmcd(s) : (D = 1 \/ D * 3 <= n) => D <= n - 1 - D
      /\ Fmcd(s) * 3 > n => 0 <= m[1] /\ m[1] < m[2] /\ m[2] < n - 1
      /\ SegmentModel(s).d > 0 /\ SegmentModel(s).p >= 0

-----------------------------------------------------------------------------
(* Discarding a node: destroy_tree and scan_and_destory_tree. *)

Reset_KeepsChildren(node) ==
  [node EXCEPT !.size = 2, !.num_inserts = 0, !.num_insert_to_data = 0,
               !.none = Bits(TwoItems)]
Reset_KeepsSize(node) ==
  [node EXCEPT !.num_inserts = 0, !.num_insert_to_data = 0,
               !.none = Bits(TwoItems), !.child = {}]
Reset_KeepsBitmap(node) ==
  [node EXCEPT !.size = 2, !.num_inserts = 0, !.num_insert_to_data = 0, !.child = {}]
\* A node for two keys as it goes to the pool.
Reset(node) ==
  [node EXCEPT !.size = 2, !.num_inserts = 0, !.num_insert_to_data = 0,
               !.none = Bits(TwoItems), !.child = {}]

HeapWithout(a) ==
  IF heap[a].is_two THEN [heap EXCEPT ![a] = Reset(@)]
  ELSE Restrict(heap, DOMAIN heap \ {a})

PoolWith_DropsTwo(a) == pending_two
PoolWith(a) == IF heap[a].is_two THEN Append(pending_two, a) ELSE pending_two

DiscardAsserts(a) ==
  heap[a].is_two => heap[a].build_size = 2 /\ heap[a].num_items = TwoItems

\* The slots of a node that are in use, in order.  The loop stops at num_items.
UsedSlots(node) == Ascending((0..(node.num_items - 1)) \ node.none)
ChildSlots(node) == Ascending((0..(node.num_items - 1)) \cap node.child)

-----------------------------------------------------------------------------
(* bulk_load and the destructor. *)

SortedItems(K) == LET ks == Ascending(K) IN [n \in 1..Len(ks) |-> Data(ks[n])]

\* bulk_load.  Build calls it once, before any insert.
BulkLoad(K) ==
  /\ pc = "idle" /\ contents = {}
  /\ pc' = "destroy" /\ stack' = <<root>>
  /\ contents' = K
  /\ UNCHANGED <<structure, entries, key, hook, built, failed>>

\* One iteration of destroy_tree.
DestroyStep ==
  /\ pc \in {"destroy", "close"} /\ stack # <<>>
  /\ LET a == Last(stack)
         cs == ChildSlots(heap[a])
     IN  /\ stack' = Front(stack) \o [n \in 1..Len(cs) |-> heap[a].items[cs[n]].child]
         /\ heap' = HeapWithout(a)
         /\ pending_two' = PoolWith(a)
         /\ failed' = (failed \/ ~DiscardAsserts(a))
  /\ UNCHANGED <<root, pc, entries, key, hook, built, contents>>

\* At most one key: an empty tree, and an insert for the key.
LoadFew ==
  /\ pc = "destroy" /\ stack = <<>> /\ Cardinality(contents) < 2
  /\ root' = Fresh(1)[1]
  /\ heap' = Put(heap, root', NoneNode)
  /\ IF contents = {} THEN pc' = "idle" /\ key' = key
     ELSE pc' = "insert" /\ key' = (CHOOSE k \in contents : TRUE)
  /\ UNCHANGED <<pending_two, rebuild, contents, failed>>

LoadTwo ==
  /\ pc = "destroy" /\ stack = <<>> /\ Cardinality(contents) = 2
  /\ LET s == SortedItems(contents)
     IN  /\ root' = TwoAddress
         /\ heap' = Put(heap, root', BuildTwo(s[1], s[2]))
         /\ failed' = (failed \/ ~BuildTwoAsserts(s[1], s[2]))
  /\ pending_two' = PoolAfterTwo
  /\ pc' = "idle"
  /\ UNCHANGED <<rebuild, key, contents>>

\* build_tree_bulk begins: a node and a segment with all items.
StartBuild(s) ==
  LET a == Fresh(1)[1] IN
  /\ heap' = Put(heap, a, RawNode)
  /\ stack' = <<[items |-> s, node |-> a]>>
  /\ built' = a
  /\ pc' = "build"

LoadMany ==
  /\ pc = "destroy" /\ stack = <<>> /\ Cardinality(contents) > 2
  /\ StartBuild(SortedItems(contents))
  /\ hook' = 0
  /\ UNCHANGED <<root, pending_two, entries, key, contents, failed>>

\* The destructor: destroy_tree, then destory_pending.
Close ==
  /\ pc = "idle"
  /\ pc' = "close" /\ stack' = <<root>>
  /\ UNCHANGED <<structure, entries, key, hook, built, contents, failed>>

DestroyPending ==
  /\ pc = "close" /\ stack = <<>>
  /\ heap' = Restrict(heap, DOMAIN heap \ Range(pending_two))
  /\ pending_two' = <<>>
  /\ pc' = "closed"
  /\ UNCHANGED <<root, rebuild, key, contents, failed>>

-----------------------------------------------------------------------------
(* insert_tree. *)

\* insert(key, value).  LIPP is used with keys that are not stored already.
Insert(k) ==
  /\ pc = "idle" /\ k \notin contents
  /\ pc' = "insert" /\ key' = k
  /\ contents' = contents \cup {k}
  /\ UNCHANGED <<structure, rebuild, failed>>

\* The nodes on the way to a key.
Path(k) ==
  LET From[a \in DOMAIN heap] ==
        LET p == Predict(heap[a], k)
        IN  IF p \in heap[a].child THEN <<a>> \o From[heap[a].items[p].child] ELSE <<a>>
  IN  From[root]

\* The counters of the nodes on the path.
Counted(path, to_data) ==
  [a \in DOMAIN heap |->
     IF a \in Range(path)
     THEN [heap[a] EXCEPT !.size = @ + 1, !.num_inserts = @ + 1,
                          !.num_insert_to_data = @ + to_data]
     ELSE heap[a]]

NeedsRebuild(node) ==
  /\ ~node.fixed
  /\ node.size >= node.build_size * RebuildFactor
  /\ node.size >= RebuildMin
  /\ node.num_insert_to_data * 10 >= node.num_inserts

\* The first node of the path that needs it is rebuilt.
RebuildIfNeeded(path) ==
  LET needs == {n \in 1..Len(path) : NeedsRebuild(heap'[path[n]])} IN
  IF needs = {} THEN pc' = "idle" /\ key' = 0 /\ UNCHANGED rebuild
  ELSE LET n == Min(needs) IN
       /\ pc' = "scan" /\ key' = key
       /\ stack' = <<[begin |-> 0, node |-> path[n]]>>
       /\ entries' = [i \in 0..(heap'[path[n]].size - 1) |-> Unwritten]
       /\ hook' = IF n = 1 THEN 0 ELSE path[n - 1]
       /\ built' = built

InsertIntoFreeSlot ==
  /\ pc = "insert"
  /\ LET path == Path(key)
         a == Last(path)
         p == Predict(heap[a], key)
     IN  /\ p \in heap[a].none
         /\ heap' = [Counted(path, 0) EXCEPT ![a].none = @ \ {p},
                                             ![a].items = [@ EXCEPT ![p] = Data(key)]]
         /\ RebuildIfNeeded(path)
         /\ failed' = (failed \/ Len(path) > MaxDepth)
  /\ UNCHANGED <<root, pending_two, contents>>

\* The slot has an item: both go to a child for two keys.
InsertIntoData ==
  /\ pc = "insert"
  /\ LET path == Path(key)
         a == Last(path)
         p == Predict(heap[a], key)
         old == heap[a].items[p]
         two == BuildTwo(Data(key), old)
     IN  /\ p \notin heap[a].none
         /\ heap' = Put([Counted(path, 1) EXCEPT
                           ![a].child = @ \cup {p},
                           ![a].items = [@ EXCEPT ![p] = Child(TwoAddress, old)]],
                        TwoAddress, two)
         /\ RebuildIfNeeded(path)
         /\ failed' = (failed \/ Len(path) > MaxDepth \/ ~BuildTwoAsserts(Data(key), old))
  /\ pending_two' = PoolAfterTwo
  /\ UNCHANGED <<root, contents>>

-----------------------------------------------------------------------------
(* The rebuild: scan_and_destory_tree, build_tree_bulk, link to the parent. *)

\* How many elements of the array a slot is given.
Room(node, p) == IF p \in node.child THEN heap[node.items[p].child].size ELSE 1

\* The same for several slots.
RoomOf(node, S) == MapThenSumSet(LAMBDA p : Room(node, p), S)

\* Where in the array the part of slot p begins.
BeginOf(seg, p) ==
  seg.begin + RoomOf(heap[seg.node], {q \in Range(UsedSlots(heap[seg.node])) : q < p})

\* One iteration of scan_and_destory_tree: the items of a node are written where
\* the sizes of the children before them say.
ScanStep ==
  /\ pc = "scan" /\ stack # <<>>
  /\ LET seg  == Last(stack)
         node == heap[seg.node]
         data == {p \in Range(UsedSlots(node)) : p \notin node.child}
         down == ChildSlots(node)
     IN  /\ entries' = [i \in DOMAIN entries |->
                          IF \E p \in data : BeginOf(seg, p) = i
                          THEN node.items[CHOOSE p \in data : BeginOf(seg, p) = i]
                          ELSE entries[i]]
         /\ stack' = Front(stack) \o
                     [n \in 1..Len(down) |-> [begin |-> BeginOf(seg, down[n]),
                                              node |-> node.items[down[n]].child]]
         /\ failed' = \/ failed
                      \/ BeginOf(seg, node.num_items) # seg.begin + node.size
                      \/ \E p \in data : BeginOf(seg, p) \notin DOMAIN entries
                      \/ ~DiscardAsserts(seg.node)
         /\ heap' = HeapWithout(seg.node)
         /\ pending_two' = PoolWith(seg.node)
  /\ UNCHANGED <<root, pc, key, hook, built, contents>>

ScanDone ==
  /\ pc = "scan" /\ stack = <<>>
  /\ StartBuild([n \in 1..Cardinality(DOMAIN entries) |-> entries[n - 1]])
  /\ entries' = <<>>
  /\ UNCHANGED <<root, pending_two, key, hook, contents, failed>>

\* A segment of two items: the node of build_tree_two is copied and deleted.
BuildPair ==
  /\ pc = "build" /\ stack # <<>> /\ Len(Last(stack).items) = 2
  /\ LET s == Last(stack).items IN
     /\ heap' = Restrict(Put(heap, Last(stack).node, BuildTwo(s[1], s[2])),
                         DOMAIN heap \ (Range(pending_two) \ Range(PoolAfterTwo)))
     /\ failed' = (failed \/ ~BuildTwoAsserts(s[1], s[2]))
  /\ pending_two' = PoolAfterTwo
  /\ stack' = Front(stack)
  /\ UNCHANGED <<root, pc, entries, key, hook, built, contents>>

\* The node for a larger segment, still empty.
SegmentFrame(s) ==
  LET num_items == Len(s) * (GapCount(Len(s)) + 1)
  IN  NewNode(Len(s), num_items, Bits(num_items), SegmentModel(s), FALSE)

\* The run of items that the model sends to slot p.
Run(node, s, p) ==
  LET ns == {n \in 1..Len(s) : Predict(node, s[n].key) = p}
  IN  IF ns = {} THEN <<>> ELSE SubSeq(s, Min(ns), Max(ns))

\* The slots that several items are sent to.
Crowded(node, s) == {p \in 0..(node.num_items - 1) : Len(Run(node, s, p)) > 1}

\* The node filled with the items: one alone in its slot is stored there, others go to
\* a child of their own, at one of the new addresses.
Fill(node, s, new) ==
  LET down == Ascending(Crowded(node, s))
      At(p) == Run(node, s, p)
      Entry(p) == IF At(p) = <<>> THEN Unwritten
                  ELSE IF Len(At(p)) = 1 THEN At(p)[1]
                  ELSE Child(new[CHOOSE n \in 1..Len(down) : down[n] = p], Unwritten)
  IN  [node EXCEPT !.none = {p \in @ : At(p) = <<>>}, !.child = Range(down),
                   !.items = [p \in 0..(node.num_items - 1) |-> Entry(p)]]

BuildSegment ==
  /\ pc = "build" /\ stack # <<>> /\ Len(Last(stack).items) # 2
  /\ LET s == Last(stack).items
         frame == SegmentFrame(s)
         down == Ascending(Crowded(frame, s))
         new == Fresh(Len(down))
     IN  /\ heap' = [a \in DOMAIN heap \cup Range(new) |->
                       IF a = Last(stack).node THEN Fill(frame, s, new)
                       ELSE IF a \in DOMAIN heap THEN heap[a] ELSE RawNode]
         /\ stack' = Front(stack) \o
                     [n \in 1..Len(down) |-> [items |-> Run(frame, s, down[n]), node |-> new[n]]]
         /\ failed' = (failed \/ Len(s) < 2 \/ ~SegmentAsserts(s))
  /\ UNCHANGED <<root, pending_two, pc, entries, key, hook, built, contents>>

\* The new subtree takes the place of the old one.
BuildDone ==
  /\ pc = "build" /\ stack = <<>>
  /\ IF hook = 0 THEN root' = built /\ heap' = heap
     ELSE /\ root' = root
          /\ LET p == Predict(heap[hook], key)
                 old == heap[hook].items[p]
             IN  heap' = [heap EXCEPT ![hook].items = [@ EXCEPT ![p] = Child(built, old)]]
  /\ pc' = "idle"
  /\ hook' = 0 /\ built' = 0 /\ key' = 0
  /\ UNCHANGED <<pending_two, stack, entries, contents, failed>>

-----------------------------------------------------------------------------
Init ==
  /\ heap = Put(<<>>, 1, NoneNode) /\ root = 1 /\ pending_two = <<>>
  /\ pc = "idle" /\ stack = <<>> /\ entries = <<>> /\ key = 0
  /\ hook = 0 /\ built = 0
  /\ contents = {} /\ failed = FALSE

Next ==
  \/ \E K \in SUBSET Keys : Cardinality(K) \in BulkSizes /\ BulkLoad(K)
  \/ DestroyStep \/ LoadFew \/ LoadTwo \/ LoadMany
  \/ Close \/ DestroyPending
  \/ \E k \in Keys : Insert(k)
  \/ InsertIntoFreeSlot \/ InsertIntoData
  \/ ScanStep \/ ScanDone \/ BuildPair \/ BuildSegment \/ BuildDone

Spec == Init /\ [][Next]_vars

-----------------------------------------------------------------------------
(* Queries. *)

\* find: the value of a key, or Garbage when it answers false.
Find(k) ==
  LET n == heap[Last(Path(k))]
      x == n.items[Predict(n, k)]
  IN  IF Predict(n, k) \notin n.none /\ x.key = k THEN x.value ELSE Garbage

\* The bits of a node from some position on that do not say None, in order.  The
\* iterator reads whole bytes of the bitmap.
BitsFrom(node, from) ==
  Ascending({b \in Bits(node.num_items) \ node.none : b >= from})

\* items[b]; past the end of the array there is anything.
Slot(node, b) == IF b < node.num_items THEN node.items[b] ELSE Unwritten

\* What the iterator visits in a node from a position on, children included.
Visited(node0, from) ==
  LET Visit(node, f, All) ==
        FlattenSeq([n \in 1..Len(BitsFrom(node, f)) |->
          LET b == BitsFrom(node, f)[n]
          IN  IF b \in node.child THEN All[node.items[b].child] ELSE <<Slot(node, b)>>])
      All[a \in DOMAIN heap] == Visit(heap[a], 0, All)
  IN  Visit(node0, from, All)

NextPosition_Same(p) == p
\* The mask of lower_bound: the iteration goes on after the slot of the key.
NextPosition(p) == p + 1

\* lower_bound and all that ++ visits from there.
LowerBound(k) ==
  LET From[a \in DOMAIN heap] ==
        LET n == heap[a]
            p == Predict(n, k)
            here == IF p \in n.child THEN From[n.items[p].child]
                    ELSE IF p \notin n.none /\ n.items[p].key >= k THEN <<n.items[p]>>
                    ELSE <<>>
        IN  here \o Visited(n, NextPosition(p))
  IN  From[root]

-----------------------------------------------------------------------------
(* Properties. *)

\* The nodes of the tree, each as often as it is reached.
TreeNodes ==
  LET From[a \in DOMAIN heap] ==
        LET cs == ChildSlots(heap[a])
        IN  <<a>> \o FlattenSeq([n \in 1..Len(cs) |-> From[heap[a].items[cs[n]].child]])
  IN  From[root]

\* Types of the variables; a node's bitmaps are whole bytes and a child slot is
\* not marked empty (the comment of child_bitmap).
TypeOK ==
  /\ pc \in {"idle", "destroy", "close", "closed", "insert", "scan", "build"}
  /\ contents \subseteq Keys /\ failed \in BOOLEAN
  /\ Range(pending_two) \subseteq DOMAIN heap
  /\ pc = "idle" => root \in DOMAIN heap
  /\ \A a \in DOMAIN heap : /\ heap[a].child \cap heap[a].none = {}
                           /\ heap[a].none \subseteq Bits(heap[a].num_items)

\* verify(): between calls the size of every node is the number of items below it.
\* insert_tree adds along the path, a rebuild replaces a subtree, and a node from
\* the pool must not bring an old size with it.
SizesAgree ==
  pc = "idle" =>
    \A a \in Range(TreeNodes) :
      heap[a].size = RoomOf(heap[a], Range(UsedSlots(heap[a])))

\* find answers like a map between calls: every stored key with its own value,
\* through any sequence of collisions, rebuilds and reused nodes, and no other key.
FindCorrect ==
  pc = "idle" => \A k \in Keys : Find(k) = IF k \in contents THEN ValueOf(k) ELSE Garbage

\* lower_bound and ++ visit exactly the stored items from the key on, in order.
IterationCorrect ==
  pc = "idle" =>
    \A k \in Keys :
      LET visited == LowerBound(k)
      IN  [n \in 1..Len(visited) |-> <<visited[n].key, visited[n].value>>]
            = LET ks == Ascending({x \in contents : x >= k})
              IN  [n \in 1..Len(ks) |-> <<ks[n], ValueOf(ks[n])>>]

\* The same, unless the root is the node of build_tree_none, whose bitmap has bits
\* that belong to no slot.
IterationCorrectOnceBuilt ==
  pc = "idle" /\ heap[root].num_items > 1 => IterationCorrect

\* Between calls a node is in the tree once, or in the pool once, or deleted: no
\* rebuild leaks a node, deletes one twice or reuses one that is still linked.  After
\* the destructor none is left.
NodesAccounted ==
  /\ pc = "idle" => /\ IsInjective(TreeNodes \o pending_two)
                    /\ Range(TreeNodes \o pending_two) = DOMAIN heap
  /\ pc = "closed" => DOMAIN heap = {}

\* No RT_ASSERT fails: the array of a rebuild is filled exactly (SHOULD_END_POS), the
\* keys of build_tree_two differ and get two empty slots, a node of the pool is one
\* for two keys, and no path is longer than MAX_DEPTH.
AssertsHold == ~failed

\* The comment "ASSERT(next - offset <= (size+2) / 3)" of build_tree_bulk: a segment
\* that goes to a child has at most a third of the items, so a bulk build ends and
\* its tree is of logarithmic depth.
SegmentsShrink ==
  [][pc = "build" /\ stack # <<>> =>
       \A n \in Len(stack)..Len(stack') :
         Len(stack'[n].items) <= (Len(Last(stack).items) + 2) \div 3]_vars
=============================================================================
