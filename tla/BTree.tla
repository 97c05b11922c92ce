------------------------------- MODULE BTree -------------------------------
(***************************************************************************)
(* The B+ tree of stx-btree-0.9/include/stx/btree.h as the benchmark uses  *)
(* it (stx_btree.h, a multimap): bulk_load once, then insert, find,        *)
(* lower_bound and upper_bound.  Items are in leaves that are linked in    *)
(* both directions; the key of an inner slot is the greatest key below the *)
(* child left of it.  Nothing is erased, so nodes are never freed and the  *)
(* address of a node is its place in a sequence.                           *)
(*                                                                         *)
(* insert_descend returns from level to level: one step is what one        *)
(* invocation of it does after the call it made, or at the leaf.           *)
(***************************************************************************)
EXTENDS Integers, Sequences, FiniteSets, FiniteSetsExt, SequencesExt

CONSTANTS Keys,        \* keys, numbers
          Inputs,      \* sorted sequences of keys that bulk_load is given
          LeafSlots,   \* leafslotmax
          InnerSlots,  \* innerslotmax
          MaxInserts   \* bound on the inserts

ASSUME BTreeAssumption ==
  /\ Keys \subseteq Int /\ Inputs \subseteq Seq(Keys)
  /\ \A in \in Inputs : \A n \in 1..(Len(in) - 1) : in[n] <= in[n + 1]
  /\ LeafSlots \in Nat /\ LeafSlots >= 2 /\ InnerSlots \in Nat /\ InnerSlots >= 3
  /\ MaxInserts \in Nat

VARIABLES nodes, root, head, tail,  \* the tree; 0 is NULL
          pc,        \* "new", "bulk", "idle" or "unwind"
          nextlevel, \* bulk_load: nodes without a parent and their greatest keys
          stack,     \* the inner nodes of the descent, with the slots it took
          newkey, newchild,  \* what a split gives to the level above
          itemcount, \* m_stats.itemcount
          contents,  \* history: the items that should be stored
          inserts    \* history: calls of insert

links   == <<root, head, tail>>
history == <<contents, inserts>>
vars    == <<nodes, links, pc, nextlevel, stack, newkey, newchild, itemcount, history>>

\* Definitions of the form Op_Fault are faulty variants of Op.  No action uses
\* them; each shows that a property notices the fault.

-----------------------------------------------------------------------------
(* Nodes. *)

Leaf(items, prev, next) ==
  [level |-> 0, items |-> items, prev |-> prev, next |-> next, keys |-> <<>>, child |-> <<>>]
Inner(level, keys, child) ==
  [level |-> level, items |-> <<>>, prev |-> 0, next |-> 0, keys |-> keys, child |-> child]

\* The keys that are searched in a node: slotkey.
SlotKeys(a) ==
  IF nodes[a].level > 0 THEN nodes[a].keys
  ELSE [n \in 1..Len(nodes[a].items) |-> nodes[a].items[n].key]

\* find_lower and find_upper: slots are counted from 0.
FindLower(a, k) == Cardinality({n \in 1..Len(SlotKeys(a)) : SlotKeys(a)[n] < k})
FindUpper_Strict(a, k) == FindLower(a, k)
FindUpper(a, k) == Cardinality({n \in 1..Len(SlotKeys(a)) : SlotKeys(a)[n] <= k})

\* The nodes from the root to a leaf, by one of the two.
Descent(k, Slot(_, _)) ==
  LET From[a \in 1..Len(nodes)] ==
        IF nodes[a].level = 0 THEN <<a>>
        ELSE <<a>> \o From[nodes[a].child[Slot(a, k) + 1]]
  IN  From[root]

-----------------------------------------------------------------------------
(* bulk_load. *)

CeilDiv(a, b) == (a + b - 1) \div b

\* n things are shared among m nodes; each takes one part of what is left, rounded
\* down, so that the other parts are left, rounded up.
Share(n, m) ==
  LET Left[i \in 0..m] == IF i = 0 THEN n ELSE CeilDiv(Left[i - 1] * (m - i), m - i + 1)
  IN  [i \in 1..m |-> [from |-> n - Left[i - 1] + 1, to |-> n - Left[i]]]

\* The leaves, linked.  Up to one leaf is the whole tree.
BulkLeaves(keys) ==
  /\ pc = "new"
  /\ LET items == [n \in 1..Len(keys) |-> [key |-> keys[n], id |-> n]]
         m == CeilDiv(Len(keys), LeafSlots)
         part == Share(Len(keys), m)
     IN  /\ nodes' = [i \in 1..m |->
                        Leaf(SubSeq(items, part[i].from, part[i].to),
                             i - 1, IF i = m THEN 0 ELSE i + 1)]
         /\ head' = Min({1, m}) /\ tail' = m
         /\ IF m <= 1 THEN root' = head' /\ pc' = "idle" /\ nextlevel' = <<>>
            ELSE /\ root' = 0 /\ pc' = "bulk"
                 /\ nextlevel' = [i \in 1..m |-> [node |-> i, max |-> keys[part[i].to]]]
         /\ contents' = Range(items)
  /\ itemcount' = Len(keys)
  /\ UNCHANGED <<stack, newkey, newchild, inserts>>

\* One level of inner nodes above nextlevel.
BulkLevel ==
  /\ pc = "bulk"
  /\ LET m == CeilDiv(Len(nextlevel), InnerSlots + 1)
         part == Share(Len(nextlevel), m)
         level == nodes[nextlevel[1].node].level + 1
         Parent(i) ==
           LET below == SubSeq(nextlevel, part[i].from, part[i].to)
           IN  Inner(level, [n \in 1..(Len(below) - 1) |-> below[n].max],
                            [n \in 1..Len(below) |-> below[n].node])
     IN  /\ nodes' = nodes \o [i \in 1..m |-> Parent(i)]
         /\ IF m = 1 THEN root' = Len(nodes) + 1 /\ pc' = "idle" /\ nextlevel' = <<>>
            ELSE /\ nextlevel' = [i \in 1..m |-> [node |-> Len(nodes) + i,
                                                  max |-> nextlevel[part[i].to].max]]
                 /\ UNCHANGED <<root, pc>>
  /\ UNCHANGED <<head, tail, stack, newkey, newchild, itemcount, history>>

-----------------------------------------------------------------------------
(* insert. *)

NewItem(k) == [key |-> k, id |-> Cardinality(contents) + 1]
Remember(k) == contents' = contents \cup {NewItem(k)} /\ inserts' = inserts + 1

\* The stack of a descent to a key, without the leaf.
PathTo(k) ==
  LET path == Descent(k, FindLower)
  IN  [n \in 1..(Len(path) - 1) |-> [node |-> path[n], slot |-> FindLower(path[n], k)]]

\* insert_start in an empty tree: the leaf is allocated, and then holds the item.
InsertFirst(k) ==
  /\ pc = "idle" /\ root = 0
  /\ nodes' = <<Leaf(<<NewItem(k)>>, 0, 0)>>
  /\ root' = 1 /\ head' = 1 /\ tail' = 1
  /\ itemcount' = itemcount + 1 /\ Remember(k)
  /\ UNCHANGED <<pc, nextlevel, stack, newkey, newchild>>

\* In a leaf that has room.  (The code may update splitkey here, too; no one reads it.)
InsertIntoLeaf(k) ==
  /\ pc = "idle" /\ root # 0
  /\ LET a == Last(Descent(k, FindLower))
     IN  /\ Len(nodes[a].items) < LeafSlots
         /\ nodes' = [nodes EXCEPT ![a].items = InsertAt(@, FindLower(a, k) + 1, NewItem(k))]
  /\ itemcount' = itemcount + 1 /\ Remember(k)
  /\ UNCHANGED <<links, pc, nextlevel, stack, newkey, newchild>>

\* The leaf after the new one points back to it.
Relinked(after, b) == IF after = 0 THEN nodes ELSE [nodes EXCEPT ![after].prev = b]

\* Whether an item for a slot goes to the new one of two leaves: the old one keeps mid
\* items.
InNewLeaf(slot, mid) == slot >= mid

SplitKey_FirstRight(items, mid) == items[mid + 1].key
\* The greatest key of the old leaf.
SplitKey(items, mid) == items[mid].key

\* split_leaf_node, and the insert into one of the two leaves.  The greatest key of the
\* old leaf goes up.  It is the new item's only if that is last in the old leaf, and
\* such an item goes to the new leaf.
SplitLeaf(k) ==
  /\ pc = "idle" /\ root # 0
  /\ LET a == Last(Descent(k, FindLower))
         b == Len(nodes) + 1
         items == nodes[a].items
         slot == FindLower(a, k)
         mid == Len(items) \div 2
         old == SubSeq(items, 1, mid)
         new == SubSeq(items, mid + 1, Len(items))
         right == InNewLeaf(slot, mid)
         left == IF right THEN old ELSE InsertAt(old, slot + 1, NewItem(k))
     IN  /\ Len(items) = LeafSlots
         /\ nodes' = Append([Relinked(nodes[a].next, b) EXCEPT ![a].items = left, ![a].next = b],
                            Leaf(IF right THEN InsertAt(new, slot - mid + 1, NewItem(k)) ELSE new,
                                 a, nodes[a].next))
         /\ tail' = IF nodes[a].next = 0 THEN b ELSE tail
         /\ newkey' = IF ~right /\ slot = Len(left) - 1 THEN k ELSE SplitKey(items, mid)
         /\ newchild' = b
  /\ stack' = PathTo(k)
  /\ pc' = "unwind"
  /\ Remember(k)
  /\ UNCHANGED <<root, head, nextlevel, itemcount>>

Insert(k) == InsertFirst(k) \/ InsertIntoLeaf(k) \/ SplitLeaf(k)

\* A key and the child right of it, put into an inner node.
WithChild(node, slot, k, c) ==
  [node EXCEPT !.keys = InsertAt(@, slot + 1, k), !.child = InsertAt(@, slot + 2, c)]

\* newchild goes into an inner node that is not full: done.
InsertIntoInner ==
  /\ pc = "unwind" /\ stack # <<>>
  /\ LET top == Last(stack)
     IN  /\ Len(nodes[top.node].keys) < InnerSlots
         /\ nodes' = [nodes EXCEPT ![top.node] = WithChild(@, top.slot, newkey, newchild)]
  /\ stack' = <<>> /\ pc' = "idle" /\ newkey' = 0 /\ newchild' = 0
  /\ itemcount' = itemcount + 1
  /\ UNCHANGED <<links, nextlevel, history>>

InnerMid_Half(used, slot) == used \div 2
\* Where split_inner_node splits: not so that the node that gets nothing underflows.
InnerMid(used, slot) ==
  LET mid == used \div 2
  IN  IF slot <= mid /\ mid > used - (mid + 1) THEN mid - 1 ELSE mid

\* The two parts of a split inner node and the key between them.
SplitParts(node, mid) ==
  [left  |-> [node EXCEPT !.keys = SubSeq(@, 1, mid), !.child = SubSeq(@, 1, mid + 1)],
   right |-> [node EXCEPT !.keys = SubSeq(@, mid + 2, Len(@)),
                          !.child = SubSeq(@, mid + 2, Len(@))],
   key   |-> node.keys[mid + 1]]

\* The new child belongs between the parts.
Between(p, slot) == slot = Len(p.left.keys) + 1 /\ Len(p.left.keys) < Len(p.right.keys)

\* split_inner_node, and the insert of newchild.
AfterSplit(node, slot) ==
  LET p == SplitParts(node, InnerMid(Len(node.keys), slot))
      used == Len(p.left.keys)
  IN  IF Between(p, slot)
      THEN [left  |-> [p.left EXCEPT !.keys = Append(@, p.key),
                                     !.child = Append(@, p.right.child[1])],
            right |-> [p.right EXCEPT !.child = [@ EXCEPT ![1] = newchild]],
            key   |-> newkey]
      ELSE IF slot >= used + 1
      THEN [p EXCEPT !.right = WithChild(@, slot - (used + 1), newkey, newchild)]
      ELSE [p EXCEPT !.left = WithChild(@, slot, newkey, newchild)]

SplitInner ==
  /\ pc = "unwind" /\ stack # <<>>
  /\ LET top == Last(stack)
         p == AfterSplit(nodes[top.node], top.slot)
     IN  /\ Len(nodes[top.node].keys) = InnerSlots
         /\ nodes' = Append([nodes EXCEPT ![top.node] = p.left], p.right)
         /\ newkey' = p.key
  /\ newchild' = Len(nodes) + 1
  /\ stack' = Front(stack)
  /\ UNCHANGED <<links, pc, nextlevel, itemcount, history>>

\* insert_start: the root was split.
NewRoot ==
  /\ pc = "unwind" /\ stack = <<>>
  /\ nodes' = Append(nodes, Inner(nodes[root].level + 1, <<newkey>>, <<root, newchild>>))
  /\ root' = Len(nodes) + 1
  /\ pc' = "idle" /\ newkey' = 0 /\ newchild' = 0
  /\ itemcount' = itemcount + 1
  /\ UNCHANGED <<head, tail, nextlevel, stack, history>>

-----------------------------------------------------------------------------
Init ==
  /\ nodes = <<>> /\ root = 0 /\ head = 0 /\ tail = 0
  /\ pc = "new" /\ nextlevel = <<>> /\ stack = <<>> /\ newkey = 0 /\ newchild = 0
  /\ itemcount = 0 /\ contents = {} /\ inserts = 0

Next ==
  \/ \E keys \in Inputs : BulkLeaves(keys)
  \/ BulkLevel
  \/ \E k \in Keys : inserts < MaxInserts /\ Insert(k)
  \/ InsertIntoInner \/ SplitInner \/ NewRoot

Spec == Init /\ [][Next]_vars

-----------------------------------------------------------------------------
(* Queries.  An iterator is a leaf and a slot; end() is after the tail's last item. *)

NextLeaf_Slot1(leaf) == [leaf |-> nodes[leaf].next, slot |-> 1]
\* operator++ from the last item of a leaf.
NextLeaf(leaf) == [leaf |-> nodes[leaf].next, slot |-> 0]

\* What ++ visits from an iterator to end().
Visits(it) ==
  LET From[a \in 1..Len(nodes), slot \in 0..LeafSlots] ==
        SubSeq(nodes[a].items, slot + 1, Len(nodes[a].items)) \o
        IF nodes[a].next = 0 THEN <<>> ELSE From[NextLeaf(a).leaf, NextLeaf(a).slot]
  IN  IF it.leaf = 0 THEN <<>> ELSE From[it.leaf, it.slot]

End == [leaf |-> tail, slot |-> IF tail = 0 THEN 0 ELSE Len(nodes[tail].items)]

LowerBound(k) ==
  IF root = 0 THEN End
  ELSE LET a == Last(Descent(k, FindLower)) IN [leaf |-> a, slot |-> FindLower(a, k)]
UpperBound(k) ==
  IF root = 0 THEN End
  ELSE LET a == Last(Descent(k, FindUpper)) IN [leaf |-> a, slot |-> FindUpper(a, k)]

\* find: an iterator to an item with the key, or end().
FindKey(k) ==
  LET it == LowerBound(k)
  IN  IF it.leaf = 0 THEN End
      ELSE IF /\ it.slot < Len(nodes[it.leaf].items)
              /\ nodes[it.leaf].items[it.slot + 1].key = k
      THEN it ELSE End

-----------------------------------------------------------------------------
(* Properties. *)

\* The leaves below a node from left to right, and the items in them.
LeftToRight(a, At(_)) ==
  LET From[b \in 1..Len(nodes), n \in 0..(InnerSlots + 1)] ==
        IF nodes[b].level = 0 THEN At(b)
        ELSE IF n = 0 THEN <<>>
        ELSE From[b, n - 1] \o From[nodes[b].child[n], Len(nodes[nodes[b].child[n]].child)]
  IN  From[a, Len(nodes[a].child)]
Leaves(a) == LeftToRight(a, LAMBDA b : <<b>>)
Items(a)  == LeftToRight(a, LAMBDA b : nodes[b].items)

\* The items as a walk over the leaves finds them.
AllItems == IF head = 0 THEN <<>> ELSE Visits([leaf |-> head, slot |-> 0])

Underflow(a) ==
  IF nodes[a].level = 0 THEN Len(nodes[a].items) < LeafSlots \div 2
  ELSE Len(nodes[a].keys) < InnerSlots \div 2

\* Types of the variables; no node has more slots in use than it has, and none but the
\* root has fewer than half (verify_node), after bulk loads and splits alike.
TypeOK ==
  /\ pc \in {"new", "bulk", "idle", "unwind"}
  /\ {root, head, tail, newchild} \subseteq 0..Len(nodes)
  /\ \A a \in 1..Len(nodes) :
       /\ Len(nodes[a].items) <= LeafSlots /\ Len(nodes[a].keys) <= InnerSlots
       /\ nodes[a].level > 0 => Len(nodes[a].child) = Len(nodes[a].keys) + 1
  /\ pc = "idle" => \A a \in 1..Len(nodes) : a # root => ~Underflow(a)

\* verify_node: between calls an inner slot's key is the greatest key below the child
\* left of it, no key right of it is smaller, and children are one level down.  The
\* descents rely on it, with equal keys on both sides of a slot, too.
Separators ==
  pc = "idle" =>
    \A a \in 1..Len(nodes) : \A s \in 1..Len(nodes[a].keys) :
      LET below == Items(nodes[a].child[s])
          right == Items(nodes[a].child[s + 1])
      IN  /\ nodes[a].keys[s] = Last(below).key
          /\ \A n \in 1..Len(right) : right[n].key >= nodes[a].keys[s]
          /\ \A n \in {s, s + 1} : nodes[nodes[a].child[n]].level + 1 = nodes[a].level

\* verify_leaflinks: between calls the list of leaves is the leaves of the tree in
\* their order, in both directions, from head to tail.
LeafLinks ==
  pc = "idle" /\ root # 0 =>
    LET ls == Leaves(root)
    IN  /\ head = ls[1] /\ tail = Last(ls)
        /\ \A n \in 1..Len(ls) :
             /\ nodes[ls[n]].next = IF n = Len(ls) THEN 0 ELSE ls[n + 1]
             /\ nodes[ls[n]].prev = IF n = 1 THEN 0 ELSE ls[n - 1]

\* verify() never fails after any sequence of inserts and splits.
Verified == Separators /\ LeafLinks

\* A walk over the leaves visits every item once, in the order of the keys: no split
\* loses or copies one.  itemcount is their number.
ItemsKept ==
  pc = "idle" =>
    LET all == AllItems
    IN  /\ Range(all) = contents
        /\ Len(all) = Cardinality(contents) /\ itemcount = Len(all)
        /\ \A n \in 1..(Len(all) - 1) : all[n].key <= all[n + 1].key

\* find, lower_bound and upper_bound answer like a sorted sequence: with copies of a key
\* in several leaves lower_bound is at the first and upper_bound after the last.  An
\* iterator that is not end() is at an item, so that * may be applied.
QueriesCorrect ==
  pc = "idle" =>
    LET all == AllItems IN
    \A k \in Keys :
      /\ Visits(LowerBound(k)) = SelectSeq(all, LAMBDA x : x.key >= k)
      /\ Visits(UpperBound(k)) = SelectSeq(all, LAMBDA x : x.key > k)
      /\ \A it \in {LowerBound(k), UpperBound(k)} :
           it # End => it.slot < Len(nodes[it.leaf].items)
      /\ (FindKey(k) # End) = (\E x \in contents : x.key = k)
=============================================================================
