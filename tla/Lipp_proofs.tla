---------------------------- MODULE Lipp_proofs ----------------------------
(***************************************************************************)
(* Machine-checked proofs that LIPP's tree has the right keys in the right   *)
(* places through bulk loads, inserts and rebuilds, that find and iteration  *)
(* answer like a map, and that no node is lost or twice in the tree, for     *)
(* every finite set of keys and all parameters.                              *)
(***************************************************************************)
EXTENDS Lipp, OrderTheorems, SequenceTheorems, TLAPS

-----------------------------------------------------------------------------
(* Types. *)

Item  == [key : Int, value : Int, child : Int]
Model == [p : Nat, q : Int, d : Nat \ {0}]
Items == UNION {[0..(n - 1) -> Item] : n \in Nat}
Node  == [is_two : BOOLEAN, build_size : Nat, size : Nat, fixed : BOOLEAN,
          num_inserts : Nat, num_insert_to_data : Nat, num_items : Nat,
          model : Model, items : Items, none : SUBSET Nat, child : SUBSET Nat]

\* A node whose model is of use: it has slots.
Slotted(n) == n \in Node /\ n.num_items > 0

\* The keys of K that the model of a node sends to slot p, and to earlier slots.
KeysAt(n, K, p) == {k \in K : Predict(n, k) = p}
KeysBefore(n, K, p) == {k \in K : Predict(n, k) < p}

-----------------------------------------------------------------------------
(* The forest of nodes.  f describes it: live are the nodes in use (not in    *)
(* the pool), roots those without a parent, raw those still to be built, own  *)
(* the keys below a node, rank a number that is less for a child, parent the  *)
(* slot that points to a node.  The slot gap is one whose old child is gone.  *)

\* A node of the pool.
PoolNode(n) ==
  /\ n \in Node /\ n.is_two /\ n.build_size = 2 /\ n.size = 2 /\ n.num_items = TwoItems
  /\ n.none = Bits(TwoItems) /\ n.child = {} /\ DOMAIN n.items = 0..(TwoItems - 1)

\* The fields of a node in use agree with each other.
Shape(n) ==
  /\ Slotted(n) /\ DOMAIN n.items = 0..(n.num_items - 1)
  /\ n.child \subseteq 0..(n.num_items - 1) /\ n.child \cap n.none = {}
  /\ n.none \subseteq Bits(n.num_items)
  /\ n.num_items > 1 => Bits(n.num_items) \ n.none \subseteq 0..(n.num_items - 1)
  /\ n.is_two => n.build_size = 2 /\ n.num_items = TwoItems

\* What slot p of node a points to is the subtree of its keys.
ChildOK(H, f, a, p) ==
  LET c == H[a].items[p].child
  IN  /\ c \in f.live \ f.roots /\ f.parent[c] = <<a, p>>
      /\ f.own[c] = KeysAt(H[a], f.own[a], p) /\ f.rank[c] < f.rank[a]
      /\ c \in f.raw \/ H[c].num_items > 1

\* A slot is empty, has one item or a child, as its keys are none, one or any.
SlotOK(H, f, a, p) ==
  /\ p \in H[a].none => KeysAt(H[a], f.own[a], p) = {}
  /\ p \notin H[a].none \cup H[a].child =>
       \E k \in Keys : KeysAt(H[a], f.own[a], p) = {k} /\ H[a].items[p] = Data(k)
  /\ p \in H[a].child /\ <<a, p>> # f.gap => ChildOK(H, f, a, p)

\* A node in use: its slots, and its size, which counts the keys below it.
NodeOK(H, f, a) ==
  /\ Shape(H[a]) /\ H[a].size = Cardinality(f.own[a])
  /\ \A p \in 0..(H[a].num_items - 1) : SlotOK(H, f, a, p)

\* Node c has a parent.
LinkOK(H, f, c) ==
  \E a \in f.live \ f.raw : \E p \in H[a].child :
    <<a, p>> # f.gap /\ f.parent[c] = <<a, p>> /\ H[a].items[p].child = c

\* The types of the description: every node is in the pool or in use.
HeapOK(H, P, f) ==
  /\ IsFiniteSet(DOMAIN H) /\ DOMAIN H \subseteq Nat \ {0}
  /\ \A a \in DOMAIN H : H[a] \in Node
  /\ P \subseteq DOMAIN H /\ \A a \in P : PoolNode(H[a])
  /\ f.live = DOMAIN H \ P /\ f.roots \subseteq f.live /\ f.raw \subseteq f.live
  /\ \A a \in f.live : f.own[a] \subseteq Keys /\ f.rank[a] \in Nat
  /\ \A a \in f.raw : H[a] = RawNode

\* The heap is a forest.
Forest(H, P, f) ==
  /\ HeapOK(H, P, f)
  /\ \A a \in f.live \ f.raw : NodeOK(H, f, a)
  /\ \A c \in f.live \ f.roots : LinkOK(H, f, c)

-----------------------------------------------------------------------------
(* The inductive invariant. *)

\* No slot is waiting for its child to be rebuilt.
NoGap == <<0, 0>>

\* One tree with the keys K, and nothing else but the pool.
TheTree(f, K) ==
  f.roots = {root} /\ f.raw = {} /\ f.gap = NoGap /\ f.own[root] = K

\* s lists the items of the keys K in order.
Lists(s, K) ==
  /\ s \in Seq(Item) /\ Len(s) = Cardinality(K)
  /\ \A k \in K : s[Rank(K, k) + 1] = Data(k)

\* s lists the elements of S, each once.
ListOf(s, S) ==
  /\ s \in Seq(S)
  /\ \A i, j \in 1..Len(s) : s[i] = s[j] => i = j
  /\ \A x \in S : \E i \in 1..Len(s) : s[i] = x

NodesOf(stk) == [i \in 1..Len(stk) |-> stk[i].node]

\* destroy_tree: the stack has the roots of what is left.
Destroying(f) ==
  ListOf(stack, f.roots) /\ f.raw = {} /\ f.gap = NoGap

\* The slot of the subtree that is rebuilt, and its keys.
Place == <<hook, Predict(heap[hook], key)>>
OldKeys(f) == IF hook = 0 THEN contents ELSE KeysAt(heap[hook], f.own[hook], Place[2])
Outside == IF hook = 0 THEN {} ELSE {root}

\* The tree around the subtree.
Around(f) ==
  /\ f.gap = IF hook = 0 THEN NoGap ELSE Place
  /\ hook # 0 => /\ hook \in f.live \ f.raw /\ Place[2] \in heap[hook].child
                 /\ root \in f.roots /\ f.own[root] = contents
  /\ Cardinality(OldKeys(f)) > 2

\* A node on the stack of the scan gets a place in the array for each of its keys.
Scanned(f, seg) ==
  /\ f.own[seg.node] \subseteq OldKeys(f)
  /\ \A k \in f.own[seg.node] : Rank(OldKeys(f), k) = seg.begin + Rank(f.own[seg.node], k)
  /\ hook # 0 => f.rank[seg.node] < f.rank[hook]

\* scan_and_destory_tree: each key is below a node of the stack or in the array.
Scanning(f) ==
  /\ Around(f) /\ f.raw = {}
  /\ stack \in Seq([begin : Nat, node : Nat]) /\ ListOf(NodesOf(stack), f.roots \ Outside)
  /\ \A i \in 1..Len(stack) : Scanned(f, stack[i])
  /\ DOMAIN entries = 0..(Cardinality(OldKeys(f)) - 1)
  /\ \A k \in OldKeys(f) : \/ \E i \in 1..Len(stack) : k \in f.own[stack[i].node]
                           \/ entries[Rank(OldKeys(f), k)] = Data(k)

\* build_tree_bulk: the stack has the nodes to be built, with their items in order.
Building(f) ==
  /\ Around(f) /\ f.roots = Outside \cup {built}
  /\ built \notin Outside /\ f.own[built] = OldKeys(f)
  /\ hook # 0 => f.rank[built] < f.rank[hook]
  /\ built \in f.raw \/ heap[built].num_items > 1
  /\ stack \in Seq([items : Seq(Item), node : Nat]) /\ ListOf(NodesOf(stack), f.raw)
  /\ \A i \in 1..Len(stack) : /\ Lists(stack[i].items, f.own[stack[i].node])
                              /\ Cardinality(f.own[stack[i].node]) > 1

\* The values of pc.
States == {"idle", "destroy", "close", "closed", "insert", "scan", "build"}

\* What holds of the forest in each state of the program.
Stage(f) ==
  /\ pc = "idle" => TheTree(f, contents)
  /\ pc = "insert" => key \in contents /\ TheTree(f, contents \ {key})
  /\ pc \in {"destroy", "close"} => Destroying(f)
  /\ pc = "scan" => Scanning(f)
  /\ pc = "build" => Building(f)

\* The pool has no node twice.
Pool == pending_two \in Seq(Nat) /\ IsInjective(pending_two)

\* The inductive invariant: some forest is the heap, and in the state that pc says.
IInv ==
  /\ pc \in States /\ contents \subseteq Keys /\ failed \in BOOLEAN /\ Pool
  /\ pc = "closed" => DOMAIN heap = {}
  /\ \E f : Forest(heap, Range(pending_two), f) /\ Stage(f)

-----------------------------------------------------------------------------
(* The model of a node. *)

\* Sets of keys are finite sets of numbers.
LEMMA KeySets ==
  ASSUME NEW K \in SUBSET Keys
  PROVE  /\ K \in SUBSET Nat /\ K \in SUBSET Int /\ IsFiniteSet(K) /\ Cardinality(K) \in Nat
         /\ \A k \in K : Rank(K, k) \in 0..(Cardinality(K) - 1) /\ Rank(K, k) \in Nat
<1>1. K \in SUBSET Nat /\ K \in SUBSET Int
  BY LippAssumption
<1>2. IsFiniteSet(K) /\ Cardinality(K) \in Nat
  BY LippAssumption, FS_Subset, FS_CardinalityType
<1>3. \A k \in K : Rank(K, k) \in 0..(Cardinality(K) - 1)
  BY <1>1, <1>2, RankIncreases
<1> QED
  BY <1>1, <1>2, <1>3

\* The smaller of two numbers.
LEMMA MinOfTwo ==
  ASSUME NEW a \in Int, NEW b \in Int
  PROVE  Min({a, b}) = IF a <= b THEN a ELSE b
<1>1. \E x \in {a, b} : \A y \in {a, b} : x =< y
  OBVIOUS
<1>2. Min({a, b}) \in {a, b} /\ \A y \in {a, b} : Min({a, b}) =< y
  BY <1>1 DEF Min
<1> QED
  BY <1>2

\* The slot that a model computes is a slot of the node.
LEMMA PredictInside ==
  ASSUME NEW n, Slotted(n), NEW k \in Nat
  PROVE  Predict(n, k) \in 0..(n.num_items - 1)
<1>1. n.num_items \in Nat /\ n.num_items > 0 /\ n.model \in Model
  BY DEF Slotted, Node
<1>2. PICK p \in Nat, q \in Int, d \in Nat \ {0} :
        p = n.model.p /\ q = n.model.q /\ d = n.model.d
  BY <1>1 DEF Model
<1>3. PICK v : v = p * k + q
  OBVIOUS
<1>4. v \in Int
  BY <1>3
<1>5. Predict(n, k) = IF v < 0 THEN 0 ELSE Min({n.num_items - 1, v \div d})
  BY <1>2, <1>3 DEF Predict
<1>6. v >= 0 => v \div d \in Nat
  BY <1>2, <1>4
<1>7. n.num_items - 1 \in Int
  BY <1>1
<1>8. v >= 0 => Min({n.num_items - 1, v \div d})
                  = IF n.num_items - 1 <= v \div d THEN n.num_items - 1 ELSE v \div d
  BY <1>6, <1>7, MinOfTwo
<1> QED
  BY <1>1, <1>4, <1>5, <1>6, <1>8

\* Quotients keep the order.
LEMMA QuotientMonotone ==
  ASSUME NEW v \in Nat, NEW w \in Nat, NEW d \in Nat \ {0}, v <= w
  PROVE  v \div d <= w \div d
<1>1. PICK a, b : a = v \div d /\ b = w \div d
  OBVIOUS
<1>2. /\ a \in Nat /\ b \in Nat
      /\ d * a <= v /\ v < d * a + d /\ d * b <= w /\ w < d * b + d
  BY <1>1
<1>3. d * a < d * b + d
  BY <1>2
<1>4. d * b + d = d * (b + 1)
  BY <1>2
<1>5. ASSUME a >= b + 1 PROVE FALSE
  <2>1. PICK e \in Nat : a = b + 1 + e
    <3>1. a - (b + 1) \in Nat /\ a = b + 1 + (a - (b + 1))
      BY <1>2, <1>5
    <3> QED
      BY <3>1
  <2>2. d * a = d * (b + 1) + d * e /\ d * e \in Nat /\ d * (b + 1) \in Nat
    BY <1>2, <2>1
  <2> QED
    BY <1>2, <1>3, <1>4, <2>2
<1> QED
  BY <1>1, <1>2, <1>5

\* A model keeps the order of the keys.
LEMMA PredictMonotone ==
  ASSUME NEW n, Slotted(n), NEW k \in Nat, NEW l \in Nat, k <= l
  PROVE  Predict(n, k) <= Predict(n, l)
<1>1. n.num_items \in Nat /\ n.num_items > 0 /\ n.model \in Model
  BY DEF Slotted, Node
<1>2. PICK p \in Nat, q \in Int, d \in Nat \ {0} :
        p = n.model.p /\ q = n.model.q /\ d = n.model.d
  BY <1>1 DEF Model
<1>3. PICK v, w : v = p * k + q /\ w = p * l + q
  OBVIOUS
<1>4. v \in Int /\ w \in Int /\ v <= w
  <2>1. PICK e \in Nat : l = k + e
    <3>1. l - k \in Nat /\ l = k + (l - k)
      OBVIOUS
    <3> QED
      BY <3>1
  <2>2. p * l = p * k + p * e /\ p * e \in Nat /\ p * k \in Nat
    BY <2>1
  <2> QED
    BY <1>3, <2>2
<1>5. /\ Predict(n, k) = IF v < 0 THEN 0 ELSE Min({n.num_items - 1, v \div d})
      /\ Predict(n, l) = IF w < 0 THEN 0 ELSE Min({n.num_items - 1, w \div d})
  BY <1>2, <1>3 DEF Predict
<1>6. CASE v < 0
  <2>1. Predict(n, k) = 0
    BY <1>5, <1>6
  <2>2. Predict(n, l) \in 0..(n.num_items - 1)
    BY PredictInside
  <2> QED
    BY <2>1, <2>2, <1>1
<1>7. CASE v >= 0
  <2>1. w >= 0
    BY <1>4, <1>7
  <2>2. v \div d \in Nat /\ w \div d \in Nat /\ v \div d <= w \div d
    BY <1>2, <1>4, <1>7, <2>1, QuotientMonotone
  <2>3. PICK a, b, m : a = v \div d /\ b = w \div d /\ m = n.num_items - 1
    OBVIOUS
  <2>4. a \in Int /\ b \in Int /\ a <= b /\ m \in Int
    BY <2>2, <2>3, <1>1
  <2>5. /\ Predict(n, k) = Min({m, a}) /\ Predict(n, l) = Min({m, b})
    BY <1>4, <1>5, <1>7, <2>1, <2>3
  <2>6. Min({m, a}) <= Min({m, b})
    BY <2>4, MinOfTwo
  <2> QED
    BY <2>5, <2>6
<1> QED
  BY <1>4, <1>6, <1>7

\* Among all keys, a key of slot p comes after those of earlier slots and in its place
\* among those of p: what the array of a rebuild and the runs of a segment rely on.
RanksBySlot(n, K) ==
  \A p : \A k \in KeysAt(n, K, p) :
    Rank(K, k) = Cardinality(KeysBefore(n, K, p)) + Rank(KeysAt(n, K, p), k)

\* The ranks among the keys below a node are those within its slots, one slot after the other.
LEMMA SlotRank ==
  ASSUME NEW n, Slotted(n), NEW K \in SUBSET Nat, IsFiniteSet(K)
  PROVE  RanksBySlot(n, K)
<1> SUFFICES ASSUME NEW p, NEW k \in KeysAt(n, K, p)
             PROVE  Rank(K, k) = Cardinality(KeysBefore(n, K, p)) + Rank(KeysAt(n, K, p), k)
  BY DEF RanksBySlot
<1> DEFINE S == KeysBefore(n, K, p)
           T == {y \in KeysAt(n, K, p) : y < k}
           U == {y \in K : y < k}
<1>1. k \in K /\ Predict(n, k) = p
  BY DEF KeysAt
<1>2. \A y \in K : Predict(n, y) \in Int
  BY PredictInside DEF Slotted, Node
<1>3. \A y \in K : y < k => Predict(n, y) <= p
  BY <1>1, PredictMonotone
<1>4. \A y \in K : Predict(n, y) < p => y < k
  <2>1. TAKE y \in K
  <2>2. k <= y => p <= Predict(n, y)
    BY <1>1, PredictMonotone
  <2> QED
    BY <2>2, <1>1, <1>2
<1>5. U = S \cup T
  <2>1. \A y \in U : y \in S \cup T
    <3>1. TAKE y \in U
    <3>2. y \in K /\ Predict(n, y) \in Int /\ Predict(n, y) <= p /\ p \in Int
      BY <1>1, <1>2, <1>3
    <3>3. Predict(n, y) < p \/ Predict(n, y) = p
      BY <3>2
    <3> QED
      BY <3>2, <3>3 DEF KeysAt, KeysBefore
  <2>2. \A y \in S : y \in U
    BY <1>4 DEF KeysBefore
  <2>3. \A y \in T : y \in U
    BY DEF KeysAt
  <2> QED
    BY <2>1, <2>2, <2>3
<1>6. S \cap T = {}
  BY <1>1, <1>2 DEF KeysAt, KeysBefore
<1>7. S \in SUBSET K /\ T \in SUBSET K
  BY DEF KeysAt, KeysBefore
<1> HIDE DEF S, T, U
<1>8. IsFiniteSet(S) /\ IsFiniteSet(T) /\ Cardinality(S) \in Nat /\ Cardinality(T) \in Nat
  BY <1>7, FS_Subset, FS_CardinalityType
<1>9. Cardinality(S \cup T) = Cardinality(S) + Cardinality(T)
  <2>1. Cardinality(S \cup T) = Cardinality(S) + Cardinality(T) - Cardinality(S \cap T)
    BY <1>8, FS_Union
  <2>2. Cardinality(S \cap T) = 0
    BY <1>6, FS_EmptySet
  <2> QED
    BY <1>8, <2>1, <2>2
<1> QED
  BY <1>5, <1>9 DEF Rank, S, T, U

\* Adding up the room of some slots counts the keys of these slots.
LEMMA SumOfParts ==
  ASSUME NEW n, Slotted(n), NEW K \in SUBSET Nat, IsFiniteSet(K),
         NEW S \in SUBSET (0..(n.num_items - 1)),
         \A q \in S : Room(n, q) = Cardinality(KeysAt(n, K, q))
  PROVE  RoomOf(n, S) = Cardinality({k \in K : Predict(n, k) \in S})
<1> DEFINE D == SUBSET S
           Part(s) == {k \in K : Predict(n, k) \in s}
           first(s) == CHOOSE x \in s : TRUE
           room(q) == Room(n, q)
           Body(g) == [s \in D |-> IF s = {} THEN 0 ELSE room(first(s)) + g[s \ {first(s)}]]
           iter == CHOOSE g : g = Body(g)
           size == [s \in D |-> Cardinality(s)]
           B == [s \in D |-> [g \in [D -> Nat] |-> Body(g)[s]]]
<1>1. RoomOf(n, S) = iter[S]
  BY DEF RoomOf, MapThenSumSet, MapThenFoldSet
<1>2. IsFiniteSet(S)
  <2>1. n.num_items \in Nat
    BY DEF Slotted, Node
  <2>2. IsFiniteSet(0..(n.num_items - 1))
    BY <2>1, FS_Interval
  <2> QED
    BY <2>2, FS_Subset
<1>3. \A q \in S : room(q) \in Nat /\ room(q) = Cardinality(KeysAt(n, K, q))
  <2> SUFFICES ASSUME NEW q \in S
               PROVE  Cardinality(KeysAt(n, K, q)) \in Nat
    OBVIOUS
  <2>1. KeysAt(n, K, q) \in SUBSET K
    BY DEF KeysAt
  <2> QED
    BY <2>1, FS_Subset, FS_CardinalityType
<1>4. ASSUME NEW s \in D, s # {}
      PROVE  /\ first(s) \in s /\ s \ {first(s)} \in D /\ first(s) \in S
             /\ size[s \ {first(s)}] < size[s]
  <2>1. first(s) \in s
    BY <1>4
  <2>2. s \ {first(s)} \in D /\ first(s) \in S
    BY <2>1
  <2>3. IsFiniteSet(s)
    BY <1>2, FS_Subset
  <2>4. Cardinality(s \ {first(s)}) = Cardinality(s) - 1 /\ Cardinality(s) \in Nat
    <3> HIDE DEF first
    <3> QED
    BY <2>1, <2>3, FS_RemoveElement, FS_CardinalityType
  <2> HIDE DEF first
  <2> QED
    BY <2>1, <2>2, <2>4
<1> HIDE DEF first, room
<1>5. size \in [D -> Nat]
  BY <1>2, FS_Subset, FS_CardinalityType
<1>6. ASSUME NEW g \in [D -> Nat], NEW s \in D PROVE Body(g)[s] \in Nat
  <2>1. Body(g)[s] = IF s = {} THEN 0 ELSE room(first(s)) + g[s \ {first(s)}]
    OBVIOUS
  <2>2. s # {} => room(first(s)) \in Nat /\ s \ {first(s)} \in D
    BY <1>3, <1>4
  <2>3. s # {} => g[s \ {first(s)}] \in Nat
    <3> HIDE DEF D
    <3> QED
      BY <2>2
  <2> HIDE DEF Body
  <2> QED
    BY <2>1, <2>2, <2>3
<1>7. \A s \in D : \A g \in [D -> Nat] : B[s][g] = Body(g)[s]
  OBVIOUS
<1>8. B \in [D -> [[D -> Nat] -> Nat]]
  <2> HIDE DEF Body
  <2> QED
    BY <1>6
<1>9. ASSUME NEW s \in D, NEW f \in [D -> Nat], NEW g \in [D -> Nat],
             \A b \in D : size[b] < size[s] => f[b] = g[b]
      PROVE  B[s][f] = B[s][g]
  <2>1. Body(f)[s] = Body(g)[s]
    <3> HIDE DEF size
    <3> QED
      BY <1>4, <1>9
  <2> HIDE DEF Body, B
  <2> QED
    BY <1>7, <2>1
<1>10. \E f \in [D -> Nat] : \A s \in D : f[s] = B[s][f]
  <2> HIDE DEF B, size, D
  <2>1. \A s \in D : \A f, g \in [D -> Nat] :
          (\A b \in D : size[b] < size[s] => f[b] = g[b]) => B[s][f] = B[s][g]
    BY <1>9
  <2>2. Recursion(D, size, Nat, B)
    BY <1>5, <1>8, <2>1 DEF Recursion
  <2> QED
    BY <2>2, RankRecursion
<1>11. iter = Body(iter)
  <2>1. PICK f \in [D -> Nat] : \A s \in D : f[s] = B[s][f]
    BY <1>10
  <2>2. f = Body(f)
    <3>1. \A s \in D : f[s] = Body(f)[s]
      <4> HIDE DEF B, Body
      <4> QED
        BY <2>1, <1>7
    <3> QED
      BY <3>1
  <2> HIDE DEF Body
  <2> QED
    BY <2>2
<1>12. \A s \in D : iter[s] = IF s = {} THEN 0 ELSE room(first(s)) + iter[s \ {first(s)}]
  <2>1. \A g : \A s \in D : Body(g)[s] = IF s = {} THEN 0 ELSE room(first(s)) + g[s \ {first(s)}]
    OBVIOUS
  <2> HIDE DEF iter, Body
  <2> QED
    BY <1>11, <2>1
<1> HIDE DEF iter
<1> DEFINE T == {s \in D : iter[s] = Cardinality(Part(s))}
<1>13. ASSUME NEW s \in D, \A b \in D : size[b] < size[s] => b \in T
       PROVE  s \in T
  <2>1. CASE s = {}
    <3>1. Part(s) = {}
      BY <2>1
    <3> QED
      BY <2>1, <3>1, <1>12, FS_EmptySet
  <2>2. CASE s # {}
    <3>1. PICK q, r : q = first(s) /\ r = s \ {q}
      OBVIOUS
    <3>2. q \in s /\ r \in D /\ q \in S /\ size[r] < size[s]
      BY <1>4, <2>2, <3>1
    <3>3. iter[r] = Cardinality(Part(r))
      <4> HIDE DEF size, Part
      <4> QED
        BY <3>2, <1>13
    <3>4. iter[s] = room(q) + iter[r]
      BY <1>12, <2>2, <3>1
    <3>5. Part(s) = KeysAt(n, K, q) \cup Part(r) /\ KeysAt(n, K, q) \cap Part(r) = {}
      BY <3>1, <3>2 DEF KeysAt
    <3>6. KeysAt(n, K, q) \in SUBSET K /\ Part(r) \in SUBSET K
      BY DEF KeysAt
    <3>7. PICK A, C : A = KeysAt(n, K, q) /\ C = Part(r)
      OBVIOUS
    <3>8. IsFiniteSet(A) /\ IsFiniteSet(C) /\ Cardinality(A) \in Nat /\ Cardinality(C) \in Nat
      BY <3>6, <3>7, FS_Subset, FS_CardinalityType
    <3>9. Cardinality(A \cup C) = Cardinality(A) + Cardinality(C)
      <4>1. Cardinality(A \cup C) = Cardinality(A) + Cardinality(C) - Cardinality(A \cap C)
        BY <3>8, FS_Union
      <4>2. Cardinality(A \cap C) = 0
        BY <3>5, <3>7, FS_EmptySet
      <4> QED
        BY <3>8, <4>1, <4>2
    <3>10. room(q) = Cardinality(A)
      BY <1>3, <3>2, <3>7
    <3>11. Part(s) = A \cup C
      BY <3>5, <3>7
    <3>12. iter[s] = Cardinality(Part(s))
      BY <3>3, <3>4, <3>7, <3>9, <3>10, <3>11
    <3> QED
      BY <3>12
  <2> QED
    BY <2>1, <2>2
<1>14. D \subseteq T
  <2> HIDE DEF T, size, D
  <2> QED
    BY <1>5, <1>13, RankInduction
<1>15. iter[S] = Cardinality(Part(S))
  BY <1>14
<1> QED
  BY <1>1, <1>15

-----------------------------------------------------------------------------
(* Addresses, items and new nodes. *)

\* The bits for n items have one for each item.
LEMMA BitsCover ==
  ASSUME NEW n \in Nat
  PROVE  Bits(n) \subseteq Nat /\ 0..(n - 1) \subseteq Bits(n)
<1>1. PICK c : c = (n + 7) \div 8
  OBVIOUS
<1>2. c \in Nat /\ n <= c * 8
  BY <1>1
<1>3. Bits(n) = 0..(c * 8 - 1)
  BY <1>1 DEF Bits, BitmapWidth
<1> QED
  BY <1>2, <1>3

\* The bitmap of a node for two keys is one byte.
LEMMA BitsOfTwo == Bits(TwoItems) = 0..7
<1>1. (8 + 8 - 1) \div 8 = 1
  OBVIOUS
<1> QED
  BY <1>1 DEF Bits, BitmapWidth, TwoItems

\* Fresh addresses are not in use and differ from each other.
LEMMA FreshAddresses ==
  ASSUME IsFiniteSet(DOMAIN heap), DOMAIN heap \subseteq Nat \ {0}, NEW n \in Nat
  PROVE  /\ Fresh(n) \in Seq(Nat \ {0}) /\ Len(Fresh(n)) = n
         /\ \A i \in 1..n : Fresh(n)[i] \in Nat \ {0} /\ Fresh(n)[i] \notin DOMAIN heap
         /\ \A i, j \in 1..n : Fresh(n)[i] = Fresh(n)[j] => i = j
<1>1. PICK used, c : used = DOMAIN heap /\ c = Cardinality(used)
  OBVIOUS
<1>2. c \in Nat /\ IsFiniteSet(used)
  BY <1>1, FS_CardinalityType
<1>3. PICK m, I, S : m = c + n /\ I = 1..m /\ S = I \ used
  OBVIOUS
<1>4. IsFiniteSet(I) /\ Cardinality(I) = m
  <2>1. m \in Nat
    BY <1>2, <1>3
  <2> QED
    BY <2>1, <1>3, FS_Interval
<1>5. IsFiniteSet(S) /\ S \in SUBSET Int /\ S \subseteq Nat \ {0}
  <2>1. IsFiniteSet(S)
    BY <1>3, <1>4, FS_Difference
  <2>2. I \subseteq Nat \ {0}
    BY <1>2, <1>3
  <2> QED
    BY <2>1, <2>2, <1>3
<1>6. Cardinality(S) >= n
  <2>1. PICK T : T = I \cap used
    OBVIOUS
  <2>2. Cardinality(S) = m - Cardinality(T)
    <3>1. Cardinality(I \ used) = Cardinality(I) - Cardinality(I \cap used)
      BY <1>4, FS_Difference
    <3> QED
      BY <3>1, <1>3, <1>4, <2>1, Zenon
  <2>3. T \in SUBSET used
    BY <2>1
  <2>4. Cardinality(T) <= c /\ Cardinality(T) \in Nat
    BY <1>1, <1>2, <2>3, FS_Subset, FS_CardinalityType
  <2> QED
    BY <2>2, <2>4, <1>2, <1>3
<1>7. PICK s : s = Ascending(S)
  OBVIOUS
<1>8. /\ Cardinality(S) \in Nat /\ s \in [1..Cardinality(S) -> S]
      /\ \A i, j \in 1..Cardinality(S) : i < j => s[i] < s[j]
  BY <1>5, <1>7, AscendingRanks
<1>9. s \in Seq(S) /\ Len(s) = Cardinality(S)
  BY <1>8
<1>10. Fresh(n) = SubSeq(s, 1, n)
  BY <1>1, <1>3, <1>7 DEF Fresh
<1>11. /\ SubSeq(s, 1, n) \in Seq(S) /\ Len(SubSeq(s, 1, n)) = n
       /\ \A i \in 1..n : SubSeq(s, 1, n)[i] = s[i] /\ s[i] \in S
  BY <1>6, <1>8, <1>9
<1>12. ASSUME NEW i \in 1..n, NEW j \in 1..n, s[i] = s[j] PROVE i = j
  <2>1. i \in 1..Cardinality(S) /\ j \in 1..Cardinality(S)
    BY <1>6, <1>8
  <2>2. s[i] \in Int /\ s[j] \in Int
    BY <2>1, <1>5, <1>8
  <2>3. ~(i < j) /\ ~(j < i)
    BY <2>1, <2>2, <1>8, <1>12
  <2> QED
    BY <2>3
<1>13. SubSeq(s, 1, n) \in Seq(Nat \ {0})
  <2>1. PICK t : t = SubSeq(s, 1, n)
    OBVIOUS
  <2>2. t \in Seq(S) /\ Len(t) = n /\ \A i \in 1..n : t[i] \in Nat \ {0}
    BY <2>1, <1>5, <1>11
  <2>3. t \in Seq(Nat \ {0})
    BY <2>2
  <2> QED
    BY <2>1, <2>3
<1> QED
  BY <1>1, <1>3, <1>5, <1>10, <1>11, <1>12, <1>13

\* Items have the right type.
LEMMA ItemTypes ==
  /\ \A k \in Nat : Data(k) \in Item /\ Data(k).key = k
  /\ Unwritten \in Item
  /\ \A a \in Nat : \A x \in Item : Child(a, x) \in Item /\ Child(a, x).child = a
  BY DEF Data, Item, Unwritten, Child, Garbage, ValueOf

\* An array of items stays one when items are written to it.
LEMMA ItemArrays ==
  /\ \A n \in Nat : \A t \in [0..(n - 1) -> Item] : t \in Items
  /\ \A t \in Items : \A p : \A x \in Item : [t EXCEPT ![p] = x] \in Items
  /\ \A t \in Items : \A p \in DOMAIN t : t[p] \in Item
<1>1. ASSUME NEW t \in Items
      PROVE  /\ \A p : \A x \in Item : [t EXCEPT ![p] = x] \in Items
             /\ \A p \in DOMAIN t : t[p] \in Item
  <2>1. PICK n \in Nat : t \in [0..(n - 1) -> Item]
    BY DEF Items
  <2>2. \A p : \A x \in Item : [t EXCEPT ![p] = x] \in [0..(n - 1) -> Item]
    BY <2>1
  <2> QED
    BY <2>1, <2>2 DEF Items
<1> QED
  BY <1>1 DEF Items

\* The node of build_tree_none and a node that is not yet filled.
LEMMA NewNodes ==
  /\ NoneNode \in Node /\ RawNode \in Node
  /\ RawNode.child = {} /\ RawNode.none = {} /\ RawNode.num_items = 0
  /\ Shape(NoneNode) /\ NoneNode.size = 0 /\ NoneNode.num_items = 1 /\ NoneNode.none = {0}
<1>1. [i \in 0..0 |-> Unwritten] \in Items
  <2>1. [i \in 0..0 |-> Unwritten] \in [0..(1 - 1) -> Item]
    BY ItemTypes
  <2> QED
    BY <2>1, ItemArrays
<1>2. /\ NoneNode = [is_two |-> FALSE, build_size |-> 0, size |-> 0, fixed |-> 0 > FixedMin,
           num_inserts |-> 0, num_insert_to_data |-> 0, num_items |-> 1,
           model |-> [p |-> 0, q |-> 0, d |-> 1], items |-> [i \in 0..0 |-> Unwritten],
           none |-> {0}, child |-> {}]
  BY DEF NoneNode, NewNode
<1>3. NoneNode \in Node /\ NoneNode.items = [i \in 0..0 |-> Unwritten]
  BY <1>1, <1>2 DEF Node, Model
<1>4. RawNode \in Node /\ RawNode.child = {} /\ RawNode.none = {} /\ RawNode.num_items = 0
  BY <1>2, <1>3 DEF RawNode, Node
<1>5. DOMAIN NoneNode.items = 0..0
  BY <1>3
<1>6. 0 \in Bits(1)
  BY BitsCover
<1>7. Shape(NoneNode)
  BY <1>2, <1>3, <1>5, <1>6 DEF Shape, Slotted
<1> QED
  BY <1>2, <1>3, <1>4, <1>7

-----------------------------------------------------------------------------
(* build_tree_two. *)

\* A node for the keys k and l, each in a slot of its own.
HoldsTwo(n, k, l) ==
  /\ Shape(n) /\ n.size = 2 /\ n.num_items = TwoItems /\ n.child = {}
  /\ Predict(n, k) # Predict(n, l)
  /\ n.none = Bits(TwoItems) \ {Predict(n, k), Predict(n, l)}
  /\ n.items[Predict(n, k)] = Data(k) /\ n.items[Predict(n, l)] = Data(l)

\* The nodes of the pool are as they should be.
PoolOK == /\ pending_two \in Seq(Nat) /\ Range(pending_two) \subseteq DOMAIN heap
          /\ \A a \in Range(pending_two) : PoolNode(heap[a])

\* The last element of a sequence, and what is before it.
LEMMA LastOf ==
  ASSUME NEW s, NEW S, s \in Seq(S), s # <<>>
  PROVE  /\ Last(s) = s[Len(s)] /\ Last(s) \in S /\ Last(s) \in Range(s) /\ Len(s) > 0
         /\ Front(s) \in Seq(S) /\ Len(Front(s)) = Len(s) - 1
         /\ \A i \in 1..(Len(s) - 1) : Front(s)[i] = s[i]
<1>1. Len(s) \in Nat /\ Len(s) > 0
  OBVIOUS
<1>2. Last(s) = s[Len(s)] /\ s[Len(s)] \in S /\ Len(s) \in DOMAIN s
  BY <1>1 DEF Last
<1>3. Front(s) = SubSeq(s, 1, Len(s) - 1)
  BY DEF Front
<1>4. /\ SubSeq(s, 1, Len(s) - 1) \in Seq(S) /\ Len(SubSeq(s, 1, Len(s) - 1)) = Len(s) - 1
      /\ \A i \in 1..(Len(s) - 1) : SubSeq(s, 1, Len(s) - 1)[i] = s[i]
  <2>1. PICK n \in Nat : Len(s) = n + 1
    <3>1. Len(s) - 1 \in Nat /\ Len(s) = (Len(s) - 1) + 1
      BY <1>1
    <3> QED
      BY <3>1
  <2>2. Len(s) - 1 = n
    BY <2>1
  <2>3. /\ SubSeq(s, 1, n) \in Seq(S) /\ Len(SubSeq(s, 1, n)) = n
        /\ \A i \in 1..n : SubSeq(s, 1, n)[i] = s[i]
    BY <2>1
  <2> QED
    BY <2>2, <2>3
<1> QED
  BY <1>1, <1>2, <1>3, <1>4 DEF Range

\* The frame has the form of a node of the pool, and its model sends the smaller key
\* to slot 2 and the greater one to slot 5.
LEMMA TwoFrameIs ==
  ASSUME PoolOK, NEW k \in Nat, NEW l \in Nat, k < l
  PROVE  /\ PoolNode(TwoFrame(k, l))
         /\ Predict(TwoFrame(k, l), k) = 2 /\ Predict(TwoFrame(k, l), l) = 5
<1>1. PICK m : m = [p |-> 3, q |-> 2 * (l - k) - 3 * k, d |-> l - k]
  OBVIOUS
<1>2. m \in Model /\ m.p = 3 /\ m.q = 2 * (l - k) - 3 * k /\ m.d = l - k
  BY <1>1 DEF Model
<1>3. PICK t : t = [i \in 0..7 |-> Unwritten]
  OBVIOUS
<1>4. t \in Items /\ DOMAIN t = 0..7
  <2>1. t \in [0..(8 - 1) -> Item]
    BY <1>3, ItemTypes
  <2> QED
    BY <2>1, <1>3, ItemArrays
<1>5. TwoNode(k, l) =
        [is_two |-> TRUE, build_size |-> 2, size |-> 2, fixed |-> 2 > FixedMin,
         num_inserts |-> 0, num_insert_to_data |-> 0, num_items |-> TwoItems,
         model |-> m, items |-> t, none |-> Bits(TwoItems), child |-> {}]
  <2>1. TwoItems \div 3 = 2 /\ (TwoItems * 2) \div 3 = 5 /\ TwoItems - 1 = 7 /\ 5 - 2 = 3
    BY DEF TwoItems
  <2> QED
    BY <2>1, <1>1, <1>3 DEF TwoNode, NewNode
<1>6. PoolNode(TwoNode(k, l)) /\ TwoNode(k, l).model = m
  <2>1. Bits(TwoItems) \in SUBSET Nat /\ TwoItems = 8
    BY BitsOfTwo DEF TwoItems
  <2>2. TwoNode(k, l) \in Node
    BY <1>2, <1>4, <1>5, <2>1 DEF Node
  <2> QED
    BY <1>4, <1>5, <2>1, <2>2 DEF PoolNode
<1>7. PICK n : n = TwoFrame(k, l)
  OBVIOUS
<1>8. PoolNode(n) /\ n.model = m
  <2>1. CASE pending_two = <<>>
    BY <2>1, <1>6, <1>7 DEF TwoFrame
  <2>2. CASE pending_two # <<>>
    <3>1. PICK b : b = heap[Last(pending_two)]
      OBVIOUS
    <3>2. PoolNode(b)
      BY <2>2, <3>1, LastOf DEF PoolOK
    <3>3. n = [b EXCEPT !.model = m]
      BY <2>2, <3>1, <1>6, <1>7 DEF TwoFrame
    <3>4. n \in Node
      BY <3>2, <3>3, <1>2 DEF PoolNode, Node
    <3> QED
      BY <3>2, <3>3, <3>4 DEF PoolNode, Node
  <2> QED
    BY <2>1, <2>2
<1>9. n.num_items - 1 = 7
  BY <1>8 DEF PoolNode, TwoItems
<1>10. PICK e \in Nat \ {0} : e = l - k
  OBVIOUS
<1>11. 3 * k + (2 * (l - k) - 3 * k) = 2 * e /\ 3 * l + (2 * (l - k) - 3 * k) = 5 * e
  BY <1>10
<1>12. (2 * e) \div e = 2 /\ (5 * e) \div e = 5 /\ 2 * e >= 0 /\ 5 * e >= 0
  OBVIOUS
<1>13. Min({7, 2}) = 2 /\ Min({7, 5}) = 5
  BY MinOfTwo
<1>14. PICK v, w : v = 3 * k + (2 * (l - k) - 3 * k) /\ w = 3 * l + (2 * (l - k) - 3 * k)
  OBVIOUS
<1>15. /\ Predict(n, k) = IF v < 0 THEN 0 ELSE Min({7, v \div e})
       /\ Predict(n, l) = IF w < 0 THEN 0 ELSE Min({7, w \div e})
  BY <1>2, <1>8, <1>9, <1>10, <1>14 DEF Predict
<1>16. ~(v < 0) /\ v \div e = 2 /\ ~(w < 0) /\ w \div e = 5
  BY <1>11, <1>12, <1>14
<1>17. Predict(n, k) = 2 /\ Predict(n, l) = 5
  BY <1>13, <1>15, <1>16
<1> QED
  BY <1>7, <1>8, <1>17

\* build_tree_two makes a node for its two keys, whatever their order, and none of its
\* assertions fails.
LEMMA TwoBuilt ==
  ASSUME PoolOK, NEW k \in Nat, NEW l \in Nat, k # l
  PROVE  HoldsTwo(BuildTwo(Data(k), Data(l)), k, l) /\ BuildTwoAsserts(Data(k), Data(l))
<1>1. PICK lo \in Nat, hi \in Nat :
        lo < hi /\ lo = (IF k > l THEN l ELSE k) /\ hi = (IF k > l THEN k ELSE l)
  <2>1. CASE k > l
    BY <2>1
  <2>2. CASE k < l
    BY <2>2
  <2> QED
    BY <2>1, <2>2
<1>2. PICK b : b = TwoFrame(lo, hi)
  OBVIOUS
<1>3. PoolNode(b) /\ Predict(b, lo) = 2 /\ Predict(b, hi) = 5
  BY <1>1, <1>2, TwoFrameIs
<1>4. Data(k).key = k /\ Data(l).key = l
  BY ItemTypes
<1>5. PICK n : n = [b EXCEPT !.none = b.none \ {2, 5},
                             !.items = [b.items EXCEPT ![2] = Data(lo), ![5] = Data(hi)]]
  OBVIOUS
<1>6. BuildTwo(Data(k), Data(l)) = n
  <2>1. /\ (IF Data(k).key > Data(l).key THEN Data(l) ELSE Data(k)) = Data(lo)
        /\ (IF Data(k).key > Data(l).key THEN Data(k) ELSE Data(l)) = Data(hi)
    BY <1>1, <1>4
  <2>2. Data(lo).key = lo /\ Data(hi).key = hi
    BY ItemTypes
  <2> HIDE DEF Data
  <2> QED
    BY <1>2, <1>3, <1>5, <2>1, <2>2 DEF BuildTwo
<1>7. b \in Node /\ b.none = 0..7 /\ b.child = {} /\ b.num_items = 8 /\ DOMAIN b.items = 0..7
  BY <1>3, BitsOfTwo DEF PoolNode, TwoItems
<1>8. PICK t : t = [b.items EXCEPT ![2] = Data(lo), ![5] = Data(hi)]
  OBVIOUS
<1>9. t \in Items /\ DOMAIN t = 0..7 /\ t[2] = Data(lo) /\ t[5] = Data(hi)
  <2>1. b.items \in Items
    BY <1>7 DEF Node
  <2>2. [b.items EXCEPT ![2] = Data(lo)] \in Items
    BY <2>1, ItemTypes, ItemArrays
  <2>3. t = [[b.items EXCEPT ![2] = Data(lo)] EXCEPT ![5] = Data(hi)]
    BY <1>8
  <2>4. t \in Items
    BY <2>2, <2>3, ItemTypes, ItemArrays
  <2> QED
    BY <2>4, <1>7, <1>8
<1>10. n = [b EXCEPT !.none = (0..7) \ {2, 5}, !.items = t]
  BY <1>5, <1>7, <1>8
<1>11. n \in Node
  BY <1>7, <1>9, <1>10 DEF Node
<1>12. /\ n.none = (0..7) \ {2, 5} /\ n.items = t /\ n.model = b.model /\ n.num_items = 8
       /\ n.child = {} /\ n.size = 2 /\ n.build_size = 2
  BY <1>3, <1>7, <1>10 DEF Node, PoolNode
<1>13. Predict(n, lo) = 2 /\ Predict(n, hi) = 5
  BY <1>3, <1>7, <1>12 DEF Predict
<1>14. Shape(n)
  BY <1>7, <1>9, <1>11, <1>12, BitsOfTwo DEF Shape, Slotted, TwoItems
<1>15. HoldsTwo(n, lo, hi)
  BY <1>9, <1>12, <1>13, <1>14, BitsOfTwo DEF HoldsTwo, TwoItems
<1>16. HoldsTwo(n, k, l)
  <2>1. CASE k > l
    <3>1. lo = l /\ hi = k
      BY <2>1, <1>1
    <3> QED
      BY <3>1, <1>15 DEF HoldsTwo
  <2>2. CASE ~(k > l)
    <3>1. lo = k /\ hi = l
      BY <2>2, <1>1
    <3> QED
      BY <3>1, <1>15
  <2> QED
    BY <2>1, <2>2
<1>17. BuildTwoAsserts(Data(k), Data(l))
  <2>1. Min({k, l}) = lo
    BY <1>1, MinOfTwo
  <2>2. Max({k, l}) = hi
    <3>1. \E x \in {k, l} : \A y \in {k, l} : x >= y
      OBVIOUS
    <3>2. Max({k, l}) \in {k, l} /\ \A y \in {k, l} : Max({k, l}) >= y
      BY <3>1 DEF Max
    <3> QED
      BY <3>2, <1>1
  <2>3. {Predict(b, k), Predict(b, l)} = {2, 5} /\ Predict(b, k) # Predict(b, l)
    <3>1. CASE k > l
      BY <3>1, <1>1, <1>3
    <3>2. CASE ~(k > l)
      BY <3>2, <1>1, <1>3
    <3> QED
      BY <3>1, <3>2
  <2> HIDE DEF Data
  <2> QED
    BY <1>2, <1>4, <1>7, <2>1, <2>2, <2>3 DEF BuildTwoAsserts
<1> QED
  BY <1>6, <1>16, <1>17

-----------------------------------------------------------------------------
(* Discarding a root. *)

\* Node a has no gap.
OffGap(f, a) == \A p : <<a, p>> # f.gap

\* The children of a node.
Kids(H, a) == {H[a].items[p].child : p \in H[a].child}

\* The children of a node are subtrees, and two slots have two children.
LEMMA Children ==
  ASSUME NEW H, NEW P, NEW f, Forest(H, P, f), NEW a \in f.live \ f.raw,
         OffGap(f, a)
  PROVE  /\ \A p \in H[a].child : ChildOK(H, f, a, p)
         /\ Kids(H, a) \subseteq f.live \ f.roots
         /\ \A p, q \in H[a].child : H[a].items[p].child = H[a].items[q].child => p = q
<1>1. NodeOK(H, f, a)
  BY DEF Forest
<1>2. H[a].child \subseteq 0..(H[a].num_items - 1)
  BY <1>1 DEF NodeOK, Shape
<1>3. ASSUME NEW p \in H[a].child PROVE ChildOK(H, f, a, p)
  <2>1. SlotOK(H, f, a, p)
    BY <1>1, <1>2 DEF NodeOK
  <2> QED
    BY <2>1 DEF SlotOK, OffGap
<1>4. \A p \in H[a].child : H[a].items[p].child \in f.live \ f.roots
  BY <1>3 DEF ChildOK
<1>5. \A p \in H[a].child : f.parent[H[a].items[p].child] = <<a, p>>
  BY <1>3 DEF ChildOK
<1> QED
  BY <1>3, <1>4, <1>5 DEF Kids

\* The heap and the pool when node r is discarded.
Discarded(H, P, r, H2, P2) ==
  /\ H2 = IF H[r].is_two THEN [H EXCEPT ![r] = Reset(H[r])]
          ELSE Restrict(H, DOMAIN H \ {r})
  /\ P2 = IF H[r].is_two THEN P \cup {r} ELSE P

\* Discarding a root leaves a forest, with its children as roots; a node for two keys
\* goes to the pool as a new one, any other node is gone.
LEMMA RootRemoved ==
  ASSUME NEW H, NEW P, NEW f, Forest(H, P, f), f.raw = {}, NEW r \in f.roots,
         OffGap(f, r), NEW H2, NEW P2, Discarded(H, P, r, H2, P2)
  PROVE  \E f2 : /\ Forest(H2, P2, f2) /\ f2.live = f.live \ {r} /\ f2.raw = {}
                 /\ f2.roots = (f.roots \ {r}) \cup Kids(H, r) /\ f2.gap = f.gap
                 /\ f2.own = f.own /\ f2.rank = f.rank
<1>1. PICK f2 : f2 = [live |-> f.live \ {r}, roots |-> (f.roots \ {r}) \cup Kids(H, r),
                      raw |-> {}, own |-> f.own, rank |-> f.rank, parent |-> f.parent,
                      gap |-> f.gap]
  OBVIOUS
<1>2. /\ f2.live = f.live \ {r} /\ f2.roots = (f.roots \ {r}) \cup Kids(H, r) /\ f2.raw = {}
      /\ f2.own = f.own /\ f2.rank = f.rank /\ f2.parent = f.parent /\ f2.gap = f.gap
  BY <1>1
<1>3. HeapOK(H, P, f)
  BY DEF Forest
<1>4. r \in f.live /\ r \in DOMAIN H /\ r \notin P /\ f.roots \subseteq f.live
  BY <1>3 DEF HeapOK
<1>5. /\ \A p \in H[r].child : ChildOK(H, f, r, p)
      /\ Kids(H, r) \subseteq f.live \ f.roots
  BY <1>4, Children
<1>6. /\ DOMAIN H2 = IF H[r].is_two THEN DOMAIN H ELSE DOMAIN H \ {r}
      /\ \A a \in DOMAIN H2 : a # r => H2[a] = H[a]
      /\ H[r].is_two => H2[r] = Reset(H[r])
  BY <1>4 DEF Restrict, Discarded
<1>7. f2.live = DOMAIN H2 \ P2 /\ P2 \subseteq DOMAIN H2 /\ DOMAIN H2 \subseteq DOMAIN H
  BY <1>2, <1>3, <1>4, <1>6 DEF HeapOK, Discarded
<1>8. H[r].is_two => PoolNode(H2[r])
  <2> SUFFICES ASSUME H[r].is_two PROVE PoolNode(H2[r])
    OBVIOUS
  <2>1. Shape(H[r])
    BY <1>4 DEF Forest, NodeOK
  <2>2. H[r] \in Node /\ H[r].build_size = 2 /\ H[r].num_items = TwoItems
    BY <2>1 DEF Shape, Slotted
  <2>3. DOMAIN H[r].items = 0..(TwoItems - 1)
    BY <2>1, <2>2 DEF Shape
  <2>4. Bits(TwoItems) \in SUBSET Nat
    BY BitsOfTwo
  <2>5. PICK n : n = H[r]
    OBVIOUS
  <2>6. PoolNode(Reset(n))
    BY <2>2, <2>3, <2>4, <2>5 DEF PoolNode, Reset, Node
  <2> QED
    BY <2>5, <2>6, <1>6
<1>9. HeapOK(H2, P2, f2)
  <2>1. IsFiniteSet(DOMAIN H2) /\ DOMAIN H2 \subseteq Nat \ {0}
    BY <1>3, <1>7, FS_Subset DEF HeapOK
  <2>2. \A a \in P2 : PoolNode(H2[a])
    BY <1>3, <1>4, <1>6, <1>7, <1>8 DEF HeapOK, Discarded
  <2>3. \A a \in DOMAIN H2 : H2[a] \in Node
    BY <1>3, <1>6, <1>7, <1>8 DEF HeapOK, PoolNode
  <2>4. f2.roots \subseteq f2.live
    BY <1>2, <1>4, <1>5
  <2>5. \A a \in f2.live : f2.own[a] \subseteq Keys /\ f2.rank[a] \in Nat
    BY <1>2, <1>3 DEF HeapOK
  <2> QED
    BY <1>2, <1>7, <2>1, <2>2, <2>3, <2>4, <2>5 DEF HeapOK
<1>10. ASSUME NEW a \in f2.live \ f2.raw PROVE NodeOK(H2, f2, a)
  <2>1. a \in f.live \ f.raw /\ a # r /\ H2[a] = H[a]
    BY <1>2, <1>6, <1>7
  <2>2. NodeOK(H, f, a)
    BY <2>1 DEF Forest
  <2>3. ASSUME NEW p \in 0..(H2[a].num_items - 1) PROVE SlotOK(H2, f2, a, p)
    <3>1. SlotOK(H, f, a, p)
      BY <2>1, <2>2, <2>3 DEF NodeOK
    <3>2. ASSUME p \in H[a].child, <<a, p>> # f.gap PROVE ChildOK(H2, f2, a, p)
      <4>1. ChildOK(H, f, a, p)
        BY <3>1, <3>2 DEF SlotOK
      <4>2. PICK c : c = H[a].items[p].child
        OBVIOUS
      <4>3. /\ c \in f.live \ f.roots /\ f.parent[c] = <<a, p>>
            /\ f.own[c] = KeysAt(H[a], f.own[a], p) /\ f.rank[c] < f.rank[a]
            /\ c \in f.raw \/ H[c].num_items > 1
        BY <4>1, <4>2 DEF ChildOK
      <4>4. c \notin Kids(H, r)
        <5> SUFFICES ASSUME NEW q \in H[r].child, c = H[r].items[q].child PROVE FALSE
          BY DEF Kids
        <5>1. f.parent[c] = <<r, q>>
          BY <1>5 DEF ChildOK
        <5> QED
          BY <5>1, <4>3, <2>1
      <4>5. c # r /\ H2[c] = H[c]
        BY <1>2, <1>6, <1>7, <4>3
      <4> QED
        BY <1>2, <2>1, <4>2, <4>3, <4>4, <4>5 DEF ChildOK
    <3> QED
      BY <1>2, <2>1, <3>1, <3>2 DEF SlotOK
  <2> QED
    BY <1>2, <2>1, <2>2, <2>3 DEF NodeOK
<1>11. ASSUME NEW c \in f2.live \ f2.roots PROVE LinkOK(H2, f2, c)
  <2>1. c \in f.live \ f.roots /\ c \notin Kids(H, r)
    BY <1>2
  <2>2. PICK a \in f.live \ f.raw : \E p \in H[a].child :
          <<a, p>> # f.gap /\ f.parent[c] = <<a, p>> /\ H[a].items[p].child = c
    BY <2>1 DEF Forest, LinkOK
  <2>3. a # r
    BY <2>1, <2>2 DEF Kids
  <2>4. a \in f2.live \ f2.raw /\ H2[a] = H[a]
    BY <1>2, <1>6, <1>7, <2>2, <2>3
  <2> QED
    BY <1>2, <2>2, <2>4 DEF LinkOK
<1>12. Forest(H2, P2, f2)
  BY <1>9, <1>10, <1>11 DEF Forest
<1> QED
  BY <1>2, <1>12

-----------------------------------------------------------------------------
(* The stacks of the loops. *)

\* r is the stack s with its top replaced by t.
Replaced(s, t, r) ==
  /\ Len(s) \in Nat \ {0} /\ Len(t) \in Nat /\ Len(r) = Len(s) - 1 + Len(t)
  /\ \A i \in 1..(Len(s) - 1) : i \in 1..Len(r) /\ r[i] = s[i]
  /\ \A j \in 1..Len(t) : Len(s) - 1 + j \in 1..Len(r) /\ r[Len(s) - 1 + j] = t[j]
  /\ \A i \in 1..Len(r) : i \in 1..(Len(s) - 1) \/ \E j \in 1..Len(t) : i = Len(s) - 1 + j

\* Taking the last element off a stack and pushing a sequence.
LEMMA Pushed ==
  ASSUME NEW S, NEW s \in Seq(S), s # <<>>, NEW t \in Seq(S)
  PROVE  Front(s) \o t \in Seq(S) /\ Replaced(s, t, Front(s) \o t)
<1>1. PICK u, m : u = Front(s) /\ m = Len(s) - 1
  OBVIOUS
<1>2. u \in Seq(S) /\ Len(u) = m /\ m \in Nat /\ \A i \in 1..m : u[i] = s[i]
  BY <1>1, LastOf
<1>3. /\ u \o t \in Seq(S) /\ Len(u \o t) = m + Len(t) /\ Len(t) \in Nat
      /\ \A i \in 1..m : i \in 1..Len(u \o t) /\ (u \o t)[i] = u[i]
      /\ \A j \in 1..Len(t) : m + j \in 1..Len(u \o t) /\ (u \o t)[m + j] = t[j]
  BY <1>2
<1>4. ASSUME NEW i \in 1..(m + Len(t)), i \notin 1..m
      PROVE  \E j \in 1..Len(t) : i = m + j
  <2>1. i - m \in 1..Len(t) /\ i = m + (i - m)
    BY <1>2, <1>4
  <2> QED
    BY <2>1
<1>5. Len(s) \in Nat \ {0}
  BY <1>1, <1>2
<1> QED
  BY <1>1, <1>2, <1>3, <1>4, <1>5 DEF Replaced

\* When the tops of lists of nodes are replaced the elements are old or new ones.
LEMMA ListsInto ==
  ASSUME NEW u, NEW v, NEW w, Replaced(u, v, w), NEW A, NEW B, ListOf(u, A), ListOf(v, B)
  PROVE  \A i \in 1..Len(w) : w[i] \in A \cup B
<1>1. \A i \in 1..Len(u) : u[i] \in A
  BY DEF ListOf
<1>2. \A i \in 1..Len(v) : v[i] \in B
  BY DEF ListOf
<1>3. /\ Len(u) \in Nat \ {0} /\ \A i \in 1..(Len(u) - 1) : w[i] = u[i]
      /\ \A j \in 1..Len(v) : w[Len(u) - 1 + j] = v[j]
      /\ \A i \in 1..Len(w) : i \in 1..(Len(u) - 1) \/ \E j \in 1..Len(v) : i = Len(u) - 1 + j
  BY DEF Replaced
<1>4. \A i \in 1..(Len(u) - 1) : i \in 1..Len(u)
  BY <1>3
<1> QED
  BY <1>1, <1>2, <1>3, <1>4

\* Lists without repetition stay so when the top is replaced by other elements.
LEMMA ListPushed ==
  ASSUME NEW s, NEW t, NEW r, Replaced(s, t, r), NEW A, NEW B,
         ListOf(s, A), ListOf(t, B), A \cap B = {}, r \in Seq(A \cup B)
  PROVE  ListOf(r, (A \ {s[Len(s)]}) \cup B)
<1>1. PICK m \in Nat, l \in Nat : Len(s) = m + 1 /\ Len(t) = l /\ Len(r) = m + l /\ Len(s) - 1 = m
  <2>1. Len(s) - 1 \in Nat /\ Len(t) \in Nat /\ Len(r) = Len(s) - 1 + Len(t)
    BY DEF Replaced
  <2>2. Len(s) = Len(s) - 1 + 1
    BY DEF Replaced
  <2> QED
    BY <2>1, <2>2
<1>2. /\ \A i \in 1..m : r[i] = s[i]
      /\ \A j \in 1..l : m + j \in 1..(m + l) /\ r[m + j] = t[j]
      /\ \A i \in 1..(m + l) : i \in 1..m \/ \E j \in 1..l : i = m + j
  BY <1>1 DEF Replaced
<1>3. /\ \A i \in 1..(m + 1) : s[i] \in A
      /\ \A i, j \in 1..(m + 1) : s[i] = s[j] => i = j
      /\ \A x \in A : \E i \in 1..(m + 1) : s[i] = x
  BY <1>1 DEF ListOf
<1>4. /\ \A i \in 1..l : t[i] \in B
      /\ \A i, j \in 1..l : t[i] = t[j] => i = j
      /\ \A x \in B : \E i \in 1..l : t[i] = x
  BY <1>1 DEF ListOf
<1>5. \A i \in 1..m : i \in 1..(m + 1) /\ m + 1 \in 1..(m + 1) /\ i # m + 1 /\ i \in 1..(m + l)
  OBVIOUS
<1>6. \A i \in 1..m : r[i] \in A /\ r[i] # s[m + 1]
  BY <1>2, <1>3, <1>5
<1>7. \A i \in 1..(m + l) : i \in 1..m \/ r[i] \in B
  <2> SUFFICES ASSUME NEW i \in 1..(m + l), i \notin 1..m PROVE r[i] \in B
    OBVIOUS
  <2>1. PICK j \in 1..l : i = m + j
    BY <1>2
  <2> QED
    BY <2>1, <1>2, <1>4
<1>8. ASSUME NEW i \in 1..(m + l), NEW j \in 1..(m + l), r[i] = r[j] PROVE i = j
  <2>1. CASE i \in 1..m
    <3>1. j \in 1..m
      BY <2>1, <1>6, <1>7, <1>8
    <3> QED
      BY <2>1, <3>1, <1>2, <1>3, <1>5, <1>8
  <2>2. CASE i \notin 1..m
    <3>1. j \notin 1..m
      BY <2>2, <1>6, <1>7, <1>8
    <3>2. PICK x \in 1..l, y \in 1..l : i = m + x /\ j = m + y
      BY <2>2, <3>1, <1>2
    <3>3. t[x] = t[y]
      BY <3>2, <1>2, <1>8
    <3> QED
      BY <3>2, <3>3, <1>4
  <2> QED
    BY <2>1, <2>2
<1>9. ASSUME NEW x \in (A \ {s[m + 1]}) \cup B PROVE \E i \in 1..(m + l) : r[i] = x
  <2>1. CASE x \in B
    BY <2>1, <1>2, <1>4
  <2>2. CASE x \in A /\ x # s[m + 1]
    <3>1. PICK i \in 1..(m + 1) : s[i] = x
      BY <2>2, <1>3
    <3>2. i \in 1..m
      BY <2>2, <3>1
    <3> QED
      BY <3>1, <3>2, <1>2, <1>5
  <2> QED
    BY <1>9, <2>1, <2>2
<1>10. r \in Seq((A \ {s[m + 1]}) \cup B)
  <2>1. PICK S : S = (A \ {s[m + 1]}) \cup B
    OBVIOUS
  <2>2. \A i \in 1..Len(r) : r[i] \in S
    BY <2>1, <1>1, <1>6, <1>7
  <2>3. r \in Seq(S)
    BY <2>2
  <2> QED
    BY <2>1, <2>3
<1> QED
  BY <1>1, <1>8, <1>9, <1>10 DEF ListOf

\* The child slots of a node, in a list without repetition.
LEMMA ChildSlotsList ==
  ASSUME NEW n, Shape(n)
  PROVE  ListOf(ChildSlots(n), n.child)
<1>1. PICK S : S = n.child
  OBVIOUS
<1>2. n.num_items \in Nat /\ S \subseteq 0..(n.num_items - 1)
  BY <1>1 DEF Shape, Slotted, Node
<1>3. (0..(n.num_items - 1)) \cap n.child = S
  BY <1>1, <1>2
<1>4. IsFiniteSet(S) /\ S \in SUBSET Int
  <2>1. PICK I : I = 0..(n.num_items - 1)
    OBVIOUS
  <2>2. IsFiniteSet(I) /\ S \in SUBSET I /\ I \in SUBSET Int
    BY <2>1, <1>2, FS_Interval
  <2> QED
    BY <2>2, FS_Subset
<1>5. PICK cs : cs = Ascending(S)
  OBVIOUS
<1>6. /\ Cardinality(S) \in Nat /\ cs \in [1..Cardinality(S) -> S]
      /\ \A i, j \in 1..Cardinality(S) : i < j => cs[i] < cs[j]
      /\ \A x \in S : \E i \in 1..Cardinality(S) : cs[i] = x
  BY <1>4, <1>5, AscendingRanks
<1>7. cs \in Seq(S) /\ Len(cs) = Cardinality(S)
  BY <1>6
<1>8. ASSUME NEW i \in 1..Len(cs), NEW j \in 1..Len(cs), cs[i] = cs[j] PROVE i = j
  <2>1. cs[i] \in Int /\ cs[j] \in Int
    BY <1>4, <1>6, <1>7
  <2>2. ~(i < j) /\ ~(j < i)
    BY <2>1, <1>6, <1>7, <1>8
  <2> QED
    BY <1>6, <1>7, <2>2
<1>9. ChildSlots(n) = cs
  BY <1>3, <1>5 DEF ChildSlots
<1> QED
  BY <1>1, <1>6, <1>7, <1>8, <1>9 DEF ListOf

\* The children of a node, in the order of its slots.
LEMMA KidsListed ==
  ASSUME NEW H, NEW a, NEW cs, ListOf(cs, H[a].child),
         \A p, q \in H[a].child : H[a].items[p].child = H[a].items[q].child => p = q
  PROVE  ListOf([n \in 1..Len(cs) |-> H[a].items[cs[n]].child], Kids(H, a))
<1>1. PICK t, S, l : t = [n \in 1..Len(cs) |-> H[a].items[cs[n]].child] /\ S = H[a].child /\ l = Len(cs)
  OBVIOUS
<1>2. /\ l \in Nat /\ \A i \in 1..l : cs[i] \in S
      /\ \A i, j \in 1..l : cs[i] = cs[j] => i = j
      /\ \A p \in S : \E i \in 1..l : cs[i] = p
  BY <1>1 DEF ListOf
<1>3. \A i \in 1..l : t[i] = H[a].items[cs[i]].child
  BY <1>1
<1>4. \A i \in 1..l : t[i] \in Kids(H, a)
  BY <1>1, <1>2, <1>3 DEF Kids
<1>5. t \in Seq(Kids(H, a)) /\ Len(t) = l
  BY <1>1, <1>2, <1>4
<1>6. \A i, j \in 1..l : t[i] = t[j] => i = j
  BY <1>1, <1>2, <1>3
<1>7. \A x \in Kids(H, a) : \E i \in 1..l : t[i] = x
  <2>1. TAKE x \in Kids(H, a)
  <2>2. PICK p \in S : x = H[a].items[p].child
    BY <1>1 DEF Kids
  <2>3. PICK i \in 1..l : cs[i] = p
    BY <1>2
  <2> QED
    BY <2>2, <2>3, <1>3
<1>8. ListOf(t, Kids(H, a))
  BY <1>5, <1>6, <1>7 DEF ListOf
<1> QED
  BY <1>1, <1>8

\* The pool after a node has been discarded.
LEMMA PoolGrows ==
  ASSUME Pool, NEW a \in Nat, a \notin Range(pending_two)
  PROVE  /\ PoolWith(a) \in Seq(Nat) /\ IsInjective(PoolWith(a))
         /\ Range(PoolWith(a)) = IF heap[a].is_two THEN Range(pending_two) \cup {a}
                                 ELSE Range(pending_two)
<1>1. PICK s : s = pending_two
  OBVIOUS
<1>2. s \in Seq(Nat) /\ IsInjective(s) /\ a \notin Range(s) /\ Len(s) \in Nat
  BY <1>1 DEF Pool
<1>3. PICK t : t = Append(s, a)
  OBVIOUS
<1>4. /\ t \in Seq(Nat) /\ Len(t) = Len(s) + 1 /\ DOMAIN t = 1..(Len(s) + 1) /\ DOMAIN s = 1..Len(s)
      /\ \A i \in 1..Len(s) : t[i] = s[i] /\ t[Len(s) + 1] = a
  BY <1>2, <1>3
<1>5. t[Len(s) + 1] = a
  BY <1>2, <1>3
<1>6. \A i \in DOMAIN t : i \in DOMAIN s \/ i = Len(s) + 1
  BY <1>2, <1>4
<1>7. \A i \in DOMAIN s : i \in DOMAIN t /\ t[i] = s[i] /\ s[i] # a
  BY <1>2, <1>4 DEF Range
<1>8. IsInjective(t)
  BY <1>2, <1>5, <1>6, <1>7 DEF IsInjective
<1>9. Range(t) = Range(s) \cup {a}
  <2>1. Len(s) + 1 \in DOMAIN t
    BY <1>2, <1>4
  <2> QED
    BY <1>5, <1>6, <1>7, <2>1 DEF Range
<1> QED
  BY <1>1, <1>2, <1>3, <1>4, <1>8, <1>9 DEF PoolWith

-----------------------------------------------------------------------------
(* The steps of destroy_tree. *)

\* What is known of the nodes in every state.
LEMMA HeapFacts ==
  ASSUME NEW f, Forest(heap, Range(pending_two), f), Pool
  PROVE  /\ IsFiniteSet(DOMAIN heap) /\ DOMAIN heap \subseteq Nat \ {0} /\ PoolOK
         /\ f.live = DOMAIN heap \ Range(pending_two) /\ f.roots \subseteq f.live
         /\ \A a \in f.live : a \in Nat \ {0} /\ a \notin Range(pending_two)
  BY DEF Forest, HeapOK, PoolOK, Pool

\* Discarding a root does not fail an assertion.
LEMMA DiscardIsSafe ==
  ASSUME NEW f, Forest(heap, Range(pending_two), f), NEW a \in f.live \ f.raw
  PROVE  DiscardAsserts(a)
  BY DEF Forest, NodeOK, Shape, DiscardAsserts

\* destroy_tree takes a node from the stack and pushes its children.
LEMMA DestroyStepHolds ==
  ASSUME IInv, DestroyStep
  PROVE  IInv' /\ failed' = failed
<1>1. PICK f : Forest(heap, Range(pending_two), f) /\ Stage(f)
  BY DEF IInv
<1>2. /\ pc \in {"destroy", "close"} /\ pc' = pc /\ contents' = contents /\ stack # <<>>
      /\ Pool /\ contents \subseteq Keys /\ failed \in BOOLEAN
  BY DEF IInv, DestroyStep
<1>3. Destroying(f)
  BY <1>1, <1>2 DEF Stage
<1>4. PICK a, cs, H, s : a = Last(stack) /\ H = heap /\ s = stack /\ cs = ChildSlots(heap[a])
  OBVIOUS
<1>5. PICK t : t = [n \in 1..Len(cs) |-> H[a].items[cs[n]].child]
  OBVIOUS
<1>6. /\ stack' = Front(s) \o t /\ heap' = HeapWithout(a) /\ pending_two' = PoolWith(a)
      /\ failed' = (failed \/ ~DiscardAsserts(a))
  BY <1>4, <1>5 DEF DestroyStep
<1>7. s # <<>> /\ ListOf(s, f.roots) /\ f.raw = {} /\ f.gap = NoGap
  BY <1>2, <1>3, <1>4 DEF Destroying
<1>8. a \in f.roots /\ a \in f.live \ f.raw /\ a \in Nat \ {0} /\ a \notin Range(pending_two)
  <2>1. a \in f.roots
    BY <1>4, <1>7, LastOf DEF ListOf
  <2> QED
    BY <1>1, <1>2, <1>7, <2>1, HeapFacts
<1>9. OffGap(f, a)
  BY <1>7, <1>8 DEF NoGap, OffGap
<1>10. failed' = failed
  BY <1>1, <1>2, <1>6, <1>8, DiscardIsSafe
<1>11. PICK f2 : /\ Forest(heap', Range(pending_two'), f2) /\ f2.live = f.live \ {a} /\ f2.raw = {}
                 /\ f2.roots = (f.roots \ {a}) \cup Kids(H, a) /\ f2.gap = f.gap
  <2>1. Discarded(heap, Range(pending_two), a, heap', Range(pending_two'))
    BY <1>2, <1>6, <1>8, PoolGrows DEF HeapWithout, Discarded
  <2>2. PICK P, H2, P2 : P = Range(pending_two) /\ H2 = heap' /\ P2 = Range(pending_two')
    OBVIOUS
  <2>3. Discarded(H, P, a, H2, P2) /\ Forest(H, P, f)
    BY <2>1, <2>2, <1>1, <1>4
  <2>4. \E f2 : /\ Forest(H2, P2, f2) /\ f2.live = f.live \ {a} /\ f2.raw = {}
                /\ f2.roots = (f.roots \ {a}) \cup Kids(H, a) /\ f2.gap = f.gap
    BY <2>3, <1>7, <1>8, <1>9, RootRemoved
  <2> QED
    BY <2>2, <2>4
<1>12. /\ Kids(H, a) \subseteq f.live \ f.roots
       /\ \A p, q \in H[a].child : H[a].items[p].child = H[a].items[q].child => p = q
  BY <1>1, <1>4, <1>8, <1>9, Children
<1>13. Shape(H[a])
  BY <1>1, <1>4, <1>8 DEF Forest, NodeOK
<1>14. ListOf(cs, H[a].child)
  BY <1>4, <1>13, ChildSlotsList
<1>15. ListOf(t, Kids(H, a))
  BY <1>5, <1>12, <1>14, KidsListed
<1>16. ListOf(Front(s) \o t, (f.roots \ {a}) \cup Kids(H, a))
  <2>1. PICK S : S = f.roots \cup Kids(H, a)
    OBVIOUS
  <2>2. s \in Seq(S) /\ t \in Seq(S)
    BY <2>1, <1>7, <1>15 DEF ListOf
  <2>3. Front(s) \o t \in Seq(S) /\ Replaced(s, t, Front(s) \o t)
    BY <2>2, <1>7, Pushed
  <2>4. a = s[Len(s)]
    BY <1>4, <1>7, <2>2, LastOf
  <2>5. f.roots \cap Kids(H, a) = {}
    BY <1>12
  <2> QED
    BY <2>1, <2>3, <2>4, <2>5, <1>7, <1>15, ListPushed
<1>22. Destroying(f2)'
  BY <1>6, <1>7, <1>11, <1>16 DEF Destroying
<1>23. Stage(f2)'
  BY <1>2, <1>22 DEF Stage
<1>24. Pool'
  BY <1>2, <1>6, <1>8, PoolGrows DEF Pool
<1> QED
  BY <1>2, <1>10, <1>11, <1>23, <1>24 DEF IInv, States

-----------------------------------------------------------------------------
(* The path to a key. *)

\* The slot of k in node a, and the child there.
SlotFor(H, a, k) == Predict(H[a], k)
Below(H, a, k) == H[a].items[SlotFor(H, a, k)].child

\* t is the path of k from node a down to a slot without a child.
PathFrom(H, f, t, a, k) ==
  /\ t \in Seq(f.live) /\ Len(t) > 0 /\ t[1] = a
  /\ \A i \in 1..(Len(t) - 1) : /\ SlotFor(H, t[i], k) \in H[t[i]].child
                                /\ t[i + 1] = Below(H, t[i], k)
  /\ SlotFor(H, t[Len(t)], k) \notin H[t[Len(t)]].child
  /\ \A i \in 1..Len(t) : /\ f.own[t[i]] \subseteq f.own[a]
                          /\ k \in f.own[a] <=> k \in f.own[t[i]]

\* A forest in which no slot is open and every node is built.
Whole(f) == f.raw = {} /\ f.gap = NoGap

\* The way down ends.
LEMMA WayDown ==
  ASSUME NEW f, Forest(heap, Range(pending_two), f), Whole(f),
         NEW a \in f.live, NEW k, SlotFor(heap, a, k) \in heap[a].child
  PROVE  /\ Below(heap, a, k) \in f.live \ f.roots
         /\ f.parent[Below(heap, a, k)] = <<a, SlotFor(heap, a, k)>>
         /\ f.own[Below(heap, a, k)] = KeysAt(heap[a], f.own[a], SlotFor(heap, a, k))
         /\ f.rank[Below(heap, a, k)] < f.rank[a]
<1>1. a # 0 /\ a \in f.live \ f.raw
  BY DEF Forest, HeapOK, Whole
<1>2. OffGap(f, a)
  BY <1>1 DEF OffGap, Whole, NoGap
<1>3. ChildOK(heap, f, a, SlotFor(heap, a, k))
  BY <1>1, <1>2, Children
<1> QED
  BY <1>3 DEF ChildOK, Below

\* A path goes on above.
LEMMA PathLonger ==
  ASSUME NEW H, NEW f, NEW a \in f.live, NEW k, NEW t,
         SlotFor(H, a, k) \in H[a].child, PathFrom(H, f, t, Below(H, a, k), k),
         f.own[Below(H, a, k)] = KeysAt(H[a], f.own[a], SlotFor(H, a, k))
  PROVE  PathFrom(H, f, <<a>> \o t, a, k)
<1>1. PICK c, u, l : c = Below(H, a, k) /\ u = <<a>> \o t /\ l = Len(t)
  OBVIOUS
<1>2. /\ t \in Seq(f.live) /\ l \in Nat /\ l > 0 /\ t[1] = c
      /\ \A i \in 1..(l - 1) : /\ SlotFor(H, t[i], k) \in H[t[i]].child
                               /\ t[i + 1] = Below(H, t[i], k)
      /\ SlotFor(H, t[l], k) \notin H[t[l]].child
      /\ \A i \in 1..l : f.own[t[i]] \subseteq f.own[c] /\ (k \in f.own[c] <=> k \in f.own[t[i]])
  BY <1>1 DEF PathFrom
<1>3. /\ u \in Seq(f.live) /\ Len(u) = l + 1 /\ u[1] = a
      /\ \A i \in 2..(l + 1) : u[i] = t[i - 1]
  <2>1. PICK L : L = f.live
    OBVIOUS
  <2>2. a \in L /\ t \in Seq(L) /\ Len(t) = l
    BY <2>1, <1>1, <1>2
  <2>3. <<a>> \o t \in Seq(L) /\ Len(<<a>> \o t) = l + 1 /\ (<<a>> \o t)[1] = a
    BY <2>2
  <2>4. \A i \in 2..(l + 1) : (<<a>> \o t)[i] = t[i - 1]
    BY <2>2
  <2> QED
    BY <2>1, <2>3, <2>4, <1>1
<1>4. f.own[c] \subseteq f.own[a] /\ (k \in f.own[a] <=> k \in f.own[c])
  BY <1>1 DEF KeysAt, SlotFor
<1>5. ASSUME NEW i \in 1..l
      PROVE  SlotFor(H, u[i], k) \in H[u[i]].child /\ u[i + 1] = Below(H, u[i], k)
  <2>1. CASE i = 1
    <3>1. u[i + 1] = t[1]
      BY <2>1, <1>2, <1>3
    <3> QED
      BY <2>1, <3>1, <1>1, <1>2, <1>3
  <2>2. CASE i # 1
    <3>1. i - 1 \in 1..(l - 1) /\ i \in 2..(l + 1) /\ i + 1 \in 2..(l + 1) /\ (i - 1) + 1 = i /\ (i + 1) - 1 = i
      <4>1. l \in Nat /\ i \in 1..l /\ i # 1
        BY <2>2, <1>2
      <4> QED
        BY <4>1
    <3>2. u[i] = t[i - 1] /\ u[i + 1] = t[i]
      BY <3>1, <1>3
    <3> QED
      BY <3>1, <3>2, <1>2
  <2> QED
    BY <2>1, <2>2
<1>6. u[l + 1] = t[l]
  BY <1>2, <1>3
<1>7. ASSUME NEW i \in 1..(l + 1)
      PROVE  f.own[u[i]] \subseteq f.own[a] /\ (k \in f.own[a] <=> k \in f.own[u[i]])
  <2>1. CASE i = 1
    BY <2>1, <1>3
  <2>2. CASE i # 1
    <3>1. i - 1 \in 1..l /\ i \in 2..(l + 1)
      BY <2>2, <1>2
    <3> QED
      BY <3>1, <1>2, <1>3, <1>4
  <2> QED
    BY <2>1, <2>2
<1>8. (l + 1) - 1 = l /\ l + 1 > 0
  BY <1>2
<1> QED
  BY <1>1, <1>2, <1>3, <1>5, <1>6, <1>7, <1>8 DEF PathFrom

\* Walking down the tree along the slots of a key gives a path.
LEMMA PathIs ==
  ASSUME NEW f, Forest(heap, Range(pending_two), f), Whole(f), root \in f.live, NEW k
  PROVE  PathFrom(heap, f, Path(k), root, k)
<1> DEFINE D == DOMAIN heap
           Goes(a) == SlotFor(heap, a, k) \in heap[a].child
           Down(a) == Below(heap, a, k)
           Body(g) == [a \in D |-> IF Goes(a) THEN <<a>> \o g[Down(a)] ELSE <<a>>]
           From == CHOOSE g : g = Body(g)
           h == [a \in D |-> IF a \in f.live THEN f.rank[a] ELSE 0]
           V == Seq(D)
           B == [a \in D |-> [g \in [D -> V] |-> Body(g)[a]]]
<1>1. Path(k) = From[root]
  BY DEF Path, SlotFor, Below
<1>2. f.live \subseteq D /\ \A a \in f.live : f.rank[a] \in Nat
  BY DEF Forest, HeapOK
<1>3. \A a \in f.live : Goes(a) => Down(a) \in f.live /\ f.rank[Down(a)] < f.rank[a]
  BY WayDown
<1>4. \A a \in D : Goes(a) => a \in f.live
  BY DEF Forest, HeapOK, PoolNode
<1>5. \A a \in D : Goes(a) => Down(a) \in D /\ h[Down(a)] < h[a]
  BY <1>2, <1>3, <1>4
<1>6. \A g : \A a \in D : Body(g)[a] = IF Goes(a) THEN <<a>> \o g[Down(a)] ELSE <<a>>
  OBVIOUS
<1>7. \A g : Body(g) = [a \in D |-> Body(g)[a]]
  OBVIOUS
<1>8. h \in [D -> Nat]
  BY <1>2
<1>9. From = CHOOSE g : g = Body(g)
  OBVIOUS
<1> HIDE DEF Goes, Down, h, Body, From
<1>10. ASSUME NEW g \in [D -> V], NEW a \in D PROVE Body(g)[a] \in V
  <2>1. CASE Goes(a)
    <3>1. PICK u : u = g[Down(a)]
      OBVIOUS
    <3>2. u \in Seq(D)
      BY <2>1, <3>1, <1>5
    <3>3. <<a>> \o u \in Seq(D)
      BY <3>2
    <3> QED
      BY <2>1, <3>1, <3>3, <1>6
  <2>2. CASE ~Goes(a)
    <3>1. <<a>> \in Seq(D)
      OBVIOUS
    <3> QED
      BY <2>2, <3>1, <1>6
  <2> QED
    BY <2>1, <2>2
<1>11. B \in [D -> [[D -> V] -> V]] /\ \A a \in D : \A g \in [D -> V] : B[a][g] = Body(g)[a]
  BY <1>10
<1>12. ASSUME NEW a \in D, NEW g1 \in [D -> V], NEW g2 \in [D -> V],
              \A b \in D : h[b] < h[a] => g1[b] = g2[b]
       PROVE  B[a][g1] = B[a][g2]
  <2>1. Body(g1)[a] = Body(g2)[a]
    <3>1. Goes(a) => g1[Down(a)] = g2[Down(a)]
      BY <1>5, <1>12
    <3> QED
      BY <3>1, <1>6
  <2> HIDE DEF B
  <2> QED
    BY <2>1, <1>11
<1>13. V # {}
  <2>1. <<>> \in Seq(D)
    OBVIOUS
  <2> QED
    BY <2>1
<1>14. Recursion(D, h, V, B)
  <2> HIDE DEF B, V, D
  <2> QED
    BY <1>8, <1>11, <1>12, <1>13 DEF Recursion
<1>15. From = Body(From)
  <2>1. PICK g \in [D -> V] : \A a \in D : g[a] = B[a][g]
    <3> HIDE DEF B, V, D
    <3> QED
      BY <1>14, RankRecursion
  <2>2. \A a \in D : g[a] = Body(g)[a]
    <3> HIDE DEF B, V, D
    <3> QED
      BY <2>1, <1>11
  <2>3. g = Body(g)
    BY <2>1, <2>2, <1>7
  <2> QED
    BY <2>3, <1>9
<1>16. \A a \in D : From[a] = IF Goes(a) THEN <<a>> \o From[Down(a)] ELSE <<a>>
  BY <1>6, <1>15
<1> DEFINE T == {a \in D : a \in f.live => PathFrom(heap, f, From[a], a, k)}
<1>17. ASSUME NEW a \in D, \A b \in D : h[b] < h[a] => b \in T PROVE a \in T
  <2> SUFFICES ASSUME a \in f.live PROVE PathFrom(heap, f, From[a], a, k)
    OBVIOUS
  <2>1. CASE Goes(a)
    <3>1. Down(a) \in f.live /\ Down(a) \in D /\ Down(a) \in T
      BY <2>1, <1>2, <1>3, <1>5, <1>17
    <3>2. PathFrom(heap, f, From[Down(a)], Down(a), k)
      BY <3>1
    <3>3. f.own[Down(a)] = KeysAt(heap[a], f.own[a], SlotFor(heap, a, k))
      BY <2>1, WayDown DEF Goes, Down
    <3>4. PathFrom(heap, f, <<a>> \o From[Down(a)], a, k)
      BY <2>1, <3>2, <3>3, PathLonger DEF Goes, Down
    <3> QED
      BY <2>1, <3>4, <1>16
  <2>2. CASE ~Goes(a)
    <3>1. From[a] = <<a>>
      BY <2>2, <1>16
    <3>2. PICK t : t = <<a>>
      OBVIOUS
    <3>3. t \in Seq(f.live) /\ Len(t) = 1 /\ t[1] = a
      <4>1. PICK L : L = f.live
        OBVIOUS
      <4>2. a \in L
        BY <4>1
      <4>3. <<a>> \in Seq(L) /\ Len(<<a>>) = 1 /\ <<a>>[1] = a
        BY <4>2
      <4> QED
        BY <3>2, <4>1, <4>3
    <3>4. PathFrom(heap, f, t, a, k)
      BY <2>2, <3>3 DEF PathFrom, Goes
    <3> QED
      BY <3>1, <3>2, <3>4
  <2> QED
    BY <2>1, <2>2
<1>18. D \subseteq T
  <2> HIDE DEF T, D
  <2> QED
    BY <1>8, <1>17, RankInduction
<1>19. PathFrom(heap, f, From[root], root, k)
  BY <1>2, <1>18
<1> QED
  BY <1>1, <1>19

\* The slot at the end of a path has an item exactly when the key is stored.
LEMMA PathEnd ==
  ASSUME NEW H, NEW P, NEW f, Forest(H, P, f), Whole(f), NEW k \in Nat,
         NEW t, NEW r, PathFrom(H, f, t, r, k), NEW a, a = t[Len(t)], NEW p, p = SlotFor(H, a, k)
  PROVE  /\ a \in f.live \ f.raw /\ Shape(H[a]) /\ p \in 0..(H[a].num_items - 1)
         /\ p \notin H[a].child /\ SlotOK(H, f, a, p)
         /\ k \in f.own[r] <=> k \in KeysAt(H[a], f.own[a], p)
         /\ f.own[a] \subseteq f.own[r]
<1>1. Len(t) \in Nat /\ Len(t) > 0 /\ Len(t) \in 1..Len(t) /\ a \in f.live
  <2>1. PICK L : L = f.live
    OBVIOUS
  <2>2. t \in Seq(L) /\ Len(t) > 0
    BY <2>1 DEF PathFrom
  <2> QED
    BY <2>1, <2>2
<1>2. a \in f.live \ f.raw
  BY <1>1 DEF Whole
<1>3. NodeOK(H, f, a)
  BY <1>2 DEF Forest
<1>4. Shape(H[a]) /\ Slotted(H[a])
  BY <1>3 DEF NodeOK, Shape
<1>5. p \in 0..(H[a].num_items - 1)
  BY <1>4, PredictInside DEF SlotFor
<1>6. SlotOK(H, f, a, p)
  BY <1>3, <1>5 DEF NodeOK
<1>7. p \notin H[a].child /\ f.own[a] \subseteq f.own[r] /\ (k \in f.own[r] <=> k \in f.own[a])
  BY <1>1 DEF PathFrom
<1>8. k \in f.own[a] <=> k \in KeysAt(H[a], f.own[a], p)
  BY DEF KeysAt, SlotFor
<1> QED
  BY <1>2, <1>4, <1>5, <1>6, <1>7, <1>8

\* find answers for the keys below the root.
LEMMA FindAnswers ==
  ASSUME NEW f, Forest(heap, Range(pending_two), f), Whole(f), root \in f.live, NEW k \in Keys
  PROVE  Find(k) = IF k \in f.own[root] THEN ValueOf(k) ELSE Garbage
<1>1. PICK t, a, p : t = Path(k) /\ a = t[Len(t)] /\ p = SlotFor(heap, a, k)
  OBVIOUS
<1>2. PathFrom(heap, f, t, root, k)
  BY <1>1, PathIs
<1>3. k \in Nat
  BY LippAssumption
<1>4. /\ p \notin heap[a].child /\ SlotOK(heap, f, a, p)
      /\ k \in f.own[root] <=> k \in KeysAt(heap[a], f.own[a], p)
  BY <1>1, <1>2, <1>3, PathEnd
<1>5. PICK x : x = heap[a].items[p]
  OBVIOUS
<1>6. Find(k) = IF p \notin heap[a].none /\ x.key = k THEN x.value ELSE Garbage
  BY <1>1, <1>5 DEF Find, Last, SlotFor
<1>7. CASE p \in heap[a].none
  BY <1>4, <1>6, <1>7 DEF SlotOK
<1>8. CASE p \notin heap[a].none
  <2>1. PICK l \in Keys : KeysAt(heap[a], f.own[a], p) = {l} /\ x = Data(l)
    BY <1>4, <1>5, <1>8 DEF SlotOK
  <2>2. x.key = l /\ x.value = ValueOf(l)
    BY <2>1 DEF Data
  <2>3. k \in f.own[root] <=> l = k
    BY <1>4, <2>1
  <2> QED
    BY <1>6, <1>8, <2>2, <2>3
<1> QED
  BY <1>7, <1>8

-----------------------------------------------------------------------------
(* Adding a key along its path. *)

\* The child at a slot is on the path of k exactly when the node is and the slot is
\* that of k.
LEMMA ChildOnPath ==
  ASSUME NEW H, NEW P, NEW f, Forest(H, P, f), Whole(f), NEW k, NEW t, NEW r \in f.roots,
         PathFrom(H, f, t, r, k), NEW a \in f.live, NEW p \in H[a].child
  PROVE  H[a].items[p].child \in Range(t) <=> a \in Range(t) /\ p = SlotFor(H, a, k)
<1>1. PICK c, l : c = H[a].items[p].child /\ l = Len(t)
  OBVIOUS
<1>2. \A b \in f.live : OffGap(f, b) /\ b \in f.live \ f.raw
  BY DEF Forest, HeapOK, Whole, OffGap, NoGap
<1>3. c \in f.live \ f.roots /\ f.parent[c] = <<a, p>>
  BY <1>1, <1>2, Children DEF ChildOK
<1>4. /\ l \in Nat /\ l > 0 /\ DOMAIN t = 1..l /\ t[1] = r /\ \A i \in 1..l : t[i] \in f.live
      /\ \A i \in 1..(l - 1) : /\ SlotFor(H, t[i], k) \in H[t[i]].child
                               /\ t[i + 1] = Below(H, t[i], k)
      /\ SlotFor(H, t[l], k) \notin H[t[l]].child
  <2>1. PICK L : L = f.live
    OBVIOUS
  <2>2. t \in Seq(L) /\ Len(t) > 0
    BY <2>1 DEF PathFrom
  <2>3. l \in Nat /\ l > 0 /\ DOMAIN t = 1..l /\ \A i \in 1..l : t[i] \in L
    BY <2>2, <1>1
  <2> QED
    BY <2>1, <2>3, <1>1 DEF PathFrom
<1>5. ASSUME c \in Range(t) PROVE a \in Range(t) /\ p = SlotFor(H, a, k)
  <2>1. PICK j \in 1..l : t[j] = c
    BY <1>4, <1>5 DEF Range
  <2>2. j # 1
    BY <1>3, <1>4, <2>1
  <2>3. PICK i \in 1..(l - 1) : j = i + 1
    <3>1. j - 1 \in 1..(l - 1) /\ j = (j - 1) + 1
      BY <1>4, <2>2
    <3> QED
      BY <3>1
  <2>4. i \in 1..l /\ t[i] \in f.live
    BY <1>4
  <2>5. SlotFor(H, t[i], k) \in H[t[i]].child /\ c = Below(H, t[i], k)
    BY <1>4, <2>1, <2>3
  <2>6. f.parent[c] = <<t[i], SlotFor(H, t[i], k)>>
    BY <1>2, <2>4, <2>5, Children DEF ChildOK, Below
  <2>7. a = t[i] /\ p = SlotFor(H, t[i], k)
    BY <1>3, <2>6
  <2> QED
    BY <1>4, <2>4, <2>7 DEF Range
<1>6. ASSUME a \in Range(t), p = SlotFor(H, a, k) PROVE c \in Range(t)
  <2>1. PICK i \in 1..l : t[i] = a
    BY <1>4, <1>6 DEF Range
  <2>2. i # l
    BY <1>4, <1>6, <2>1
  <2>3. i \in 1..(l - 1) /\ i + 1 \in 1..l
    BY <1>4, <2>2
  <2>4. t[i + 1] = c
    BY <1>1, <1>4, <1>6, <2>1, <2>3 DEF Below
  <2> QED
    BY <1>4, <2>3, <2>4 DEF Range
<1> QED
  BY <1>1, <1>5, <1>6

\* Two nodes that send every key to the same slot.
SameModel(n, m) == m.num_items = n.num_items /\ m.model = n.model

\* A slot that has not changed.
SameSlot(n, m, q) ==
  /\ q \in m.none <=> q \in n.none
  /\ q \in m.child <=> q \in n.child
  /\ m.items[q] = n.items[q]

\* Nodes with the same model send their keys to the same slots.
LEMMA SameKeys ==
  ASSUME NEW n, NEW m, SameModel(n, m)
  PROVE  /\ \A k : Predict(m, k) = Predict(n, k)
         /\ \A K, q : KeysAt(m, K, q) = KeysAt(n, K, q)
<1>1. \A k : Predict(m, k) = Predict(n, k)
  BY DEF SameModel, Predict
<1> QED
  BY <1>1 DEF KeysAt

\* H2 and f2 are H and f with the key k added to the nodes of path t.  Only the slot of
\* k in the last node changes; N are new nodes.
Grown(H, f, H2, f2, t, k, N) ==
  /\ f2.live = f.live \cup N /\ N \cap f.live = {} /\ f2.roots = f.roots
  /\ f2.raw = {} /\ f2.gap = NoGap
  /\ \A a \in f.live :
       /\ f2.own[a] = IF a \in Range(t) THEN f.own[a] \cup {k} ELSE f.own[a]
       /\ f2.rank[a] = f.rank[a] + 1
       /\ f2.parent[a] = f.parent[a]
       /\ Shape(H2[a]) /\ SameModel(H[a], H2[a])
       /\ H2[a].size = IF a \in Range(t) THEN H[a].size + 1 ELSE H[a].size
       /\ \A q \in 0..(H[a].num_items - 1) :
            a # t[Len(t)] \/ q # SlotFor(H, a, k) => SameSlot(H[a], H2[a], q)

\* A key is added: the slot where the path ends and the new nodes are right, so the
\* whole forest is.
LEMMA KeyAdded ==
  ASSUME NEW H, NEW P, NEW f, Forest(H, P, f), Whole(f), NEW k \in Keys, NEW t, NEW r \in f.roots,
         PathFrom(H, f, t, r, k), k \notin f.own[r],
         NEW H2, NEW P2, NEW f2, NEW N, Grown(H, f, H2, f2, t, k, N), HeapOK(H2, P2, f2),
         SlotOK(H2, f2, t[Len(t)], SlotFor(H, t[Len(t)], k)),
         \A c \in N : NodeOK(H2, f2, c) /\ LinkOK(H2, f2, c)
  PROVE  Forest(H2, P2, f2)
<1>1. PICK e, p : e = t[Len(t)] /\ p = SlotFor(H, e, k)
  OBVIOUS
<1>2. f.live = DOMAIN H \ P /\ f.roots \subseteq f.live /\ f.raw = {} /\ f.gap = NoGap
  BY DEF Forest, HeapOK, Whole
<1>3. \A a \in f.live : OffGap(f, a) /\ a \in f.live \ f.raw /\ NodeOK(H, f, a)
  BY <1>2 DEF Forest, HeapOK, OffGap, NoGap
<1>4. p \notin H[e].child
  BY <1>1 DEF PathFrom
<1>5. ASSUME NEW a \in f.live, a \in Range(t) PROVE k \notin f.own[a]
  <2>1. PICK i \in DOMAIN t : a = t[i]
    BY <1>5 DEF Range
  <2>2. i \in 1..Len(t)
    BY <2>1 DEF PathFrom
  <2> QED
    BY <2>1, <2>2 DEF PathFrom
<1>6. ASSUME NEW a \in f.live, NEW q PROVE
        KeysAt(H2[a], f2.own[a], q) = KeysAt(H[a], f.own[a], q)
          \cup (IF a \in Range(t) /\ q = SlotFor(H, a, k) THEN {k} ELSE {})
  <2>1. SameModel(H[a], H2[a]) /\ f2.own[a] = IF a \in Range(t) THEN f.own[a] \cup {k} ELSE f.own[a]
    BY DEF Grown
  <2>2. \A l : Predict(H2[a], l) = Predict(H[a], l)
    BY <2>1, SameKeys
  <2> QED
    BY <2>1, <2>2 DEF KeysAt, SlotFor
<1>7. ASSUME NEW a \in f.live, NEW q \in 0..(H[a].num_items - 1), a # e \/ q # p
      PROVE  SlotOK(H2, f2, a, q)
  <2>1. SlotOK(H, f, a, q)
    BY <1>3 DEF NodeOK
  <2>2. SameSlot(H[a], H2[a], q)
    BY <1>1, <1>7 DEF Grown
  <2>3. (a \in Range(t) /\ q = SlotFor(H, a, k)) => q \in H[a].child
    <3> SUFFICES ASSUME a \in Range(t), q = SlotFor(H, a, k) PROVE q \in H[a].child
      OBVIOUS
    <3>1. PICK i \in DOMAIN t : a = t[i]
      BY DEF Range
    <3>2. PICK l : l = Len(t)
      OBVIOUS
    <3>3. i \in 1..l /\ l \in Nat
      BY <3>1, <3>2 DEF PathFrom
    <3>4. i # l
      BY <1>1, <1>7, <3>1, <3>2
    <3>5. i \in 1..(l - 1)
      BY <3>3, <3>4
    <3> QED
      BY <3>1, <3>2, <3>5 DEF PathFrom
  <2>4. q \in H[a].none => KeysAt(H2[a], f2.own[a], q) = KeysAt(H[a], f.own[a], q)
    <3>1. Shape(H[a])
      BY <1>3 DEF NodeOK
    <3>2. q \in H[a].none => q \notin H[a].child
      BY <3>1 DEF Shape
    <3> QED
      BY <2>3, <3>2, <1>6
  <2>5. q \notin H[a].child => KeysAt(H2[a], f2.own[a], q) = KeysAt(H[a], f.own[a], q)
    BY <2>3, <1>6
  <2>6. ASSUME q \in H[a].child PROVE ChildOK(H2, f2, a, q)
    <3>1. ChildOK(H, f, a, q)
      BY <1>3, <2>6, Children
    <3>2. PICK c : c = H[a].items[q].child
      OBVIOUS
    <3>3. /\ c \in f.live \ f.roots /\ f.parent[c] = <<a, q>>
          /\ f.own[c] = KeysAt(H[a], f.own[a], q) /\ f.rank[c] < f.rank[a]
          /\ H[c].num_items > 1
      BY <3>1, <3>2, <1>2 DEF ChildOK
    <3>4. H2[a].items[q].child = c
      BY <2>2, <3>2 DEF SameSlot
    <3>5. c \in Range(t) <=> a \in Range(t) /\ q = SlotFor(H, a, k)
      BY <2>6, <3>2, ChildOnPath
    <3>6. f2.own[c] = KeysAt(H2[a], f2.own[a], q)
      <4>1. f2.own[c] = IF c \in Range(t) THEN f.own[c] \cup {k} ELSE f.own[c]
        BY <3>3 DEF Grown
      <4>2. PICK Old : Old = KeysAt(H[a], f.own[a], q)
        OBVIOUS
      <4>3. KeysAt(H2[a], f2.own[a], q) = Old \cup (IF c \in Range(t) THEN {k} ELSE {})
        BY <4>2, <3>5, <1>6
      <4> QED
        BY <4>1, <4>2, <4>3, <3>3
    <3>7. /\ f2.parent[c] = <<a, q>> /\ f2.rank[c] = f.rank[c] + 1 /\ f2.rank[a] = f.rank[a] + 1
          /\ H2[c].num_items = H[c].num_items /\ c \in f2.live \ f2.roots
      BY <3>3 DEF Grown, SameModel
    <3>8. f.rank[c] \in Nat /\ f.rank[a] \in Nat
      BY <3>3 DEF Forest, HeapOK
    <3>9. f2.rank[c] < f2.rank[a]
      BY <3>3, <3>7, <3>8
    <3> QED
      BY <3>3, <3>4, <3>6, <3>7, <3>9 DEF ChildOK
  <2> QED
    BY <2>1, <2>2, <2>4, <2>5, <2>6 DEF SlotOK, SameSlot
<1>8. ASSUME NEW a \in f2.live \ f2.raw PROVE NodeOK(H2, f2, a)
  <2>1. CASE a \in N
    BY <2>1
  <2>2. CASE a \in f.live
    <3>1. /\ Shape(H2[a]) /\ H2[a].num_items = H[a].num_items
          /\ H2[a].size = IF a \in Range(t) THEN H[a].size + 1 ELSE H[a].size
          /\ f2.own[a] = IF a \in Range(t) THEN f.own[a] \cup {k} ELSE f.own[a]
      BY <2>2 DEF Grown, SameModel
    <3>2. H[a].size = Cardinality(f.own[a])
      BY <2>2, <1>3 DEF NodeOK
    <3>3. IsFiniteSet(f.own[a])
      <4>1. f.own[a] \in SUBSET Keys
        BY <2>2 DEF Forest, HeapOK
      <4> QED
        BY <4>1, LippAssumption, FS_Subset
    <3>4. a \in Range(t) => Cardinality(f.own[a] \cup {k}) = Cardinality(f.own[a]) + 1
      BY <2>2, <3>3, <1>5, FS_AddElement
    <3>5. H2[a].size = Cardinality(f2.own[a])
      BY <3>1, <3>2, <3>4
    <3>6. ASSUME NEW q \in 0..(H2[a].num_items - 1) PROVE SlotOK(H2, f2, a, q)
      <4>1. CASE a = e /\ q = p
        BY <4>1, <1>1
      <4>2. CASE a # e \/ q # p
        BY <4>2, <2>2, <3>1, <1>7
      <4> QED
        BY <4>1, <4>2
    <3> QED
      BY <3>1, <3>5, <3>6 DEF NodeOK
  <2> QED
    BY <2>1, <2>2 DEF Grown
<1>9. ASSUME NEW c \in f2.live \ f2.roots PROVE LinkOK(H2, f2, c)
  <2>1. CASE c \in N
    BY <2>1
  <2>2. CASE c \in f.live
    <3>1. c \in f.live \ f.roots
      BY <2>2, <1>9 DEF Grown
    <3>2. PICK a \in f.live \ f.raw : \E q \in H[a].child :
            <<a, q>> # f.gap /\ f.parent[c] = <<a, q>> /\ H[a].items[q].child = c
      BY <3>1 DEF Forest, LinkOK
    <3>3. PICK q \in H[a].child : /\ <<a, q>> # f.gap /\ f.parent[c] = <<a, q>>
                                  /\ H[a].items[q].child = c
      BY <3>2
    <3>4. q \in 0..(H[a].num_items - 1)
      BY <1>3, <3>2 DEF NodeOK, Shape
    <3>5. a # e \/ q # p
      BY <3>3, <1>4
    <3>6. SameSlot(H[a], H2[a], q)
      BY <3>2, <3>4, <3>5, <1>1 DEF Grown
    <3>7. q \in H2[a].child /\ H2[a].items[q].child = c
      BY <3>3, <3>6 DEF SameSlot
    <3>8. a \in f2.live \ f2.raw /\ f2.gap = f.gap /\ f2.parent[c] = <<a, q>>
      BY <1>2, <2>2, <3>2, <3>3 DEF Grown
    <3> QED
      BY <3>3, <3>7, <3>8 DEF LinkOK
  <2> QED
    BY <2>1, <2>2 DEF Grown
<1> QED
  BY <1>8, <1>9 DEF Forest

-----------------------------------------------------------------------------
(* The start of a rebuild. *)

\* A stack with one entry.
LEMMA OneOnStack ==
  ASSUME NEW S, NEW x \in S, NEW s, s = <<x>>
  PROVE  s \in Seq(S) /\ Len(s) = 1 /\ s[1] = x /\ ListOf(NodesOf(s), {x.node})
<1>1. s \in Seq(S) /\ Len(s) = 1 /\ s[1] = x
  OBVIOUS
<1>2. PICK t, R : t = NodesOf(s) /\ R = {x.node}
  OBVIOUS
<1>3. t = [i \in 1..1 |-> s[i].node]
  BY <1>1, <1>2 DEF NodesOf
<1>4. \A i \in 1..1 : t[i] \in R
  BY <1>1, <1>2, <1>3
<1>5. t \in Seq(R) /\ Len(t) = 1
  BY <1>3, <1>4
<1>6. t[1] = x.node
  BY <1>1, <1>3
<1>7. \A i, j \in 1..Len(t) : i = j
  BY <1>5
<1>8. ListOf(t, R)
  BY <1>2, <1>5, <1>6, <1>7 DEF ListOf
<1> QED
  BY <1>1, <1>2, <1>8

\* f2 is f where the child c of slot gap has become a root.
CutOff(f, f2, gap, c) ==
  /\ f2.live = f.live /\ f2.roots = f.roots \cup {c} /\ f2.raw = f.raw /\ f2.gap = gap
  /\ f2.own = f.own /\ f2.rank = f.rank

\* A subtree can be cut off.
LEMMA GapOpened ==
  ASSUME NEW H, NEW P, NEW f, Forest(H, P, f), Whole(f), NEW h \in f.live, NEW q \in H[h].child,
         NEW c, c = H[h].items[q].child
  PROVE  /\ ChildOK(H, f, h, q)
         /\ \E f2 : Forest(H, P, f2) /\ CutOff(f, f2, <<h, q>>, c)
<1>1. PICK f2 : f2 = [live |-> f.live, roots |-> f.roots \cup {c}, raw |-> f.raw, own |-> f.own,
                      rank |-> f.rank, parent |-> f.parent, gap |-> <<h, q>>]
  OBVIOUS
<1>2. /\ f2.live = f.live /\ f2.roots = f.roots \cup {c} /\ f2.raw = f.raw /\ f2.own = f.own
      /\ f2.rank = f.rank /\ f2.parent = f.parent /\ f2.gap = <<h, q>>
  BY <1>1
<1>3. \A a \in f.live : OffGap(f, a) /\ a \in f.live \ f.raw /\ NodeOK(H, f, a)
  BY DEF Forest, HeapOK, OffGap, NoGap, Whole
<1>4. ChildOK(H, f, h, q)
  BY <1>3, Children
<1>5. c \in f.live \ f.roots /\ f.parent[c] = <<h, q>>
  BY <1>4 DEF ChildOK
<1>6. HeapOK(H, P, f2)
  <2>1. HeapOK(H, P, f)
    BY DEF Forest
  <2> QED
    BY <2>1, <1>2, <1>5 DEF HeapOK
<1>7. ASSUME NEW a \in f2.live \ f2.raw PROVE NodeOK(H, f2, a)
  <2>1. NodeOK(H, f, a)
    BY <1>2, <1>3
  <2>2. ASSUME NEW p \in 0..(H[a].num_items - 1) PROVE SlotOK(H, f2, a, p)
    <3>1. SlotOK(H, f, a, p)
      BY <2>1 DEF NodeOK
    <3>2. ASSUME p \in H[a].child, <<a, p>> # f2.gap PROVE ChildOK(H, f2, a, p)
      <4>1. ChildOK(H, f, a, p)
        BY <1>2, <1>3, <3>2, Children
      <4>2. H[a].items[p].child # c
        BY <1>2, <1>5, <3>2, <4>1 DEF ChildOK
      <4> QED
        BY <1>2, <4>1, <4>2 DEF ChildOK
    <3> QED
      BY <1>2, <3>1, <3>2 DEF SlotOK
  <2> QED
    BY <1>2, <2>1, <2>2 DEF NodeOK
<1>8. ASSUME NEW d \in f2.live \ f2.roots PROVE LinkOK(H, f2, d)
  <2>1. d \in f.live \ f.roots /\ d # c
    BY <1>2
  <2>2. PICK a \in f.live \ f.raw : \E p \in H[a].child :
          <<a, p>> # f.gap /\ f.parent[d] = <<a, p>> /\ H[a].items[p].child = d
    BY <2>1 DEF Forest, LinkOK
  <2>3. PICK p \in H[a].child : f.parent[d] = <<a, p>> /\ H[a].items[p].child = d
    BY <2>2
  <2>4. <<a, p>> # <<h, q>>
    BY <2>1, <2>3
  <2> QED
    BY <1>2, <2>2, <2>3, <2>4 DEF LinkOK
<1>9. Forest(H, P, f2)
  BY <1>6, <1>7, <1>8 DEF Forest
<1> QED
  BY <1>2, <1>4, <1>9 DEF CutOff

\* t leads down along the slots of k.
GoesDown(H, f, t, k) ==
  /\ t \in Seq(f.live) /\ Len(t) > 0 /\ t[1] \in f.roots
  /\ \A i \in 1..(Len(t) - 1) : /\ SlotFor(H, t[i], k) \in H[t[i]].child
                                /\ t[i + 1] = Below(H, t[i], k)

\* After an insert the tree is as it should be, or the subtree of a node that has grown
\* too much is taken out of it and the scan begins.
LEMMA RebuildStarts ==
  ASSUME NEW t, RebuildIfNeeded(t), NEW f, Forest(heap', Range(pending_two'), f),
         TheTree(f, contents)', contents' \subseteq Keys, GoesDown(heap', f, t, key)
  PROVE  /\ pc' \in {"idle", "scan"}
         /\ \E f2 : Forest(heap', Range(pending_two'), f2) /\ Stage(f2)'
<1>1. PICK H, P, r, K, l, k : /\ H = heap' /\ P = Range(pending_two') /\ r = root' /\ K = contents'
                              /\ l = Len(t) /\ k = key
  OBVIOUS
<1>2. /\ Forest(H, P, f) /\ Whole(f) /\ f.roots = {r} /\ f.own[r] = K
      /\ f.gap = NoGap /\ f.raw = {}
  BY <1>1 DEF TheTree, Whole
<1>3. /\ l \in Nat /\ l > 0 /\ \A i \in 1..l : t[i] \in f.live
      /\ t[1] = r
      /\ \A i \in 1..(l - 1) : /\ SlotFor(H, t[i], k) \in H[t[i]].child
                               /\ t[i + 1] = Below(H, t[i], k)
  <2>1. PICK L : L = f.live
    OBVIOUS
  <2>2. t \in Seq(L) /\ Len(t) > 0
    BY <2>1 DEF GoesDown
  <2>3. l \in Nat /\ l > 0 /\ \A i \in 1..l : t[i] \in L
    BY <2>2, <1>1
  <2> QED
    BY <2>1, <2>3, <1>1, <1>2 DEF GoesDown
<1>4. PICK needs : needs = {n \in 1..l : NeedsRebuild(H[t[n]])}
  OBVIOUS
<1>5. \A a \in f.live : a \in Nat \ {0} /\ NodeOK(H, f, a)
  BY <1>2 DEF Forest, HeapOK
<1>6. CASE needs = {}
  <2>1. pc' = "idle"
    BY <1>1, <1>4, <1>6 DEF RebuildIfNeeded
  <2>2. Stage(f)'
    BY <2>1 DEF Stage
  <2> QED
    BY <2>1, <2>2
<1>7. CASE needs # {}
  <2>1. PICK n : n = Min(needs)
    OBVIOUS
  <2>2. n \in 1..l /\ NeedsRebuild(H[t[n]])
    <3>1. needs \in SUBSET Int /\ \A x \in needs : 1 <= x
      BY <1>4
    <3>2. n \in needs
      BY <1>7, <2>1, <3>1, 1 \in Int, LeastElement, Zenon
    <3> QED
      BY <3>2, <1>4
  <2>3. PICK b : b = t[n]
    OBVIOUS
  <2>4. b \in f.live /\ b \in Nat \ {0}
    BY <2>2, <2>3, <1>3, <1>5
  <2>5. /\ pc' = "scan" /\ key' = k /\ stack' = <<[begin |-> 0, node |-> b]>>
        /\ entries' = [i \in 0..(H[b].size - 1) |-> Unwritten]
        /\ hook' = IF n = 1 THEN 0 ELSE t[n - 1]
    BY <1>1, <1>4, <1>7, <2>1, <2>3 DEF RebuildIfNeeded
  <2>6. H[b].size = Cardinality(f.own[b]) /\ Cardinality(f.own[b]) > 2 /\ f.own[b] \subseteq Keys
    <3>1. H[b].size = Cardinality(f.own[b]) /\ f.own[b] \in SUBSET Keys
      BY <1>2, <1>5, <2>4 DEF NodeOK, Forest, HeapOK
    <3>2. Cardinality(f.own[b]) \in Nat
      BY <3>1, LippAssumption, FS_Subset, FS_CardinalityType
    <3> QED
      BY <3>1, <3>2, <2>2, <2>3, LippAssumption DEF NeedsRebuild
  <2>7. PICK s : s = stack'
    OBVIOUS
  <2>8. /\ s \in Seq([begin : Nat, node : Nat]) /\ Len(s) = 1 /\ s[1].node = b /\ s[1].begin = 0
        /\ ListOf(NodesOf(s), {b})
    <3>1. PICK x : x = [begin |-> 0, node |-> b]
      OBVIOUS
    <3>2. x \in [begin : Nat, node : Nat] /\ x.node = b /\ x.begin = 0 /\ s = <<x>>
      BY <3>1, <2>4, <2>5, <2>7
    <3> QED
      BY <3>2, OneOnStack
  <2>9. \A k2 \in f.own[b] : Rank(f.own[b], k2) = s[1].begin + Rank(f.own[b], k2)
    <3>1. \A k2 \in f.own[b] : Rank(f.own[b], k2) \in Nat
      <4>1. f.own[b] \in SUBSET Keys
        BY <2>6
      <4> QED
        BY <4>1, KeySets
    <3> QED
      BY <3>1, <2>8
  <2>10. CASE n = 1
    <3>1. b = r /\ hook' = 0
      BY <2>3, <2>5, <2>10, <1>3
    <3>2. OldKeys(f)' = f.own[b] /\ Outside' = {}
      BY <3>1, <1>1, <1>2 DEF OldKeys, Outside
    <3>3. Around(f)'
      BY <1>2, <2>6, <3>1, <3>2 DEF Around
    <3>4. Scanned(f, s[1])'
      BY <2>8, <2>9, <3>1, <3>2 DEF Scanned
    <3>5. ListOf(NodesOf(s), f.roots \ Outside')
      BY <1>2, <2>8, <3>1, <3>2
    <3>6. DOMAIN entries' = 0..(Cardinality(f.own[b]) - 1)
      BY <2>5, <2>6
    <3>7. \A k2 \in f.own[b] : \E i \in 1..Len(s) : k2 \in f.own[s[i].node]
      BY <2>8
    <3>8. \A i \in 1..Len(s) : Scanned(f, s[i])'
      BY <2>8, <3>4
    <3>9. Scanning(f)'
      BY <1>2, <2>7, <2>8, <3>2, <3>3, <3>5, <3>6, <3>7, <3>8 DEF Scanning
    <3>10. Stage(f)'
      BY <2>5, <3>9 DEF Stage
    <3> QED
      BY <2>5, <3>10
  <2>11. CASE n # 1
    <3>1. PICK h, q : h = t[n - 1] /\ q = SlotFor(H, h, k)
      OBVIOUS
    <3>2. n - 1 \in 1..(l - 1) /\ n - 1 \in 1..l /\ (n - 1) + 1 = n
      <4>1. l \in Nat /\ n \in 1..l /\ n # 1
        BY <1>3, <2>2, <2>11
      <4> QED
        BY <4>1
    <3>3. h \in f.live /\ q \in H[h].child /\ b = H[h].items[q].child
      BY <1>3, <2>3, <3>1, <3>2 DEF Below
    <3>4. hook' = h /\ h # 0
      BY <2>5, <2>11, <3>1, <3>3, <1>5
    <3>5. PICK f2 : Forest(H, P, f2) /\ CutOff(f, f2, <<h, q>>, b)
      BY <1>2, <3>3, GapOpened
    <3>6. /\ f2.live = f.live /\ f2.roots = {r, b} /\ f2.raw = {} /\ f2.gap = <<h, q>>
          /\ f2.own = f.own /\ f2.rank = f.rank
      BY <1>2, <3>5 DEF CutOff
    <3>7. b # r /\ f.own[b] = KeysAt(H[h], f.own[h], q) /\ f.rank[b] < f.rank[h]
      <4>1. ChildOK(H, f, h, q)
        BY <1>2, <3>3, GapOpened
      <4> QED
        BY <4>1, <3>3, <1>2 DEF ChildOK
    <3>8. Place' = <<h, q>> /\ Place[2]' = q
      BY <1>1, <2>5, <3>1, <3>4 DEF Place, SlotFor
    <3>9. OldKeys(f2)' = f.own[b] /\ Outside' = {r}
      BY <1>1, <3>4, <3>6, <3>7, <3>8 DEF OldKeys, Outside
    <3>10. Around(f2)'
      BY <1>1, <1>2, <2>6, <3>3, <3>4, <3>6, <3>8, <3>9 DEF Around
    <3>11. Scanned(f2, s[1])'
      BY <2>8, <2>9, <3>4, <3>6, <3>7, <3>9 DEF Scanned
    <3>12. ListOf(NodesOf(s), f2.roots \ Outside')
      <4>1. f2.roots \ Outside' = {b}
        BY <3>6, <3>7, <3>9
      <4> QED
        BY <2>8, <4>1
    <3>13. DOMAIN entries' = 0..(Cardinality(f.own[b]) - 1)
      BY <2>5, <2>6
    <3>14. \A k2 \in f.own[b] : \E i \in 1..Len(s) : k2 \in f2.own[s[i].node]
      BY <2>8, <3>6
    <3>15. \A i \in 1..Len(s) : Scanned(f2, s[i])'
      BY <2>8, <3>11
    <3>16. Scanning(f2)'
      BY <2>7, <2>8, <3>6, <3>9, <3>10, <3>12, <3>13, <3>14, <3>15 DEF Scanning
    <3>17. Stage(f2)'
      BY <2>5, <3>16 DEF Stage
    <3> QED
      BY <1>1, <2>5, <3>5, <3>17
  <2> QED
    BY <2>10, <2>11
<1> QED
  BY <1>6, <1>7

-----------------------------------------------------------------------------
(* insert_tree. *)

\* m is the node n with one more key below it, where only the slots Q have changed.
Changed(n, m, Q) ==
  /\ m \in Node /\ m.size = n.size + 1 /\ SameModel(n, m)
  /\ m.is_two = n.is_two /\ m.build_size = n.build_size /\ DOMAIN m.items = DOMAIN n.items
  /\ m.none \subseteq n.none /\ m.child \subseteq n.child \cup Q /\ m.child \cap m.none = {}
  /\ \A q : q \notin Q => (q \in m.none <=> q \in n.none)
  /\ \A q \in DOMAIN n.items : q \notin Q => SameSlot(n, m, q)

\* An insert into slots of Q leaves the fields of a node in agreement.
LEMMA ChangedShape ==
  ASSUME NEW n, NEW m, NEW Q, Shape(n), Changed(n, m, Q), Q \subseteq 0..(n.num_items - 1)
  PROVE  Shape(m)
<1>1. Slotted(m) /\ m.num_items = n.num_items /\ DOMAIN m.items = 0..(m.num_items - 1)
  BY DEF Shape, Slotted, Changed, SameModel
<1>2. m.child \subseteq 0..(m.num_items - 1) /\ m.none \subseteq Bits(m.num_items)
  BY <1>1 DEF Shape, Changed
<1>3. m.num_items > 1 => Bits(m.num_items) \ m.none \subseteq 0..(m.num_items - 1)
  <2> SUFFICES ASSUME m.num_items > 1, NEW q \in Bits(m.num_items) \ m.none
               PROVE  q \in 0..(m.num_items - 1)
    OBVIOUS
  <2>1. CASE q \in Q
    BY <2>1, <1>1
  <2>2. CASE q \notin Q
    <3>1. q \notin n.none
      BY <2>2 DEF Changed
    <3> QED
      BY <3>1, <1>1 DEF Shape
  <2> QED
    BY <2>1, <2>2
<1> QED
  BY <1>1, <1>2, <1>3 DEF Shape, Changed

\* The description of the forest when k has been added along t.
Deeper(f, f2, t, k) ==
  /\ f2.roots = f.roots /\ f2.raw = {} /\ f2.gap = NoGap
  /\ \A a \in f.live :
       /\ f2.own[a] = IF a \in Range(t) THEN f.own[a] \cup {k} ELSE f.own[a]
       /\ f2.rank[a] = f.rank[a] + 1 /\ f2.parent[a] = f.parent[a]

\* When the nodes of the path have one key more each and their shape, every node off the path
\* is as it was and the new nodes are right, the forest has the key.
LEMMA PathGrows ==
  ASSUME NEW H, NEW P, NEW f, Forest(H, P, f), Whole(f), NEW k \in Nat, NEW t, NEW r \in f.roots,
         PathFrom(H, f, t, r, k), NEW e, e = t[Len(t)],
         NEW H2, NEW f2, NEW N, Deeper(f, f2, t, k), f2.live = f.live \cup N, N \cap f.live = {},
         \A a \in f.live \ Range(t) : H2[a] = H[a],
         \A a \in Range(t) \ {e} : Changed(H[a], H2[a], {}),
         Changed(H[e], H2[e], {SlotFor(H, e, k)})
  PROVE  Grown(H, f, H2, f2, t, k, N)
<1>1. \A a \in f.live : NodeOK(H, f, a)
  BY DEF Forest, Whole
<1>2. SlotFor(H, e, k) \in 0..(H[e].num_items - 1)
  BY PathEnd
<1>3. ASSUME NEW a \in f.live
      PROVE  /\ Shape(H2[a]) /\ SameModel(H[a], H2[a])
             /\ H2[a].size = IF a \in Range(t) THEN H[a].size + 1 ELSE H[a].size
             /\ \A q \in 0..(H[a].num_items - 1) :
                  a # t[Len(t)] \/ q # SlotFor(H, a, k) => SameSlot(H[a], H2[a], q)
  <2>1. Shape(H[a])
    BY <1>1 DEF NodeOK
  <2>2. CASE a \notin Range(t)
    BY <2>1, <2>2 DEF SameModel, SameSlot
  <2>3. CASE a \in Range(t) /\ a # e
    <3>1. Changed(H[a], H2[a], {})
      BY <2>3
    <3>2. Shape(H2[a])
      BY <2>1, <3>1, ChangedShape
    <3> QED
      BY <2>1, <2>3, <3>1, <3>2 DEF Changed, Shape
  <2>4. CASE a \in Range(t) /\ a = e
    <3>1. Changed(H[a], H2[a], {SlotFor(H, a, k)})
      BY <2>4
    <3>2. Shape(H2[a])
      BY <2>1, <2>4, <3>1, <1>2, ChangedShape
    <3> QED
      BY <2>1, <2>4, <3>1, <3>2 DEF Changed, Shape
  <2> QED
    BY <2>2, <2>3, <2>4
<1> QED
  BY <1>3 DEF Grown, Deeper

\* The counters of a node on the path.
Plus(n, d) == [n EXCEPT !.size = @ + 1, !.num_inserts = @ + 1, !.num_insert_to_data = @ + d]

\* What counting an insert changes.
LEMMA PlusIs ==
  ASSUME NEW n \in Node, NEW d \in Nat
  PROVE  /\ Plus(n, d) \in Node /\ Plus(n, d).size = n.size + 1 /\ SameModel(n, Plus(n, d))
         /\ Plus(n, d).is_two = n.is_two /\ Plus(n, d).build_size = n.build_size
         /\ Plus(n, d).items = n.items /\ Plus(n, d).none = n.none /\ Plus(n, d).child = n.child
<1>1. n.size + 1 \in Nat /\ n.num_inserts + 1 \in Nat /\ n.num_insert_to_data + d \in Nat
  BY DEF Node
<1>2. PICK a, b, c : a = n.size + 1 /\ b = n.num_inserts + 1 /\ c = n.num_insert_to_data + d
  OBVIOUS
<1>3. Plus(n, d) = [n EXCEPT !.size = a, !.num_inserts = b, !.num_insert_to_data = c]
  BY <1>2 DEF Plus
<1>4. a \in Nat /\ b \in Nat /\ c \in Nat
  BY <1>1, <1>2
<1>5. [n EXCEPT !.size = a, !.num_inserts = b, !.num_insert_to_data = c] \in Node
  BY <1>4 DEF Node
<1>6. PICK m : m = [n EXCEPT !.size = a, !.num_inserts = b, !.num_insert_to_data = c]
  OBVIOUS
<1>7. /\ m.size = a /\ m.num_items = n.num_items /\ m.model = n.model
      /\ m.is_two = n.is_two /\ m.build_size = n.build_size
      /\ m.items = n.items /\ m.none = n.none /\ m.child = n.child
  BY <1>6 DEF Node
<1> QED
  BY <1>2, <1>3, <1>5, <1>6, <1>7 DEF SameModel

\* A node of the path above the last one.
LEMMA PlusChanged ==
  ASSUME NEW n, Shape(n), NEW d \in Nat
  PROVE  Changed(n, Plus(n, d), {})
<1>1. n \in Node /\ n.child \cap n.none = {}
  BY DEF Shape, Slotted
<1> QED
  BY <1>1, PlusIs DEF Changed, SameSlot

\* The last node of the path: slot p gets x, and is no longer empty; C are the children.
Written(n, d, p, C, x) ==
  [Plus(n, d) EXCEPT !.none = n.none \ {p}, !.child = C, !.items = [n.items EXCEPT ![p] = x]]

\* m is n after an item x has come into slot p.
Filled(n, m, p, C, x) ==
  Changed(n, m, {p}) /\ m.none = n.none \ {p} /\ m.child = C /\ m.items[p] = x

\* Writing a slot changes the node in that slot only.
LEMMA SlotChanged ==
  ASSUME NEW n, Shape(n), NEW d \in Nat, NEW p \in DOMAIN n.items, NEW x \in Item,
         NEW C, C = n.child \/ C = n.child \cup {p}
  PROVE  Filled(n, Written(n, d, p, C, x), p, C, x)
<1> PICK m : m = Written(n, d, p, C, x)
  OBVIOUS
<1>1. /\ n \in Node /\ n.child \cap n.none = {} /\ n.items \in Items /\ DOMAIN n.items = 0..(n.num_items - 1)
      /\ n.num_items \in Nat /\ n.none \subseteq Nat /\ n.child \subseteq Nat
  BY DEF Shape, Slotted, Node
<1>2. PICK b, t : b = Plus(n, d) /\ t = [n.items EXCEPT ![p] = x]
  OBVIOUS
<1>3. /\ b \in Node /\ b.size = n.size + 1 /\ SameModel(n, b) /\ b.is_two = n.is_two
      /\ b.build_size = n.build_size /\ b.items = n.items /\ b.none = n.none /\ b.child = n.child
  BY <1>1, <1>2, PlusIs
<1>4. t \in Items /\ DOMAIN t = DOMAIN n.items /\ t[p] = x
      /\ \A q \in DOMAIN n.items : q # p => t[q] = n.items[q]
  <2>1. t \in Items
    BY <1>1, <1>2, ItemArrays
  <2>2. DOMAIN t = DOMAIN n.items /\ t[p] = x
    BY <1>1, <1>2
  <2>3. ASSUME NEW q \in DOMAIN n.items, q # p PROVE t[q] = n.items[q]
    BY <1>2, <2>3
  <2> QED
    BY <2>1, <2>2, <2>3
<1>5. C \in SUBSET Nat /\ n.none \ {p} \in SUBSET Nat
  BY <1>1
<1>6. m = [b EXCEPT !.none = n.none \ {p}, !.child = C, !.items = t]
  BY <1>2 DEF Written
<1>7. /\ m \in Node /\ m.size = b.size /\ m.num_items = b.num_items /\ m.model = b.model
      /\ m.is_two = b.is_two /\ m.build_size = b.build_size
      /\ m.none = n.none \ {p} /\ m.child = C /\ m.items = t
  BY <1>3, <1>4, <1>5, <1>6 DEF Node
<1>8. /\ \A q \in DOMAIN n.items : q \notin {p} => SameSlot(n, m, q)
      /\ \A q : q \notin {p} => (q \in m.none <=> q \in n.none)
  BY <1>4, <1>7 DEF SameSlot
<1>9. m.child \cap m.none = {}
  BY <1>1, <1>7
<1> QED
  BY <1>3, <1>4, <1>7, <1>8, <1>9 DEF Changed, SameModel, Filled

\* The nodes of a path.
LEMMA PathRange ==
  ASSUME NEW H, NEW f, NEW t, NEW r, NEW k, PathFrom(H, f, t, r, k)
  PROVE  Range(t) \subseteq f.live /\ t[Len(t)] \in Range(t) /\ r \in Range(t)
<1>1. PICK L : L = f.live
  OBVIOUS
<1>2. t \in Seq(L) /\ Len(t) > 0 /\ t[1] = r
  BY <1>1 DEF PathFrom
<1>3. Len(t) \in DOMAIN t /\ 1 \in DOMAIN t /\ \A i \in DOMAIN t : t[i] \in L
  BY <1>2
<1> QED
  BY <1>1, <1>2, <1>3 DEF Range

\* The types of a forest that has grown.
LEMMA DeeperTypes ==
  ASSUME NEW H, NEW P, NEW f, HeapOK(H, P, f), NEW f2, NEW t, NEW k \in Keys, Deeper(f, f2, t, k)
  PROVE  \A a \in f.live : f2.own[a] \subseteq Keys /\ f2.rank[a] \in Nat
<1> SUFFICES ASSUME NEW a \in f.live PROVE f2.own[a] \subseteq Keys /\ f2.rank[a] \in Nat
  OBVIOUS
<1>1. PICK O, d : O = f.own[a] /\ d = f.rank[a]
  OBVIOUS
<1>2. O \subseteq Keys /\ d \in Nat
  BY <1>1 DEF HeapOK
<1>3. (f2.own[a] = IF a \in Range(t) THEN O \cup {k} ELSE O) /\ f2.rank[a] = d + 1
  BY <1>1 DEF Deeper
<1> QED
  BY <1>2, <1>3

\* What an insert finds.
LEMMA InsertFinds ==
  ASSUME IInv, pc = "insert"
  PROVE  /\ key \in contents /\ contents \subseteq Keys /\ key \in Keys /\ key \in Nat
         /\ \E f : /\ Forest(heap, Range(pending_two), f) /\ Whole(f) /\ f.roots = {root}
                   /\ f.own[root] = contents \ {key} /\ root \in f.live
                   /\ PathFrom(heap, f, Path(key), root, key)
<1>1. PICK f : Forest(heap, Range(pending_two), f) /\ Stage(f)
  BY DEF IInv
<1>2. key \in contents /\ contents \subseteq Keys /\ TheTree(f, contents \ {key})
  BY <1>1 DEF IInv, Stage
<1>3. key \in Keys /\ key \in Nat
  BY <1>2, LippAssumption
<1>4. Whole(f) /\ f.roots = {root} /\ f.own[root] = contents \ {key} /\ root \in f.live
  BY <1>1, <1>2 DEF TheTree, Whole, Forest, HeapOK
<1>5. PathFrom(heap, f, Path(key), root, key)
  BY <1>1, <1>4, PathIs
<1> QED
  BY <1>1, <1>2, <1>3, <1>4, <1>5

\* The old path still leads down after the key has been added.
LEMMA StillDown ==
  ASSUME NEW H, NEW f, NEW t, NEW r \in f.roots, NEW k, PathFrom(H, f, t, r, k),
         NEW H2, NEW f2, NEW N, Grown(H, f, H2, f2, t, k, N), k \in Nat,
         NEW P, Forest(H, P, f)
  PROVE  GoesDown(H2, f2, t, k)
<1>1. PICK l, e : l = Len(t) /\ e = t[l]
  OBVIOUS
<1>2. /\ l \in Nat /\ l > 0 /\ t \in Seq(f2.live) /\ \A i \in 1..l : t[i] \in f.live
  <2>1. PICK L, L2 : L = f.live /\ L2 = f2.live
    OBVIOUS
  <2>2. t \in Seq(L) /\ L \subseteq L2 /\ Len(t) > 0
    BY <2>1 DEF PathFrom, Grown
  <2>3. l \in Nat /\ l > 0 /\ t \in Seq(L2) /\ \A i \in 1..l : t[i] \in L
    BY <2>2, <1>1
  <2> QED
    BY <2>1, <2>3
<1>3. t[1] \in f2.roots
  BY DEF PathFrom, Grown
<1>4. ASSUME NEW i \in 1..(l - 1)
      PROVE  SlotFor(H2, t[i], k) \in H2[t[i]].child /\ t[i + 1] = Below(H2, t[i], k)
  <2>1. PICK a, q : a = t[i] /\ q = SlotFor(H, a, k)
    OBVIOUS
  <2>2. i \in 1..l /\ a \in f.live
    BY <1>2, <2>1
  <2>3. q \in H[a].child /\ t[i + 1] = H[a].items[q].child
    BY <1>1, <2>1 DEF PathFrom, Below
  <2>4. SlotFor(H, e, k) \notin H[e].child
    BY <1>1 DEF PathFrom
  <2>5. a # e
    BY <2>1, <2>3, <2>4
  <2>6. SameModel(H[a], H2[a])
    BY <2>2 DEF Grown
  <2>7. SlotFor(H2, a, k) = q
    BY <2>1, <2>6, SameKeys DEF SlotFor
  <2>8. a \notin f.raw
    <3>1. SlotFor(H, a, k) \in H[a].child
      BY <2>1, <2>3
    <3>2. a \in f.raw => H[a].child = {}
      BY NewNodes DEF Forest, HeapOK
    <3> QED
      BY <3>1, <3>2
  <2>9. Shape(H[a])
    BY <2>2, <2>8 DEF Forest, NodeOK
  <2>10. q \in 0..(H[a].num_items - 1)
    BY <2>3, <2>9 DEF Shape
  <2>11. SameSlot(H[a], H2[a], q)
    BY <1>1, <2>2, <2>5, <2>10 DEF Grown
  <2> QED
    BY <2>1, <2>3, <2>7, <2>11 DEF SameSlot, Below
<1> QED
  BY <1>1, <1>2, <1>3, <1>4 DEF GoesDown

\* insert_tree where the slot of the key is empty.
LEMMA InsertIntoFreeSlotHolds ==
  ASSUME IInv, InsertIntoFreeSlot
  PROVE  IInv' /\ failed' = (failed \/ Len(Path(key)) > MaxDepth)
<1>1. /\ pc = "insert" /\ Pool /\ failed \in BOOLEAN
      /\ root' = root /\ pending_two' = pending_two /\ contents' = contents
  BY DEF IInv, InsertIntoFreeSlot
<1>2. key \in contents /\ contents \subseteq Keys /\ key \in Keys /\ key \in Nat
  BY <1>1, InsertFinds
<1>3. PICK f : /\ Forest(heap, Range(pending_two), f) /\ Whole(f) /\ f.roots = {root}
               /\ f.own[root] = contents \ {key} /\ root \in f.live
               /\ PathFrom(heap, f, Path(key), root, key)
  BY <1>1, InsertFinds
<1>4. PICK H, P, t, k, r, e, p : /\ H = heap /\ P = Range(pending_two) /\ t = Path(key) /\ k = key
                                 /\ r = root /\ e = t[Len(t)] /\ p = SlotFor(H, e, k)
  OBVIOUS
<1>5. /\ Forest(H, P, f) /\ PathFrom(H, f, t, r, k) /\ r \in f.roots /\ k \in Nat /\ k \in Keys
      /\ f.roots = {r} /\ f.own[r] = contents \ {k} /\ k \notin f.own[r]
  BY <1>2, <1>3, <1>4
<1>6. /\ p \in H[e].none
      /\ heap' = [Counted(t, 0) EXCEPT ![e].none = @ \ {p}, ![e].items = [@ EXCEPT ![p] = Data(k)]]
      /\ RebuildIfNeeded(t) /\ failed' = (failed \/ Len(t) > MaxDepth)
  BY <1>4 DEF InsertIntoFreeSlot, Last, SlotFor
<1>7. /\ e \in f.live /\ Shape(H[e]) /\ p \in 0..(H[e].num_items - 1)
      /\ p \notin H[e].child /\ SlotOK(H, f, e, p) /\ f.own[e] \subseteq f.own[r]
  BY <1>3, <1>4, <1>5, PathEnd
<1>8. PICK H2, f2 : /\ H2 = heap'
                    /\ f2 = [live |-> f.live, roots |-> f.roots, raw |-> {}, gap |-> NoGap,
                             own |-> [a \in f.live |-> IF a \in Range(t) THEN f.own[a] \cup {k} ELSE f.own[a]],
                             rank |-> [a \in f.live |-> f.rank[a] + 1], parent |-> f.parent]
  OBVIOUS
<1>9. /\ f2.live = f.live /\ f2.roots = f.roots /\ f2.raw = {} /\ f2.gap = NoGap
      /\ \A a \in f.live :
           /\ f2.own[a] = IF a \in Range(t) THEN f.own[a] \cup {k} ELSE f.own[a]
           /\ f2.rank[a] = f.rank[a] + 1 /\ f2.parent[a] = f.parent[a]
  BY <1>8
<1>10. Deeper(f, f2, t, k)
  BY <1>9 DEF Deeper
<1>11. f.live \subseteq DOMAIN H /\ f.live = DOMAIN H \ P /\ \A a \in f.live : Shape(H[a])
  BY <1>3, <1>5 DEF Forest, HeapOK, Whole, NodeOK
<1>12. Range(t) \subseteq f.live /\ e \in Range(t)
  BY <1>4, <1>5, PathRange
<1>13. PICK G : G = Counted(t, 0)
  OBVIOUS
<1>14. /\ DOMAIN G = DOMAIN H
       /\ \A a \in DOMAIN H : G[a] = IF a \in Range(t) THEN Plus(H[a], 0) ELSE H[a]
  BY <1>4, <1>13 DEF Counted, Plus
<1>15. /\ DOMAIN H2 = DOMAIN H /\ \A a \in DOMAIN H : a # e => H2[a] = G[a]
       /\ H2[e] = [G[e] EXCEPT !.none = G[e].none \ {p}, !.items = [G[e].items EXCEPT ![p] = Data(k)]]
  <2>1. H2 = [G EXCEPT ![e].none = @ \ {p}, ![e].items = [@ EXCEPT ![p] = Data(k)]]
    BY <1>6, <1>8, <1>13
  <2>2. DOMAIN H2 = DOMAIN H /\ \A a \in DOMAIN H : a # e => H2[a] = G[a]
    BY <2>1, <1>14
  <2>3. H2[e] = [G[e] EXCEPT !.none = G[e].none \ {p}, !.items = [G[e].items EXCEPT ![p] = Data(k)]]
    BY <2>1, <1>7, <1>11, <1>14
  <2> QED
    BY <2>2, <2>3
<1>16. /\ Changed(H[e], H2[e], {p}) /\ H2[e].none = H[e].none \ {p} /\ H2[e].child = H[e].child
       /\ H2[e].items[p] = Data(k)
  <2>1. PICK n, m : n = H[e] /\ m = Plus(n, 0)
    OBVIOUS
  <2>2. Shape(n) /\ n \in Node /\ G[e] = m
    BY <2>1, <1>7, <1>11, <1>12, <1>14 DEF Shape, Slotted
  <2>3. m.items = n.items /\ m.none = n.none /\ m.child = n.child /\ m \in Node
    BY <2>1, <2>2, PlusIs
  <2>4. H2[e] = [m EXCEPT !.none = n.none \ {p}, !.items = [n.items EXCEPT ![p] = Data(k)]]
    BY <2>2, <2>3, <1>15
  <2>5. H2[e] = [m EXCEPT !.none = n.none \ {p}, !.child = n.child,
                          !.items = [n.items EXCEPT ![p] = Data(k)]]
    BY <2>3, <2>4 DEF Node
  <2>6. Data(k) \in Item
    BY <1>5, ItemTypes
  <2>7. PICK o, C : o = H2[e] /\ C = n.child
    OBVIOUS
  <2>8. /\ o = Written(n, 0, p, C, Data(k))
        /\ C = n.child /\ p \in DOMAIN n.items
    BY <2>1, <2>5, <2>7, <1>7 DEF Written, Shape
  <2>9. Changed(n, o, {p}) /\ o.none = n.none \ {p} /\ o.child = C /\ o.items[p] = Data(k)
    <3>1. Filled(n, Written(n, 0, p, C, Data(k)), p, C, Data(k))
      BY <2>2, <2>6, <2>8, SlotChanged
    <3> QED
      BY <3>1, <2>8 DEF Filled
  <2> QED
    BY <2>1, <2>7, <2>9
<1>17. /\ \A a \in f.live \ Range(t) : H2[a] = H[a]
       /\ \A a \in Range(t) \ {e} : Changed(H[a], H2[a], {})
  <2>1. ASSUME NEW a \in Range(t) \ {e} PROVE Changed(H[a], H2[a], {})
    <3>1. H2[a] = Plus(H[a], 0) /\ Shape(H[a])
      BY <1>11, <1>12, <1>14, <1>15
    <3> QED
      BY <3>1, PlusChanged
  <2> QED
    BY <2>1, <1>11, <1>12, <1>14, <1>15
<1>18. Grown(H, f, H2, f2, t, k, {})
  <2>1. f2.live = f.live \cup {} /\ {} \cap f.live = {}
    BY <1>9
  <2>2. Changed(H[e], H2[e], {SlotFor(H, e, k)}) /\ e = t[Len(t)] /\ Whole(f)
    BY <1>3, <1>4, <1>16
  <2> QED
    BY <2>1, <2>2, <1>5, <1>10, <1>17, PathGrows
<1>19. HeapOK(H2, P, f2)
  <2>1. HeapOK(H, P, f)
    BY <1>5 DEF Forest
  <2>2. \A a \in DOMAIN H : a \notin f.live => H2[a] = H[a]
    BY <1>7, <1>12, <1>14, <1>15
  <2>3. \A a \in f.live : H2[a] \in Node
    BY <1>18 DEF Grown, Shape, Slotted
  <2>4. \A a \in f.live : f2.own[a] \subseteq Keys /\ f2.rank[a] \in Nat
    BY <2>1, <1>5, <1>10, DeeperTypes
  <2>5. \A a \in P : PoolNode(H2[a])
    BY <2>1, <2>2, <1>11 DEF HeapOK
  <2>6. \A a \in DOMAIN H : H2[a] \in Node
    BY <2>1, <2>2, <2>3 DEF HeapOK
  <2> QED
    BY <2>1, <2>4, <2>5, <2>6, <1>9, <1>15 DEF HeapOK
<1>20. SlotOK(H2, f2, e, p)
  <2>1. KeysAt(H[e], f.own[e], p) = {}
    BY <1>6, <1>7 DEF SlotOK
  <2>2. f2.own[e] = f.own[e] \cup {k}
    BY <1>7, <1>9, <1>12
  <2>3. \A x : Predict(H2[e], x) = Predict(H[e], x)
    BY <1>16, SameKeys DEF Changed
  <2>4. KeysAt(H2[e], f2.own[e], p) = {k}
    BY <2>1, <2>2, <2>3, <1>4 DEF KeysAt, SlotFor
  <2> QED
    BY <2>4, <1>5, <1>7, <1>16 DEF SlotOK
<1>21. Forest(H2, P, f2)
  BY <1>3, <1>4, <1>5, <1>18, <1>19, <1>20, KeyAdded
<1>22. TheTree(f2, contents)'
  <2>1. r \in Range(t) /\ r \in f.live
    BY <1>3, <1>4, <1>5, PathRange
  <2>2. f2.own[r] = f.own[r] \cup {k}
    BY <2>1, <1>9
  <2>3. f2.own[r] = contents
    BY <2>2, <1>2, <1>4, <1>5
  <2> QED
    BY <2>3, <1>1, <1>4, <1>5, <1>9 DEF TheTree
<1>23. GoesDown(H2, f2, t, k)
  BY <1>5, <1>18, StillDown
<1>24. /\ pc' \in {"idle", "scan"}
       /\ \E f3 : Forest(heap', Range(pending_two'), f3) /\ Stage(f3)'
  BY <1>1, <1>2, <1>4, <1>6, <1>8, <1>21, <1>22, <1>23, RebuildStarts
<1>25. failed' = (failed \/ Len(Path(key)) > MaxDepth) /\ failed' \in BOOLEAN
  BY <1>4, <1>6
<1> QED
  BY <1>1, <1>2, <1>24, <1>25 DEF IInv, Pool, States

\* A node for two keys has them below it.
LEMMA TwoHeld ==
  ASSUME NEW H, NEW f, NEW a, NEW k \in Keys, NEW l \in Keys, k # l, HoldsTwo(H[a], k, l),
         f.own[a] = {k, l}
  PROVE  NodeOK(H, f, a) /\ H[a].num_items > 1
<1>1. PICK n, p, q : n = H[a] /\ p = Predict(n, k) /\ q = Predict(n, l)
  OBVIOUS
<1>2. /\ Shape(n) /\ n.size = 2 /\ n.num_items = 8 /\ n.child = {} /\ p # q
      /\ n.none = (0..7) \ {p, q} /\ n.items[p] = Data(k) /\ n.items[q] = Data(l)
  BY <1>1, BitsOfTwo DEF HoldsTwo, TwoItems
<1>3. Cardinality({k, l}) = 2
  <2>1. Cardinality({k}) = 1 /\ IsFiniteSet({k})
    BY FS_Singleton
  <2>2. Cardinality({k} \cup {l}) = Cardinality({k}) + 1
    BY <2>1, FS_AddElement
  <2>3. {k} \cup {l} = {k, l}
    OBVIOUS
  <2> QED
    BY <2>1, <2>2, <2>3
<1>4. \A x : KeysAt(n, {k, l}, x) = {y \in {k, l} : (y = k /\ x = p) \/ (y = l /\ x = q)}
  BY <1>1 DEF KeysAt
<1>5. KeysAt(n, {k, l}, p) = {k} /\ KeysAt(n, {k, l}, q) = {l}
  BY <1>2, <1>4
<1>6. \A x : x # p /\ x # q => KeysAt(n, {k, l}, x) = {}
  BY <1>4
<1>7. ASSUME NEW x \in 0..(H[a].num_items - 1) PROVE SlotOK(H, f, a, x)
  <2>1. x \in 0..7
    BY <1>1, <1>2
  <2>2. CASE x = p
    BY <2>2, <1>1, <1>2, <1>5 DEF SlotOK
  <2>3. CASE x = q
    BY <2>3, <1>1, <1>2, <1>5 DEF SlotOK
  <2>4. CASE x # p /\ x # q
    <3>1. x \in n.none /\ KeysAt(n, {k, l}, x) = {}
      BY <2>1, <2>4, <1>2, <1>6
    <3> QED
      BY <3>1, <1>1, <1>2 DEF SlotOK
  <2> QED
    BY <2>2, <2>3, <2>4
<1> QED
  BY <1>1, <1>2, <1>3, <1>7 DEF NodeOK

\* Where build_tree_two puts its node: at an address that is not in use.
LEMMA TwoPlace ==
  ASSUME NEW f, Forest(heap, Range(pending_two), f), Pool
  PROVE  /\ TwoAddress \in Nat \ {0} /\ TwoAddress \notin f.live
         /\ TwoAddress \in DOMAIN heap <=> TwoAddress \in Range(pending_two)
         /\ PoolAfterTwo \in Seq(Nat) /\ IsInjective(PoolAfterTwo)
         /\ Range(PoolAfterTwo) = Range(pending_two) \ {TwoAddress}
<1>1. /\ IsFiniteSet(DOMAIN heap) /\ DOMAIN heap \subseteq Nat \ {0}
      /\ f.live = DOMAIN heap \ Range(pending_two) /\ Range(pending_two) \subseteq DOMAIN heap
  BY DEF Forest, HeapOK
<1>2. PICK s : s = pending_two
  OBVIOUS
<1>3. s \in Seq(Nat) /\ IsInjective(s)
  BY <1>2 DEF Pool
<1>4. CASE s = <<>>
  <2>1. PICK b : b = Fresh(1)[1]
    OBVIOUS
  <2>2. b \in Nat \ {0} /\ b \notin DOMAIN heap
    BY <2>1, <1>1, FreshAddresses
  <2>3. TwoAddress = b /\ PoolAfterTwo = <<>>
    BY <2>1, <1>2, <1>4 DEF TwoAddress, PoolAfterTwo
  <2>4. Range(<<>>) = {} /\ IsInjective(<<>>) /\ <<>> \in Seq(Nat)
    BY DEF Range, IsInjective
  <2> QED
    BY <2>2, <2>3, <2>4, <1>1, <1>2, <1>4
<1>5. CASE s # <<>>
  <2>1. PICK b, u : b = Last(s) /\ u = Front(s)
    OBVIOUS
  <2>2. TwoAddress = b /\ PoolAfterTwo = u
    BY <2>1, <1>2, <1>5 DEF TwoAddress, PoolAfterTwo
  <2>3. /\ b = s[Len(s)] /\ b \in Range(s) /\ Len(s) > 0
        /\ u \in Seq(Nat) /\ Len(u) = Len(s) - 1
        /\ \A i \in 1..(Len(s) - 1) : u[i] = s[i]
    BY <2>1, <1>3, <1>5, LastOf
  <2>4. Len(s) \in Nat /\ DOMAIN s = 1..Len(s) /\ DOMAIN u = 1..(Len(s) - 1)
    BY <2>3, <1>3
  <2>5. \A i, j \in DOMAIN s : s[i] = s[j] => i = j
    BY <1>3 DEF IsInjective
  <2>6. \A i \in DOMAIN u : i \in DOMAIN s /\ i # Len(s) /\ u[i] = s[i]
    BY <2>3, <2>4
  <2>7. \A i \in DOMAIN s : i # Len(s) => i \in DOMAIN u
    BY <2>4
  <2>8. IsInjective(u)
    BY <2>5, <2>6 DEF IsInjective
  <2>9. Len(s) \in DOMAIN s
    BY <2>3, <2>4
  <2>10. \A x \in Range(u) : x \in Range(s) /\ x # b
    BY <2>3, <2>5, <2>6, <2>9 DEF Range
  <2>11. \A x \in Range(s) : x # b => x \in Range(u)
    BY <2>3, <2>6, <2>7 DEF Range
  <2>12. Range(u) = Range(s) \ {b}
    <3>1. b \notin Range(u)
      BY <2>10
    <3> QED
      BY <3>1, <2>10, <2>11
  <2>13. b \in DOMAIN heap /\ b \in Range(s) /\ b \notin f.live /\ b \in Nat \ {0}
    BY <1>1, <1>2, <2>3
  <2> QED
    BY <1>2, <2>2, <2>3, <2>8, <2>12, <2>13
<1> QED
  BY <1>4, <1>5

\* insert_tree where the slot of the key has an item.
LEMMA InsertIntoDataHolds ==
  ASSUME IInv, InsertIntoData
  PROVE  IInv' /\ failed' = (failed \/ Len(Path(key)) > MaxDepth)
<1>1. /\ pc = "insert" /\ Pool /\ failed \in BOOLEAN
      /\ root' = root /\ pending_two' = PoolAfterTwo /\ contents' = contents
  BY DEF IInv, InsertIntoData
<1>2. key \in contents /\ contents \subseteq Keys /\ key \in Keys /\ key \in Nat
  BY <1>1, InsertFinds
<1>3. PICK f : /\ Forest(heap, Range(pending_two), f) /\ Whole(f) /\ f.roots = {root}
               /\ f.own[root] = contents \ {key} /\ root \in f.live
               /\ PathFrom(heap, f, Path(key), root, key)
  BY <1>1, InsertFinds
<1>4. PICK H, P, t, k, r, e, p, b, old :
        /\ H = heap /\ P = Range(pending_two) /\ t = Path(key) /\ k = key /\ r = root
        /\ e = t[Len(t)] /\ p = SlotFor(H, e, k) /\ b = TwoAddress /\ old = H[e].items[p]
  OBVIOUS
<1>5. /\ Forest(H, P, f) /\ PathFrom(H, f, t, r, k) /\ r \in f.roots /\ k \in Nat /\ k \in Keys
      /\ f.roots = {r} /\ f.own[r] = contents \ {k} /\ k \notin f.own[r]
  BY <1>2, <1>3, <1>4
<1>6. PICK two : two = BuildTwo(Data(k), old)
  OBVIOUS
<1>7. /\ p \notin H[e].none
      /\ heap' = Put([Counted(t, 1) EXCEPT ![e].child = @ \cup {p},
                                           ![e].items = [@ EXCEPT ![p] = Child(b, old)]], b, two)
      /\ RebuildIfNeeded(t)
      /\ failed' = (failed \/ Len(t) > MaxDepth \/ ~BuildTwoAsserts(Data(k), old))
  BY <1>4, <1>6 DEF InsertIntoData, Last, SlotFor
<1>8. /\ e \in f.live /\ Shape(H[e]) /\ p \in 0..(H[e].num_items - 1)
      /\ p \notin H[e].child /\ SlotOK(H, f, e, p) /\ f.own[e] \subseteq f.own[r]
  BY <1>3, <1>4, <1>5, PathEnd
<1>9. PICK l \in Keys : KeysAt(H[e], f.own[e], p) = {l} /\ old = Data(l)
  BY <1>4, <1>7, <1>8 DEF SlotOK
<1>10. l # k /\ l \in Nat
  <2>1. l \in f.own[e]
    BY <1>9 DEF KeysAt
  <2> QED
    BY <2>1, <1>5, <1>8, LippAssumption
<1>11. PoolOK
  BY <1>1, <1>3, HeapFacts
<1>12. HoldsTwo(two, k, l) /\ BuildTwoAsserts(Data(k), old)
  BY <1>5, <1>6, <1>9, <1>10, <1>11, TwoBuilt
<1>13. failed' = (failed \/ Len(Path(key)) > MaxDepth) /\ failed' \in BOOLEAN
  BY <1>4, <1>7, <1>12
<1>14. /\ b \in Nat \ {0} /\ b \notin f.live /\ (b \in DOMAIN H <=> b \in P)
       /\ PoolAfterTwo \in Seq(Nat) /\ IsInjective(PoolAfterTwo) /\ Range(PoolAfterTwo) = P \ {b}
  BY <1>1, <1>3, <1>4, TwoPlace
<1>15. PICK H2, f2 :
         /\ H2 = heap'
         /\ f2 = [live |-> f.live \cup {b}, roots |-> f.roots, raw |-> {}, gap |-> NoGap,
                  own |-> [a \in f.live \cup {b} |->
                             IF a = b THEN {k, l}
                             ELSE IF a \in Range(t) THEN f.own[a] \cup {k} ELSE f.own[a]],
                  rank |-> [a \in f.live \cup {b} |-> IF a = b THEN 0 ELSE f.rank[a] + 1],
                  parent |-> [a \in f.live \cup {b} |-> IF a = b THEN <<e, p>> ELSE f.parent[a]]]
  OBVIOUS
<1>16. /\ f2.live = f.live \cup {b} /\ f2.roots = f.roots /\ f2.raw = {} /\ f2.gap = NoGap
       /\ \A a \in f.live :
            /\ f2.own[a] = IF a \in Range(t) THEN f.own[a] \cup {k} ELSE f.own[a]
            /\ f2.rank[a] = f.rank[a] + 1 /\ f2.parent[a] = f.parent[a]
       /\ f2.own[b] = {k, l} /\ f2.rank[b] = 0 /\ f2.parent[b] = <<e, p>>
  BY <1>14, <1>15
<1>17. Deeper(f, f2, t, k)
  BY <1>16 DEF Deeper
<1>18. f.live \subseteq DOMAIN H /\ f.live = DOMAIN H \ P /\ \A a \in f.live : Shape(H[a])
  BY <1>3, <1>5 DEF Forest, HeapOK, Whole, NodeOK
<1>19. Range(t) \subseteq f.live /\ e \in Range(t) /\ r \in Range(t)
  BY <1>4, <1>5, PathRange
<1>20. PICK G, G2 : G = Counted(t, 1) /\ G2 = [G EXCEPT ![e].child = @ \cup {p},
                                                     ![e].items = [@ EXCEPT ![p] = Child(b, old)]]
  OBVIOUS
<1>21. /\ DOMAIN G = DOMAIN H
       /\ \A a \in DOMAIN H : G[a] = IF a \in Range(t) THEN Plus(H[a], 1) ELSE H[a]
  BY <1>4, <1>20 DEF Counted, Plus
<1>22. /\ DOMAIN G2 = DOMAIN H /\ \A a \in DOMAIN H : a # e => G2[a] = G[a]
       /\ G2[e] = [G[e] EXCEPT !.child = G[e].child \cup {p},
                               !.items = [G[e].items EXCEPT ![p] = Child(b, old)]]
  <2>1. DOMAIN G2 = DOMAIN H /\ \A a \in DOMAIN H : a # e => G2[a] = G[a]
    BY <1>20, <1>21
  <2>2. G2[e] = [G[e] EXCEPT !.child = G[e].child \cup {p},
                             !.items = [G[e].items EXCEPT ![p] = Child(b, old)]]
    BY <1>20, <1>8, <1>18, <1>21
  <2> QED
    BY <2>1, <2>2
<1>23. /\ DOMAIN H2 = DOMAIN H \cup {b} /\ H2[b] = two
       /\ \A a \in DOMAIN H : a # b => H2[a] = G2[a]
  BY <1>7, <1>15, <1>20, <1>22 DEF Put
<1>24. Filled(H[e], H2[e], p, H[e].child \cup {p}, Child(b, old))
  <2>1. PICK n, m, x : n = H[e] /\ m = Plus(n, 1) /\ x = Child(b, old)
    OBVIOUS
  <2>2. Shape(n) /\ n \in Node /\ G[e] = m /\ p \in DOMAIN n.items /\ p \notin n.none
    BY <2>1, <1>7, <1>8, <1>18, <1>19, <1>21 DEF Shape, Slotted
  <2>3. m.items = n.items /\ m.none = n.none /\ m.child = n.child /\ m \in Node
    BY <2>1, <2>2, PlusIs
  <2>4. x \in Item
    BY <2>1, <1>9, <1>10, <1>14, ItemTypes
  <2>5. H2[e] = [m EXCEPT !.child = n.child \cup {p}, !.items = [n.items EXCEPT ![p] = x]]
    <3>1. H2[e] = G2[e]
      BY <1>8, <1>14, <1>18, <1>23
    <3> QED
      BY <2>1, <2>2, <2>3, <3>1, <1>22
  <2>6. n.none \ {p} = m.none
    BY <2>2, <2>3
  <2>7. H2[e] = [m EXCEPT !.none = n.none \ {p}, !.child = n.child \cup {p},
                          !.items = [n.items EXCEPT ![p] = x]]
    BY <2>3, <2>5, <2>6 DEF Node
  <2>8. PICK C : C = n.child \cup {p}
    OBVIOUS
  <2>9. H2[e] = Written(n, 1, p, C, x)
    BY <2>1, <2>7, <2>8 DEF Written
  <2>10. Filled(n, Written(n, 1, p, C, x), p, C, x)
    BY <2>2, <2>4, <2>8, SlotChanged
  <2> QED
    BY <2>1, <2>8, <2>9, <2>10
<1>25. /\ Changed(H[e], H2[e], {p}) /\ H2[e].none = H[e].none \ {p} /\ H2[e].child = H[e].child \cup {p}
       /\ H2[e].items[p] = Child(b, old) /\ H2[e].items[p].child = b
  <2>1. Child(b, old).child = b
    BY DEF Child
  <2> QED
    BY <2>1, <1>24 DEF Filled
<1>26. /\ \A a \in f.live \ Range(t) : H2[a] = H[a]
       /\ \A a \in Range(t) \ {e} : Changed(H[a], H2[a], {})
  <2>1. ASSUME NEW a \in Range(t) \ {e} PROVE Changed(H[a], H2[a], {})
    <3>1. H2[a] = Plus(H[a], 1) /\ Shape(H[a])
      BY <1>14, <1>18, <1>19, <1>21, <1>22, <1>23
    <3> QED
      BY <3>1, PlusChanged
  <2> QED
    BY <2>1, <1>14, <1>18, <1>19, <1>21, <1>22, <1>23
<1>27. Grown(H, f, H2, f2, t, k, {b})
  <2>1. f2.live = f.live \cup {b} /\ {b} \cap f.live = {}
    BY <1>14, <1>16
  <2>2. Changed(H[e], H2[e], {SlotFor(H, e, k)}) /\ e = t[Len(t)] /\ Whole(f)
    BY <1>3, <1>4, <1>25
  <2> QED
    BY <2>1, <2>2, <1>5, <1>17, <1>26, PathGrows
<1>28. PICK P2 : P2 = P \ {b}
  OBVIOUS
<1>29. NodeOK(H2, f2, b) /\ H2[b].num_items > 1
  BY <1>5, <1>10, <1>12, <1>16, <1>23, TwoHeld
<1>30. HeapOK(H2, P2, f2)
  <2>1. HeapOK(H, P, f)
    BY <1>5 DEF Forest
  <2>2. \A a \in DOMAIN H : a \notin f.live /\ a # b => H2[a] = H[a]
    BY <1>8, <1>19, <1>21, <1>22, <1>23
  <2>3. \A a \in f2.live : H2[a] \in Node
    <3>1. \A a \in f.live : H2[a] \in Node
      BY <1>27 DEF Grown, Shape, Slotted
    <3>2. H2[b] \in Node
      BY <1>29 DEF NodeOK, Shape, Slotted
    <3> QED
      BY <3>1, <3>2, <1>16
  <2>4. \A a \in f2.live : f2.own[a] \subseteq Keys /\ f2.rank[a] \in Nat
    <3>1. \A a \in f.live : f2.own[a] \subseteq Keys /\ f2.rank[a] \in Nat
      BY <2>1, <1>5, <1>17, DeeperTypes
    <3>2. f2.own[b] \subseteq Keys /\ f2.rank[b] \in Nat
      BY <1>5, <1>16
    <3> QED
      BY <3>1, <3>2, <1>16
  <2>5. \A a \in P2 : PoolNode(H2[a])
    BY <2>1, <2>2, <1>18, <1>28 DEF HeapOK
  <2>6. \A a \in DOMAIN H2 : H2[a] \in Node
    BY <2>1, <2>2, <2>3, <1>16, <1>23 DEF HeapOK
  <2>7. IsFiniteSet(DOMAIN H2) /\ DOMAIN H2 \subseteq Nat \ {0}
    BY <2>1, <1>14, <1>23, FS_AddElement DEF HeapOK
  <2>8. f2.live = DOMAIN H2 \ P2 /\ P2 \subseteq DOMAIN H2 /\ f2.roots \subseteq f2.live
    BY <2>1, <1>14, <1>16, <1>18, <1>23, <1>28 DEF HeapOK
  <2> QED
    BY <2>4, <2>5, <2>6, <2>7, <2>8, <1>16 DEF HeapOK
<1>31. SlotOK(H2, f2, e, p)
  <2>1. f2.own[e] = f.own[e] \cup {k}
    BY <1>8, <1>16, <1>19
  <2>2. \A x : Predict(H2[e], x) = Predict(H[e], x)
    BY <1>25, SameKeys DEF Changed
  <2>3. KeysAt(H2[e], f2.own[e], p) = {k, l}
    BY <2>1, <2>2, <1>4, <1>9 DEF KeysAt, SlotFor
  <2>4. f.rank[e] \in Nat
    BY <1>5, <1>8 DEF Forest, HeapOK
  <2>5. f2.rank[b] < f2.rank[e]
    <3>1. f2.rank[b] = 0 /\ f2.rank[e] = f.rank[e] + 1
      BY <1>8, <1>16
    <3> QED
      BY <2>4, <3>1
  <2>6. b \in f2.live \ f2.roots
    BY <1>14, <1>16, <1>5 DEF Forest, HeapOK
  <2>7. ChildOK(H2, f2, e, p)
    BY <2>3, <2>5, <2>6, <1>16, <1>25, <1>29 DEF ChildOK
  <2> QED
    BY <2>7, <1>25 DEF SlotOK
<1>32. LinkOK(H2, f2, b)
  <2>1. e \in f2.live \ f2.raw /\ p \in H2[e].child /\ <<e, p>> # f2.gap
    <3>1. e # 0
      BY <1>5, <1>8 DEF Forest, HeapOK
    <3> QED
      BY <3>1, <1>8, <1>16, <1>25 DEF NoGap
  <2> QED
    BY <2>1, <1>16, <1>25 DEF LinkOK
<1>33. Forest(H2, P2, f2)
  <2>1. \A c \in {b} : NodeOK(H2, f2, c) /\ LinkOK(H2, f2, c)
    BY <1>29, <1>32
  <2>2. SlotOK(H2, f2, t[Len(t)], SlotFor(H, t[Len(t)], k)) /\ Whole(f)
    BY <1>3, <1>4, <1>31
  <2> QED
    BY <2>1, <2>2, <1>5, <1>27, <1>30, KeyAdded
<1>34. TheTree(f2, contents)'
  <2>1. f2.own[r] = f.own[r] \cup {k}
    BY <1>16, <1>19
  <2>2. f2.own[r] = contents
    BY <2>1, <1>2, <1>4, <1>5
  <2> QED
    BY <2>2, <1>1, <1>4, <1>5, <1>16 DEF TheTree
<1>35. GoesDown(H2, f2, t, k)
  BY <1>5, <1>27, StillDown
<1>36. /\ pc' \in {"idle", "scan"}
       /\ \E f3 : Forest(heap', Range(pending_two'), f3) /\ Stage(f3)'
  <2>1. Range(pending_two') = P2
    BY <1>1, <1>14, <1>28
  <2> QED
    BY <2>1, <1>1, <1>2, <1>4, <1>7, <1>15, <1>33, <1>34, <1>35, RebuildStarts
<1>37. Pool'
  BY <1>1, <1>14 DEF Pool
<1> QED
  BY <1>1, <1>2, <1>13, <1>36, <1>37 DEF IInv, States

-----------------------------------------------------------------------------
(* Loading and closing. *)

\* A list with one element.
LEMMA OneListed ==
  ASSUME NEW x
  PROVE  ListOf(<<x>>, {x})
<1>1. PICK s, S : s = <<x>> /\ S = {x}
  OBVIOUS
<1>2. s \in Seq(S) /\ Len(s) = 1 /\ s[1] = x
  BY <1>1
<1>3. \A i, j \in 1..Len(s) : i = j
  BY <1>2
<1>4. ListOf(s, S)
  BY <1>1, <1>2, <1>3 DEF ListOf
<1> QED
  BY <1>1, <1>4

\* Nothing is listed by an empty list.
LEMMA NothingListed ==
  ASSUME NEW S, ListOf(<<>>, S)
  PROVE  S = {}
<1>1. \A x \in S : \E i \in 1..Len(<<>>) : <<>>[i] = x
  BY DEF ListOf
<1>2. \A i \in 1..Len(<<>>) : FALSE
  OBVIOUS
<1> QED
  BY <1>1, <1>2

\* destroy_tree begins, for bulk_load or the destructor.
LEMMA DestroyBegins ==
  ASSUME NEW f, TheTree(f, contents), stack' = <<root>>
  PROVE  Destroying(f)'
<1>1. f.roots = {root} /\ f.raw = {} /\ f.gap = NoGap
  BY DEF TheTree
<1>2. ListOf(<<root>>, {root})
  BY OneListed
<1> QED
  BY <1>1, <1>2 DEF Destroying

\* bulk_load begins.
LEMMA BulkLoadHolds ==
  ASSUME IInv, NEW K \in SUBSET Keys, BulkLoad(K)
  PROVE  IInv' /\ failed' = failed
<1>1. PICK f : Forest(heap, Range(pending_two), f) /\ Stage(f)
  BY DEF IInv
<1>2. /\ pc = "idle" /\ pc' = "destroy" /\ stack' = <<root>> /\ contents' = K
      /\ heap' = heap /\ pending_two' = pending_two /\ failed' = failed
  BY DEF BulkLoad, structure
<1>3. Destroying(f)'
  BY <1>1, <1>2, DestroyBegins DEF Stage
<1>4. Stage(f)'
  BY <1>2, <1>3 DEF Stage
<1>5. Forest(heap', Range(pending_two'), f)
  BY <1>1, <1>2
<1> QED
  BY <1>2, <1>4, <1>5 DEF IInv, States, Pool

\* The destructor begins.
LEMMA CloseHolds ==
  ASSUME IInv, Close
  PROVE  IInv' /\ failed' = failed
<1>1. PICK f : Forest(heap, Range(pending_two), f) /\ Stage(f)
  BY DEF IInv
<1>2. /\ pc = "idle" /\ pc' = "close" /\ stack' = <<root>> /\ contents' = contents
      /\ heap' = heap /\ pending_two' = pending_two /\ failed' = failed
  BY DEF Close, structure
<1>3. Destroying(f)'
  BY <1>1, <1>2, DestroyBegins DEF Stage
<1>4. Stage(f)'
  BY <1>2, <1>3 DEF Stage
<1>5. Forest(heap', Range(pending_two'), f)
  BY <1>1, <1>2
<1> QED
  BY <1>2, <1>4, <1>5 DEF IInv, States, Pool

\* insert(key, value) begins.
LEMMA InsertHolds ==
  ASSUME IInv, NEW k \in Keys, Insert(k)
  PROVE  IInv' /\ failed' = failed
<1>1. PICK f : Forest(heap, Range(pending_two), f) /\ Stage(f)
  BY DEF IInv
<1>2. /\ pc = "idle" /\ k \notin contents /\ pc' = "insert" /\ key' = k
      /\ contents' = contents \cup {k} /\ root' = root
      /\ heap' = heap /\ pending_two' = pending_two /\ failed' = failed
  BY DEF Insert, structure
<1>3. TheTree(f, contents)
  BY <1>1, <1>2 DEF Stage
<1>4. contents' \ {k} = contents
  BY <1>2
<1>5. Stage(f)'
  BY <1>2, <1>3, <1>4 DEF Stage, TheTree
<1>6. Forest(heap', Range(pending_two'), f)
  BY <1>1, <1>2
<1> QED
  BY <1>2, <1>5, <1>6 DEF IInv, States, Pool

\* A node of the heap that has the keys K in slots of its own, whatever the forest.
Leaf(H, b, K) == \A g : g.own[b] = K => NodeOK(H, g, b)

\* f2 is f with a new root b, which has the keys K.
NewRoot(f, f2, b, K, raw) ==
  /\ f2.live = f.live \cup {b} /\ f2.roots = f.roots \cup {b} /\ f2.raw = raw /\ f2.gap = f.gap
  /\ f2.own[b] = K /\ f2.rank[b] = 0
  /\ \A a \in f.live : f2.own[a] = f.own[a] /\ f2.rank[a] = f.rank[a] + 1

\* The heap H2 has a new node at b, taken from the pool or not.
PutAt(H, P, H2, P2, b) ==
  /\ b \in Nat \ {0} /\ (b \in DOMAIN H => b \in P)
  /\ DOMAIN H2 = DOMAIN H \cup {b} /\ P2 = P \ {b}
  /\ \A a \in DOMAIN H : a # b => H2[a] = H[a]

\* A new root, built or still to be built.
LEMMA RootAdded ==
  ASSUME NEW H, NEW P, NEW f, Forest(H, P, f), f.raw = {}, NEW H2, NEW P2, NEW b,
         PutAt(H, P, H2, P2, b), NEW K \in SUBSET Keys, NEW raw,
         (raw = {b} /\ H2[b] = RawNode) \/ (raw = {} /\ Leaf(H2, b, K))
  PROVE  \E f2 : Forest(H2, P2, f2) /\ NewRoot(f, f2, b, K, raw)
<1>1. PICK f2 : f2 = [live |-> f.live \cup {b}, roots |-> f.roots \cup {b}, raw |-> raw,
                      own |-> [a \in f.live \cup {b} |-> IF a = b THEN K ELSE f.own[a]],
                      rank |-> [a \in f.live \cup {b} |-> IF a = b THEN 0 ELSE f.rank[a] + 1],
                      parent |-> f.parent, gap |-> f.gap]
  OBVIOUS
<1>2. HeapOK(H, P, f)
  BY DEF Forest
<1>3. b \notin f.live /\ f.live = DOMAIN H \ P /\ b \in Nat \ {0} /\ f.roots \subseteq f.live
  BY <1>2 DEF HeapOK, PutAt
<1>4. /\ f2.live = f.live \cup {b} /\ f2.roots = f.roots \cup {b} /\ f2.raw = raw /\ f2.gap = f.gap
      /\ f2.own[b] = K /\ f2.rank[b] = 0 /\ f2.parent = f.parent
      /\ \A a \in f.live : f2.own[a] = f.own[a] /\ f2.rank[a] = f.rank[a] + 1
  BY <1>1, <1>3
<1>5. \A a \in DOMAIN H : a # b => H2[a] = H[a]
  BY DEF PutAt
<1>6. H2[b] \in Node
  <2>1. CASE H2[b] = RawNode
    BY <2>1, NewNodes
  <2>2. CASE Leaf(H2, b, K)
    <3>1. NodeOK(H2, f2, b)
      BY <2>2, <1>4 DEF Leaf
    <3> QED
      BY <3>1 DEF NodeOK, Shape, Slotted
  <2> QED
    BY <2>1, <2>2
<1>7. HeapOK(H2, P2, f2)
  <2>1. IsFiniteSet(DOMAIN H2) /\ DOMAIN H2 \subseteq Nat \ {0}
    BY <1>2, <1>3, FS_AddElement DEF HeapOK, PutAt
  <2>2. \A a \in DOMAIN H2 : H2[a] \in Node
    BY <1>2, <1>5, <1>6 DEF HeapOK, PutAt
  <2>3. \A a \in P2 : PoolNode(H2[a])
    BY <1>2, <1>5 DEF HeapOK, PutAt
  <2>4. f2.live = DOMAIN H2 \ P2 /\ P2 \subseteq DOMAIN H2 /\ f2.roots \subseteq f2.live
    BY <1>2, <1>3, <1>4 DEF HeapOK, PutAt
  <2>5. ASSUME NEW a \in f2.live PROVE f2.own[a] \subseteq Keys /\ f2.rank[a] \in Nat
    <3>1. CASE a = b
      BY <3>1, <1>4
    <3>2. CASE a \in f.live
      <4>1. f.own[a] \subseteq Keys /\ f.rank[a] \in Nat
        BY <3>2, <1>2 DEF HeapOK
      <4>2. f2.own[a] = f.own[a] /\ f2.rank[a] = f.rank[a] + 1
        BY <3>2, <1>4
      <4> QED
        BY <4>1, <4>2
    <3> QED
      BY <3>1, <3>2, <1>4
  <2>6. f2.raw \subseteq f2.live /\ \A a \in f2.raw : H2[a] = RawNode
    BY <1>4
  <2> QED
    BY <2>1, <2>2, <2>3, <2>4, <2>5, <2>6 DEF HeapOK
<1>8. ASSUME NEW a \in f2.live \ f2.raw PROVE NodeOK(H2, f2, a)
  <2>1. CASE a = b
    <3>1. Leaf(H2, b, K)
      BY <2>1, <1>4
    <3> QED
      BY <2>1, <3>1, <1>4 DEF Leaf
  <2>2. CASE a \in f.live
    <3>1. NodeOK(H, f, a) /\ a # b /\ H2[a] = H[a]
      BY <2>2, <1>3, <1>5 DEF Forest
    <3>2. f2.own[a] = f.own[a] /\ f2.rank[a] = f.rank[a] + 1 /\ f.rank[a] \in Nat
      BY <2>2, <1>2, <1>4 DEF HeapOK
    <3>3. ASSUME NEW p \in 0..(H[a].num_items - 1) PROVE SlotOK(H2, f2, a, p)
      <4>1. SlotOK(H, f, a, p)
        BY <3>1 DEF NodeOK
      <4>2. ASSUME p \in H[a].child, <<a, p>> # f.gap PROVE ChildOK(H2, f2, a, p)
        <5>1. ChildOK(H, f, a, p)
          BY <4>1, <4>2 DEF SlotOK
        <5>2. PICK c : c = H[a].items[p].child
          OBVIOUS
        <5>3. /\ c \in f.live \ f.roots /\ f.parent[c] = <<a, p>>
              /\ f.own[c] = KeysAt(H[a], f.own[a], p) /\ f.rank[c] < f.rank[a]
              /\ H[c].num_items > 1
          BY <5>1, <5>2 DEF ChildOK
        <5>4. c # b /\ H2[c] = H[c]
          BY <5>3, <1>3, <1>5
        <5>5. f2.own[c] = f.own[c] /\ f2.rank[c] = f.rank[c] + 1 /\ f.rank[c] \in Nat
          BY <5>3, <1>2, <1>4 DEF HeapOK
        <5>6. f2.rank[c] < f2.rank[a]
          BY <5>3, <5>5, <3>2
        <5>7. c \in f2.live \ f2.roots
          BY <5>3, <5>4, <1>4
        <5> QED
          BY <3>1, <3>2, <5>2, <5>3, <5>4, <5>5, <5>6, <5>7, <1>4 DEF ChildOK
      <4> QED
        BY <3>1, <3>2, <4>1, <4>2, <1>4 DEF SlotOK
    <3> QED
      BY <3>1, <3>2, <3>3 DEF NodeOK
  <2> QED
    BY <2>1, <2>2, <1>4
<1>9. ASSUME NEW c \in f2.live \ f2.roots PROVE LinkOK(H2, f2, c)
  <2>1. c \in f.live \ f.roots
    BY <1>4
  <2>2. PICK a \in f.live \ f.raw : \E p \in H[a].child :
          <<a, p>> # f.gap /\ f.parent[c] = <<a, p>> /\ H[a].items[p].child = c
    BY <2>1 DEF Forest, LinkOK
  <2>3. a \in f2.live \ f2.raw /\ H2[a] = H[a]
    BY <2>2, <1>3, <1>4, <1>5
  <2> QED
    BY <2>2, <2>3, <1>4 DEF LinkOK
<1>10. Forest(H2, P2, f2)
  BY <1>7, <1>8, <1>9 DEF Forest
<1> QED
  BY <1>4, <1>10 DEF NewRoot

\* A node at the first free address.
LEMMA PutFresh ==
  ASSUME NEW f, Forest(heap, Range(pending_two), f), Pool, NEW b, b = Fresh(1)[1], NEW n,
         NEW H2, H2 = Put(heap, b, n)
  PROVE  /\ PutAt(heap, Range(pending_two), H2, Range(pending_two), b) /\ H2[b] = n
         /\ b \in Nat \ {0} /\ b \notin DOMAIN heap
<1>1. IsFiniteSet(DOMAIN heap) /\ DOMAIN heap \subseteq Nat \ {0}
  BY HeapFacts
<1>2. b \in Nat \ {0} /\ b \notin DOMAIN heap
  BY <1>1, FreshAddresses
<1>3. Range(pending_two) \subseteq DOMAIN heap
  BY DEF Forest, HeapOK
<1>4. Range(pending_two) \ {b} = Range(pending_two)
  BY <1>2, <1>3
<1> QED
  BY <1>2, <1>4 DEF PutAt, Put

\* A node of build_tree_two.
LEMMA PutTwo ==
  ASSUME NEW f, Forest(heap, Range(pending_two), f), Pool, NEW n,
         NEW H2, H2 = Put(heap, TwoAddress, n)
  PROVE  /\ PutAt(heap, Range(pending_two), H2, Range(PoolAfterTwo), TwoAddress)
         /\ H2[TwoAddress] = n
<1>1. /\ TwoAddress \in Nat \ {0}
      /\ TwoAddress \in DOMAIN heap <=> TwoAddress \in Range(pending_two)
      /\ Range(PoolAfterTwo) = Range(pending_two) \ {TwoAddress}
  BY TwoPlace
<1> QED
  BY <1>1 DEF PutAt, Put

\* The node of build_tree_none has no keys.
LEMMA NoneIsLeaf ==
  ASSUME NEW H, NEW b, H[b] = NoneNode
  PROVE  Leaf(H, b, {})
<1> SUFFICES ASSUME NEW g, g.own[b] = {} PROVE NodeOK(H, g, b)
  BY DEF Leaf
<1>1. /\ Shape(H[b]) /\ H[b].size = 0 /\ H[b].num_items = 1 /\ H[b].none = {0}
  BY NewNodes
<1>2. H[b].child = {}
  BY DEF NoneNode, NewNode
<1>3. Cardinality({}) = 0
  BY FS_EmptySet
<1>4. ASSUME NEW p \in 0..(H[b].num_items - 1) PROVE SlotOK(H, g, b, p)
  <2>1. p \in H[b].none
    BY <1>1
  <2> QED
    BY <2>1, <1>2 DEF SlotOK, KeysAt
<1> QED
  BY <1>1, <1>3, <1>4 DEF NodeOK

\* The tree is gone: nothing is on the stack.
LEMMA TreeGone ==
  ASSUME NEW f, Stage(f), pc \in {"destroy", "close"}, stack = <<>>
  PROVE  f.roots = {} /\ f.raw = {} /\ f.gap = NoGap
<1>1. ListOf(stack, f.roots) /\ f.raw = {} /\ f.gap = NoGap
  BY DEF Stage, Destroying
<1> QED
  BY <1>1, NothingListed

\* bulk_load of at most one key.
LEMMA LoadFewHolds ==
  ASSUME IInv, LoadFew
  PROVE  IInv' /\ failed' = failed
<1>1. PICK f : Forest(heap, Range(pending_two), f) /\ Stage(f)
  BY DEF IInv
<1>2. /\ pc = "destroy" /\ stack = <<>> /\ Cardinality(contents) < 2 /\ contents \subseteq Keys
      /\ root' = Fresh(1)[1] /\ heap' = Put(heap, root', NoneNode) /\ pending_two' = pending_two
      /\ contents' = contents /\ failed' = failed /\ failed \in BOOLEAN /\ Pool
      /\ IF contents = {} THEN pc' = "idle" /\ key' = key
         ELSE pc' = "insert" /\ key' = (CHOOSE k \in contents : TRUE)
  BY DEF LoadFew, IInv
<1>3. f.roots = {} /\ f.raw = {} /\ f.gap = NoGap
  BY <1>1, <1>2, TreeGone
<1>4. PICK H, P, H2, b : H = heap /\ P = Range(pending_two) /\ H2 = heap' /\ b = root'
  OBVIOUS
<1>5. PutAt(H, P, H2, P, b) /\ H2[b] = NoneNode
  BY <1>1, <1>2, <1>4, PutFresh
<1>6. Leaf(H2, b, {})
  BY <1>5, NoneIsLeaf
<1>7. PICK f2 : Forest(H2, P, f2) /\ NewRoot(f, f2, b, {}, {})
  <2>1. {} \in SUBSET Keys /\ Forest(H, P, f)
    BY <1>1, <1>4
  <2> QED
    BY <2>1, <1>3, <1>5, <1>6, RootAdded
<1>8. f2.roots = {b} /\ f2.raw = {} /\ f2.gap = NoGap /\ f2.own[b] = {}
  BY <1>3, <1>7 DEF NewRoot
<1>9. contents # {} => contents \ {CHOOSE k \in contents : TRUE} = {}
  <2> SUFFICES ASSUME contents # {} PROVE contents \ {CHOOSE k \in contents : TRUE} = {}
    OBVIOUS
  <2>1. PICK K : K = contents
    OBVIOUS
  <2>2. K \in SUBSET Keys /\ K # {} /\ Cardinality(K) < 2
    BY <2>1, <1>2
  <2>3. IsFiniteSet(K) /\ Cardinality(K) \in Nat
    BY <2>2, KeySets
  <2>4. Cardinality(K) # 0
    BY <2>2, <2>3, FS_EmptySet
  <2>5. Cardinality(K) = 1
    BY <2>2, <2>3, <2>4
  <2>6. PICK x : K = {x}
    BY <2>3, <2>5, FS_Singleton
  <2> QED
    BY <2>1, <2>6
<1>10. pc' \in States /\ Stage(f2)'
  <2>1. CASE contents = {}
    <3>1. pc' = "idle"
      BY <2>1, <1>2
    <3>2. TheTree(f2, contents)'
      BY <2>1, <1>2, <1>4, <1>8 DEF TheTree
    <3> QED
      BY <3>1, <3>2 DEF Stage, States
  <2>2. CASE contents # {}
    <3>1. pc' = "insert" /\ key' = (CHOOSE k \in contents : TRUE)
      BY <2>2, <1>2
    <3>2. key' \in contents' /\ contents' \ {key'} = {}
      BY <2>2, <3>1, <1>2, <1>9
    <3>3. TheTree(f2, contents \ {key})'
      BY <3>2, <1>4, <1>8 DEF TheTree
    <3> QED
      BY <3>1, <3>2, <3>3 DEF Stage, States
  <2> QED
    BY <2>1, <2>2
<1>11. Forest(heap', Range(pending_two'), f2)
  BY <1>2, <1>4, <1>7
<1>12. pc' # "closed"
  BY <1>2
<1> QED
  BY <1>2, <1>10, <1>11, <1>12 DEF IInv, Pool

\* The items of a set of keys, in order.
LEMMA SortedLists ==
  ASSUME NEW K \in SUBSET Keys
  PROVE  Lists(SortedItems(K), K)
<1>1. PICK s, ks, c : s = SortedItems(K) /\ ks = Ascending(K) /\ c = Cardinality(K)
  OBVIOUS
<1>2. K \in SUBSET Int /\ IsFiniteSet(K) /\ c \in Nat /\ K \in SUBSET Nat
  BY <1>1, KeySets
<1>3. /\ ks \in [1..c -> K]
      /\ \A x \in K : Rank(K, x) + 1 \in 1..c /\ ks[Rank(K, x) + 1] = x
  BY <1>1, <1>2, AscendingRanks
<1>4. Len(ks) = c
  BY <1>2, <1>3
<1>5. s = [n \in 1..c |-> Data(ks[n])]
  BY <1>1, <1>4 DEF SortedItems
<1>6. \A n \in 1..c : Data(ks[n]) \in Item
  BY <1>2, <1>3, ItemTypes
<1>7. s \in [1..c -> Item]
  BY <1>5, <1>6
<1>8. s \in Seq(Item) /\ Len(s) = c
  BY <1>2, <1>7
<1>9. \A x \in K : s[Rank(K, x) + 1] = Data(x)
  BY <1>3, <1>5
<1> QED
  BY <1>1, <1>8, <1>9 DEF Lists

\* A list of two keys.
LEMMA TwoListed ==
  ASSUME NEW K \in SUBSET Keys, Cardinality(K) = 2, NEW s, Lists(s, K)
  PROVE  \E k, l \in K : k # l /\ K = {k, l} /\ s[1] = Data(k) /\ s[2] = Data(l)
<1>1. K \in SUBSET Int /\ IsFiniteSet(K)
  BY KeySets
<1>2. PICK k \in K, l \in K : Rank(K, k) = 0 /\ Rank(K, l) = 1
  <2>1. \A c \in 0..1 : \E x \in K : Rank(K, x) = c
    BY <1>1, RankOnto
  <2> QED
    BY <2>1
<1>3. k # l
  BY <1>2
<1>4. s[1] = Data(k) /\ s[2] = Data(l)
  BY <1>2 DEF Lists
<1>5. \A x \in K : x = k \/ x = l
  <2>1. TAKE x \in K
  <2>2. Rank(K, x) \in 0..1
    BY KeySets
  <2>3. Rank(K, x) = Rank(K, k) \/ Rank(K, x) = Rank(K, l)
    BY <2>2, <1>2
  <2> QED
    BY <2>3, <1>1, RankOnto
<1> QED
  BY <1>2, <1>3, <1>4, <1>5

\* bulk_load of two keys.
LEMMA LoadTwoHolds ==
  ASSUME IInv, LoadTwo
  PROVE  IInv' /\ failed' = failed
<1>1. PICK f : Forest(heap, Range(pending_two), f) /\ Stage(f)
  BY DEF IInv
<1>2. PICK s : s = SortedItems(contents)
  OBVIOUS
<1>3. /\ pc = "destroy" /\ stack = <<>> /\ Cardinality(contents) = 2 /\ contents \in SUBSET Keys
      /\ root' = TwoAddress /\ heap' = Put(heap, root', BuildTwo(s[1], s[2]))
      /\ failed' = (failed \/ ~BuildTwoAsserts(s[1], s[2])) /\ failed \in BOOLEAN /\ Pool
      /\ pending_two' = PoolAfterTwo /\ contents' = contents /\ pc' = "idle"
  BY <1>2 DEF LoadTwo, IInv
<1>4. f.roots = {} /\ f.raw = {} /\ f.gap = NoGap
  BY <1>1, <1>3, TreeGone
<1>5. PICK K, H, P, H2, P2, b : /\ K = contents /\ H = heap /\ P = Range(pending_two) /\ H2 = heap'
                                /\ P2 = Range(pending_two') /\ b = root'
  OBVIOUS
<1>6. Lists(s, K)
  BY <1>2, <1>3, <1>5, SortedLists
<1>7. PICK k \in K, l \in K : k # l /\ K = {k, l} /\ s[1] = Data(k) /\ s[2] = Data(l)
  BY <1>3, <1>5, <1>6, TwoListed
<1>8. k \in Keys /\ l \in Keys /\ k \in Nat /\ l \in Nat
  BY <1>3, <1>5, <1>7, LippAssumption
<1>9. PoolOK
  BY <1>1, <1>3, HeapFacts
<1>10. HoldsTwo(BuildTwo(s[1], s[2]), k, l) /\ BuildTwoAsserts(s[1], s[2])
  BY <1>7, <1>8, <1>9, TwoBuilt
<1>11. PutAt(H, P, H2, P2, b) /\ H2[b] = BuildTwo(s[1], s[2])
  BY <1>1, <1>3, <1>5, PutTwo
<1>12. Leaf(H2, b, K)
  <2> SUFFICES ASSUME NEW g, g.own[b] = K PROVE NodeOK(H2, g, b)
    BY DEF Leaf
  <2>1. HoldsTwo(H2[b], k, l)
    BY <1>10, <1>11
  <2> QED
    BY <2>1, <1>7, <1>8, TwoHeld
<1>13. PICK f2 : Forest(H2, P2, f2) /\ NewRoot(f, f2, b, K, {})
  <2>1. K \in SUBSET Keys /\ Forest(H, P, f)
    BY <1>1, <1>3, <1>5
  <2> QED
    BY <2>1, <1>4, <1>11, <1>12, RootAdded
<1>14. f2.roots = {b} /\ f2.raw = {} /\ f2.gap = NoGap /\ f2.own[b] = K
  BY <1>4, <1>13 DEF NewRoot
<1>15. TheTree(f2, contents)'
  BY <1>3, <1>5, <1>14 DEF TheTree
<1>16. Stage(f2)'
  BY <1>3, <1>15 DEF Stage
<1>17. Forest(heap', Range(pending_two'), f2)
  BY <1>5, <1>13
<1>18. Pool'
  BY <1>1, <1>3, TwoPlace DEF Pool
<1> QED
  BY <1>3, <1>10, <1>16, <1>17, <1>18 DEF IInv, States

\* build_tree_bulk begins with one node to be built.
LEMMA BuildBegins ==
  ASSUME NEW f, Forest(heap, Range(pending_two), f), Pool, f.raw = {}, pending_two' = pending_two,
         NEW K \in SUBSET Keys, Cardinality(K) > 2, NEW s, Lists(s, K), StartBuild(s)
  PROVE  /\ built' \notin DOMAIN heap /\ \A a \in DOMAIN heap : heap'[a] = heap[a]
         /\ pc' = "build" /\ stack' \in Seq([items : Seq(Item), node : Nat])
         /\ ListOf(NodesOf(stack'), {built'})
         /\ \A i \in 1..Len(stack') : stack'[i].node = built' /\ Lists(stack'[i].items, K)
         /\ \E f2 : Forest(heap', Range(pending_two'), f2) /\ NewRoot(f, f2, built', K, {built'})
<1>1. PICK H, P, H2, b : H = heap /\ P = Range(pending_two) /\ H2 = heap' /\ b = Fresh(1)[1]
  OBVIOUS
<1>2. /\ H2 = Put(heap, b, RawNode) /\ stack' = <<[items |-> s, node |-> b]>>
      /\ built' = b /\ pc' = "build"
  BY <1>1 DEF StartBuild
<1>3. PutAt(H, P, H2, P, b) /\ H2[b] = RawNode /\ b \in Nat \ {0} /\ b \notin DOMAIN H
  BY <1>1, <1>2, PutFresh
<1>4. \E f2 : Forest(H2, P, f2) /\ NewRoot(f, f2, b, K, {b})
  <2>1. Forest(H, P, f)
    BY <1>1
  <2>2. PICK raw : raw = {b}
    OBVIOUS
  <2>3. (raw = {b} /\ H2[b] = RawNode) \/ (raw = {} /\ Leaf(H2, b, K))
    BY <2>2, <1>3
  <2>4. Forest(H, P, f) /\ f.raw = {} /\ PutAt(H, P, H2, P, b)
    BY <2>1, <1>3
  <2>5. \E f2 : Forest(H2, P, f2) /\ NewRoot(f, f2, b, K, raw)
    BY <2>3, <2>4, RootAdded, Zenon
  <2> QED
    BY <2>2, <2>5
<1>5. PICK x, t : x = [items |-> s, node |-> b] /\ t = stack'
  OBVIOUS
<1>6. x \in [items : Seq(Item), node : Nat] /\ x.items = s /\ x.node = b /\ t = <<x>>
  BY <1>2, <1>3, <1>5 DEF Lists
<1>7. t \in Seq([items : Seq(Item), node : Nat]) /\ Len(t) = 1 /\ t[1] = x /\ ListOf(NodesOf(t), {b})
  BY <1>6, OneOnStack
<1>8. \A i \in 1..Len(t) : t[i].node = b /\ Lists(t[i].items, K)
  <2>1. \A i \in 1..Len(t) : i = 1
    BY <1>7
  <2> QED
    BY <2>1, <1>6, <1>7
<1>9. \A a \in DOMAIN H : H2[a] = H[a]
  BY <1>3 DEF PutAt
<1> QED
  BY <1>1, <1>2, <1>3, <1>4, <1>5, <1>7, <1>8, <1>9

\* bulk_load of more keys.
LEMMA LoadManyHolds ==
  ASSUME IInv, LoadMany
  PROVE  IInv' /\ failed' = failed
<1>1. PICK f : Forest(heap, Range(pending_two), f) /\ Stage(f)
  BY DEF IInv
<1>2. PICK s, K : s = SortedItems(contents) /\ K = contents
  OBVIOUS
<1>3. /\ pc = "destroy" /\ stack = <<>> /\ Cardinality(K) > 2 /\ K \in SUBSET Keys
      /\ StartBuild(s) /\ hook' = 0 /\ pending_two' = pending_two /\ contents' = K
      /\ failed' = failed /\ failed \in BOOLEAN /\ Pool
  BY <1>2 DEF LoadMany, IInv
<1>4. f.roots = {} /\ f.raw = {} /\ f.gap = NoGap
  BY <1>1, <1>3, TreeGone
<1>5. Lists(s, K)
  BY <1>2, <1>3, SortedLists
<1>6. PICK b : b = built'
  OBVIOUS
<1>7. /\ pc' = "build" /\ stack' \in Seq([items : Seq(Item), node : Nat])
      /\ ListOf(NodesOf(stack'), {b})
      /\ \A i \in 1..Len(stack') : stack'[i].node = b /\ Lists(stack'[i].items, K)
  BY <1>1, <1>3, <1>4, <1>5, <1>6, BuildBegins
<1>8. PICK f2 : Forest(heap', Range(pending_two'), f2) /\ NewRoot(f, f2, b, K, {b})
  BY <1>1, <1>3, <1>4, <1>5, <1>6, BuildBegins
<1>9. f2.roots = {b} /\ f2.raw = {b} /\ f2.gap = NoGap /\ f2.own[b] = K
  BY <1>4, <1>8 DEF NewRoot
<1>10. OldKeys(f2)' = K /\ Outside' = {}
  BY <1>3 DEF OldKeys, Outside
<1>11. Around(f2)'
  BY <1>3, <1>9, <1>10 DEF Around
<1>12. \A i \in 1..Len(stack') : Lists(stack'[i].items, f2.own[stack'[i].node])
                                  /\ Cardinality(f2.own[stack'[i].node]) > 1
  <2>1. Cardinality(K) > 1
    BY <1>3, KeySets
  <2> QED
    BY <2>1, <1>7, <1>9
<1>13. Building(f2)'
  BY <1>3, <1>6, <1>7, <1>9, <1>10, <1>11, <1>12 DEF Building
<1>14. Stage(f2)'
  BY <1>7, <1>13 DEF Stage
<1> QED
  BY <1>3, <1>7, <1>8, <1>14 DEF IInv, States, Pool

\* A finite set of numbers has a greatest one.
LEMMA FiniteMax ==
  ASSUME NEW S \in SUBSET Int, IsFiniteSet(S), S # {}
  PROVE  \E x \in S : \A y \in S : y <= x
<1>1. Cardinality(S) \in Nat /\ Cardinality(S) # 0
  BY FS_CardinalityType, FS_EmptySet
<1>2. PICK c : c = Cardinality(S) - 1
  OBVIOUS
<1>3. c \in 0..(Cardinality(S) - 1)
  BY <1>1, <1>2
<1>4. PICK x \in S : Rank(S, x) = c
  BY <1>3, RankOnto
<1>5. ASSUME NEW y \in S PROVE y <= x
  <2>1. Rank(S, y) \in 0..c /\ (x < y => Rank(S, x) < Rank(S, y))
    BY <1>2, RankIncreases
  <2>2. x \in Int /\ y \in Int /\ c \in Int
    BY <1>1, <1>2
  <2>3. ~(x < y)
    BY <2>1, <2>2, <1>4
  <2> QED
    BY <2>2, <2>3
<1> QED
  BY <1>5

\* The ranks have a bound.
LEMMA RanksBounded ==
  ASSUME NEW H, NEW P, NEW f, Forest(H, P, f)
  PROVE  \E m \in Nat : \A a \in f.live : f.rank[a] <= m
<1>1. /\ IsFiniteSet(DOMAIN H) /\ f.live \subseteq DOMAIN H
      /\ \A a \in f.live : f.rank[a] \in Nat
  BY DEF Forest, HeapOK
<1>2. PICK L, R : L = f.live /\ R = {f.rank[a] : a \in L}
  OBVIOUS
<1>3. CASE L = {}
  BY <1>2, <1>3
<1>4. CASE L # {}
  <2>1. IsFiniteSet(L)
    BY <1>1, <1>2, FS_Subset
  <2>2. IsFiniteSet(R)
    <3>1. PICK g : g = [a \in L |-> f.rank[a]]
      OBVIOUS
    <3>2. g \in Surjection(L, R)
      <4>1. g \in [L -> R]
        BY <3>1, <1>2
      <4>2. \A y \in R : \E a \in L : g[a] = y
        BY <3>1, <1>2
      <4> QED
        BY <4>1, <4>2 DEF Surjection
    <3> QED
      BY <2>1, <3>2, FS_Surjection
  <2>3. R \in SUBSET Int /\ R # {} /\ R \subseteq Nat
    BY <1>1, <1>2, <1>4
  <2>4. PICK x \in R : \A y \in R : y <= x
    BY <2>2, <2>3, FiniteMax
  <2> QED
    BY <2>3, <2>4, <1>2
<1> QED
  BY <1>3, <1>4

\* A forest without roots is empty: from every node the parents lead to a root.
LEMMA NoRootsNoNodes ==
  ASSUME NEW H, NEW P, NEW f, Forest(H, P, f), f.roots = {}
  PROVE  f.live = {}
<1>1. PICK m \in Nat : \A a \in f.live : f.rank[a] <= m
  BY RanksBounded
<1>2. PICK L, h, Z : L = f.live /\ h = [a \in L |-> m - f.rank[a]] /\ Z = {}
  OBVIOUS
<1>3. \A a \in L : f.rank[a] \in Nat
  BY <1>2 DEF Forest, HeapOK
<1>4. h \in [L -> Nat] /\ \A a \in L : h[a] = m - f.rank[a]
  BY <1>1, <1>2, <1>3
<1>5. ASSUME NEW c \in L, \A a \in L : h[a] < h[c] => a \in Z PROVE c \in Z
  <2>1. c \in f.live \ f.roots
    BY <1>2
  <2>2. PICK a \in f.live \ f.raw : \E p \in H[a].child :
          <<a, p>> # f.gap /\ f.parent[c] = <<a, p>> /\ H[a].items[p].child = c
    BY <2>1 DEF Forest, LinkOK
  <2>3. f.rank[c] < f.rank[a]
    <3>1. PICK p \in H[a].child : <<a, p>> # f.gap /\ H[a].items[p].child = c
      BY <2>2
    <3>2. NodeOK(H, f, a)
      BY <2>2 DEF Forest
    <3>3. p \in 0..(H[a].num_items - 1)
      BY <3>1, <3>2 DEF NodeOK, Shape
    <3>4. SlotOK(H, f, a, p)
      BY <3>2, <3>3 DEF NodeOK
    <3>5. ChildOK(H, f, a, p)
      BY <3>1, <3>4 DEF SlotOK
    <3> QED
      BY <3>1, <3>5 DEF ChildOK
  <2>4. a \in L /\ h[a] < h[c]
    BY <2>2, <2>3, <1>2, <1>3, <1>4
  <2> QED
    BY <2>4, <1>2, <1>5
<1>6. L \subseteq Z
  BY <1>4, <1>5, RankInduction
<1> QED
  BY <1>2, <1>6

\* After the destructor no node is left.
LEMMA DestroyPendingHolds ==
  ASSUME IInv, DestroyPending
  PROVE  IInv' /\ failed' = failed
<1>1. PICK f : Forest(heap, Range(pending_two), f) /\ Stage(f)
  BY DEF IInv
<1>2. /\ pc = "close" /\ stack = <<>> /\ pc' = "closed" /\ pending_two' = <<>>
      /\ heap' = Restrict(heap, DOMAIN heap \ Range(pending_two))
      /\ failed' = failed /\ failed \in BOOLEAN /\ contents' = contents /\ contents \subseteq Keys
  BY DEF DestroyPending, IInv
<1>3. f.roots = {}
  BY <1>1, <1>2, TreeGone
<1>4. f.live = {}
  BY <1>1, <1>3, NoRootsNoNodes
<1>5. DOMAIN heap \ Range(pending_two) = {}
  BY <1>1, <1>4 DEF Forest, HeapOK
<1>6. DOMAIN heap' = {}
  BY <1>2, <1>5 DEF Restrict
<1>7. PICK f2 : f2 = [live |-> {}, roots |-> {}, raw |-> {}]
  OBVIOUS
<1>8. f2.live = {} /\ f2.roots = {} /\ f2.raw = {}
  BY <1>7
<1>9. Range(pending_two') = {} /\ IsInjective(pending_two') /\ pending_two' \in Seq(Nat)
  BY <1>2 DEF Range, IsInjective
<1>10. IsFiniteSet(DOMAIN heap')
  BY <1>6, FS_EmptySet
<1>11. Forest(heap', Range(pending_two'), f2)
  BY <1>6, <1>8, <1>9, <1>10 DEF Forest, HeapOK
<1>12. Stage(f2)'
  BY <1>2 DEF Stage
<1> QED
  BY <1>2, <1>6, <1>9, <1>11, <1>12 DEF IInv, States, Pool

-----------------------------------------------------------------------------
(* scan_and_destory_tree. *)

\* The slots in use.
LEMMA UsedSlotsAre ==
  ASSUME NEW n, Shape(n)
  PROVE  Range(UsedSlots(n)) = (0..(n.num_items - 1)) \ n.none
<1>1. PICK S, I : I = 0..(n.num_items - 1) /\ S = I \ n.none
  OBVIOUS
<1>2. n.num_items \in Nat
  BY DEF Shape, Slotted, Node
<1>3. IsFiniteSet(S) /\ S \in SUBSET Int
  <2>1. IsFiniteSet(I) /\ I \in SUBSET Int
    BY <1>1, <1>2, FS_Interval
  <2> QED
    BY <2>1, <1>1, FS_Subset
<1>4. PICK s : s = Ascending(S)
  OBVIOUS
<1>5. /\ s \in [1..Cardinality(S) -> S]
      /\ \A x \in S : \E i \in 1..Cardinality(S) : s[i] = x
  BY <1>3, <1>4, AscendingRanks
<1>6. Range(s) = S
  BY <1>5 DEF Range
<1> QED
  BY <1>1, <1>4, <1>6 DEF UsedSlots

\* Each slot in use is given as many elements of the array as it has keys.
LEMMA RoomIs ==
  ASSUME NEW f, Forest(heap, Range(pending_two), f), f.raw = {}, NEW a \in f.live, OffGap(f, a),
         NEW q \in (0..(heap[a].num_items - 1)) \ heap[a].none
  PROVE  Room(heap[a], q) = Cardinality(KeysAt(heap[a], f.own[a], q))
<1>1. NodeOK(heap, f, a)
  BY DEF Forest
<1>2. SlotOK(heap, f, a, q)
  BY <1>1 DEF NodeOK
<1>3. CASE q \in heap[a].child
  <2>1. PICK c : c = heap[a].items[q].child
    OBVIOUS
  <2>2. ChildOK(heap, f, a, q)
    BY <1>2, <1>3 DEF SlotOK, OffGap
  <2>3. c \in f.live /\ f.own[c] = KeysAt(heap[a], f.own[a], q)
    BY <2>1, <2>2 DEF ChildOK
  <2>4. NodeOK(heap, f, c)
    BY <2>3 DEF Forest
  <2> QED
    BY <1>3, <2>1, <2>3, <2>4 DEF Room, NodeOK
<1>4. CASE q \notin heap[a].child
  <2>1. PICK k \in Keys : KeysAt(heap[a], f.own[a], q) = {k}
    BY <1>2, <1>4 DEF SlotOK
  <2> QED
    BY <1>4, <2>1, FS_Singleton DEF Room
<1> QED
  BY <1>3, <1>4

\* The part of the array for a slot begins after those for the keys of earlier slots.
LEMMA RoomBefore ==
  ASSUME NEW f, Forest(heap, Range(pending_two), f), f.raw = {}, NEW a \in f.live, OffGap(f, a),
         NEW p \in 0..heap[a].num_items
  PROVE  RoomOf(heap[a], {q \in Range(UsedSlots(heap[a])) : q < p})
           = Cardinality(KeysBefore(heap[a], f.own[a], p))
<1>1. PICK n, K, I, U : /\ n = heap[a] /\ K = f.own[a] /\ I = 0..(n.num_items - 1)
                        /\ U = {q \in I \ n.none : q < p}
  OBVIOUS
<1>2. NodeOK(heap, f, a)
  BY DEF Forest
<1>3. Shape(n) /\ Slotted(n) /\ n.num_items \in Nat
  BY <1>1, <1>2 DEF NodeOK, Shape, Slotted, Node
<1>4. K \in SUBSET Keys
  BY <1>1 DEF Forest, HeapOK
<1>5. K \in SUBSET Nat /\ IsFiniteSet(K)
  BY <1>4, KeySets
<1>6. {q \in Range(UsedSlots(heap[a])) : q < p} = U
  BY <1>1, <1>3, UsedSlotsAre
<1>7. U \in SUBSET (0..(n.num_items - 1))
  BY <1>1
<1>8. \A q \in U : Room(n, q) = Cardinality(KeysAt(n, K, q))
  BY <1>1, RoomIs
<1>9. RoomOf(n, U) = Cardinality({k \in K : Predict(n, k) \in U})
  BY <1>3, <1>5, <1>7, <1>8, SumOfParts
<1>10. {k \in K : Predict(n, k) \in U} = KeysBefore(n, K, p)
  <2>1. ASSUME NEW k \in K, Predict(n, k) < p PROVE Predict(n, k) \in U
    <3>1. Predict(n, k) \in I
      BY <1>1, <1>3, <1>5, PredictInside
    <3>2. SlotOK(heap, f, a, Predict(n, k))
      BY <3>1, <1>1, <1>2 DEF NodeOK
    <3>3. k \in KeysAt(n, K, Predict(n, k))
      BY DEF KeysAt
    <3>4. Predict(n, k) \notin n.none
      BY <3>2, <3>3, <1>1 DEF SlotOK
    <3> QED
      BY <2>1, <3>1, <3>4, <1>1
  <2>2. \A k \in K : Predict(n, k) \in U => Predict(n, k) < p
    BY <1>1
  <2> QED
    BY <2>1, <2>2 DEF KeysBefore
<1> QED
  BY <1>1, <1>6, <1>9, <1>10

\* The nodes of a stack follow its changes.
LEMMA NodesReplaced ==
  ASSUME NEW s, NEW t, NEW r, Replaced(s, t, r)
  PROVE  Replaced(NodesOf(s), NodesOf(t), NodesOf(r))
<1>1. PICK l \in Nat \ {0}, m \in Nat : l = Len(s) /\ m = Len(t) /\ Len(r) = l - 1 + m
  BY DEF Replaced
<1>2. l - 1 + m \in Nat
  OBVIOUS
<1>3. PICK u, v, w : /\ u = [i \in 1..l |-> s[i].node] /\ v = [i \in 1..m |-> t[i].node]
                     /\ w = [i \in 1..(l - 1 + m) |-> r[i].node]
  OBVIOUS
<1>4. u = NodesOf(s) /\ v = NodesOf(t) /\ w = NodesOf(r)
  BY <1>1, <1>3 DEF NodesOf
<1>5. Len(u) = l /\ Len(v) = m /\ Len(w) = l - 1 + m
  BY <1>2, <1>3
<1>6. \A i \in 1..(l - 1) : i \in 1..(l - 1 + m) /\ i \in 1..l /\ r[i] = s[i]
  BY <1>1 DEF Replaced
<1>7. \A j \in 1..m : l - 1 + j \in 1..(l - 1 + m) /\ r[l - 1 + j] = t[j]
  BY <1>1 DEF Replaced
<1>8. \A i \in 1..(l - 1 + m) : i \in 1..(l - 1) \/ \E j \in 1..m : i = l - 1 + j
  BY <1>1 DEF Replaced
<1>9. \A i \in 1..(l - 1) : w[i] = u[i]
  BY <1>3, <1>6
<1>10. \A j \in 1..m : w[l - 1 + j] = v[j]
  BY <1>3, <1>7
<1>11. Replaced(u, v, w)
  BY <1>5, <1>6, <1>7, <1>8, <1>9, <1>10 DEF Replaced
<1> QED
  BY <1>4, <1>11

\* The keys of the subtree that is rebuilt.
LEMMA OldKeysAre ==
  ASSUME NEW f, Forest(heap, Range(pending_two), f), Around(f), contents \subseteq Keys
  PROVE  OldKeys(f) \in SUBSET Keys
<1>1. hook # 0 => f.own[hook] \subseteq Keys
  BY DEF Around, Forest, HeapOK
<1> QED
  BY <1>1 DEF OldKeys, KeysAt

\* A slot with one item is given the element of its key.
LEMMA RankAlone ==
  ASSUME NEW k \in Int
  PROVE  Rank({k}, k) = 0
<1>1. {y \in {k} : y < k} = {}
  OBVIOUS
<1> QED
  BY <1>1, FS_EmptySet DEF Rank

\* Where the keys of a node on the stack of the scan go.
LEMMA ScanPlaces ==
  ASSUME NEW f, Forest(heap, Range(pending_two), f), Scanning(f), contents \subseteq Keys,
         NEW seg, Scanned(f, seg), seg.begin \in Nat, seg.node \in f.live
  PROVE  /\ OffGap(f, seg.node)
         /\ \A p \in 0..heap[seg.node].num_items :
              BeginOf(seg, p) = seg.begin + Cardinality(KeysBefore(heap[seg.node], f.own[seg.node], p))
              /\ BeginOf(seg, p) \in Nat
         /\ \A p \in 0..(heap[seg.node].num_items - 1) :
              \A k \in KeysAt(heap[seg.node], f.own[seg.node], p) :
                Rank(OldKeys(f), k)
                  = BeginOf(seg, p) + Rank(KeysAt(heap[seg.node], f.own[seg.node], p), k)
<1>1. PICK a, n, K, Old : a = seg.node /\ n = heap[a] /\ K = f.own[a] /\ Old = OldKeys(f)
  OBVIOUS
<1>2. Around(f) /\ f.raw = {}
  BY DEF Scanning
<1>3. K \subseteq Old /\ \A k \in K : Rank(Old, k) = seg.begin + Rank(K, k)
  BY <1>1 DEF Scanned
<1>4. OffGap(f, a)
  <2>1. CASE hook = 0
    <3>1. f.gap = <<0, 0>> /\ a # 0
      BY <2>1, <1>1, <1>2 DEF Around, NoGap, Forest, HeapOK
    <3> QED
      BY <3>1 DEF OffGap
  <2>2. CASE hook # 0
    <3>1. f.rank[a] < f.rank[hook] /\ f.rank[a] \in Nat
      BY <2>2, <1>1 DEF Scanned, Forest, HeapOK
    <3>2. a # hook
      BY <3>1
    <3>3. f.gap = <<hook, Predict(heap[hook], key)>>
      BY <2>2, <1>2 DEF Around, Place
    <3> QED
      BY <3>2, <3>3 DEF OffGap
  <2> QED
    BY <2>1, <2>2
<1>5. Slotted(n) /\ n.num_items \in Nat
  <2>1. NodeOK(heap, f, a)
    BY <1>1, <1>2 DEF Forest
  <2> QED
    BY <2>1, <1>1 DEF NodeOK, Shape, Slotted, Node
<1>6. K \in SUBSET Keys
  BY <1>1 DEF Forest, HeapOK
<1>7. K \in SUBSET Nat /\ IsFiniteSet(K)
  BY <1>6, KeySets
<1>8. ASSUME NEW p \in 0..n.num_items
      PROVE  /\ BeginOf(seg, p) = seg.begin + Cardinality(KeysBefore(n, K, p))
             /\ BeginOf(seg, p) \in Nat /\ Cardinality(KeysBefore(n, K, p)) \in Nat
  <2>1. RoomOf(n, {q \in Range(UsedSlots(n)) : q < p}) = Cardinality(KeysBefore(n, K, p))
    BY <1>1, <1>2, <1>4, RoomBefore
  <2>2. BeginOf(seg, p) = seg.begin + RoomOf(n, {q \in Range(UsedSlots(n)) : q < p})
    BY <1>1 DEF BeginOf
  <2>3. KeysBefore(n, K, p) \in SUBSET Keys
    BY <1>6 DEF KeysBefore
  <2>4. Cardinality(KeysBefore(n, K, p)) \in Nat
    BY <2>3, KeySets
  <2> QED
    BY <2>1, <2>2, <2>4
<1>9. ASSUME NEW p \in 0..(n.num_items - 1), NEW k \in KeysAt(n, K, p)
      PROVE  Rank(Old, k) = BeginOf(seg, p) + Rank(KeysAt(n, K, p), k)
  <2>1. k \in K /\ p \in 0..n.num_items
    BY <1>5 DEF KeysAt
  <2>2. Rank(K, k) = Cardinality(KeysBefore(n, K, p)) + Rank(KeysAt(n, K, p), k)
    <3>1. RanksBySlot(n, K)
      BY <1>5, <1>7, SlotRank
    <3> QED
      BY <3>1 DEF RanksBySlot
  <2>3. KeysAt(n, K, p) \in SUBSET Keys
    BY <1>6 DEF KeysAt
  <2>4. Rank(KeysAt(n, K, p), k) \in Nat
    BY <2>3, KeySets
  <2>5. Rank(Old, k) = seg.begin + Rank(K, k)
    BY <2>1, <1>3
  <2>6. /\ BeginOf(seg, p) = seg.begin + Cardinality(KeysBefore(n, K, p))
        /\ Cardinality(KeysBefore(n, K, p)) \in Nat
    BY <2>1, <1>8
  <2> QED
    BY <2>2, <2>4, <2>5, <2>6
<1> QED
  BY <1>1, <1>4, <1>8, <1>9

\* scan_and_destory_tree writes the items of a node to the array and pushes its children.
LEMMA ScanStepHolds ==
  ASSUME IInv, ScanStep
  PROVE  IInv' /\ failed' = failed
<1>1. PICK f : Forest(heap, Range(pending_two), f) /\ Stage(f)
  BY DEF IInv
<1>2. /\ pc = "scan" /\ pc' = pc /\ stack # <<>> /\ root' = root /\ key' = key /\ hook' = hook
      /\ contents' = contents /\ Pool /\ contents \subseteq Keys /\ failed \in BOOLEAN
  BY DEF IInv, ScanStep
<1>3. Scanning(f)
  BY <1>1, <1>2 DEF Stage
<1>4. PICK s, seg, a, H, n, K, Old, E :
        /\ s = stack /\ seg = Last(s) /\ a = seg.node /\ H = heap /\ n = H[a] /\ K = f.own[a]
        /\ Old = OldKeys(f) /\ E = entries
  OBVIOUS
<1>5. PICK data, down : /\ data = {p \in Range(UsedSlots(n)) : p \notin n.child}
                        /\ down = ChildSlots(n)
  OBVIOUS
<1>6. PICK t : t = [i \in 1..Len(down) |-> [begin |-> BeginOf(seg, down[i]),
                                            node |-> n.items[down[i]].child]]
  OBVIOUS
<1>7. /\ entries' = [i \in DOMAIN E |->
                       IF \E p \in data : BeginOf(seg, p) = i
                       THEN n.items[CHOOSE p \in data : BeginOf(seg, p) = i] ELSE E[i]]
      /\ stack' = Front(s) \o t
      /\ failed' = \/ failed
                   \/ BeginOf(seg, n.num_items) # seg.begin + n.size
                   \/ \E p \in data : BeginOf(seg, p) \notin DOMAIN E
                   \/ ~DiscardAsserts(a)
      /\ heap' = HeapWithout(a) /\ pending_two' = PoolWith(a)
  BY <1>4, <1>5, <1>6 DEF ScanStep
<1>8. /\ Around(f) /\ f.raw = {} /\ s \in Seq([begin : Nat, node : Nat])
      /\ ListOf(NodesOf(s), f.roots \ Outside) /\ \A i \in 1..Len(s) : Scanned(f, s[i])
      /\ DOMAIN E = 0..(Cardinality(Old) - 1) /\ s # <<>>
      /\ \A k \in Old : \/ \E i \in 1..Len(s) : k \in f.own[s[i].node]
                        \/ E[Rank(Old, k)] = Data(k)
  BY <1>2, <1>3, <1>4 DEF Scanning
<1>9. /\ Len(s) \in Nat \ {0} /\ seg = s[Len(s)] /\ seg \in [begin : Nat, node : Nat]
      /\ Scanned(f, seg) /\ seg.begin \in Nat
  <2>1. PICK S : S = [begin : Nat, node : Nat]
    OBVIOUS
  <2>2. s \in Seq(S) /\ s # <<>>
    BY <2>1, <1>8
  <2>3. Len(s) \in Nat /\ Len(s) > 0 /\ seg = s[Len(s)] /\ seg \in S
    BY <2>2, <1>4, LastOf
  <2>4. Len(s) \in 1..Len(s)
    BY <2>3
  <2> QED
    BY <2>1, <2>3, <2>4, <1>8
<1>10. a \in f.roots /\ a \notin Outside /\ a = NodesOf(s)[Len(s)]
  <2>1. PICK R : R = f.roots \ Outside
    OBVIOUS
  <2>2. NodesOf(s) \in Seq(R) /\ Len(s) \in 1..Len(s)
    BY <2>1, <1>8, <1>9 DEF ListOf
  <2>3. NodesOf(s) = [i \in 1..Len(s) |-> s[i].node]
    BY DEF NodesOf
  <2>4. NodesOf(s)[Len(s)] = a /\ Len(NodesOf(s)) = Len(s)
    BY <2>2, <2>3, <1>4, <1>9
  <2>5. a \in R
    BY <2>2, <2>4
  <2> QED
    BY <2>1, <2>4, <2>5
<1>11. a \in f.live \ f.raw /\ a \in Nat \ {0} /\ a \notin Range(pending_two)
  BY <1>1, <1>2, <1>8, <1>10, HeapFacts
<1>12. /\ OffGap(f, a)
       /\ \A p \in 0..n.num_items : BeginOf(seg, p) = seg.begin + Cardinality(KeysBefore(n, K, p))
                                    /\ BeginOf(seg, p) \in Nat
       /\ \A p \in 0..(n.num_items - 1) : \A k \in KeysAt(n, K, p) :
            Rank(Old, k) = BeginOf(seg, p) + Rank(KeysAt(n, K, p), k)
  BY <1>1, <1>2, <1>3, <1>4, <1>9, <1>11, ScanPlaces
<1>13. /\ K \subseteq Old /\ Old \in SUBSET Keys /\ K \in SUBSET Keys
       /\ hook # 0 => f.rank[a] < f.rank[hook]
  <2>1. K \subseteq Old /\ (hook # 0 => f.rank[a] < f.rank[hook])
    BY <1>4, <1>9 DEF Scanned
  <2>2. Old \in SUBSET Keys
    BY <1>1, <1>2, <1>4, <1>8, OldKeysAre
  <2> QED
    BY <2>1, <2>2
<1>14. /\ Old \in SUBSET Int /\ IsFiniteSet(Old) /\ Cardinality(Old) \in Nat
       /\ \A k \in Old : Rank(Old, k) \in DOMAIN E
  BY <1>8, <1>13, KeySets
<1>15. NodeOK(H, f, a) /\ Shape(n) /\ Slotted(n) /\ n.num_items \in Nat /\ n.size = Cardinality(K)
  BY <1>1, <1>4, <1>11 DEF Forest, NodeOK, Shape, Slotted, Node
<1>16. data = {p \in 0..(n.num_items - 1) : p \notin n.none /\ p \notin n.child}
  BY <1>5, <1>15, UsedSlotsAre
<1>17. ASSUME NEW p \in data
       PROVE  \E k \in K : /\ KeysAt(n, K, p) = {k} /\ n.items[p] = Data(k)
                           /\ Rank(Old, k) = BeginOf(seg, p)
  <2>1. p \in 0..(n.num_items - 1) /\ p \notin n.none \cup n.child
    BY <1>16
  <2>2. SlotOK(H, f, a, p)
    BY <2>1, <1>4, <1>15 DEF NodeOK
  <2>3. PICK k \in Keys : KeysAt(n, K, p) = {k} /\ n.items[p] = Data(k)
    BY <2>1, <2>2, <1>4 DEF SlotOK
  <2>4. k \in K /\ k \in Int
    BY <2>3, LippAssumption DEF KeysAt
  <2>5. Rank(Old, k) = BeginOf(seg, p) + Rank({k}, k)
    BY <2>1, <2>3, <1>12
  <2>6. BeginOf(seg, p) \in Nat
    BY <2>1, <1>12, <1>15
  <2> QED
    BY <2>3, <2>4, <2>5, <2>6, RankAlone
<1>18. failed' = failed
  <2>1. BeginOf(seg, n.num_items) = seg.begin + n.size
    <3>1. KeysBefore(n, K, n.num_items) = K
      <4>1. \A k \in K : Predict(n, k) \in 0..(n.num_items - 1)
        BY <1>13, <1>15, PredictInside, LippAssumption
      <4>2. \A k \in K : Predict(n, k) < n.num_items
        BY <4>1, <1>15
      <4> QED
        BY <4>2 DEF KeysBefore
    <3>2. n.num_items \in 0..n.num_items
      BY <1>15
    <3> QED
      BY <3>1, <3>2, <1>12, <1>15
  <2>2. \A p \in data : BeginOf(seg, p) \in DOMAIN E
    BY <1>13, <1>14, <1>17
  <2>3. DiscardAsserts(a)
    BY <1>1, <1>11, DiscardIsSafe
  <2> QED
    BY <2>1, <2>2, <2>3, <1>2, <1>7
<1>19. PICK E2 : E2 = entries'
  OBVIOUS
<1>20. ASSUME NEW k \in Old
       PROVE  /\ E2[Rank(Old, k)] = Data(k) \/ E2[Rank(Old, k)] = E[Rank(Old, k)]
              /\ (\E p \in data : k \in KeysAt(n, K, p)) => E2[Rank(Old, k)] = Data(k)
  <2>1. PICK i : i = Rank(Old, k)
    OBVIOUS
  <2>2. i \in DOMAIN E
    BY <2>1, <1>14
  <2>3. E2[i] = IF \E p \in data : BeginOf(seg, p) = i
                THEN n.items[CHOOSE p \in data : BeginOf(seg, p) = i] ELSE E[i]
    BY <2>2, <1>7, <1>19
  <2>4. ASSUME \E p \in data : BeginOf(seg, p) = i PROVE E2[i] = Data(k)
    <3>1. PICK p : p = CHOOSE q \in data : BeginOf(seg, q) = i
      OBVIOUS
    <3>2. p \in data /\ BeginOf(seg, p) = i
      BY <2>4, <3>1
    <3>3. PICK l \in K : n.items[p] = Data(l) /\ Rank(Old, l) = i
      BY <3>2, <1>17
    <3>4. l = k
      <4>1. l \in Old /\ Rank(Old, l) = Rank(Old, k)
        BY <3>3, <2>1, <1>13
      <4> QED
        BY <4>1, <1>14, RankOnto
    <3> QED
      BY <2>3, <2>4, <3>1, <3>3, <3>4
  <2>5. ASSUME NEW p \in data, k \in KeysAt(n, K, p) PROVE BeginOf(seg, p) = i
    BY <1>17, <2>1, <2>5
  <2> QED
    BY <2>1, <2>3, <2>4, <2>5
<1>21. DOMAIN E2 = DOMAIN E
  BY <1>7, <1>19
<1>22. PICK f2 : /\ Forest(heap', Range(pending_two'), f2) /\ f2.live = f.live \ {a} /\ f2.raw = {}
                 /\ f2.roots = (f.roots \ {a}) \cup Kids(H, a) /\ f2.gap = f.gap
                 /\ f2.own = f.own /\ f2.rank = f.rank
  <2>1. Discarded(heap, Range(pending_two), a, heap', Range(pending_two'))
    BY <1>2, <1>7, <1>11, PoolGrows DEF HeapWithout, Discarded
  <2>2. PICK P, H2, P2 : P = Range(pending_two) /\ H2 = heap' /\ P2 = Range(pending_two')
    OBVIOUS
  <2>3. Discarded(H, P, a, H2, P2) /\ Forest(H, P, f)
    BY <2>1, <2>2, <1>1, <1>4
  <2>4. \E f2 : /\ Forest(H2, P2, f2) /\ f2.live = f.live \ {a} /\ f2.raw = {}
                /\ f2.roots = (f.roots \ {a}) \cup Kids(H, a) /\ f2.gap = f.gap
                /\ f2.own = f.own /\ f2.rank = f.rank
    <3>1. f.raw = {} /\ a \in f.roots /\ OffGap(f, a)
      BY <1>8, <1>10, <1>12
    <3>2. Discarded(H, P, a, H2, P2) /\ Forest(H, P, f)
      BY <2>3
    <3> QED
      BY ONLY <3>1, <3>2, RootRemoved
  <2> QED
    BY <2>2, <2>4
<1>23. /\ \A p \in n.child : ChildOK(H, f, a, p)
       /\ Kids(H, a) \subseteq f.live \ f.roots
       /\ \A p, q \in n.child : n.items[p].child = n.items[q].child => p = q
  BY <1>1, <1>4, <1>11, <1>12, Children
<1>24. hook # 0 => hook \in f.live \ {a} /\ heap'[hook] = heap[hook]
  <2>1. SUFFICES ASSUME hook # 0 PROVE hook \in f.live \ {a} /\ heap'[hook] = heap[hook]
    OBVIOUS
  <2>2. hook \in f.live /\ f.rank[a] < f.rank[hook]
    BY <2>1, <1>8, <1>13 DEF Around
  <2>3. f.rank[a] \in Nat
    BY <1>1, <1>11 DEF Forest, HeapOK
  <2>4. hook # a
    BY <2>2, <2>3
  <2>5. hook \in DOMAIN heap
    BY <1>1, <2>2 DEF Forest, HeapOK
  <2>6. HeapWithout(a)[hook] = heap[hook]
    BY <2>4, <2>5 DEF HeapWithout, Restrict
  <2> QED
    BY <2>2, <2>4, <2>6, <1>7
<1>25. /\ hook # 0 => Place' = Place
       /\ OldKeys(f2)' = Old /\ Outside' = Outside
  <2>1. hook # 0 => Place' = Place
    BY <1>2, <1>24 DEF Place
  <2>2. Outside' = Outside
    BY <1>2 DEF Outside
  <2>3. hook = 0 => OldKeys(f2)' = Old
    BY <1>2, <1>4 DEF OldKeys
  <2>4. hook # 0 => KeysAt(heap'[hook], f2.own[hook], Place[2]) = KeysAt(heap[hook], f.own[hook], Place[2])
    BY <1>22, <1>24
  <2>5. hook # 0 => OldKeys(f2)' = Old
    BY <2>1, <2>4, <1>2, <1>4 DEF OldKeys
  <2> QED
    BY <2>1, <2>2, <2>3, <2>5
<1>26. Around(f2)'
  <2>1. f2.gap = (IF hook = 0 THEN NoGap ELSE Place)
    BY <1>8, <1>22 DEF Around
  <2>2. (f2.gap = IF hook = 0 THEN NoGap ELSE Place)'
    BY <2>1, <1>2, <1>25
  <2>3. ASSUME hook # 0
        PROVE  /\ hook \in f2.live \ f2.raw /\ Place[2] \in heap'[hook].child
               /\ root \in f2.roots /\ f2.own[root] = contents
    BY <2>3, <1>8, <1>10, <1>22, <1>24 DEF Around, Outside
  <2>4. Cardinality(Old) > 2
    BY <1>4, <1>8 DEF Around
  <2>5. (hook # 0 => /\ hook \in f2.live \ f2.raw /\ Place[2] \in heap[hook].child
                     /\ root \in f2.roots /\ f2.own[root] = contents)'
    BY <2>3, <1>2, <1>25
  <2>6. (Cardinality(OldKeys(f2)) > 2)'
    BY <2>4, <1>25
  <2> QED
    BY <2>2, <2>5, <2>6 DEF Around
<1>27. ListOf(down, n.child) /\ Len(down) \in Nat /\ \A i \in 1..Len(down) : down[i] \in n.child
  <2>1. ListOf(down, n.child)
    BY <1>5, <1>15, ChildSlotsList
  <2> QED
    BY <2>1 DEF ListOf
<1>28. /\ n.child \subseteq 0..(n.num_items - 1)
       /\ \A p \in n.child : BeginOf(seg, p) \in Nat /\ n.items[p].child \in Nat
  <2>1. n.child \subseteq 0..(n.num_items - 1)
    BY <1>15 DEF Shape
  <2>2. \A p \in n.child : p \in 0..n.num_items
    BY <2>1, <1>15
  <2>3. \A p \in n.child : n.items[p].child \in f.live
    BY <1>4, <1>23 DEF ChildOK
  <2>4. \A c \in f.live : c \in Nat
    BY <1>1, <1>2, HeapFacts
  <2> QED
    BY <2>1, <2>2, <2>3, <2>4, <1>12
<1>29. PICK S : S = [begin : Nat, node : Nat]
  OBVIOUS
<1>30. t \in Seq(S) /\ Len(t) = Len(down)
  <2>1. \A i \in 1..Len(down) : t[i] \in S
    BY <1>6, <1>27, <1>28, <1>29
  <2> QED
    BY <2>1, <1>6, <1>27
<1>31. ListOf(NodesOf(t), Kids(H, a))
  <2>1. NodesOf(t) = [i \in 1..Len(down) |-> H[a].items[down[i]].child]
    BY <1>4, <1>6, <1>30 DEF NodesOf
  <2>2. ListOf([i \in 1..Len(down) |-> H[a].items[down[i]].child], Kids(H, a))
    BY <1>4, <1>23, <1>27, KidsListed
  <2> QED
    BY <2>1, <2>2
<1>32. PICK r : r = stack'
  OBVIOUS
<1>33. r \in Seq(S) /\ Replaced(s, t, r) /\ Len(r) \in Nat
  BY <1>7, <1>8, <1>29, <1>30, <1>32, Pushed
<1>34. ListOf(NodesOf(r), f2.roots \ Outside)
  <2>1. PICK A, B : A = f.roots \ Outside /\ B = Kids(H, a)
    OBVIOUS
  <2>2. A \cap B = {} /\ Outside \cap B = {}
    BY <2>1, <1>8, <1>23 DEF Around, Outside
  <2>3. f2.roots \ Outside = (A \ {a}) \cup B
    BY <2>1, <2>2, <1>22
  <2>4. PICK u, v, w : u = NodesOf(s) /\ v = NodesOf(t) /\ w = NodesOf(r)
    OBVIOUS
  <2>5. Replaced(u, v, w)
    BY <2>4, <1>33, NodesReplaced
  <2>6. ListOf(u, A) /\ ListOf(v, B)
    BY <2>1, <2>4, <1>8, <1>31
  <2>7. w \in Seq(A \cup B)
    <3>1. \A i \in 1..Len(w) : w[i] \in A \cup B
      BY <2>5, <2>6, ListsInto
    <3>2. w = [i \in 1..Len(r) |-> r[i].node] /\ Len(w) = Len(r)
      BY <2>4, <1>33 DEF NodesOf
    <3> QED
      BY <3>1, <3>2, <1>33
  <2>8. ListOf(w, (A \ {u[Len(u)]}) \cup B)
    BY <2>2, <2>5, <2>6, <2>7, ListPushed
  <2>9. u[Len(u)] = a
    <3>1. u = [i \in 1..Len(s) |-> s[i].node] /\ Len(u) = Len(s)
      BY <2>4, <1>9 DEF NodesOf
    <3> QED
      BY <3>1, <2>4, <1>9, <1>10
  <2> QED
    BY <2>3, <2>4, <2>8, <2>9
<1>35. \A i \in 1..Len(r) : Scanned(f2, r[i])'
  <2>1. ASSUME NEW x, f.own[x.node] \subseteq Old,
               \A k \in f.own[x.node] : Rank(Old, k) = x.begin + Rank(f.own[x.node], k),
               hook # 0 => f.rank[x.node] < f.rank[hook]
        PROVE  Scanned(f2, x)'
    BY <2>1, <1>2, <1>22, <1>25 DEF Scanned
  <2>2. ASSUME NEW i \in 1..Len(s) PROVE Scanned(f2, s[i])'
    <3>1. Scanned(f, s[i])
      BY <1>8
    <3> QED
      BY <2>1, <3>1, <1>4 DEF Scanned
  <2>3. ASSUME NEW j \in 1..Len(t) PROVE Scanned(f2, t[j])'
    <3>1. PICK p : p = down[j]
      OBVIOUS
    <3>2. p \in n.child /\ t[j].begin = BeginOf(seg, p) /\ t[j].node = n.items[p].child
      BY <3>1, <1>6, <1>27, <1>30
    <3>3. PICK c : c = n.items[p].child
      OBVIOUS
    <3>4. f.own[c] = KeysAt(n, K, p) /\ f.rank[c] < f.rank[a] /\ c \in f.live
      <4>1. ChildOK(H, f, a, p)
        BY <3>2, <1>23
      <4>2. H[a].items[p].child = c /\ H[a] = n /\ f.own[a] = K
        BY <3>3, <1>4
      <4> QED
        BY <4>1, <4>2 DEF ChildOK
    <3>5. \A k \in f.own[c] : Rank(Old, k) = BeginOf(seg, p) + Rank(f.own[c], k)
      BY <3>2, <3>4, <1>12, <1>28
    <3>6. f.own[c] \subseteq Old
      BY <3>4, <1>13 DEF KeysAt
    <3>7. hook # 0 => f.rank[c] < f.rank[hook]
      <4>1. f.rank[c] \in Nat /\ f.rank[a] \in Nat
        BY <3>4, <1>1, <1>11 DEF Forest, HeapOK
      <4>2. hook # 0 => f.rank[hook] \in Nat
        BY <1>1, <1>24 DEF Forest, HeapOK
      <4> QED
        BY <3>4, <4>1, <4>2, <1>13
    <3> QED
      BY <2>1, <3>2, <3>3, <3>5, <3>6, <3>7
  <2>4. \A i \in 1..(Len(s) - 1) : i \in 1..Len(s) /\ r[i] = s[i]
    BY <1>9, <1>33 DEF Replaced
  <2>5. \A j \in 1..Len(t) : r[Len(s) - 1 + j] = t[j]
    BY <1>33 DEF Replaced
  <2>6. \A i \in 1..Len(r) : i \in 1..(Len(s) - 1) \/ \E j \in 1..Len(t) : i = Len(s) - 1 + j
    BY <1>33 DEF Replaced
  <2>7. TAKE i \in 1..Len(r)
  <2>8. (\E j \in 1..Len(s) : r[i] = s[j]) \/ (\E j \in 1..Len(t) : r[i] = t[j])
    BY <2>4, <2>5, <2>6
  <2> QED
    BY <2>2, <2>3, <2>8
<1>36. ASSUME NEW k \in Old
       PROVE  \/ \E i \in 1..Len(r) : k \in f.own[r[i].node]
              \/ E2[Rank(Old, k)] = Data(k)
  <2>1. CASE E[Rank(Old, k)] = Data(k)
    BY <2>1, <1>20
  <2>2. ASSUME NEW i \in 1..Len(s), k \in f.own[s[i].node], i # Len(s)
        PROVE  \E j \in 1..Len(r) : k \in f.own[r[j].node]
    <3>1. i \in 1..(Len(s) - 1)
      BY <2>2, <1>9
    <3>2. i \in 1..Len(r) /\ r[i] = s[i]
      BY <3>1, <1>33 DEF Replaced
    <3> QED
      BY <2>2, <3>2
  <2>3. ASSUME k \in K
        PROVE  \/ \E j \in 1..Len(r) : k \in f.own[r[j].node]
               \/ E2[Rank(Old, k)] = Data(k)
    <3>1. PICK p : p = Predict(n, k)
      OBVIOUS
    <3>2. p \in 0..(n.num_items - 1)
      BY <2>3, <3>1, <1>13, <1>15, PredictInside, LippAssumption
    <3>3. k \in KeysAt(n, K, p)
      BY <2>3, <3>1 DEF KeysAt
    <3>4. p \notin n.none
      <4>1. SlotOK(H, f, a, p)
        BY <3>2, <1>4, <1>15 DEF NodeOK
      <4> QED
        BY <3>3, <4>1, <1>4 DEF SlotOK
    <3>5. CASE p \notin n.child
      <4>1. p \in data
        BY <3>2, <3>4, <3>5, <1>16
      <4> QED
        BY <3>3, <4>1, <1>20
    <3>6. CASE p \in n.child
      <4>1. PICK j \in 1..Len(down) : down[j] = p
        BY <3>6, <1>27 DEF ListOf
      <4>2. t[j].node = n.items[p].child /\ j \in 1..Len(t)
        BY <4>1, <1>6, <1>30
      <4>3. f.own[n.items[p].child] = KeysAt(n, K, p)
        BY <3>6, <1>4, <1>23 DEF ChildOK
      <4>4. Len(s) - 1 + j \in 1..Len(r) /\ r[Len(s) - 1 + j] = t[j]
        BY <4>2, <1>33 DEF Replaced
      <4>5. k \in f.own[r[Len(s) - 1 + j].node]
        BY <3>3, <4>2, <4>3, <4>4
      <4> QED
        BY <4>4, <4>5
    <3> QED
      BY <3>5, <3>6
  <2>4. ASSUME NEW i \in 1..Len(s), k \in f.own[s[i].node], i = Len(s) PROVE k \in K
    BY <2>4, <1>4, <1>9
  <2> QED
    BY <2>1, <2>2, <2>3, <2>4, <1>8
<1>37. Scanning(f2)'
  <2>1. (f2.raw = {})'
    BY <1>22
  <2>2. (stack \in Seq([begin : Nat, node : Nat]) /\ ListOf(NodesOf(stack), f2.roots \ Outside))'
    BY <1>25, <1>29, <1>32, <1>33, <1>34
  <2>3. (\A i \in 1..Len(stack) : Scanned(f2, stack[i]))'
    BY <1>32, <1>35
  <2>4. (DOMAIN entries = 0..(Cardinality(OldKeys(f2)) - 1))'
    BY <1>8, <1>19, <1>21, <1>25
  <2>5. (\A k \in OldKeys(f2) : \/ \E i \in 1..Len(stack) : k \in f2.own[stack[i].node]
                                \/ entries[Rank(OldKeys(f2), k)] = Data(k))'
    BY <1>19, <1>22, <1>25, <1>32, <1>36
  <2> QED
    BY <2>1, <2>2, <2>3, <2>4, <2>5, <1>26 DEF Scanning
<1>38. Stage(f2)'
  BY <1>2, <1>37 DEF Stage
<1>39. Pool'
  BY <1>2, <1>7, <1>11, PoolGrows DEF Pool
<1> QED
  BY <1>2, <1>18, <1>22, <1>38, <1>39 DEF IInv, States

\* When the scan is done the array lists the keys of the subtree.
LEMMA ArrayLists ==
  ASSUME NEW K \in SUBSET Keys, NEW E, DOMAIN E = 0..(Cardinality(K) - 1),
         \A k \in K : E[Rank(K, k)] = Data(k),
         NEW s, s = [n \in 1..Cardinality(DOMAIN E) |-> E[n - 1]]
  PROVE  Lists(s, K)
<1>1. PICK c : c = Cardinality(K)
  OBVIOUS
<1>2. /\ c \in Nat /\ K \in SUBSET Int /\ K \in SUBSET Nat /\ IsFiniteSet(K)
      /\ \A k \in K : Rank(K, k) \in 0..(c - 1)
  BY <1>1, KeySets
<1>3. Cardinality(DOMAIN E) = c
  <2>1. Cardinality(0..(c - 1)) = c
    BY <1>2, FS_Interval
  <2> QED
    BY <2>1, <1>1
<1>4. PICK g : s = g /\ g = [n \in 1..c |-> E[n - 1]]
  BY <1>3
<1>5. ASSUME NEW n \in 1..c PROVE E[n - 1] \in Item
  <2>1. n - 1 \in 0..(c - 1)
    BY <1>2
  <2>2. PICK k \in K : Rank(K, k) = n - 1
    BY <2>1, <1>1, <1>2, RankOnto
  <2>3. E[n - 1] = Data(k)
    BY <2>2
  <2> QED
    BY <2>2, <2>3, <1>2, ItemTypes
<1>6. s \in Seq(Item) /\ Len(s) = c
  <2>1. g \in [1..c -> Item]
    BY ONLY <1>4, <1>5
  <2>2. g \in Seq(Item) /\ Len(g) = c
    BY ONLY <2>1, <1>2
  <2> QED
    BY <2>2, <1>4
<1>7. ASSUME NEW k \in K PROVE s[Rank(K, k) + 1] = Data(k)
  <2>1. PICK i \in 0..(c - 1) : i = Rank(K, k)
    BY <1>2
  <2>2. i + 1 \in 1..c /\ i + 1 - 1 = i
    BY <1>2
  <2>3. \A n \in 1..c : g[n] = E[n - 1]
    BY ONLY <1>4
  <2>4. g[i + 1] = E[i]
    BY <2>2, <2>3
  <2> QED
    BY <2>1, <2>4, <1>4
<1> QED
  BY <1>1, <1>6, <1>7 DEF Lists

\* The rebuilding of a subtree begins with the items of the array.
LEMMA ScanDoneHolds ==
  ASSUME IInv, ScanDone
  PROVE  IInv' /\ failed' = failed
<1>1. PICK f : Forest(heap, Range(pending_two), f) /\ Stage(f)
  BY DEF IInv
<1>2. PICK s, K, E : /\ s = [n \in 1..Cardinality(DOMAIN entries) |-> entries[n - 1]]
                     /\ K = OldKeys(f) /\ E = entries
  OBVIOUS
<1>3. /\ pc = "scan" /\ stack = <<>> /\ StartBuild(s) /\ root' = root /\ pending_two' = pending_two
      /\ key' = key /\ hook' = hook /\ contents' = contents /\ failed' = failed
      /\ contents \subseteq Keys /\ failed \in BOOLEAN /\ Pool
  BY <1>2 DEF ScanDone, IInv
<1>4. /\ Around(f) /\ f.raw = {} /\ DOMAIN E = 0..(Cardinality(K) - 1) /\ Cardinality(K) > 2
      /\ \A k \in K : E[Rank(K, k)] = Data(k)
      /\ ListOf(<<>>, f.roots \ Outside)
  <2>1. Scanning(f)
    BY <1>1, <1>3 DEF Stage
  <2>2. NodesOf(stack) = <<>>
    BY <1>3 DEF NodesOf
  <2>3. \A k \in K : E[Rank(K, k)] = Data(k)
    BY <2>1, <1>2, <1>3 DEF Scanning
  <2> QED
    BY <2>1, <2>2, <2>3, <1>2 DEF Scanning, Around
<1>5. f.roots = Outside
  <2>1. f.roots \ Outside = {}
    BY <1>4, NothingListed
  <2>2. Outside \subseteq f.roots
    BY <1>4 DEF Outside, Around
  <2> QED
    BY <2>1, <2>2
<1>6. K \in SUBSET Keys
  BY <1>1, <1>2, <1>3, <1>4, OldKeysAre
<1>7. Lists(s, K)
  BY <1>2, <1>4, <1>6, ArrayLists
<1>8. PICK b : b = built'
  OBVIOUS
<1>9. /\ b \notin DOMAIN heap /\ \A a \in DOMAIN heap : heap'[a] = heap[a]
      /\ pc' = "build" /\ stack' \in Seq([items : Seq(Item), node : Nat])
      /\ ListOf(NodesOf(stack'), {b})
      /\ \A i \in 1..Len(stack') : stack'[i].node = b /\ Lists(stack'[i].items, K)
  BY <1>1, <1>3, <1>4, <1>6, <1>7, <1>8, BuildBegins
<1>10. PICK f2 : Forest(heap', Range(pending_two'), f2) /\ NewRoot(f, f2, b, K, {b})
  BY <1>1, <1>3, <1>4, <1>6, <1>7, <1>8, BuildBegins
<1>11. /\ f2.live = f.live \cup {b} /\ f2.roots = f.roots \cup {b} /\ f2.raw = {b} /\ f2.gap = f.gap
       /\ f2.own[b] = K /\ f2.rank[b] = 0
       /\ \A a \in f.live : f2.own[a] = f.own[a] /\ f2.rank[a] = f.rank[a] + 1
  BY <1>10 DEF NewRoot
<1>12. f.live \subseteq DOMAIN heap /\ f.roots \subseteq f.live /\ \A a \in f.live : f.rank[a] \in Nat
  BY <1>1 DEF Forest, HeapOK
<1>13. hook # 0 => /\ hook \in f.live \ {b} /\ heap'[hook] = heap[hook]
                   /\ root \in f.live \ {b} /\ f.own[root] = contents
  BY <1>4, <1>9, <1>12 DEF Around
<1>14. /\ hook # 0 => Place' = Place
       /\ OldKeys(f2)' = K /\ Outside' = Outside
  <2>1. hook # 0 => Place' = Place
    BY <1>3, <1>13 DEF Place
  <2>2. Outside' = Outside
    BY <1>3 DEF Outside
  <2>3. hook = 0 => OldKeys(f2)' = K
    BY <1>2, <1>3 DEF OldKeys
  <2>4. hook # 0 => KeysAt(heap'[hook], f2.own[hook], Place[2]) = KeysAt(heap[hook], f.own[hook], Place[2])
    BY <1>11, <1>13
  <2>5. hook # 0 => OldKeys(f2)' = K
    BY <2>1, <2>4, <1>2, <1>3 DEF OldKeys
  <2> QED
    BY <2>1, <2>2, <2>3, <2>5
<1>15. Around(f2)'
  <2>1. (f2.gap = IF hook = 0 THEN NoGap ELSE Place)'
    BY <1>3, <1>4, <1>11, <1>14 DEF Around
  <2>2. ASSUME hook # 0
        PROVE  /\ hook \in f2.live \ f2.raw /\ Place[2] \in heap'[hook].child
               /\ root \in f2.roots /\ f2.own[root] = contents
    BY <2>2, <1>4, <1>11, <1>13 DEF Around
  <2>3. (hook # 0 => /\ hook \in f2.live \ f2.raw /\ Place[2] \in heap[hook].child
                     /\ root \in f2.roots /\ f2.own[root] = contents)'
    BY <2>2, <1>3, <1>14
  <2>4. (Cardinality(OldKeys(f2)) > 2)'
    BY <1>4, <1>14
  <2> QED
    BY <2>1, <2>3, <2>4 DEF Around
<1>16. Building(f2)'
  <2>1. (f2.roots = Outside \cup {built} /\ built \notin Outside /\ f2.own[built] = OldKeys(f2))'
    BY <1>5, <1>8, <1>9, <1>11, <1>12, <1>14
  <2>2. (hook # 0 => f2.rank[built] < f2.rank[hook])'
    BY <1>3, <1>8, <1>11, <1>12, <1>13
  <2>3. (\A i \in 1..Len(stack) : /\ Lists(stack[i].items, f2.own[stack[i].node])
                                  /\ Cardinality(f2.own[stack[i].node]) > 1)'
    <3>1. Cardinality(K) > 1
      BY <1>4, <1>6, KeySets
    <3> QED
      BY <3>1, <1>9, <1>11
  <2>4. (stack \in Seq([items : Seq(Item), node : Nat]) /\ ListOf(NodesOf(stack), f2.raw))'
    BY <1>9, <1>11
  <2>5. (built \in f2.raw)'
    BY <1>8, <1>11
  <2> QED
    BY <2>1, <2>2, <2>3, <2>4, <2>5, <1>15 DEF Building
<1>17. Stage(f2)'
  BY <1>9, <1>16 DEF Stage
<1> QED
  BY <1>3, <1>9, <1>10, <1>17 DEF IInv, States, Pool

-----------------------------------------------------------------------------
(* build_tree_bulk. *)

\* H2 has the node b built, and new nodes for its children, to be built later.
BuiltAt(H, P, H2, P2, f, b) ==
  /\ IsFiniteSet(DOMAIN H2) /\ DOMAIN H2 \subseteq Nat \ {0} /\ P2 \subseteq P \cap DOMAIN H2
  /\ DOMAIN H2 \ P2 = f.live \cup Kids(H2, b) /\ Kids(H2, b) \cap f.live = {}
  /\ \A a \in (f.live \ {b}) \cup P2 : H2[a] = H[a]
  /\ \A c \in Kids(H2, b) : H2[c] = RawNode
  /\ \A p, q \in H2[b].child : H2[b].items[p].child = H2[b].items[q].child => p = q

\* The node n has the keys K, one in a slot or more below it.
Spread(n, K) ==
  /\ Shape(n) /\ n.num_items > 1 /\ n.size = Cardinality(K)
  /\ \A p \in n.none : KeysAt(n, K, p) = {}
  /\ \A p \in (0..(n.num_items - 1)) \ (n.none \cup n.child) :
       \E k \in Keys : KeysAt(n, K, p) = {k} /\ n.items[p] = Data(k)

\* f2 is f where the raw node b is built.
BuiltIn(f, f2, H2, b) ==
  /\ f2.live = f.live \cup Kids(H2, b) /\ f2.roots = f.roots
  /\ f2.raw = (f.raw \ {b}) \cup Kids(H2, b) /\ f2.gap = f.gap
  /\ \A a \in f.live : f2.own[a] = f.own[a] /\ f2.rank[a] = f.rank[a] + 1
  /\ \A p \in H2[b].child : f2.own[H2[b].items[p].child] = KeysAt(H2[b], f.own[b], p)

\* A node that was to be built is built.
LEMMA NodeBuilt ==
  ASSUME NEW H, NEW P, NEW f, Forest(H, P, f), NEW b \in f.raw, OffGap(f, b),
         NEW H2, NEW P2, BuiltAt(H, P, H2, P2, f, b), Spread(H2[b], f.own[b])
  PROVE  \E f2 : Forest(H2, P2, f2) /\ BuiltIn(f, f2, H2, b)
<1>1. PICK N, n, K : N = Kids(H2, b) /\ n = H2[b] /\ K = f.own[b]
  OBVIOUS
<1>2. PICK slot : slot = [c \in N |-> CHOOSE p \in n.child : n.items[p].child = c]
  OBVIOUS
<1>3. PICK f2 : f2 = [live |-> f.live \cup N, roots |-> f.roots, raw |-> (f.raw \ {b}) \cup N,
                      own |-> [a \in f.live \cup N |->
                                 IF a \in N THEN KeysAt(n, K, slot[a]) ELSE f.own[a]],
                      rank |-> [a \in f.live \cup N |-> IF a \in N THEN 0 ELSE f.rank[a] + 1],
                      parent |-> [a \in f.live \cup N |->
                                    IF a \in N THEN <<b, slot[a]>> ELSE f.parent[a]],
                      gap |-> f.gap]
  OBVIOUS
<1>4. HeapOK(H, P, f)
  BY DEF Forest
<1>5. /\ IsFiniteSet(DOMAIN H2) /\ DOMAIN H2 \subseteq Nat \ {0} /\ P2 \subseteq P
      /\ P2 \subseteq DOMAIN H2 /\ DOMAIN H2 \ P2 = f.live \cup N /\ N \cap f.live = {}
      /\ \A a \in f.live : a # b => H2[a] = H[a]
      /\ \A a \in P2 : H2[a] = H[a] /\ \A c \in N : H2[c] = RawNode
      /\ \A p, q \in n.child : n.items[p].child = n.items[q].child => p = q
  BY <1>1 DEF BuiltAt
<1>6. /\ f2.live = f.live \cup N /\ f2.roots = f.roots /\ f2.raw = (f.raw \ {b}) \cup N
      /\ f2.gap = f.gap
      /\ \A c \in N : /\ f2.own[c] = KeysAt(n, K, slot[c]) /\ f2.rank[c] = 0
                      /\ f2.parent[c] = <<b, slot[c]>>
      /\ \A a \in f.live : /\ f2.own[a] = f.own[a] /\ f2.rank[a] = f.rank[a] + 1
                           /\ f2.parent[a] = f.parent[a]
  BY <1>3, <1>5
<1>7. \A c \in N : slot[c] \in n.child /\ n.items[slot[c]].child = c
  <2>1. TAKE c \in N
  <2>2. \E p \in n.child : n.items[p].child = c
    BY <1>1 DEF Kids
  <2> QED
    BY <2>2, <1>2
<1>8. \A p \in n.child : n.items[p].child \in N /\ slot[n.items[p].child] = p
  <2>1. \A p \in n.child : n.items[p].child \in N
    BY <1>1 DEF Kids
  <2> QED
    BY <2>1, <1>5, <1>7
<1>9. b \in f.live /\ f.live = DOMAIN H \ P /\ f.roots \subseteq f.live /\ f.raw \subseteq f.live
  BY <1>4 DEF HeapOK
<1>10. Shape(n) /\ n \in Node /\ n.num_items > 1 /\ n.size = Cardinality(K)
  BY <1>1 DEF Spread, Shape, Slotted
<1>11. HeapOK(H2, P2, f2)
  <2>5. \A c \in N : H2[c] = RawNode
    BY <1>1 DEF BuiltAt
  <2>1. ASSUME NEW a \in DOMAIN H2 PROVE H2[a] \in Node
    <3>1. CASE a \in N
      <4>1. H2[a] = RawNode
        BY <2>5, <3>1
      <4> QED
        BY <4>1, NewNodes
    <3>2. CASE a = b
      BY <3>2, <1>1, <1>10
    <3>3. CASE a # b /\ a \notin N
      <4>1. H2[a] = H[a] /\ a \in DOMAIN H
        BY <3>3, <1>4, <1>5, <1>9 DEF HeapOK
      <4> QED
        BY <4>1, <1>4 DEF HeapOK
    <3> QED
      BY <3>1, <3>2, <3>3
  <2>2. \A a \in P2 : PoolNode(H2[a])
    BY <1>4, <1>5 DEF HeapOK
  <2>3. ASSUME NEW a \in f2.live PROVE f2.own[a] \subseteq Keys /\ f2.rank[a] \in Nat
    <3>1. CASE a \in N
      <4>1. K \subseteq Keys
        BY <1>1, <1>4, <1>9 DEF HeapOK
      <4> QED
        BY <3>1, <4>1, <1>6 DEF KeysAt
    <3>2. CASE a \in f.live
      <4>1. f.own[a] \subseteq Keys /\ f.rank[a] \in Nat
        BY <3>2, <1>4 DEF HeapOK
      <4> QED
        BY <3>2, <4>1, <1>6
    <3> QED
      BY <3>1, <3>2, <1>6
  <2>4. ASSUME NEW a \in f2.raw PROVE H2[a] = RawNode
    <3>1. CASE a \in N
      BY <3>1, <2>5
    <3>2. CASE a \in f.raw \ {b}
      BY <3>2, <1>4, <1>5, <1>9 DEF HeapOK
    <3> QED
      BY <3>1, <3>2, <1>6
  <2> QED
    BY <2>1, <2>2, <2>3, <2>4, <1>5, <1>6, <1>9 DEF HeapOK
<1>12. NodeOK(H2, f2, b)
  <2>1. f2.own[b] = K /\ f2.rank[b] = f.rank[b] + 1 /\ f.rank[b] \in Nat
    BY <1>1, <1>4, <1>6, <1>9 DEF HeapOK
  <2>2. ASSUME NEW p \in 0..(n.num_items - 1) PROVE SlotOK(H2, f2, b, p)
    <3>1. p \in n.none => KeysAt(n, K, p) = {}
      BY <1>1 DEF Spread
    <3>2. p \notin n.none \cup n.child =>
            \E k \in Keys : KeysAt(n, K, p) = {k} /\ n.items[p] = Data(k)
      BY <1>1 DEF Spread
    <3>3. ASSUME p \in n.child PROVE ChildOK(H2, f2, b, p)
      <4>1. PICK c : c = n.items[p].child
        OBVIOUS
      <4>2. c \in N /\ slot[c] = p
        BY <3>3, <4>1, <1>8
      <4>3. c \in f2.live \ f2.roots /\ c \in f2.raw /\ f2.parent[c] = <<b, p>>
        BY <4>2, <1>5, <1>6, <1>9
      <4>4. f2.own[c] = KeysAt(n, K, p) /\ f2.rank[c] < f2.rank[b]
        BY <4>2, <2>1, <1>6
      <4> QED
        BY <4>1, <4>3, <4>4, <2>1, <1>1 DEF ChildOK
    <3> QED
      BY <3>1, <3>2, <3>3, <2>1, <1>1 DEF SlotOK
  <2> QED
    BY <2>1, <2>2, <1>1, <1>10 DEF NodeOK
<1>13. ASSUME NEW a \in f2.live \ f2.raw PROVE NodeOK(H2, f2, a)
  <2>1. CASE a = b
    BY <2>1, <1>12
  <2>2. CASE a \in f.live \ f.raw
    <3>1. NodeOK(H, f, a) /\ a # b /\ H2[a] = H[a]
      BY <2>2, <1>5 DEF Forest
    <3>2. f2.own[a] = f.own[a] /\ f2.rank[a] = f.rank[a] + 1 /\ f.rank[a] \in Nat
      BY <2>2, <1>4, <1>6 DEF HeapOK
    <3>3. ASSUME NEW p \in 0..(H[a].num_items - 1) PROVE SlotOK(H2, f2, a, p)
      <4>1. SlotOK(H, f, a, p)
        BY <3>1 DEF NodeOK
      <4>2. ASSUME p \in H[a].child, <<a, p>> # f.gap PROVE ChildOK(H2, f2, a, p)
        <5>1. ChildOK(H, f, a, p)
          BY <4>1, <4>2 DEF SlotOK
        <5>2. PICK c : c = H[a].items[p].child
          OBVIOUS
        <5>3. /\ c \in f.live \ f.roots /\ f.parent[c] = <<a, p>>
              /\ f.own[c] = KeysAt(H[a], f.own[a], p) /\ f.rank[c] < f.rank[a]
              /\ c \in f.raw \/ H[c].num_items > 1
          BY <5>1, <5>2 DEF ChildOK
        <5>4. c \in f2.raw \/ H2[c].num_items > 1
          BY <5>3, <1>1, <1>5, <1>6, <1>10
        <5>5. /\ f2.own[c] = f.own[c] /\ f2.rank[c] = f.rank[c] + 1 /\ f.rank[c] \in Nat
              /\ f2.parent[c] = f.parent[c]
          BY <5>3, <1>4, <1>6 DEF HeapOK
        <5>6. f2.rank[c] < f2.rank[a]
          BY <5>3, <5>5, <3>2
        <5>7. c \in f2.live \ f2.roots
          BY <5>3, <1>6
        <5> QED
          BY <3>1, <3>2, <5>2, <5>3, <5>4, <5>5, <5>6, <5>7 DEF ChildOK
      <4> QED
        BY <3>1, <3>2, <4>1, <4>2, <1>6 DEF SlotOK
    <3> QED
      BY <3>1, <3>2, <3>3 DEF NodeOK
  <2> QED
    BY <2>1, <2>2, <1>6
<1>14. ASSUME NEW c \in f2.live \ f2.roots PROVE LinkOK(H2, f2, c)
  <2>1. CASE c \in N
    <3>1. slot[c] \in n.child /\ n.items[slot[c]].child = c /\ f2.parent[c] = <<b, slot[c]>>
      BY <2>1, <1>6, <1>7
    <3>2. b \in f2.live \ f2.raw
      BY <1>5, <1>6, <1>9
    <3>3. <<b, slot[c]>> # f2.gap
      BY <1>6 DEF OffGap
    <3> QED
      BY <3>1, <3>2, <3>3, <1>1 DEF LinkOK
  <2>2. CASE c \in f.live \ f.roots
    <3>1. PICK a \in f.live \ f.raw : \E p \in H[a].child :
            <<a, p>> # f.gap /\ f.parent[c] = <<a, p>> /\ H[a].items[p].child = c
      BY <2>2 DEF Forest, LinkOK
    <3>2. a \in f2.live \ f2.raw /\ H2[a] = H[a]
      BY <3>1, <1>5, <1>6
    <3>3. f2.parent[c] = f.parent[c]
      BY <2>2, <1>6
    <3> QED
      BY <3>1, <3>2, <3>3, <1>6 DEF LinkOK
  <2> QED
    BY <2>1, <2>2, <1>6
<1>15. Forest(H2, P2, f2)
  BY <1>11, <1>13, <1>14 DEF Forest
<1>16. BuiltIn(f, f2, H2, b)
  BY <1>1, <1>6, <1>8 DEF BuiltIn
<1> QED
  BY <1>15, <1>16

\* The node on top of the stack is the next one to be built.
LEMMA NextToBuild ==
  ASSUME NEW f, Forest(heap, Range(pending_two), f), Building(f), stack # <<>>,
         NEW b, b = Last(stack).node
  PROVE  /\ Len(stack) \in Nat \ {0} /\ Last(stack) = stack[Len(stack)]
         /\ b \in f.raw /\ b = NodesOf(stack)[Len(stack)] /\ OffGap(f, b) /\ b # hook
         /\ b \in Nat \ {0} /\ f.own[b] \in SUBSET Keys
         /\ Lists(Last(stack).items, f.own[b]) /\ Cardinality(f.own[b]) > 1
<1>1. PICK s, S : s = stack /\ S = [items : Seq(Item), node : Nat]
  OBVIOUS
<1>2. s \in Seq(S) /\ s # <<>> /\ ListOf(NodesOf(s), f.raw)
  BY <1>1 DEF Building
<1>3. Len(s) \in Nat \ {0} /\ Last(s) = s[Len(s)] /\ Len(s) \in 1..Len(s)
  <2>1. Last(s) = s[Len(s)] /\ Len(s) > 0
    BY <1>2, LastOf
  <2> QED
    BY <2>1, <1>2
<1>4. NodesOf(s) = [i \in 1..Len(s) |-> s[i].node]
  BY DEF NodesOf
<1>5. NodesOf(s)[Len(s)] = b /\ Len(NodesOf(s)) = Len(s)
  BY <1>1, <1>3, <1>4
<1>6. b \in f.raw
  BY <1>2, <1>3, <1>5 DEF ListOf
<1>7. b \in f.live /\ b \in Nat \ {0} /\ f.own[b] \in SUBSET Keys
  BY <1>6 DEF Forest, HeapOK
<1>8. hook # 0 => hook \in f.live \ f.raw
  BY DEF Building, Around
<1>9. b # hook
  BY <1>6, <1>7, <1>8
<1>10. OffGap(f, b)
  <2>1. f.gap = IF hook = 0 THEN <<0, 0>> ELSE <<hook, Predict(heap[hook], key)>>
    BY DEF Building, Around, NoGap, Place
  <2> QED
    BY <2>1, <1>7, <1>9 DEF OffGap
<1>11. Lists(s[Len(s)].items, f.own[b]) /\ Cardinality(f.own[b]) > 1
  BY <1>1, <1>3 DEF Building
<1> QED
  BY <1>1, <1>3, <1>5, <1>6, <1>7, <1>9, <1>10, <1>11

\* What is pushed on the stack are the children of node b, with their items.
NextOnes(f, H2, b, t) ==
  /\ t \in Seq([items : Seq(Item), node : Nat]) /\ ListOf(NodesOf(t), Kids(H2, b))
  /\ \A i \in 1..Len(t) : \E p \in H2[b].child :
       /\ H2[b].items[p].child = t[i].node /\ Lists(t[i].items, KeysAt(H2[b], f.own[b], p))
       /\ Cardinality(KeysAt(H2[b], f.own[b], p)) > 1

\* When a node has been built the bulk build goes on.
LEMMA BuildGoesOn ==
  ASSUME NEW f, Forest(heap, Range(pending_two), f), Building(f), stack # <<>>,
         pc' = "build", UNCHANGED <<root, key, hook, built, contents>>,
         NEW b, b = Last(stack).node, NEW t, stack' = Front(stack) \o t, NextOnes(f, heap', b, t),
         BuiltAt(heap, Range(pending_two), heap', Range(pending_two'), f, b),
         Spread(heap'[b], f.own[b])
  PROVE  \E f2 : Forest(heap', Range(pending_two'), f2) /\ Stage(f2)'
<1>1. PICK H, P, H2, P2, s, r, S : /\ H = heap /\ P = Range(pending_two) /\ H2 = heap'
                                   /\ P2 = Range(pending_two') /\ s = stack /\ r = stack'
                                   /\ S = [items : Seq(Item), node : Nat]
  OBVIOUS
<1>2. /\ Len(s) \in Nat \ {0} /\ b \in f.raw /\ b = NodesOf(s)[Len(s)]
      /\ OffGap(f, b) /\ b # hook
  BY <1>1, NextToBuild
<1>3. PICK f2 : Forest(H2, P2, f2) /\ BuiltIn(f, f2, H2, b)
  <2>1. Forest(H, P, f) /\ BuiltAt(H, P, H2, P2, f, b) /\ Spread(H2[b], f.own[b])
    BY <1>1
  <2> QED
    BY <2>1, <1>2, NodeBuilt
<1>4. PICK N : N = Kids(H2, b)
  OBVIOUS
<1>5. /\ f2.live = f.live \cup N /\ f2.roots = f.roots /\ f2.raw = (f.raw \ {b}) \cup N
      /\ f2.gap = f.gap
      /\ \A a \in f.live : f2.own[a] = f.own[a] /\ f2.rank[a] = f.rank[a] + 1
      /\ \A p \in H2[b].child : f2.own[H2[b].items[p].child] = KeysAt(H2[b], f.own[b], p)
  BY <1>3, <1>4 DEF BuiltIn
<1>6. /\ N \cap f.live = {} /\ \A a \in f.live : a # b => H2[a] = H[a]
  BY <1>1, <1>4 DEF BuiltAt
<1>7. /\ f.roots \subseteq f.live /\ f.raw \subseteq f.live /\ \A a \in f.live : f.rank[a] \in Nat
  BY DEF Forest, HeapOK
<1>8. Around(f)
  BY DEF Building
<1>9. hook # 0 => /\ hook \in f.live \ f.raw /\ hook \notin N /\ heap'[hook] = heap[hook]
                  /\ root \in f.roots /\ f.own[root] = contents
  BY <1>1, <1>2, <1>6, <1>8 DEF Around
<1>10. /\ hook # 0 => Place' = Place
       /\ OldKeys(f2)' = OldKeys(f) /\ Outside' = Outside
  <2>1. hook # 0 => Place' = Place
    BY <1>9 DEF Place
  <2>2. Outside' = Outside
    BY DEF Outside
  <2>3. hook = 0 => OldKeys(f2)' = OldKeys(f)
    BY DEF OldKeys
  <2>4. hook # 0 => KeysAt(heap'[hook], f2.own[hook], Place[2]) = KeysAt(heap[hook], f.own[hook], Place[2])
    BY <1>5, <1>9
  <2>5. hook # 0 => OldKeys(f2)' = OldKeys(f)
    BY <2>1, <2>4 DEF OldKeys
  <2> QED
    BY <2>1, <2>2, <2>3, <2>5
<1>11. Around(f2)'
  <2>1. (f2.gap = IF hook = 0 THEN NoGap ELSE Place)'
    BY <1>5, <1>8, <1>10 DEF Around
  <2>2. ASSUME hook # 0
        PROVE  /\ hook \in f2.live \ f2.raw /\ Place[2] \in heap'[hook].child
               /\ root \in f2.roots /\ f2.own[root] = contents
    BY <2>2, <1>5, <1>7, <1>8, <1>9 DEF Around
  <2>3. (hook # 0 => /\ hook \in f2.live \ f2.raw /\ Place[2] \in heap[hook].child
                     /\ root \in f2.roots /\ f2.own[root] = contents)'
    BY <2>2, <1>10
  <2>4. (Cardinality(OldKeys(f2)) > 2)'
    BY <1>8, <1>10 DEF Around
  <2> QED
    BY <2>1, <2>3, <2>4 DEF Around
<1>12. /\ t \in Seq(S) /\ ListOf(NodesOf(t), N)
       /\ \A i \in 1..Len(t) : \E p \in H2[b].child :
            /\ H2[b].items[p].child = t[i].node /\ Lists(t[i].items, KeysAt(H2[b], f.own[b], p))
            /\ Cardinality(KeysAt(H2[b], f.own[b], p)) > 1
  BY <1>1, <1>4 DEF NextOnes
<1>13. s \in Seq(S) /\ s # <<>> /\ ListOf(NodesOf(s), f.raw)
  BY <1>1 DEF Building
<1>14. r \in Seq(S) /\ Replaced(s, t, r) /\ Len(r) \in Nat
  BY <1>1, <1>12, <1>13, Pushed
<1>15. /\ \A i \in 1..(Len(s) - 1) : i \in 1..Len(s) /\ r[i] = s[i]
       /\ \A j \in 1..Len(t) : r[Len(s) - 1 + j] = t[j]
       /\ \A i \in 1..Len(r) : i \in 1..(Len(s) - 1) \/ \E j \in 1..Len(t) : i = Len(s) - 1 + j
  BY <1>2, <1>14 DEF Replaced
<1>16. ListOf(NodesOf(r), f2.raw)
  <2>1. PICK u, v, w : u = NodesOf(s) /\ v = NodesOf(t) /\ w = NodesOf(r)
    OBVIOUS
  <2>2. Replaced(u, v, w)
    BY <2>1, <1>14, NodesReplaced
  <2>3. ListOf(u, f.raw) /\ ListOf(v, N) /\ f.raw \cap N = {}
    BY <2>1, <1>6, <1>7, <1>12, <1>13
  <2>4. w \in Seq(f.raw \cup N)
    <3>1. \A i \in 1..Len(w) : w[i] \in f.raw \cup N
      BY <2>2, <2>3, ListsInto
    <3>2. w = [i \in 1..Len(r) |-> r[i].node] /\ Len(w) = Len(r)
      BY <2>1, <1>14 DEF NodesOf
    <3> QED
      BY <3>1, <3>2, <1>14
  <2>5. ListOf(w, (f.raw \ {u[Len(u)]}) \cup N)
    BY <2>2, <2>3, <2>4, ListPushed
  <2>6. u[Len(u)] = b
    <3>1. u = [i \in 1..Len(s) |-> s[i].node] /\ Len(u) = Len(s)
      BY <2>1, <1>2 DEF NodesOf
    <3> QED
      BY <3>1, <2>1, <1>2
  <2> QED
    BY <2>1, <2>5, <2>6, <1>5
<1>17. ASSUME NEW i \in 1..Len(r)
       PROVE  Lists(r[i].items, f2.own[r[i].node]) /\ Cardinality(f2.own[r[i].node]) > 1
  <2>1. ASSUME NEW j \in 1..Len(s)
        PROVE  Lists(s[j].items, f2.own[s[j].node]) /\ Cardinality(f2.own[s[j].node]) > 1
    <3>1. Lists(s[j].items, f.own[s[j].node]) /\ Cardinality(f.own[s[j].node]) > 1
      BY <1>1 DEF Building
    <3>2. NodesOf(s) = [l \in 1..Len(s) |-> s[l].node] /\ Len(NodesOf(s)) = Len(s)
      BY <1>2 DEF NodesOf
    <3>3. s[j].node \in f.raw
      BY <3>2, <1>13 DEF ListOf
    <3> QED
      BY <3>1, <3>3, <1>5, <1>7
  <2>2. ASSUME NEW j \in 1..Len(t)
        PROVE  Lists(t[j].items, f2.own[t[j].node]) /\ Cardinality(f2.own[t[j].node]) > 1
    BY <1>5, <1>12
  <2>3. (\E j \in 1..Len(s) : r[i] = s[j]) \/ (\E j \in 1..Len(t) : r[i] = t[j])
    BY <1>15
  <2> QED
    BY <2>1, <2>2, <2>3
<1>18. /\ f.roots = Outside \cup {built} /\ built \notin Outside /\ f.own[built] = OldKeys(f)
       /\ hook # 0 => f.rank[built] < f.rank[hook]
       /\ built \in f.raw \/ heap[built].num_items > 1
  BY DEF Building
<1>19. built \in f.live
  BY <1>7, <1>18
<1>20. (built \in f2.raw \/ heap[built].num_items > 1)'
  <2>1. H2[b].num_items > 1
    BY <1>1 DEF Spread
  <2> QED
    BY <2>1, <1>1, <1>5, <1>6, <1>18, <1>19
<1>21. (hook # 0 => f2.rank[built] < f2.rank[hook])'
  BY <1>5, <1>7, <1>9, <1>18, <1>19
<1>22. (f2.roots = Outside \cup {built} /\ built \notin Outside /\ f2.own[built] = OldKeys(f2))'
  BY <1>5, <1>10, <1>18, <1>19
<1>23. Building(f2)'
  <2>1. (stack \in Seq([items : Seq(Item), node : Nat]) /\ ListOf(NodesOf(stack), f2.raw))'
    BY <1>1, <1>14, <1>16
  <2>2. (\A i \in 1..Len(stack) : /\ Lists(stack[i].items, f2.own[stack[i].node])
                                  /\ Cardinality(f2.own[stack[i].node]) > 1)'
    BY <1>1, <1>17
  <2> QED
    BY <2>1, <2>2, <1>11, <1>20, <1>21, <1>22 DEF Building
<1>24. Stage(f2)'
  BY <1>23 DEF Stage
<1> QED
  BY <1>1, <1>3, <1>24

\* A segment of two items becomes a node of build_tree_two.
LEMMA BuildPairHolds ==
  ASSUME IInv, BuildPair
  PROVE  IInv' /\ failed' = failed
<1>1. PICK f : Forest(heap, Range(pending_two), f) /\ Stage(f)
  BY DEF IInv
<1>2. PICK b, s, n : b = Last(stack).node /\ s = Last(stack).items /\ n = BuildTwo(s[1], s[2])
  OBVIOUS
<1>3. /\ pc = "build" /\ pc' = "build" /\ stack # <<>> /\ Len(s) = 2
      /\ heap' = Restrict(Put(heap, b, n), DOMAIN heap \ (Range(pending_two) \ Range(PoolAfterTwo)))
      /\ failed' = (failed \/ ~BuildTwoAsserts(s[1], s[2])) /\ pending_two' = PoolAfterTwo
      /\ stack' = Front(stack) /\ UNCHANGED <<root, key, hook, built, contents>>
      /\ Pool /\ failed \in BOOLEAN /\ contents \subseteq Keys
  BY <1>2 DEF BuildPair, IInv
<1>4. Building(f)
  BY <1>1, <1>3 DEF Stage
<1>5. PICK K : K = f.own[b]
  OBVIOUS
<1>6. b \in f.raw /\ K \in SUBSET Keys /\ Lists(s, K)
  BY <1>1, <1>2, <1>3, <1>4, <1>5, NextToBuild
<1>7. PICK k, l \in K : k # l /\ K = {k, l} /\ s[1] = Data(k) /\ s[2] = Data(l)
  BY <1>3, <1>6, TwoListed DEF Lists
<1>8. k \in Keys /\ l \in Keys /\ k \in Nat /\ l \in Nat
  BY <1>6, <1>7, LippAssumption
<1>9. HoldsTwo(n, k, l) /\ failed' = failed
  <2>1. PoolOK
    BY <1>1, <1>3, HeapFacts
  <2>2. HoldsTwo(BuildTwo(Data(k), Data(l)), k, l) /\ BuildTwoAsserts(Data(k), Data(l))
    BY <2>1, <1>7, <1>8, TwoBuilt
  <2> QED
    BY <2>2, <1>2, <1>3, <1>7
<1>10. PICK H, P, H2, P2, c : /\ H = heap /\ P = Range(pending_two) /\ H2 = heap'
                              /\ P2 = Range(pending_two') /\ c = TwoAddress
  OBVIOUS
<1>11. /\ c \notin f.live /\ c \in DOMAIN H <=> c \in P
       /\ PoolAfterTwo \in Seq(Nat) /\ IsInjective(PoolAfterTwo) /\ P2 = P \ {c}
  BY <1>1, <1>3, <1>10, TwoPlace
<1>12. /\ IsFiniteSet(DOMAIN H) /\ DOMAIN H \subseteq Nat \ {0} /\ P \subseteq DOMAIN H
       /\ f.live = DOMAIN H \ P /\ f.raw \subseteq f.live
  BY <1>1, <1>10 DEF Forest, HeapOK
<1>13. /\ DOMAIN H2 = DOMAIN H \ (P \ P2) /\ H2[b] = n
       /\ \A a \in DOMAIN H2 : a # b => H2[a] = H[a]
  <2>1. P2 = Range(PoolAfterTwo) /\ b \in DOMAIN H \ (P \ P2)
    BY <1>3, <1>6, <1>10, <1>12
  <2>2. H2 = [a \in DOMAIN H \ (P \ P2) |-> Put(H, b, n)[a]]
    BY <2>1, <1>3, <1>10 DEF Restrict
  <2>3. \A a \in DOMAIN H : Put(H, b, n)[a] = IF a = b THEN n ELSE H[a]
    BY DEF Put
  <2> QED
    BY <2>1, <2>2, <2>3
<1>14. Kids(H2, b) = {}
  BY <1>9, <1>13 DEF Kids, HoldsTwo
<1>15. BuiltAt(H, P, H2, P2, f, b)
  <2>1. IsFiniteSet(DOMAIN H2) /\ DOMAIN H2 \subseteq Nat \ {0}
    BY <1>12, <1>13, FS_Subset
  <2>2. P2 \subseteq P \cap DOMAIN H2 /\ DOMAIN H2 \ P2 = f.live
    BY <1>11, <1>12, <1>13
  <2>3. \A a \in (f.live \ {b}) \cup P2 : H2[a] = H[a]
    BY <2>2, <1>6, <1>12, <1>13
  <2>4. H2[b].child = {}
    BY <1>9, <1>13 DEF HoldsTwo
  <2> QED
    BY <2>1, <2>2, <2>3, <2>4, <1>14 DEF BuiltAt
<1>16. Spread(H2[b], K)
  <2>1. NodeOK(H2, f, b) /\ n.num_items > 1
    BY <1>5, <1>7, <1>8, <1>9, <1>13, TwoHeld
  <2>2. n.num_items = 8 /\ n.none \subseteq 0..7
    BY <1>9, BitsOfTwo DEF HoldsTwo, TwoItems
  <2>3. Shape(n) /\ n.size = Cardinality(K) /\ \A p \in 0..(n.num_items - 1) : SlotOK(H2, f, b, p)
    BY <2>1, <1>5, <1>13 DEF NodeOK
  <2>4. \A p \in n.none : KeysAt(n, K, p) = {}
    BY <2>2, <2>3, <1>5, <1>13 DEF SlotOK
  <2>5. \A p \in (0..(n.num_items - 1)) \ (n.none \cup n.child) :
          \E x \in Keys : KeysAt(n, K, p) = {x} /\ n.items[p] = Data(x)
    BY <2>3, <1>5, <1>13 DEF SlotOK
  <2> QED
    BY <2>1, <2>3, <2>4, <2>5, <1>13 DEF Spread
<1>17. PICK t : t = <<>>
  OBVIOUS
<1>18. stack' = Front(stack) \o t
  BY <1>3, <1>4, <1>17, LastOf DEF Building
<1>19. NextOnes(f, H2, b, t)
  <2>1. NodesOf(t) = <<>> /\ Len(t) = 0
    BY <1>17 DEF NodesOf
  <2>2. ListOf(<<>>, {})
    BY DEF ListOf
  <2> QED
    BY <2>1, <2>2, <1>14, <1>17 DEF NextOnes
<1>20. \E f2 : Forest(heap', Range(pending_two'), f2) /\ Stage(f2)'
  BY <1>1, <1>2, <1>3, <1>4, <1>5, <1>10, <1>15, <1>16, <1>18, <1>19, BuildGoesOn
<1> QED
  BY <1>3, <1>9, <1>11, <1>20 DEF IInv, States, Pool

\* m is the node n where slot q has item x.
SlotSet(n, m, q, x) ==
  /\ m \in Node /\ SameModel(n, m) /\ m.is_two = n.is_two /\ m.build_size = n.build_size
  /\ m.size = n.size /\ m.none = n.none /\ m.child = n.child
  /\ DOMAIN m.items = DOMAIN n.items
  /\ \A p \in DOMAIN n.items : m.items[p] = IF p = q THEN x ELSE n.items[p]

\* Storing the pointer to the new subtree changes one item of the node.
LEMMA SlotIsSet ==
  ASSUME NEW n \in Node, NEW q, NEW x \in Item
  PROVE  SlotSet(n, [n EXCEPT !.items = [n.items EXCEPT ![q] = x]], q, x)
<1>1. PICK t : t = [n.items EXCEPT ![q] = x]
  OBVIOUS
<1>2. n.items \in Items
  BY DEF Node
<1>3. t \in Items
  BY <1>1, <1>2, ItemArrays
<1>4. PICK m : m = [n EXCEPT !.items = t]
  OBVIOUS
<1>5. m \in Node
  BY <1>3, <1>4 DEF Node
<1>6. /\ m.num_items = n.num_items /\ m.model = n.model /\ m.is_two = n.is_two
      /\ m.build_size = n.build_size /\ m.size = n.size /\ m.none = n.none /\ m.child = n.child
      /\ m.items = t
  BY <1>4 DEF Node
<1>7. DOMAIN t = DOMAIN n.items /\ \A p \in DOMAIN n.items : t[p] = IF p = q THEN x ELSE n.items[p]
  BY <1>1
<1>8. SlotSet(n, m, q, x)
  BY <1>5, <1>6, <1>7 DEF SlotSet, SameModel
<1> QED
  BY <1>1, <1>4, <1>8

\* f2 is f where the root c has been linked to its place.
LinkedIn(f, f2, c) ==
  /\ f2.live = f.live /\ f2.roots = f.roots \ {c} /\ f2.raw = {} /\ f2.gap = NoGap
  /\ f2.own = f.own

\* The gap is closed by a root with the keys of the slot.
LEMMA GapFilled ==
  ASSUME NEW H, NEW P, NEW f, Forest(H, P, f), f.raw = {}, NEW h \in f.live, NEW q \in H[h].child,
         f.gap = <<h, q>>, NEW c \in f.roots, f.own[c] = KeysAt(H[h], f.own[h], q),
         f.rank[c] < f.rank[h], H[c].num_items > 1,
         NEW H2, DOMAIN H2 = DOMAIN H, \A a \in DOMAIN H : a # h => H2[a] = H[a],
         NEW x, x.child = c, SlotSet(H[h], H2[h], q, x)
  PROVE  \E f2 : Forest(H2, P, f2) /\ LinkedIn(f, f2, c)
<1>1. PICK f2 : f2 = [live |-> f.live, roots |-> f.roots \ {c}, raw |-> {}, own |-> f.own,
                      rank |-> f.rank, parent |-> [d \in f.live |-> IF d = c THEN <<h, q>>
                                                                    ELSE f.parent[d]],
                      gap |-> NoGap]
  OBVIOUS
<1>2. /\ f2.live = f.live /\ f2.roots = f.roots \ {c} /\ f2.raw = {} /\ f2.own = f.own
      /\ f2.rank = f.rank /\ f2.gap = NoGap
      /\ \A d \in f.live : f2.parent[d] = IF d = c THEN <<h, q>> ELSE f.parent[d]
  BY <1>1
<1>3. HeapOK(H, P, f)
  BY DEF Forest
<1>4. /\ f.live = DOMAIN H \ P /\ P \subseteq DOMAIN H /\ f.roots \subseteq f.live
      /\ DOMAIN H \subseteq Nat \ {0} /\ h \in DOMAIN H /\ h \notin P /\ h # 0
  BY <1>3 DEF HeapOK
<1>5. PICK n, m : n = H[h] /\ m = H2[h]
  OBVIOUS
<1>6. /\ m \in Node /\ SameModel(n, m) /\ m.is_two = n.is_two /\ m.build_size = n.build_size
      /\ m.size = n.size /\ m.none = n.none /\ m.child = n.child
      /\ DOMAIN m.items = DOMAIN n.items
      /\ \A p \in DOMAIN n.items : m.items[p] = IF p = q THEN x ELSE n.items[p]
  BY <1>5 DEF SlotSet
<1>7. m.num_items = n.num_items /\ m.model = n.model
  BY <1>6 DEF SameModel
<1>8. \A K, p : KeysAt(m, K, p) = KeysAt(n, K, p)
  BY <1>6, SameKeys
<1>9. NodeOK(H, f, h) /\ Shape(n)
  BY <1>5 DEF Forest, NodeOK
<1>10. n.child \subseteq DOMAIN n.items /\ DOMAIN n.items = 0..(n.num_items - 1)
  BY <1>9 DEF Shape
<1>11. HeapOK(H2, P, f2)
  <2>1. \A a \in DOMAIN H2 : H2[a] \in Node
    BY <1>3, <1>5, <1>6 DEF HeapOK
  <2>2. \A a \in P : PoolNode(H2[a])
    BY <1>3, <1>4 DEF HeapOK
  <2> QED
    BY <2>1, <2>2, <1>2, <1>3 DEF HeapOK
<1>12. ASSUME NEW a \in f.live, NEW p \in H[a].child
       PROVE  /\ H2[a].items[p].child = IF <<a, p>> = f.gap THEN c ELSE H[a].items[p].child
              /\ KeysAt(H2[a], f.own[a], p) = KeysAt(H[a], f.own[a], p)
  <2>1. CASE a = h
    BY <2>1, <1>5, <1>6, <1>8, <1>10
  <2>2. CASE a # h
    BY <2>2, <1>4
  <2> QED
    BY <2>1, <2>2
<1>13. \A a \in f.live : H2[a].num_items = H[a].num_items
  BY <1>4, <1>5, <1>7
<1>14. ASSUME NEW a \in f.live, NEW p \in H[a].child PROVE ChildOK(H2, f2, a, p)
  <2>1. NodeOK(H, f, a) /\ H[a].child \subseteq 0..(H[a].num_items - 1)
    BY DEF Forest, NodeOK, Shape
  <2>2. SlotOK(H, f, a, p)
    BY <2>1 DEF NodeOK
  <2>3. CASE <<a, p>> = f.gap
    <3>1. a = h /\ p = q /\ H2[a].items[p].child = c
      BY <2>3, <1>12
    <3>2. c \in f2.live \ f2.roots /\ f2.parent[c] = <<a, p>>
      BY <3>1, <1>2, <1>4
    <3>3. f2.own[c] = KeysAt(H2[a], f2.own[a], p) /\ f2.rank[c] < f2.rank[a]
      BY <3>1, <1>2, <1>12
    <3>4. H2[c].num_items > 1
      BY <1>4, <1>13
    <3> QED
      BY <3>1, <3>2, <3>3, <3>4 DEF ChildOK
  <2>4. CASE <<a, p>> # f.gap
    <3>1. PICK d : d = H[a].items[p].child
      OBVIOUS
    <3>2. ChildOK(H, f, a, p)
      BY <2>2, <2>4 DEF SlotOK
    <3>3. /\ d \in f.live \ f.roots /\ f.parent[d] = <<a, p>>
          /\ f.own[d] = KeysAt(H[a], f.own[a], p) /\ f.rank[d] < f.rank[a] /\ H[d].num_items > 1
      BY <3>1, <3>2 DEF ChildOK
    <3>4. H2[a].items[p].child = d /\ KeysAt(H2[a], f.own[a], p) = KeysAt(H[a], f.own[a], p)
      BY <2>4, <3>1, <1>12
    <3>5. d # c /\ H2[d].num_items > 1 /\ f2.parent[d] = <<a, p>>
      BY <3>3, <1>2, <1>13
    <3> QED
      BY <3>3, <3>4, <3>5, <1>2 DEF ChildOK
  <2> QED
    BY <2>3, <2>4
<1>15. ASSUME NEW a \in f2.live \ f2.raw PROVE NodeOK(H2, f2, a)
  <2>1. NodeOK(H, f, a) /\ Shape(H[a]) /\ H[a].size = Cardinality(f.own[a])
    BY <1>2 DEF Forest, NodeOK
  <2>2. CASE a # h
    <3>1. H2[a] = H[a]
      BY <2>2, <1>2, <1>4
    <3>2. ASSUME NEW p \in 0..(H[a].num_items - 1) PROVE SlotOK(H2, f2, a, p)
      <4>1. SlotOK(H, f, a, p)
        BY <2>1 DEF NodeOK
      <4>2. p \in H[a].child => ChildOK(H2, f2, a, p)
        BY <1>2, <1>14
      <4> QED
        BY <3>1, <4>1, <4>2, <1>2 DEF SlotOK
    <3> QED
      BY <2>1, <3>1, <3>2, <1>2 DEF NodeOK
  <2>3. CASE a = h
    <3>1. Shape(m) /\ m.size = Cardinality(f.own[a])
      BY <2>1, <2>3, <1>5, <1>6, <1>7 DEF Shape, Slotted
    <3>2. ASSUME NEW p \in 0..(n.num_items - 1) PROVE SlotOK(H2, f2, a, p)
      <4>1. SlotOK(H, f, h, p)
        BY <1>5, <1>9 DEF NodeOK
      <4>2. p \in n.child => ChildOK(H2, f2, h, p)
        BY <1>5, <1>14
      <4>3. p \notin n.child => m.items[p] = n.items[p]
        BY <1>5, <1>6, <1>10
      <4> QED
        BY <2>3, <4>1, <4>2, <4>3, <1>2, <1>5, <1>6, <1>8 DEF SlotOK
    <3> QED
      BY <2>3, <3>1, <3>2, <1>2, <1>5, <1>7 DEF NodeOK
  <2> QED
    BY <2>2, <2>3
<1>16. ASSUME NEW d \in f2.live \ f2.roots PROVE LinkOK(H2, f2, d)
  <2>1. CASE d = c
    <3>1. h \in f2.live \ f2.raw /\ q \in H2[h].child /\ <<h, q>> # f2.gap
      BY <1>2, <1>4, <1>5, <1>6 DEF NoGap
    <3>2. f2.parent[d] = <<h, q>> /\ H2[h].items[q].child = d
      BY <2>1, <1>2, <1>4, <1>12
    <3> QED
      BY <3>1, <3>2 DEF LinkOK
  <2>2. CASE d # c
    <3>1. d \in f.live \ f.roots
      BY <2>2, <1>2
    <3>2. PICK a \in f.live \ f.raw : \E p \in H[a].child :
            <<a, p>> # f.gap /\ f.parent[d] = <<a, p>> /\ H[a].items[p].child = d
      BY <3>1 DEF Forest, LinkOK
    <3>3. PICK p \in H[a].child :
            <<a, p>> # f.gap /\ f.parent[d] = <<a, p>> /\ H[a].items[p].child = d
      BY <3>2
    <3>4. p \in H2[a].child
      BY <3>2, <3>3, <1>4, <1>5, <1>6
    <3>5. H2[a].items[p].child = d /\ f2.parent[d] = <<a, p>>
      BY <2>2, <3>1, <3>2, <3>3, <1>2, <1>12
    <3>6. <<a, p>> # f2.gap /\ a \in f2.live \ f2.raw
      BY <3>2, <1>2, <1>4 DEF NoGap
    <3> QED
      BY <3>4, <3>5, <3>6 DEF LinkOK
  <2> QED
    BY <2>1, <2>2
<1>17. Forest(H2, P, f2)
  BY <1>11, <1>15, <1>16 DEF Forest
<1> QED
  BY <1>2, <1>17 DEF LinkedIn

\* The new subtree takes the place of the old one: the tree has all keys again.
LEMMA BuildDoneHolds ==
  ASSUME IInv, BuildDone
  PROVE  IInv' /\ failed' = failed
<1>1. PICK f : Forest(heap, Range(pending_two), f) /\ Stage(f)
  BY DEF IInv
<1>2. /\ pc = "build" /\ pc' = "idle" /\ stack = <<>> /\ contents' = contents /\ failed' = failed
      /\ pending_two' = pending_two /\ Pool /\ failed \in BOOLEAN /\ contents \subseteq Keys
  BY DEF BuildDone, IInv
<1>3. Building(f) /\ Around(f)
  BY <1>1, <1>2 DEF Stage, Building
<1>4. /\ f.roots = Outside \cup {built} /\ built \notin Outside /\ f.own[built] = OldKeys(f)
      /\ hook # 0 => f.rank[built] < f.rank[hook]
  BY <1>3 DEF Building
<1>5. f.raw = {} /\ heap[built].num_items > 1
  <2>1. ListOf(NodesOf(stack), f.raw)
    BY <1>3 DEF Building
  <2>2. NodesOf(stack) = <<>>
    BY <1>2 DEF NodesOf
  <2>3. f.raw = {}
    BY <2>1, <2>2, NothingListed
  <2> QED
    BY <2>3, <1>3 DEF Building
<1>6. CASE hook = 0
  <2>1. root' = built /\ heap' = heap
    BY <1>6 DEF BuildDone
  <2>2. f.roots = {built} /\ f.gap = NoGap /\ f.own[built] = contents
    BY <1>3, <1>4, <1>6 DEF Around, Outside, OldKeys
  <2>3. TheTree(f, contents)'
    BY <2>1, <2>2, <1>2, <1>5 DEF TheTree
  <2>4. Stage(f)'
    BY <2>3, <1>2 DEF Stage
  <2> QED
    BY <2>1, <2>4, <1>1, <1>2 DEF IInv, States, Pool
<1>7. CASE hook # 0
  <2>1. PICK H, P, h, q, c : /\ H = heap /\ P = Range(pending_two) /\ h = hook
                             /\ q = Predict(heap[hook], key) /\ c = built
    OBVIOUS
  <2>2. PICK x, H2 : x = Child(c, H[h].items[q]) /\ H2 = heap'
    OBVIOUS
  <2>3. /\ root' = root
        /\ H2 = [H EXCEPT ![h].items = [@ EXCEPT ![q] = x]]
    <3>1. root' = root
      BY <1>7 DEF BuildDone
    <3>2. heap' = [heap EXCEPT ![hook].items =
                     [heap[hook].items EXCEPT ![Predict(heap[hook], key)] =
                        Child(built, heap[hook].items[Predict(heap[hook], key)])]]
      BY <1>7, Zenon DEF BuildDone
    <3> QED
      BY <3>1, <3>2, <2>1, <2>2, Zenon
  <2>4. /\ Forest(H, P, f) /\ h \in f.live \ f.raw /\ q \in H[h].child /\ f.gap = <<h, q>>
        /\ root \in f.roots /\ f.own[root] = contents
    BY <2>1, <1>1, <1>3, <1>7 DEF Around, Place
  <2>5. c \in f.roots /\ c \in f.live /\ c \in Nat /\ f.rank[c] < f.rank[h] /\ H[c].num_items > 1
    <3>1. c \in f.roots /\ f.rank[c] < f.rank[h] /\ H[c].num_items > 1
      BY <2>1, <1>4, <1>5, <1>7
    <3> QED
      BY <3>1, <2>4 DEF Forest, HeapOK
  <2>6. f.own[c] = KeysAt(H[h], f.own[h], q)
    BY <2>1, <1>4, <1>7 DEF OldKeys, Place
  <2>7. H[h] \in Node /\ h \in DOMAIN H /\ H[h].items[q] \in Item
    <3>1. H[h] \in Node /\ h \in DOMAIN H
      BY <2>4 DEF Forest, HeapOK
    <3>2. Shape(H[h])
      BY <2>4 DEF Forest, NodeOK
    <3>3. q \in DOMAIN H[h].items
      BY <2>4, <3>2 DEF Shape
    <3>4. H[h].items \in Items
      BY <3>1 DEF Node
    <3> QED
      BY <3>1, <3>3, <3>4, ItemArrays
  <2>8. x \in Item /\ x.child = c
    BY <2>2, <2>5, <2>7, ItemTypes
  <2>9. /\ DOMAIN H2 = DOMAIN H /\ \A a \in DOMAIN H : a # h => H2[a] = H[a]
        /\ H2[h] = [H[h] EXCEPT !.items = [H[h].items EXCEPT ![q] = x]]
    BY <2>3, <2>7
  <2>10. SlotSet(H[h], H2[h], q, x)
    BY <2>7, <2>8, <2>9, SlotIsSet
  <2>11. PICK f2 : Forest(H2, P, f2) /\ LinkedIn(f, f2, c)
    <3>1. h \in f.live /\ f.raw = {}
      BY <2>4, <1>5
    <3>2. DOMAIN H2 = DOMAIN H /\ \A a \in DOMAIN H : a # h => H2[a] = H[a]
      BY <2>9
    <3>3. Forest(H, P, f) /\ q \in H[h].child /\ f.gap = <<h, q>>
      BY <2>4
    <3> QED
      BY <3>1, <3>2, <3>3, <2>5, <2>6, <2>8, <2>10, GapFilled
  <2>12. f2.roots = {root} /\ f2.raw = {} /\ f2.gap = NoGap /\ f2.own[root] = contents
    BY <2>1, <2>4, <2>11, <1>4, <1>7 DEF LinkedIn, Outside
  <2>13. TheTree(f2, contents)'
    BY <2>3, <2>12, <1>2 DEF TheTree
  <2>14. Stage(f2)'
    BY <2>13, <1>2 DEF Stage
  <2> QED
    BY <2>1, <2>2, <2>11, <2>14, <1>2 DEF IInv, States, Pool
<1> QED
  BY <1>6, <1>7

\* The items of a list have the keys in ascending order.
LEMMA ListedKeys ==
  ASSUME NEW K \in SUBSET Keys, NEW s, Lists(s, K)
  PROVE  /\ Len(s) \in Nat
         /\ \A i \in 1..Len(s) : /\ s[i].key \in K /\ s[i].key \in Nat /\ s[i] = Data(s[i].key)
                                 /\ Rank(K, s[i].key) = i - 1
         /\ \A i, j \in 1..Len(s) : i < j => s[i].key < s[j].key
<1>1. PICK c : c = Cardinality(K)
  OBVIOUS
<1>2. /\ c \in Nat /\ K \in SUBSET Int /\ K \in SUBSET Nat /\ IsFiniteSet(K)
      /\ \A k \in K : Rank(K, k) \in Nat
  BY <1>1, KeySets
<1>3. Len(s) = c /\ \A k \in K : s[Rank(K, k) + 1] = Data(k)
  BY <1>1 DEF Lists
<1>4. ASSUME NEW i \in 1..c
      PROVE  /\ s[i].key \in K /\ s[i].key \in Nat /\ s[i] = Data(s[i].key)
             /\ Rank(K, s[i].key) = i - 1
  <2>1. i - 1 \in 0..(c - 1) /\ i - 1 + 1 = i
    BY <1>2
  <2>2. PICK k \in K : Rank(K, k) = i - 1
    BY <2>1, <1>1, <1>2, RankOnto
  <2>3. s[i] = Data(k) /\ k \in Nat
    BY <2>1, <2>2, <1>2, <1>3
  <2>4. s[i].key = k
    BY <2>3, ItemTypes
  <2> QED
    BY <2>2, <2>3, <2>4
<1>5. ASSUME NEW i \in 1..c, NEW j \in 1..c, i < j PROVE s[i].key < s[j].key
  <2>1. PICK k, l \in K : k = s[i].key /\ l = s[j].key /\ Rank(K, k) = i - 1 /\ Rank(K, l) = j - 1
    BY <1>4
  <2>2. k \in Int /\ l \in Int /\ Rank(K, k) < Rank(K, l)
    BY <2>1, <1>2, <1>5
  <2>3. l < k => Rank(K, l) < Rank(K, k)
    BY <1>2, RankIncreases
  <2>4. ~(l < k) /\ l # k
    BY <2>2, <2>3, <1>2
  <2> QED
    BY <2>1, <2>2, <2>4
<1> QED
  BY <1>2, <1>3, <1>4, <1>5

\* The run of a slot lists the keys that the model sends to it.
LEMMA RunLists ==
  ASSUME NEW K \in SUBSET Keys, NEW s, Lists(s, K), NEW n, Slotted(n), NEW p
  PROVE  Lists(Run(n, s, p), KeysAt(n, K, p))
<1>1. PICK A, B, c, m : A = KeysAt(n, K, p) /\ B = Cardinality(KeysBefore(n, K, p))
                        /\ c = Cardinality(K) /\ m = Cardinality(A)
  OBVIOUS
<1>2. K \in SUBSET Nat /\ K \in SUBSET Int /\ IsFiniteSet(K) /\ c \in Nat
  BY <1>1, KeySets
<1>3. A \in SUBSET Keys /\ KeysBefore(n, K, p) \in SUBSET Keys /\ A \subseteq K
  BY <1>1 DEF KeysAt, KeysBefore
<1>4. /\ A \in SUBSET Int /\ IsFiniteSet(A) /\ m \in Nat /\ B \in Nat
      /\ \A k \in A : Rank(A, k) \in 0..(m - 1)
  BY <1>1, <1>3, KeySets
<1>5. \A k \in A : Rank(K, k) = B + Rank(A, k)
  BY <1>1, <1>2, SlotRank DEF RanksBySlot
<1>6. /\ Len(s) = c /\ s \in Seq(Item)
      /\ \A i \in 1..c : s[i].key \in K /\ Rank(K, s[i].key) = i - 1
      /\ \A k \in K : s[Rank(K, k) + 1] = Data(k) /\ Rank(K, k) \in 0..(c - 1)
  BY <1>1, ListedKeys, KeySets DEF Lists
<1>7. PICK ns : ns = {i \in 1..c : Predict(n, s[i].key) = p}
  OBVIOUS
<1>8. Run(n, s, p) = IF ns = {} THEN <<>> ELSE SubSeq(s, Min(ns), Max(ns))
  BY <1>6, <1>7 DEF Run
<1>9. ASSUME NEW i \in ns PROVE i \in (B + 1)..(B + m)
  <2>1. s[i].key \in A /\ Rank(K, s[i].key) = i - 1 /\ i \in 1..c
    BY <1>1, <1>6, <1>7 DEF KeysAt
  <2>2. PICK j \in 0..(m - 1) : i - 1 = B + j
    BY <2>1, <1>4, <1>5
  <2> QED
    BY <2>1, <2>2, <1>2, <1>4
<1>10. ASSUME NEW k \in A PROVE B + Rank(A, k) + 1 \in ns
  <2>1. PICK i : i = Rank(K, k) + 1
    OBVIOUS
  <2>2. i \in 1..c /\ s[i] = Data(k) /\ i = B + Rank(A, k) + 1
    <3>1. Rank(K, k) \in 0..(c - 1) /\ s[Rank(K, k) + 1] = Data(k)
      BY <1>3, <1>6
    <3>2. Rank(K, k) = B + Rank(A, k)
      BY <1>5
    <3> QED
      BY <2>1, <3>1, <3>2, <1>2
  <2>3. s[i].key = k /\ Predict(n, k) = p
    BY <2>2, <1>1, <1>2, <1>3, ItemTypes DEF KeysAt
  <2> QED
    BY <2>2, <2>3, <1>7
<1>11. CASE m = 0
  <2>1. A = {}
    BY <1>1, <1>4, <1>11, FS_EmptySet
  <2>2. ns = {}
    BY <1>4, <1>9, <1>11
  <2>3. Run(n, s, p) = <<>>
    BY <1>8, <2>2
  <2>4. Cardinality(A) = 0 /\ Len(<<>>) = 0 /\ <<>> \in Seq(Item)
    BY <1>1, <1>11
  <2> QED
    BY <1>1, <2>1, <2>3, <2>4 DEF Lists
<1>12. CASE m > 0
  <2>1. \A j \in 0..(m - 1) : B + j + 1 \in ns
    <3>1. TAKE j \in 0..(m - 1)
    <3>2. PICK k \in A : Rank(A, k) = j
      BY <1>1, <1>4, RankOnto
    <3> QED
      BY <3>2, <1>10
  <2>2. B + 1 \in ns /\ B + m \in ns
    <3>1. 0 \in 0..(m - 1) /\ m - 1 \in 0..(m - 1) /\ B + 0 + 1 = B + 1 /\ B + (m - 1) + 1 = B + m
      BY <1>4, <1>12
    <3> QED
      BY <3>1, <2>1
  <2>3. Min(ns) = B + 1
    <3>1. B + 1 \in ns /\ \A i \in ns : i \in Int /\ B + 1 =< i
      BY <2>2, <1>4, <1>9
    <3>2. Min(ns) \in ns /\ \A i \in ns : Min(ns) =< i
      BY <3>1 DEF Min
    <3> QED
      BY <3>1, <3>2, <1>4
  <2>4. Max(ns) = B + m
    <3>1. B + m \in ns /\ \A i \in ns : i \in Int /\ i =< B + m
      BY <2>2, <1>4, <1>9
    <3>2. Max(ns) \in ns /\ \A i \in ns : i =< Max(ns)
      BY <3>1 DEF Max
    <3> QED
      BY <3>1, <3>2, <1>4
  <2>5. PICK r : r = SubSeq(s, B + 1, B + m)
    OBVIOUS
  <2>6. B + 1 \in 1..c /\ B + m \in 1..c /\ B + 1 <= B + m
    BY <2>2, <1>4, <1>7, <1>12
  <2>7. /\ r \in Seq(Item) /\ Len(r) = m
        /\ \A j \in 1..m : r[j] = s[B + j]
    <3>1. \A j \in (B + 1)..(B + m) : s[j] \in Item
      <4>1. (B + 1)..(B + m) \subseteq 1..c
        BY <2>6, <1>2, <1>4
      <4>2. \A j \in 1..c : s[j] \in Item
        BY <1>6
      <4> QED
        BY <4>1, <4>2
    <3>2. B + 1 \in Int /\ B + m \in Int
      BY <1>4
    <3>3. /\ r \in Seq(Item)
          /\ Len(r) = IF B + 1 <= B + m THEN (B + m) - (B + 1) + 1 ELSE 0
          /\ \A j \in 1..((B + m) - (B + 1) + 1) : r[j] = s[(B + 1) + j - 1]
      BY <3>1, <3>2, <2>5, SubSeqProperties
    <3>4. (B + m) - (B + 1) + 1 = m /\ \A j \in 1..m : (B + 1) + j - 1 = B + j
      BY <1>4
    <3> QED
      BY <3>3, <3>4, <2>6
  <2>8. ASSUME NEW k \in A PROVE r[Rank(A, k) + 1] = Data(k)
    <3>1. PICK j \in 0..(m - 1) : j = Rank(A, k)
      BY <1>4
    <3>2. r[j + 1] = s[B + (j + 1)] /\ B + (j + 1) = B + j + 1
      BY <2>7, <1>4
    <3>3. s[B + j + 1] = Data(k)
      BY <3>1, <1>3, <1>5, <1>6
    <3> QED
      BY <3>1, <3>2, <3>3
  <2>9. Run(n, s, p) = r
    BY <1>8, <2>2, <2>3, <2>4, <2>5
  <2> QED
    BY <1>1, <2>7, <2>8, <2>9 DEF Lists
<1> QED
  BY <1>4, <1>11, <1>12

\* The distance that FMCD finds is one between two items of the segment.
LEMMA FmcdInside ==
  ASSUME NEW s, Len(s) \in Nat \ {0}
  PROVE  Fmcd(s) \in 1..Len(s)
<1>1. PICK n \in Nat \ {0} : n = Len(s)
  OBVIOUS
<1>2. \E S : Fmcd(s) = Min(S) /\ S \subseteq 1..n /\ n \in S
  <2>1. \E R : Fmcd(s) = Min({D \in 1..n : D * 3 > n \/ R[D - 1] >= n - 1 - D \/ R[D] + D >= n})
    BY <1>1 DEF Fmcd
  <2>2. PICK R : Fmcd(s) = Min({D \in 1..n : D * 3 > n \/ R[D - 1] >= n - 1 - D \/ R[D] + D >= n})
    BY <2>1
  <2>3. PICK S : S = {D \in 1..n : D * 3 > n \/ R[D - 1] >= n - 1 - D \/ R[D] + D >= n}
    OBVIOUS
  <2>4. n \in S
    BY <2>3
  <2>5. S \subseteq 1..n
    BY <2>3
  <2> QED
    BY <2>2, <2>3, <2>4, <2>5
<1>3. PICK S : Fmcd(s) = Min(S) /\ S \subseteq 1..n /\ n \in S
  BY <1>2
<1>4. S \in SUBSET Int /\ \A x \in S : 1 <= x
  BY <1>3
<1>5. 1 \in Int /\ S # {}
  BY <1>3
<1>6. Min(S) \in S
  BY <1>4, <1>5, LeastElement, Zenon
<1> QED
  BY <1>1, <1>3, <1>6

\* The slots per item of a segment.
LEMMA GapCounts ==
  ASSUME NEW n
  PROVE  \/ GapCount(n) + 1 = 6 /\ (GapCount(n) + 1) \div 2 = 3
         \/ GapCount(n) + 1 = 3 /\ (GapCount(n) + 1) \div 2 = 1
         \/ GapCount(n) + 1 = 2 /\ (GapCount(n) + 1) \div 2 = 1
<1>1. GapCount(n) = 5 \/ GapCount(n) = 2 \/ GapCount(n) = 1
  BY SMT DEF GapCount
<1> QED
  BY <1>1

\* The two places where the keys are split are places between two items.
LEMMA MidPlaces ==
  ASSUME NEW n \in Nat, n > 2
  PROVE  /\ (n - 1) \div 3 \in Nat /\ ((n - 1) * 2) \div 3 \in Nat
         /\ (n - 1) \div 3 < ((n - 1) * 2) \div 3 /\ ((n - 1) * 2) \div 3 + 2 <= n
<1>1. PICK a, b : a = (n - 1) \div 3 /\ b = ((n - 1) * 2) \div 3
  OBVIOUS
<1>2. /\ a \in Nat /\ b \in Nat /\ 3 * a <= n - 1 /\ n - 1 < 3 * a + 3
      /\ 3 * b <= (n - 1) * 2 /\ (n - 1) * 2 < 3 * b + 3
  BY <1>1
<1> QED
  BY <1>1, <1>2

\* The model of a segment is one: the denominator is not zero, and the numerator not
\* negative.
LEMMA SegmentModelIs ==
  ASSUME NEW K \in SUBSET Keys, NEW s, Lists(s, K), Len(s) > 2
  PROVE  SegmentModel(s) \in Model
<1>1. PICK n \in Nat : n = Len(s) /\ n > 2
  BY ListedKeys
<1>2. PICK k \in [1..n -> Nat] : /\ \A i \in 1..n : s[i].key = k[i]
                                 /\ \A i, j \in 1..n : i < j => k[i] < k[j]
  <2>1. PICK k : k = [i \in 1..n |-> s[i].key]
    OBVIOUS
  <2>2. /\ \A i \in 1..n : s[i].key \in Nat
        /\ \A i, j \in 1..n : i < j => s[i].key < s[j].key
    BY <1>1, ListedKeys
  <2>3. k \in [1..n -> Nat]
    BY <2>1, <2>2
  <2>4. \A i \in 1..n : s[i].key = k[i]
    BY <2>1
  <2>5. \A i, j \in 1..n : i < j => k[i] < k[j]
    BY <2>2, <2>4
  <2> QED
    BY <2>3, <2>4, <2>5
<1>3. CASE Fmcd(s) * 3 <= Len(s)
  <2>1. PICK D \in 1..n : D = Fmcd(s) /\ D * 3 <= n
    BY <1>1, <1>3, FmcdInside
  <2>2. n - D \in 1..n /\ D + 1 \in 1..n /\ D + 1 <= n - D
    BY <2>1, <1>1
  <2>3. PICK x, y \in Nat : x = k[n - D] /\ y = k[D + 1] /\ y <= x
    <3>1. k[n - D] \in Nat /\ k[D + 1] \in Nat
      BY <2>2
    <3>2. D + 1 = n - D \/ D + 1 < n - D
      BY <2>2
    <3>3. k[D + 1] <= k[n - D]
      BY <2>2, <3>1, <3>2, <1>2
    <3> QED
      BY <3>1, <3>3
  <2>4. PICK L \in Nat : L = n * (GapCount(n) + 1) /\ L > 2
    <3>1. /\ n * 6 \in Nat /\ n * 6 > 2 /\ n * 3 \in Nat /\ n * 3 > 2
          /\ n * 2 \in Nat /\ n * 2 > 2
      BY <1>1
    <3>2. GapCount(n) + 1 = 6 \/ GapCount(n) + 1 = 3 \/ GapCount(n) + 1 = 2
      BY GapCounts
    <3> QED
      BY <3>1, <3>2
  <2>5. PICK num, den : num = (x - y) * EpsInverse + (L - 2) /\ den = (L - 2) * EpsInverse
    OBVIOUS
  <2>6. num \in Nat \ {0} /\ den \in Nat
    <3>1. PICK e \in Nat : e = x - y
      BY <2>3
    <3> QED
      BY <2>4, <2>5, <3>1 DEF EpsInverse
  <2>7. Ut(s, D) = [num |-> num, den |-> den]
    BY <2>2, <2>3, <2>4, <2>5, <1>1, <1>2 DEF Ut
  <2>8. SegmentModel(s) = [p |-> 2 * den, q |-> L * num - (x + y) * den, d |-> 2 * num]
    <3>1. s[Len(s) - D].key = x /\ s[D + 1].key = y /\ L = Len(s) * (GapCount(Len(s)) + 1)
      BY <2>2, <2>3, <2>4, <1>1, <1>2
    <3>2. SegmentModel(s) = FmcdModel(s, D)
      BY <2>1, <1>3 DEF SegmentModel
    <3>3. PICK u : u = Ut(s, D)
      OBVIOUS
    <3>4. u.num = num /\ u.den = den
      BY <2>7, <3>3
    <3>5. FmcdModel(s, D) = [p |-> 2 * u.den, q |-> L * u.num - (x + y) * u.den, d |-> 2 * u.num]
      BY <3>1, <3>3, Zenon DEF FmcdModel
    <3> QED
      BY <3>2, <3>4, <3>5
  <2>9. 2 * den \in Nat /\ L * num - (x + y) * den \in Int /\ 2 * num \in Nat \ {0}
    <3>1. \A i, j \in Nat : i * j \in Int
      OBVIOUS
    <3>2. L * num \in Int /\ (x + y) * den \in Int
      BY <2>3, <2>4, <2>6, <3>1
    <3> QED
      BY <2>6, <3>2
  <2> QED
    BY <2>8, <2>9 DEF Model
<1>4. CASE ~(Fmcd(s) * 3 <= Len(s))
  <2>1. PICK a, b \in Nat : a = (n - 1) \div 3 /\ b = ((n - 1) * 2) \div 3 /\ a < b /\ b + 2 <= n
    BY <1>1, MidPlaces
  <2>2. a + 1 \in 1..n /\ a + 2 \in 1..n /\ b + 1 \in 1..n /\ b + 2 \in 1..n
    BY <2>1, <1>1
  <2>3. PICK x, y : x = k[a + 1] + k[a + 2] /\ y = k[b + 1] + k[b + 2]
    OBVIOUS
  <2>8. x \in Nat /\ y \in Nat /\ x < y
    <3>1. k[a + 1] \in Nat /\ k[a + 2] \in Nat /\ k[b + 1] \in Nat /\ k[b + 2] \in Nat
      BY <2>2
    <3>2. k[a + 1] < k[b + 1] /\ k[a + 2] < k[b + 2]
      BY <2>1, <2>2, <1>2
    <3>3. \A v, w, y1, z \in Nat : v < y1 /\ w < z => v + w \in Nat /\ y1 + z \in Nat /\ v + w < y1 + z
      OBVIOUS
    <3>4. k[a + 1] + k[a + 2] \in Nat /\ k[b + 1] + k[b + 2] \in Nat
          /\ k[a + 1] + k[a + 2] < k[b + 1] + k[b + 2]
      BY <3>1, <3>2, <3>3, Zenon
    <3> QED
      BY <2>3, <3>4, Zenon
  <2>4. PICK g, t, u : g = GapCount(n) + 1 /\ t = a * g + g \div 2 /\ u = b * g + g \div 2
    OBVIOUS
  <2>5. t \in Nat /\ u \in Nat /\ t <= u
    <3>1. (g = 6 /\ g \div 2 = 3) \/ (g = 3 /\ g \div 2 = 1) \/ (g = 2 /\ g \div 2 = 1)
      BY <2>4, GapCounts
    <3>2. CASE g = 6 /\ g \div 2 = 3
      <4>1. t = a * 6 + 3 /\ u = b * 6 + 3
        BY <2>4, <3>2
      <4> QED
        BY <2>1, <4>1
    <3>3. CASE g = 3 /\ g \div 2 = 1
      <4>1. t = a * 3 + 1 /\ u = b * 3 + 1
        BY <2>4, <3>3
      <4> QED
        BY <2>1, <4>1
    <3>4. CASE g = 2 /\ g \div 2 = 1
      <4>1. t = a * 2 + 1 /\ u = b * 2 + 1
        BY <2>4, <3>4
      <4> QED
        BY <2>1, <4>1
    <3> QED
      BY <3>1, <3>2, <3>3, <3>4
  <2>6. SegmentModel(s) = [p |-> 2 * (u - t), q |-> t * (y - x) - (u - t) * x, d |-> y - x]
    <3>1. MidPositions(Len(s)) = <<a, b>>
      BY <2>1, <1>1 DEF MidPositions
    <3>2. GapCount(Len(s)) + 1 = g
      BY <1>1, <2>4
    <3>3. SegmentModel(s) = FallbackModel(s)
      BY <1>4 DEF SegmentModel
    <3>4. s[a + 1].key + s[a + 2].key = x /\ s[b + 1].key + s[b + 2].key = y
      BY <2>2, <2>3, <1>2
    <3>5. PICK m : m = MidPositions(Len(s))
      OBVIOUS
    <3>6. m[1] = a /\ m[2] = b
      BY <3>1, <3>5
    <3>7. s[m[1] + 1].key + s[m[1] + 2].key = x /\ s[m[2] + 1].key + s[m[2] + 2].key = y
      BY <3>4, <3>6
    <3>8. /\ m[1] * (GapCount(Len(s)) + 1) + (GapCount(Len(s)) + 1) \div 2 = t
          /\ m[2] * (GapCount(Len(s)) + 1) + (GapCount(Len(s)) + 1) \div 2 = u
      BY <2>4, <3>2, <3>6
    <3>9. FallbackModel(s) = [p |-> 2 * (u - t), q |-> t * (y - x) - (u - t) * x, d |-> y - x]
      BY <3>5, <3>7, <3>8, Zenon DEF FallbackModel
    <3> QED
      BY <3>3, <3>9
  <2>7. 2 * (u - t) \in Nat /\ y - x \in Nat \ {0} /\ t * (y - x) - (u - t) * x \in Int
    <3>1. \A i, j \in Nat : i * j \in Int
      OBVIOUS
    <3>2. y - x \in Nat /\ u - t \in Nat /\ y - x # 0
      BY <2>5, <2>8
    <3>3. t * (y - x) \in Int /\ (u - t) * x \in Int
      BY <2>5, <2>8, <3>1, <3>2
    <3> QED
      BY <3>2, <3>3
  <2> QED
    BY <2>6, <2>7 DEF Model
<1> QED
  BY <1>3, <1>4

\* The asserts about a segment hold.
LEMMA SegmentAssertsHold ==
  ASSUME NEW K \in SUBSET Keys, NEW s, Lists(s, K), Len(s) > 2
  PROVE  SegmentAsserts(s)
<1>1. PICK n \in Nat : n = Len(s) /\ n > 2
  BY ListedKeys
<1>2. Fmcd(s) \in 1..n
  BY <1>1, FmcdInside
<1>3. ASSUME NEW D \in 1..Fmcd(s), D = 1 \/ D * 3 <= n
      PROVE  D <= n - 1 - D
  BY <1>1, <1>2, <1>3
<1>4. PICK a, b \in Nat : a = (n - 1) \div 3 /\ b = ((n - 1) * 2) \div 3 /\ a < b /\ b + 2 <= n
  BY <1>1, MidPlaces
<1>5. 0 <= a /\ a < b /\ b < n - 1
  BY <1>1, <1>4
<1>6. PICK m : m = MidPositions(Len(s)) /\ m[1] = a /\ m[2] = b
  <2>1. MidPositions(Len(s)) = <<a, b>>
    BY <1>1, <1>4 DEF MidPositions
  <2> QED
    BY <2>1
<1>7. PICK M \in Model : M = SegmentModel(s)
  BY <1>1, SegmentModelIs
<1>8. M.d > 0 /\ M.p >= 0
  BY <1>7 DEF Model
<1> QED
  BY <1>1, <1>3, <1>5, <1>6, <1>7, <1>8 DEF SegmentAsserts

\* The empty node for a segment.
LEMMA FrameIs ==
  ASSUME NEW K \in SUBSET Keys, NEW s, Lists(s, K), Len(s) > 2, NEW n, n = SegmentFrame(s)
  PROVE  /\ Slotted(n) /\ n.num_items \in Nat /\ n.num_items > 1 /\ n.none = Bits(n.num_items)
         /\ n.is_two = FALSE /\ n.size = Cardinality(K)
<1>1. PICK l \in Nat : l = Len(s) /\ l > 2
  BY ListedKeys
<1>2. PICK m, M, t : m = l * (GapCount(l) + 1) /\ M = SegmentModel(s) /\ t = [i \in 0..(m - 1) |-> Unwritten]
  OBVIOUS
<1>3. m \in Nat /\ m > 1
  <2>1. m = l * 6 \/ m = l * 3 \/ m = l * 2
    BY <1>2, GapCounts
  <2> QED
    BY <1>1, <2>1
<1>4. M \in Model
  BY <1>1, <1>2, SegmentModelIs
<1>5. n = [is_two |-> FALSE, build_size |-> l, size |-> l, fixed |-> l > FixedMin,
           num_inserts |-> 0, num_insert_to_data |-> 0, num_items |-> m,
           model |-> M, items |-> t, none |-> Bits(m), child |-> {}]
  BY <1>1, <1>2 DEF SegmentFrame, NewNode
<1>6. t \in Items
  <2>1. t \in [0..(m - 1) -> Item]
    BY <1>2, ItemTypes
  <2> QED
    BY <2>1, <1>3, ItemArrays
<1>7. Bits(m) \in SUBSET Nat
  BY <1>3, BitsCover
<1>8. n \in Node
  BY <1>1, <1>3, <1>4, <1>5, <1>6, <1>7 DEF Node
<1>9. l = Cardinality(K)
  BY <1>1 DEF Lists
<1> QED
  BY <1>3, <1>5, <1>8, <1>9 DEF Slotted

\* The node m with items t and children at C has the keys K where the model of n says.
Divided(n, m, s, K, C, t) ==
  /\ Spread(m, K) /\ m.child = C /\ m.items = t
  /\ \A p : /\ KeysAt(m, K, p) = KeysAt(n, K, p) /\ Lists(Run(n, s, p), KeysAt(n, K, p))
            /\ Len(Run(n, s, p)) = Cardinality(KeysAt(n, K, p))

\* The node for a segment: an item alone in its slot is stored there, the slots of several
\* items have children.
LEMMA SegmentSpread ==
  ASSUME NEW K \in SUBSET Keys, NEW s, Lists(s, K), Len(s) > 2, NEW n, n = SegmentFrame(s),
         NEW slots, slots = 0..(n.num_items - 1), NEW C, C = Crowded(n, s),
         NEW t \in [slots -> Item], \A p \in slots : Len(Run(n, s, p)) = 1 => t[p] = Run(n, s, p)[1],
         NEW Z, Z \subseteq n.none, \A p \in n.none : p \in Z <=> Run(n, s, p) = <<>>,
         NEW m, m = [n EXCEPT !.none = Z, !.child = C, !.items = t]
  PROVE  Divided(n, m, s, K, C, t)
<1>1. /\ Slotted(n) /\ n.num_items \in Nat /\ n.num_items > 1 /\ n.none = Bits(n.num_items)
      /\ n.is_two = FALSE /\ n.size = Cardinality(K)
  BY FrameIs
<1>2. Bits(n.num_items) \subseteq Nat /\ slots \subseteq Bits(n.num_items)
  BY <1>1, BitsCover
<1>3. /\ Z = {p \in n.none : Run(n, s, p) = <<>>}
      /\ C = {p \in slots : Len(Run(n, s, p)) > 1}
  BY DEF Crowded
<1>4. m \in Node
  <2>1. t \in Items
    BY <1>1, ItemArrays
  <2>2. Z \in SUBSET Nat /\ C \in SUBSET Nat
    BY <1>1, <1>2, <1>3
  <2> QED
    BY <2>1, <2>2, <1>1, <1>3 DEF Slotted, Node
<1>5. /\ m.none = Z /\ m.child = C /\ m.items = t /\ m.num_items = n.num_items
      /\ m.model = n.model /\ m.size = n.size /\ m.is_two = FALSE
  BY <1>1, <1>3 DEF Slotted, Node
<1>6. \A p : KeysAt(m, K, p) = KeysAt(n, K, p)
  <2>1. SameModel(n, m)
    BY <1>5 DEF SameModel
  <2> QED
    BY <2>1, SameKeys
<1>7. ASSUME NEW p
      PROVE  /\ Lists(Run(n, s, p), KeysAt(n, K, p))
             /\ Len(Run(n, s, p)) = Cardinality(KeysAt(n, K, p))
             /\ IsFiniteSet(KeysAt(n, K, p)) /\ Cardinality(KeysAt(n, K, p)) \in Nat
  <2>1. Lists(Run(n, s, p), KeysAt(n, K, p))
    BY <1>1, RunLists
  <2>2. KeysAt(n, K, p) \in SUBSET Keys
    BY DEF KeysAt
  <2> QED
    BY <2>1, <2>2, KeySets DEF Lists
<1>8. ASSUME NEW p
      PROVE  Run(n, s, p) = <<>> <=> KeysAt(n, K, p) = {}
  <2>1. Run(n, s, p) \in Seq(Item) /\ Len(Run(n, s, p)) = Cardinality(KeysAt(n, K, p))
    BY <1>7 DEF Lists
  <2>2. Run(n, s, p) = <<>> <=> Len(Run(n, s, p)) = 0
    BY <2>1
  <2>3. KeysAt(n, K, p) = {} <=> Cardinality(KeysAt(n, K, p)) = 0
    BY <1>7, FS_EmptySet
  <2> QED
    BY <2>1, <2>2, <2>3
<1>9. \A p \in n.none \ slots : KeysAt(n, K, p) = {}
  <2>1. \A k \in K : Predict(n, k) \in slots
    BY <1>1, PredictInside, LippAssumption
  <2> QED
    BY <2>1 DEF KeysAt
<1>10. Shape(m)
  <2>1. Slotted(m)
    BY <1>1, <1>4, <1>5 DEF Slotted
  <2>2. DOMAIN m.items = 0..(m.num_items - 1) /\ m.child \subseteq 0..(m.num_items - 1)
    BY <1>3, <1>5
  <2>3. m.child \cap m.none = {}
    <3>1. \A p \in m.none : Len(Run(n, s, p)) = 0
      BY <1>3, <1>5
    <3>2. \A p \in C : Len(Run(n, s, p)) > 1
      BY <1>3
    <3> QED
      BY <3>1, <3>2, <1>5
  <2>4. m.none \subseteq Bits(m.num_items) /\ Bits(m.num_items) \ m.none \subseteq 0..(m.num_items - 1)
    BY <1>1, <1>3, <1>5, <1>8, <1>9
  <2> QED
    BY <2>1, <2>2, <2>3, <2>4, <1>5 DEF Shape
<1>11. \A p \in m.none : KeysAt(m, K, p) = {}
  BY <1>3, <1>5, <1>6, <1>8
<1>12. ASSUME NEW p \in slots, p \notin m.none, p \notin m.child
       PROVE  \E k \in Keys : KeysAt(m, K, p) = {k} /\ m.items[p] = Data(k)
  <2>1. PICK A, r, c : A = KeysAt(n, K, p) /\ r = Run(n, s, p) /\ c = Cardinality(A)
    OBVIOUS
  <2>2. Lists(r, A) /\ Len(r) = c /\ IsFiniteSet(A) /\ c \in Nat
    BY <2>1, <1>7
  <2>3. A # {}
    BY <2>1, <1>1, <1>2, <1>3, <1>5, <1>8, <1>12
  <2>4. c # 0
    BY <2>1, <2>2, <2>3, FS_EmptySet
  <2>5. c = 1
    BY <2>1, <2>2, <2>4, <1>3, <1>5, <1>12
  <2>6. PICK k : A = {k}
    BY <2>1, <2>2, <2>5, FS_Singleton
  <2>7. k \in Keys /\ k \in Int
    BY <2>1, <2>6, LippAssumption DEF KeysAt
  <2>8. r[1] = Data(k)
    <3>1. Rank({k}, k) = 0
      BY <2>7, RankAlone
    <3>2. r[Rank({k}, k) + 1] = Data(k)
      BY <2>2, <2>6 DEF Lists
    <3> QED
      BY <3>1, <3>2
  <2> QED
    BY <2>1, <2>2, <2>5, <2>6, <2>7, <2>8, <1>5, <1>6
<1>13. Spread(m, K)
  BY <1>1, <1>5, <1>10, <1>11, <1>12 DEF Spread
<1> QED
  BY <1>5, <1>6, <1>7, <1>13 DEF Divided

\* A larger segment becomes a node, and segments for the slots of several items.
LEMMA BuildSegmentHolds ==
  ASSUME IInv, BuildSegment
  PROVE  IInv' /\ failed' = failed
<1>1. PICK f : Forest(heap, Range(pending_two), f) /\ Stage(f)
  BY DEF IInv
<1>2. PICK b, s, n : b = Last(stack).node /\ s = Last(stack).items /\ n = SegmentFrame(s)
  OBVIOUS
<1>3. PICK down, new, c, t, m : /\ down = Ascending(Crowded(n, s)) /\ c = Len(down)
                                /\ new = Fresh(c) /\ m = Fill(n, s, new)
                                /\ t = [i \in 1..c |-> [items |-> Run(n, s, down[i]), node |-> new[i]]]
  OBVIOUS
<1>8. /\ pc = "build" /\ pc' = "build" /\ stack # <<>> /\ Len(s) # 2
      /\ pending_two' = pending_two /\ UNCHANGED <<root, key, hook, built, contents>>
      /\ Pool /\ failed \in BOOLEAN /\ contents \subseteq Keys
      /\ failed' = (failed \/ Len(s) < 2 \/ ~SegmentAsserts(s))
  BY <1>2 DEF BuildSegment, IInv
<1>9. /\ heap' = [a \in DOMAIN heap \cup Range(new) |->
                    IF a = b THEN m ELSE IF a \in DOMAIN heap THEN heap[a] ELSE RawNode]
      /\ stack' = Front(stack) \o t
  BY <1>2, <1>3 DEF BuildSegment
<1>10. PICK u : u = [p \in 0..(n.num_items - 1) |->
                       IF Run(n, s, p) = <<>> THEN Unwritten
                       ELSE IF Len(Run(n, s, p)) = 1 THEN Run(n, s, p)[1]
                       ELSE Child(new[CHOOSE i \in 1..c : down[i] = p], Unwritten)]
  OBVIOUS
<1>11. m = [n EXCEPT !.none = {p \in n.none : Run(n, s, p) = <<>>}, !.child = Range(down),
                     !.items = u]
  BY <1>3, <1>10 DEF Fill
<1>12. Building(f)
  BY <1>1, <1>8 DEF Stage
<1>13. PICK K : K = f.own[b]
  OBVIOUS
<1>14. /\ b \in f.raw /\ K \in SUBSET Keys /\ Lists(s, K) /\ Cardinality(K) > 1
  BY <1>1, <1>2, <1>8, <1>12, <1>13, NextToBuild
<1>15. Len(s) \in Nat /\ Len(s) > 2 /\ failed' = failed
  <2>1. Len(s) \in Nat /\ Len(s) = Cardinality(K)
    BY <1>14, ListedKeys DEF Lists
  <2>2. Len(s) > 2 /\ ~(Len(s) < 2)
    BY <2>1, <1>8, <1>14
  <2>3. SegmentAsserts(s)
    BY <2>2, <1>14, SegmentAssertsHold
  <2> QED
    BY <2>1, <2>2, <2>3, <1>8
<1>16. Slotted(n) /\ n.num_items \in Nat
  BY <1>2, <1>14, <1>15, FrameIs
<1>17. PICK slots, C : slots = 0..(n.num_items - 1) /\ C = Crowded(n, s)
  OBVIOUS
<1>18. C = {p \in slots : Len(Run(n, s, p)) > 1}
  BY <1>17 DEF Crowded
<1>19. /\ c \in Nat /\ Len(down) = c /\ DOMAIN down = 1..c /\ Range(down) = C
       /\ \A i \in 1..c : down[i] \in C
       /\ \A p \in C : \E i \in 1..c : down[i] = p
       /\ \A i, j \in 1..c : down[i] = down[j] => i = j
  <2>1. IsFiniteSet(C) /\ C \in SUBSET Int
    <3>1. IsFiniteSet(slots) /\ slots \in SUBSET Int
      BY <1>16, <1>17, FS_Interval
    <3>2. C \in SUBSET slots
      BY <1>18
    <3> QED
      BY <3>1, <3>2, FS_Subset
  <2>2. PICK e : e = Cardinality(C)
    OBVIOUS
  <2>3. /\ e \in Nat /\ down \in [1..e -> C]
        /\ \A i, j \in 1..e : i < j => down[i] < down[j]
        /\ \A p \in C : \E i \in 1..e : down[i] = p
    BY <2>1, <2>2, <1>3, <1>17, AscendingRanks
  <2>4. Len(down) = e /\ c = e /\ DOMAIN down = 1..e
    BY <2>3, <1>3
  <2>5. Range(down) = C
    BY <2>3, <2>4 DEF Range
  <2>6. ASSUME NEW i \in 1..e, NEW j \in 1..e, down[i] = down[j] PROVE i = j
    <3>1. down[i] \in Int /\ down[j] \in Int
      BY <2>1, <2>3
    <3>2. ~(i < j) /\ ~(j < i)
      BY <2>3, <2>6, <3>1
    <3> QED
      BY <3>2, <2>3
  <2> QED
    BY <2>3, <2>4, <2>5, <2>6
<1>20. /\ IsFiniteSet(DOMAIN heap) /\ DOMAIN heap \subseteq Nat \ {0}
       /\ f.live = DOMAIN heap \ Range(pending_two) /\ Range(pending_two) \subseteq DOMAIN heap
       /\ f.raw \subseteq f.live
  BY <1>1 DEF Forest, HeapOK
<1>21. /\ new \in Seq(Nat \ {0}) /\ Len(new) = c /\ DOMAIN new = 1..c
       /\ \A i \in 1..c : new[i] \in Nat \ {0} /\ new[i] \notin DOMAIN heap
       /\ \A i, j \in 1..c : new[i] = new[j] => i = j
  <2>1. /\ new \in Seq(Nat \ {0}) /\ Len(new) = c
        /\ \A i \in 1..c : new[i] \in Nat \ {0} /\ new[i] \notin DOMAIN heap
        /\ \A i, j \in 1..c : new[i] = new[j] => i = j
    BY <1>3, <1>19, <1>20, FreshAddresses
  <2> QED
    BY <2>1
<1>22. ASSUME NEW p \in C
       PROVE  \E i \in 1..c : /\ down[i] = p /\ u[p] = Child(new[i], Unwritten)
                              /\ u[p] \in Item /\ u[p].child = new[i]
  <2>1. PICK i : i = CHOOSE j \in 1..c : down[j] = p
    OBVIOUS
  <2>2. i \in 1..c /\ down[i] = p
    BY <2>1, <1>19
  <2>3. p \in slots /\ Len(Run(n, s, p)) > 1
    BY <1>18
  <2>4. Run(n, s, p) # <<>> /\ Len(Run(n, s, p)) # 1
    <3>1. Len(<<>>) = 0
      OBVIOUS
    <3>2. PICK r : r = Run(n, s, p)
      OBVIOUS
    <3>3. Len(r) > 1 /\ r \in Seq(Item) /\ Len(r) \in Nat
      BY <2>3, <3>2, <1>14, <1>16, RunLists DEF Lists
    <3>4. Len(r) # 0 /\ Len(r) # 1
      <4>1. PICK l \in Nat : l = Len(r)
        BY <3>3
      <4>2. l > 1
        BY <3>3, <4>1
      <4> QED
        BY <4>1, <4>2
    <3> QED
      BY <3>1, <3>2, <3>4
  <2>5. u[p] = Child(new[i], Unwritten)
    BY <2>1, <2>3, <2>4, <1>10, <1>17
  <2>6. Child(new[i], Unwritten) \in Item /\ Child(new[i], Unwritten).child = new[i]
    BY <2>2, <1>21, ItemTypes
  <2> QED
    BY <2>2, <2>5, <2>6
<1>23. ASSUME NEW p \in slots, p \notin C
       PROVE  u[p] \in Item /\ (Len(Run(n, s, p)) = 1 => u[p] = Run(n, s, p)[1])
  <2>1. PICK r : r = Run(n, s, p)
    OBVIOUS
  <2>2. r \in Seq(Item)
    BY <2>1, <1>14, <1>16, RunLists DEF Lists
  <2>3. ~(Len(r) > 1)
    BY <2>1, <1>18, <1>23
  <2>4. r = <<>> \/ Len(r) = 1
    BY <2>2, <2>3
  <2>5. u[p] = IF r = <<>> THEN Unwritten ELSE IF Len(r) = 1 THEN r[1]
               ELSE Child(new[CHOOSE i \in 1..c : down[i] = p], Unwritten)
    BY <2>1, <1>10, <1>17
  <2>6. Len(r) = 1 => r # <<>> /\ r[1] \in Item
    <3>1. Len(<<>>) = 0
      OBVIOUS
    <3>2. \A i \in 1..Len(r) : r[i] \in Item
      BY <2>2
    <3>3. Len(r) = 1 => 1 \in 1..Len(r)
      OBVIOUS
    <3> QED
      BY <3>1, <3>2, <3>3
  <2> QED
    BY <2>1, <2>4, <2>5, <2>6, ItemTypes
<1>24. u \in [slots -> Item] /\ \A p \in slots : Len(Run(n, s, p)) = 1 => u[p] = Run(n, s, p)[1]
  <2>1. ASSUME NEW p \in slots
        PROVE  u[p] \in Item /\ (Len(Run(n, s, p)) = 1 => u[p] = Run(n, s, p)[1])
    <3>1. CASE p \in C
      <4>1. u[p] \in Item
        BY <3>1, <1>22
      <4>2. Len(Run(n, s, p)) > 1 /\ Len(Run(n, s, p)) \in Nat
        BY <3>1, <1>14, <1>16, <1>18, RunLists DEF Lists
      <4>3. Len(Run(n, s, p)) # 1
        <5>1. PICK l \in Nat : l = Len(Run(n, s, p))
          BY <4>2
        <5>2. l > 1
          BY <4>2, <5>1
        <5> QED
          BY <5>1, <5>2
      <4> QED
        BY <4>1, <4>3
    <3>2. CASE p \notin C
      BY <3>2, <1>23
    <3> QED
      BY <3>1, <3>2
  <2> QED
    BY <2>1, <1>10, <1>17
<1>25. Divided(n, m, s, K, C, u)
  <2>1. PICK Z : Z = {p \in n.none : Run(n, s, p) = <<>>}
    OBVIOUS
  <2>2. m = [n EXCEPT !.none = Z, !.child = C, !.items = u]
    BY <2>1, <1>11, <1>19
  <2>3. Z \subseteq n.none /\ \A p \in n.none : p \in Z <=> Run(n, s, p) = <<>>
    BY <2>1
  <2>4. K \in SUBSET Keys /\ Lists(s, K) /\ Len(s) > 2 /\ n = SegmentFrame(s)
    BY <1>2, <1>14, <1>15
  <2>5. slots = 0..(n.num_items - 1) /\ C = Crowded(n, s)
    BY <1>17
  <2>6. u \in [slots -> Item]
    BY <1>24
  <2>7. \A p \in slots : Len(Run(n, s, p)) = 1 => u[p] = Run(n, s, p)[1]
    BY <1>24
  <2>8. Z \subseteq n.none
    BY <2>3
  <2>9. \A p \in n.none : p \in Z <=> Run(n, s, p) = <<>>
    BY <2>3
  <2> QED
    BY ONLY <2>2, <2>4, <2>5, <2>6, <2>7, <2>8, <2>9, SegmentSpread
<1>26. /\ Spread(m, K) /\ m.child = C /\ m.items = u
       /\ \A p : /\ KeysAt(m, K, p) = KeysAt(n, K, p) /\ Lists(Run(n, s, p), KeysAt(n, K, p))
                 /\ Len(Run(n, s, p)) = Cardinality(KeysAt(n, K, p))
  BY <1>25 DEF Divided
<1>27. PICK H, P, H2, N : H = heap /\ P = Range(pending_two) /\ H2 = heap' /\ N = Range(new)
  OBVIOUS
<1>28. b \in DOMAIN H /\ b \in f.live /\ DOMAIN H \subseteq Nat \ {0} /\ P \subseteq DOMAIN H
  BY <1>14, <1>20, <1>27
<1>29. /\ \A i \in 1..c : new[i] \in N
       /\ \A a \in N : a \in Nat \ {0} /\ a \notin DOMAIN H /\ \E i \in 1..c : new[i] = a
  BY <1>21, <1>27 DEF Range
<1>30. /\ DOMAIN H2 = DOMAIN H \cup N /\ H2[b] = m /\ \A a \in N : H2[a] = RawNode
       /\ \A a \in DOMAIN H : a # b => H2[a] = H[a]
  BY <1>9, <1>27, <1>28, <1>29
<1>31. IsFiniteSet(DOMAIN H2)
  <2>1. new \in Surjection(1..c, N)
    BY <1>21, <1>29 DEF Surjection
  <2>2. IsFiniteSet(1..c)
    BY <1>19, FS_Interval
  <2>3. IsFiniteSet(N)
    BY <2>1, <2>2, FS_Surjection
  <2> QED
    <3>1. IsFiniteSet(DOMAIN H)
      BY <1>20, <1>27
    <3>2. IsFiniteSet(DOMAIN H \cup N)
      BY ONLY <2>3, <3>1, FS_Union
    <3> QED
      BY <3>2, <1>30
<1>32. Kids(H2, b) = N
  <2>1. \A p \in C : u[p].child \in N
    BY <1>22, <1>29
  <2>2. ASSUME NEW a \in N PROVE \E p \in C : u[p].child = a
    <3>1. PICK i \in 1..c : new[i] = a
      BY <1>29
    <3>2. down[i] \in C
      BY <1>19
    <3>3. PICK j \in 1..c : down[j] = down[i] /\ u[down[i]].child = new[j]
      BY <3>2, <1>22
    <3> QED
      BY <3>1, <3>2, <3>3, <1>19
  <2> QED
    BY <2>1, <2>2, <1>26, <1>30 DEF Kids
<1>33. \A p, q \in C : u[p].child = u[q].child => p = q
  BY <1>21, <1>22
<1>34. BuiltAt(H, P, H2, P, f, b)
  <2>1. DOMAIN H2 \subseteq Nat \ {0} /\ P \subseteq P \cap DOMAIN H2
    BY <1>28, <1>29, <1>30
  <2>2. DOMAIN H2 \ P = f.live \cup N /\ N \cap f.live = {}
    BY <1>20, <1>27, <1>28, <1>29, <1>30
  <2>3. \A a \in (f.live \ {b}) \cup P : H2[a] = H[a]
    BY <1>20, <1>27, <1>28, <1>30
  <2>4. \A p, q \in H2[b].child : H2[b].items[p].child = H2[b].items[q].child => p = q
    BY <1>26, <1>30, <1>33
  <2> QED
    BY <2>1, <2>2, <2>3, <2>4, <1>30, <1>31, <1>32 DEF BuiltAt
<1>35. NextOnes(f, H2, b, t)
  <2>1. ASSUME NEW i \in 1..c
        PROVE  /\ t[i] \in [items : Seq(Item), node : Nat]
               /\ t[i].items = Run(n, s, down[i]) /\ t[i].node = new[i]
    <3>1. t[i] = [items |-> Run(n, s, down[i]), node |-> new[i]]
      BY <1>3
    <3>2. Run(n, s, down[i]) \in Seq(Item) /\ new[i] \in Nat
      BY <1>21, <1>26 DEF Lists
    <3> QED
      BY <3>1, <3>2
  <2>2. Len(t) = c /\ t \in Seq([items : Seq(Item), node : Nat])
    BY <2>1, <1>3, <1>19
  <2>3. ListOf(NodesOf(t), N)
    <3>1. PICK z : z = NodesOf(t)
      OBVIOUS
    <3>2. z = [i \in 1..c |-> t[i].node]
      BY <3>1, <2>2 DEF NodesOf
    <3>3. z \in Seq(N) /\ Len(z) = c /\ \A i \in 1..c : z[i] = new[i]
      BY <3>2, <2>1, <1>19, <1>29
    <3> QED
      BY <3>1, <3>3, <1>21, <1>29 DEF ListOf
  <2>4. ASSUME NEW i \in 1..Len(t)
        PROVE  \E p \in H2[b].child :
                 /\ H2[b].items[p].child = t[i].node
                 /\ Lists(t[i].items, KeysAt(H2[b], f.own[b], p))
                 /\ Cardinality(KeysAt(H2[b], f.own[b], p)) > 1
    <3>1. i \in 1..c
      BY <2>2
    <3>2. PICK p : p = down[i]
      OBVIOUS
    <3>3. p \in C /\ Len(Run(n, s, p)) > 1
      BY <3>1, <3>2, <1>18, <1>19
    <3>4. u[p].child = new[i]
      <4>1. PICK j \in 1..c : down[j] = p /\ u[p].child = new[j]
        BY <3>3, <1>22
      <4> QED
        BY <4>1, <3>1, <3>2, <1>19
    <3>5. Lists(Run(n, s, p), KeysAt(m, K, p)) /\ Cardinality(KeysAt(m, K, p)) > 1
      BY <3>3, <1>26
    <3> QED
      BY <3>1, <3>2, <3>3, <3>4, <3>5, <2>1, <1>13, <1>26, <1>30
  <2> QED
    BY <2>2, <2>3, <2>4, <1>32 DEF NextOnes
<1>36. \E f2 : Forest(heap', Range(pending_two'), f2) /\ Stage(f2)'
  <2>1. BuiltAt(heap, Range(pending_two), heap', Range(pending_two'), f, b)
    BY <1>8, <1>27, <1>34
  <2>2. Spread(heap'[b], f.own[b]) /\ NextOnes(f, heap', b, t)
    BY <1>13, <1>26, <1>27, <1>30, <1>35
  <2> QED
    BY <2>1, <2>2, <1>1, <1>2, <1>8, <1>9, <1>12, BuildGoesOn
<1> QED
  BY <1>8, <1>15, <1>36 DEF IInv, States, Pool

-----------------------------------------------------------------------------
(* The theorems. *)

\* The constructor makes a tree without keys.
LEMMA InitHolds ==
  ASSUME Init
  PROVE  IInv /\ failed = FALSE
<1>1. /\ heap = Put(<<>>, 1, NoneNode) /\ root = 1 /\ pending_two = <<>> /\ pc = "idle"
      /\ contents = {} /\ failed = FALSE
  BY DEF Init
<1>2. PICK f : f = [live |-> {}, roots |-> {}, raw |-> {}, gap |-> NoGap,
                    own |-> <<>>, rank |-> <<>>, parent |-> <<>>]
  OBVIOUS
<1>3. DOMAIN <<>> = {} /\ IsFiniteSet({})
  BY FS_EmptySet
<1>4. Forest(<<>>, {}, f)
  <2>1. HeapOK(<<>>, {}, f)
    BY <1>2, <1>3 DEF HeapOK
  <2> QED
    BY <2>1, <1>2 DEF Forest
<1>5. PICK H : H = heap
  OBVIOUS
<1>6. PutAt(<<>>, {}, H, {}, 1) /\ H[1] = NoneNode
  <2>1. H = [b \in {1} |-> NoneNode]
    BY <1>1, <1>3, <1>5 DEF Put
  <2> QED
    BY <2>1, <1>3 DEF PutAt
<1>7. Leaf(H, 1, {})
  BY <1>6, NoneIsLeaf
<1>8. PICK f2 : Forest(H, {}, f2) /\ NewRoot(f, f2, 1, {}, {})
  BY <1>2, <1>4, <1>6, <1>7, RootAdded
<1>9. Range(pending_two) = {} /\ Pool
  BY <1>1, <1>3 DEF Range, Pool, IsInjective
<1>10. Stage(f2)
  <2>1. TheTree(f2, contents)
    BY <1>1, <1>2, <1>8 DEF TheTree, NewRoot
  <2> QED
    BY <2>1, <1>1 DEF Stage
<1> QED
  BY <1>1, <1>5, <1>8, <1>9, <1>10 DEF IInv, States

\* A step that changes nothing.
LEMMA StutterHolds ==
  ASSUME IInv, UNCHANGED vars
  PROVE  IInv' /\ failed' = failed
<1>1. UNCHANGED <<heap, root, pending_two, pc, stack, entries, key, hook, built, contents, failed>>
  BY DEF vars
<1>2. PICK f : Forest(heap, Range(pending_two), f) /\ Stage(f)
  BY DEF IInv
<1>3. /\ Forest(heap', Range(pending_two'), f) /\ Pool' /\ Outside' = Outside
      /\ OldKeys(f)' = OldKeys(f) /\ Place' = Place
  BY <1>1, <1>2 DEF IInv, Pool, Outside, OldKeys, Place
<1>4. Around(f) => Around(f)'
  BY <1>1, <1>3 DEF Around
<1>5. Scanning(f) => Scanning(f)'
  BY <1>1, <1>3, <1>4 DEF Scanning, Scanned
<1>6. Building(f) => Building(f)'
  BY <1>1, <1>3, <1>4 DEF Building
<1>7. Stage(f)'
  BY <1>1, <1>2, <1>5, <1>6 DEF Stage, TheTree, Destroying
<1> QED
  BY <1>1, <1>3, <1>7 DEF IInv

\* The asserts that a step may fail are only that of MAX_DEPTH.
OnlyDepthFails ==
  failed' # failed => pc = "insert" /\ Len(Path(key)) > MaxDepth

\* Every step keeps the forest.
LEMMA StepHolds ==
  ASSUME IInv, [Next]_vars
  PROVE  IInv' /\ OnlyDepthFails
<1>1. ASSUME NEW K \in SUBSET Keys, BulkLoad(K) PROVE IInv' /\ OnlyDepthFails
  BY <1>1, BulkLoadHolds DEF OnlyDepthFails
<1>2. CASE DestroyStep
  BY <1>2, DestroyStepHolds DEF OnlyDepthFails
<1>3. CASE LoadFew
  BY <1>3, LoadFewHolds DEF OnlyDepthFails
<1>4. CASE LoadTwo
  BY <1>4, LoadTwoHolds DEF OnlyDepthFails
<1>5. CASE LoadMany
  BY <1>5, LoadManyHolds DEF OnlyDepthFails
<1>6. CASE Close
  BY <1>6, CloseHolds DEF OnlyDepthFails
<1>7. CASE DestroyPending
  BY <1>7, DestroyPendingHolds DEF OnlyDepthFails
<1>8. ASSUME NEW k \in Keys, Insert(k) PROVE IInv' /\ OnlyDepthFails
  BY <1>8, InsertHolds DEF OnlyDepthFails
<1>9. CASE InsertIntoFreeSlot
  <2>1. IInv' /\ failed' = (failed \/ Len(Path(key)) > MaxDepth)
    BY <1>9, InsertIntoFreeSlotHolds
  <2>2. pc = "insert" /\ failed \in BOOLEAN
    BY <1>9 DEF InsertIntoFreeSlot, IInv
  <2> QED
    BY <2>1, <2>2 DEF OnlyDepthFails
<1>10. CASE InsertIntoData
  <2>1. IInv' /\ failed' = (failed \/ Len(Path(key)) > MaxDepth)
    BY <1>10, InsertIntoDataHolds
  <2>2. pc = "insert" /\ failed \in BOOLEAN
    BY <1>10 DEF InsertIntoData, IInv
  <2> QED
    BY <2>1, <2>2 DEF OnlyDepthFails
<1>11. CASE ScanStep
  BY <1>11, ScanStepHolds DEF OnlyDepthFails
<1>12. CASE ScanDone
  BY <1>12, ScanDoneHolds DEF OnlyDepthFails
<1>13. CASE BuildPair
  BY <1>13, BuildPairHolds DEF OnlyDepthFails
<1>14. CASE BuildSegment
  BY <1>14, BuildSegmentHolds DEF OnlyDepthFails
<1>15. CASE BuildDone
  BY <1>15, BuildDoneHolds DEF OnlyDepthFails
<1>16. CASE UNCHANGED vars
  BY <1>16, StutterHolds DEF OnlyDepthFails
<1> QED
  BY <1>1, <1>2, <1>3, <1>4, <1>5, <1>6, <1>7, <1>8, <1>9, <1>10, <1>11, <1>12, <1>13, <1>14,
     <1>15, <1>16 DEF Next

\* The nodes always form a forest that has every key exactly where the models say: through
\* collisions, rebuilds, bulk loads, reuse of nodes from the pool and the destructor.
THEOREM LippInvariant == Spec => []IInv
<1>1. Init => IInv
  BY InitHolds
<1>2. IInv /\ [Next]_vars => IInv'
  BY StepHolds
<1> QED
  BY <1>1, <1>2, PTL DEF Spec

\* The bitmaps are whole bytes, child slots are not marked empty and the pool's nodes are
\* allocated.
THEOREM LippTypeOK == Spec => []TypeOK
<1>1. IInv => TypeOK
  <2> SUFFICES ASSUME IInv PROVE TypeOK
    OBVIOUS
  <2>1. PICK f : Forest(heap, Range(pending_two), f) /\ Stage(f)
    BY DEF IInv
  <2>2. ASSUME NEW a \in DOMAIN heap
        PROVE  heap[a].child \cap heap[a].none = {} /\ heap[a].none \subseteq Bits(heap[a].num_items)
    <3>1. CASE a \in Range(pending_two)
      BY <3>1, <2>1 DEF Forest, HeapOK, PoolNode
    <3>2. CASE a \in f.raw
      <4>1. heap[a] = RawNode
        BY <3>2, <2>1 DEF Forest, HeapOK
      <4> QED
        BY <4>1, NewNodes
    <3>3. CASE a \in f.live \ f.raw
      BY <3>3, <2>1 DEF Forest, NodeOK, Shape
    <3> QED
      BY <3>1, <3>2, <3>3, <2>1 DEF Forest, HeapOK
  <2>3. pc = "idle" => root \in DOMAIN heap
    BY <2>1 DEF Stage, TheTree, Forest, HeapOK
  <2>4. Range(pending_two) \subseteq DOMAIN heap
    BY <2>1 DEF Forest, HeapOK
  <2> QED
    BY <2>2, <2>3, <2>4 DEF IInv, TypeOK, States
<1> QED
  BY <1>1, LippInvariant, PTL

\* find answers like a map, for every set of keys and every sequence of operations.
THEOREM LippFindCorrect == Spec => []FindCorrect
<1>1. IInv => FindCorrect
  <2> SUFFICES ASSUME IInv, pc = "idle", NEW k \in Keys
               PROVE  Find(k) = IF k \in contents THEN ValueOf(k) ELSE Garbage
    BY DEF FindCorrect
  <2>1. PICK f : Forest(heap, Range(pending_two), f) /\ Stage(f)
    BY DEF IInv
  <2>2. TheTree(f, contents)
    BY <2>1 DEF Stage
  <2>3. Whole(f) /\ root \in f.live /\ f.own[root] = contents
    BY <2>1, <2>2 DEF TheTree, Whole, Forest, HeapOK
  <2> QED
    BY <2>1, <2>3, FindAnswers
<1> QED
  BY <1>1, LippInvariant, PTL

\* No assertion can fail but the one that a path is at most MAX_DEPTH long.
THEOREM LippOnlyDepthFails == Spec => [][OnlyDepthFails]_vars
<1>1. IInv /\ [Next]_vars => [OnlyDepthFails]_vars
  BY StepHolds
<1> QED
  BY <1>1, LippInvariant, PTL DEF Spec

-----------------------------------------------------------------------------
(* Sequences put together. *)

\* g[i] is the first i sequences of ss one after the other.
Flattened(ss, S, g) ==
  /\ g \in [0..Len(ss) -> Seq(S)] /\ g[0] = <<>>
  /\ \A i \in 1..Len(ss) : g[i] = g[i - 1] \o ss[i]
  /\ FlattenSeq(ss) = g[Len(ss)]

\* FlattenSeq puts one sequence after the other.
LEMMA FlattenIs ==
  ASSUME NEW S, NEW ss \in Seq(Seq(S))
  PROVE  \E g : Flattened(ss, S, g)
<1>1. PICK n \in Nat : n = Len(ss)
  OBVIOUS
<1>2. CASE n = 0
  <2>1. ss = <<>>
    <3>1. PICK X : X = Seq(S)
      OBVIOUS
    <3>2. ss \in Seq(X) /\ Len(ss) = 0
      BY <3>1, <1>1, <1>2
    <3> QED
      BY ONLY <3>2
  <2>2. FlattenSeq(ss) = ss
    BY <1>1, <1>2 DEF FlattenSeq
  <2>3. PICK g : g = [i \in 0..0 |-> <<>>]
    OBVIOUS
  <2>4. <<>> \in Seq(S)
    OBVIOUS
  <2>5. g \in [0..0 -> Seq(S)] /\ g[0] = <<>>
    BY <2>3, <2>4
  <2>6. Flattened(ss, S, g)
    BY <1>1, <1>2, <2>1, <2>2, <2>5 DEF Flattened
  <2> QED
    BY <2>6
<1>3. CASE n # 0
  <2> DEFINE D == 1..n
             Body(g) == [i \in D |-> IF i = 1 THEN ss[i] ELSE g[i - 1] \o ss[i]]
             From == CHOOSE g : g = Body(g)
             h == [i \in D |-> i]
             V == Seq(S)
             B == [i \in D |-> [g \in [D -> V] |-> Body(g)[i]]]
  <2>1. FlattenSeq(ss) = From[n]
    BY <1>1, <1>3 DEF FlattenSeq
  <2>2. h \in [D -> Nat] /\ \A i \in D : h[i] = i
    BY <1>1
  <2>3. \A i \in D : i # 1 => i - 1 \in D /\ i - 1 < i
    BY <1>1
  <2>4. \A i \in D : ss[i] \in V
    BY <1>1
  <2>5. \A g : \A i \in D : Body(g)[i] = IF i = 1 THEN ss[i] ELSE g[i - 1] \o ss[i]
    OBVIOUS
  <2>6. \A g : Body(g) = [i \in D |-> Body(g)[i]]
    OBVIOUS
  <2>7. From = CHOOSE g : g = Body(g)
    OBVIOUS
  <2>8. V # {} /\ \A s, t \in V : s \o t \in V
    <3>1. <<>> \in Seq(S)
      OBVIOUS
    <3> QED
      BY <3>1
  <2> HIDE DEF Body, From, h, D, V
  <2>9. ASSUME NEW g \in [D -> V], NEW i \in D PROVE Body(g)[i] \in V
    <3>1. CASE i = 1
      BY <3>1, <2>4, <2>5
    <3>2. CASE i # 1
      <4>1. g[i - 1] \in V
        BY <3>2, <2>3
      <4> QED
        BY <3>2, <4>1, <2>4, <2>5, <2>8
    <3> QED
      BY <3>1, <3>2
  <2>10. B \in [D -> [[D -> V] -> V]] /\ \A i \in D : \A g \in [D -> V] : B[i][g] = Body(g)[i]
    BY <2>9
  <2>11. ASSUME NEW i \in D, NEW g1 \in [D -> V], NEW g2 \in [D -> V],
                \A j \in D : h[j] < h[i] => g1[j] = g2[j]
         PROVE  B[i][g1] = B[i][g2]
    <3>1. i # 1 => g1[i - 1] = g2[i - 1]
      BY <2>2, <2>3, <2>11
    <3>2. Body(g1)[i] = Body(g2)[i]
      BY <3>1, <2>5
    <3> HIDE DEF B
    <3> QED
      BY <3>2, <2>10
  <2>12. Recursion(D, h, V, B)
    <3> HIDE DEF B
    <3> QED
      BY <2>2, <2>8, <2>10, <2>11 DEF Recursion
  <2>13. From = Body(From)
    <3>1. PICK g \in [D -> V] : \A i \in D : g[i] = B[i][g]
      <4> HIDE DEF B
      <4> QED
        BY <2>12, RankRecursion
    <3>2. \A i \in D : g[i] = Body(g)[i]
      <4> HIDE DEF B
      <4> QED
        BY <3>1, <2>10
    <3>3. g = Body(g)
      BY <3>1, <3>2, <2>6
    <3> QED
      BY <3>3, <2>7
  <2>14. \A i \in D : From[i] = IF i = 1 THEN ss[i] ELSE From[i - 1] \o ss[i]
    BY <2>5, <2>13
  <2> DEFINE T == {i \in D : From[i] \in V}
  <2>15. ASSUME NEW i \in D, \A j \in D : h[j] < h[i] => j \in T PROVE i \in T
    <3>1. CASE i = 1
      BY <3>1, <2>4, <2>14
    <3>2. CASE i # 1
      <4>1. From[i - 1] \in V
        BY <3>2, <2>2, <2>3, <2>15
      <4> QED
        BY <3>2, <4>1, <2>4, <2>8, <2>14
    <3> QED
      BY <3>1, <3>2
  <2>16. D \subseteq T
    <3> HIDE DEF T
    <3> QED
      BY <2>2, <2>15, RankInduction
  <2>17. PICK g : g = [i \in 0..n |-> IF i = 0 THEN <<>> ELSE From[i]]
    OBVIOUS
  <2>18. \A i \in 0..n : i # 0 => i \in D
    BY <1>1 DEF D
  <2>19. <<>> \in V
    BY DEF V
  <2>20. g \in [0..n -> V] /\ g[0] = <<>> /\ \A i \in D : g[i] = From[i]
    <3>1. \A i \in 0..n : g[i] \in V
      BY <2>16, <2>17, <2>18, <2>19
    <3>2. \A i \in D : i \in 0..n /\ i # 0
      BY <1>1 DEF D
    <3>3. 0 \in 0..n
      BY <1>1
    <3> QED
      BY <3>1, <3>2, <3>3, <2>17
  <2>21. ASSUME NEW i \in D PROVE g[i] = g[i - 1] \o ss[i]
    <3>1. CASE i = 1
      <4>1. ss[i] \in Seq(S)
        BY <2>4 DEF V
      <4>2. <<>> \o ss[i] = ss[i]
        BY <4>1
      <4>3. i - 1 = 0
        BY <3>1
      <4> QED
        BY <3>1, <4>2, <4>3, <2>14, <2>20
    <3>2. CASE i # 1
      BY <3>2, <2>3, <2>14, <2>20
    <3> QED
      BY <3>1, <3>2
  <2>22. n \in D
    BY <1>1, <1>3 DEF D
  <2>23. Flattened(ss, S, g)
    BY <2>1, <2>20, <2>21, <2>22, <1>1 DEF Flattened, D, V
  <2> QED
    BY <2>23
<1> QED
  BY <1>2, <1>3

\* Two lists without common elements, one after the other.
LEMMA ListJoined ==
  ASSUME NEW s, NEW t, NEW A, NEW B, ListOf(s, A), ListOf(t, B), A \cap B = {}
  PROVE  ListOf(s \o t, A \cup B)
<1>1. PICK C : C = A \cup B
  OBVIOUS
<1>2. /\ s \in Seq(C) /\ t \in Seq(C) /\ \A i \in 1..Len(s) : s[i] \in A
      /\ \A i \in 1..Len(t) : t[i] \in B
  BY <1>1 DEF ListOf
<1>3. PICK m \in Nat, l \in Nat : m = Len(s) /\ l = Len(t)
  BY <1>2
<1>4. PICK r : r = s \o t
  OBVIOUS
<1>5. /\ r \in Seq(C) /\ Len(r) = m + l /\ \A i \in 1..m : r[i] = s[i] /\ i \in 1..Len(r)
      /\ \A i \in 1..l : r[m + i] = t[i] /\ m + i \in 1..Len(r)
  BY <1>2, <1>3, <1>4
<1>6. ASSUME NEW i \in 1..(m + l) PROVE i \in 1..m \/ \E j \in 1..l : i = m + j
  <2>1. i > m => i - m \in 1..l /\ i = m + (i - m)
    OBVIOUS
  <2> QED
    BY <2>1
<1>7. ASSUME NEW i \in 1..(m + l), NEW j \in 1..(m + l), r[i] = r[j] PROVE i = j
  <2>1. CASE i \in 1..m /\ j \in 1..m
    BY <2>1, <1>3, <1>5, <1>7 DEF ListOf
  <2>2. CASE i \in 1..m /\ \E q \in 1..l : j = m + q
    BY <2>2, <1>2, <1>3, <1>5, <1>7
  <2>3. CASE j \in 1..m /\ \E q \in 1..l : i = m + q
    BY <2>3, <1>2, <1>3, <1>5, <1>7
  <2>4. ASSUME NEW p \in 1..l, NEW q \in 1..l, i = m + p, j = m + q PROVE i = j
    <3>1. t[p] = t[q]
      BY <2>4, <1>5, <1>7
    <3>2. p = q
      BY <3>1, <1>3 DEF ListOf
    <3> QED
      BY <2>4, <3>2
  <2> QED
    BY <2>1, <2>2, <2>3, <2>4, <1>6
<1>8. ASSUME NEW x \in C PROVE \E i \in 1..Len(r) : r[i] = x
  <2>1. CASE x \in A
    <3>1. PICK i \in 1..m : s[i] = x
      BY <2>1, <1>3 DEF ListOf
    <3> QED
      BY <3>1, <1>5
  <2>2. CASE x \in B
    <3>1. PICK i \in 1..l : t[i] = x
      BY <2>2, <1>3 DEF ListOf
    <3> QED
      BY <3>1, <1>5
  <2> QED
    BY <2>1, <2>2, <1>1
<1> QED
  BY <1>1, <1>4, <1>5, <1>7, <1>8 DEF ListOf

\* The elements of the sets F[1] to F[i].
UpTo(F, i) == UNION {F[j] : j \in 1..i}

\* The sets up to the next one.
LEMMA UpToNext ==
  ASSUME NEW F, NEW i \in Nat \ {0}
  PROVE  UpTo(F, i) = UpTo(F, i - 1) \cup F[i] /\ UpTo(F, 0) = {}
<1>1. i \in 1..i /\ \A j \in 1..i : j = i \/ j \in 1..(i - 1)
  OBVIOUS
<1>2. \A j \in 1..(i - 1) : j \in 1..i
  OBVIOUS
<1>3. 1..0 = {}
  OBVIOUS
<1> QED
  BY <1>1, <1>2, <1>3, Zenon DEF UpTo

\* Lists of disjoint sets, one after the other.
LEMMA ListsFlattened ==
  ASSUME NEW S, NEW ss \in Seq(Seq(S)), NEW F, \A i \in 1..Len(ss) : ListOf(ss[i], F[i]),
         \A i, j \in 1..Len(ss) : i # j => F[i] \cap F[j] = {}
  PROVE  ListOf(FlattenSeq(ss), UpTo(F, Len(ss)))
<1>1. PICK g : Flattened(ss, S, g)
  BY FlattenIs
<1>2. PICK n \in Nat : n = Len(ss)
  OBVIOUS
<1> DEFINE D == 0..n
           h == [i \in D |-> i]
           T == {i \in D : ListOf(g[i], UpTo(F, i))}
<1>3. h \in [D -> Nat] /\ \A i \in D : h[i] = i
  BY <1>2
<1>4. ASSUME NEW i \in D, \A j \in D : h[j] < h[i] => j \in T PROVE i \in T
  <2>1. CASE i = 0
    <3>1. g[i] = <<>> /\ UpTo(F, i) = {}
      <4>1. 1 \in Nat \ {0}
        OBVIOUS
      <4> QED
        BY <2>1, <4>1, <1>1, UpToNext DEF Flattened
    <3>2. ListOf(<<>>, {})
      BY DEF ListOf
    <3> QED
      BY <3>1, <3>2
  <2>2. CASE i # 0
    <3>1. i \in 1..n /\ i - 1 \in D /\ i - 1 < i /\ i \in Nat \ {0}
      BY <2>2, <1>2
    <3>2. ListOf(g[i - 1], UpTo(F, i - 1))
      BY <3>1, <1>3, <1>4
    <3>3. ListOf(ss[i], F[i]) /\ g[i] = g[i - 1] \o ss[i]
      BY <3>1, <1>1, <1>2 DEF Flattened
    <3>4. UpTo(F, i - 1) \cap F[i] = {}
      <4>1. \A j \in 1..(i - 1) : j \in 1..n /\ j # i
        BY <3>1, <1>2
      <4>2. \A j \in 1..(i - 1) : F[j] \cap F[i] = {}
        BY <3>1, <4>1, <1>2
      <4> QED
        BY <4>2 DEF UpTo
    <3>5. ListOf(g[i], UpTo(F, i - 1) \cup F[i])
      <4>1. PICK A, s : A = UpTo(F, i - 1) /\ s = g[i - 1]
        OBVIOUS
      <4>2. ListOf(s, A) /\ ListOf(ss[i], F[i]) /\ A \cap F[i] = {}
        BY <4>1, <3>2, <3>3, <3>4
      <4>3. ListOf(s \o ss[i], A \cup F[i])
        BY ONLY <4>2, ListJoined
      <4> QED
        BY <4>1, <4>3, <3>3
    <3> QED
      BY <3>1, <3>5, UpToNext
  <2> QED
    BY <2>1, <2>2
<1>5. D \subseteq T
  <2> HIDE DEF T, D, h
  <2> QED
    BY <1>3, <1>4, RankInduction
<1>6. n \in D
  BY <1>2
<1> QED
  BY <1>1, <1>2, <1>5, <1>6 DEF Flattened

-----------------------------------------------------------------------------
(* The nodes of the tree. *)

\* The nodes below a, itself included: closed under children, and up to a under parents.
Subtree(H, f, a, T) ==
  /\ T \subseteq f.live /\ a \in T
  /\ \A x \in T : Kids(H, x) \subseteq T /\ f.rank[x] <= f.rank[a]
  /\ \A x \in T \ {a} : x \notin f.roots /\ f.parent[x][1] \in T

\* When no slot is open the children of every node are subtrees.
LEMMA WholeChildren ==
  ASSUME NEW H, NEW P, NEW f, Forest(H, P, f), Whole(f), NEW a \in f.live
  PROVE  /\ Shape(H[a]) /\ OffGap(f, a) /\ f.rank[a] \in Nat
         /\ \A p \in H[a].child : ChildOK(H, f, a, p)
         /\ \A p, q \in H[a].child : H[a].items[p].child = H[a].items[q].child => p = q
<1>1. a \in f.live \ f.raw /\ a # 0 /\ f.rank[a] \in Nat
  BY DEF Whole, Forest, HeapOK
<1>2. OffGap(f, a)
  BY <1>1 DEF OffGap, Whole, NoGap
<1>3. Shape(H[a])
  BY <1>1 DEF Forest, NodeOK
<1> QED
  BY <1>1, <1>2, <1>3, Children

\* A node that is no root is a child of its parent, whose rank is greater.
LEMMA ParentAbove ==
  ASSUME NEW H, NEW P, NEW f, Forest(H, P, f), Whole(f), NEW c \in f.live \ f.roots
  PROVE  /\ f.parent[c][1] \in f.live /\ c \in Kids(H, f.parent[c][1])
         /\ f.rank[c] < f.rank[f.parent[c][1]]
<1>1. PICK a \in f.live : \E p \in H[a].child : f.parent[c] = <<a, p>> /\ H[a].items[p].child = c
  BY DEF Forest, LinkOK
<1>2. PICK p \in H[a].child : f.parent[c] = <<a, p>> /\ H[a].items[p].child = c
  BY <1>1
<1>3. ChildOK(H, f, a, p)
  BY <1>2, WholeChildren
<1>4. f.parent[c][1] = a
  BY <1>2
<1> QED
  BY <1>2, <1>3, <1>4 DEF ChildOK, Kids

\* The subtrees of two children of a node have no node in common: from one the parents
\* would lead to both children.
LEMMA SubtreesApart ==
  ASSUME NEW H, NEW P, NEW f, Forest(H, P, f), Whole(f),
         NEW a \in f.live, NEW c, NEW d, c # d, f.parent[c][1] = a, f.parent[d][1] = a,
         f.rank[c] < f.rank[a], f.rank[d] < f.rank[a],
         NEW T, Subtree(H, f, c, T), NEW U, Subtree(H, f, d, U)
  PROVE  T \cap U = {}
<1>1. /\ T \subseteq f.live /\ U \subseteq f.live /\ c \in T /\ d \in U
      /\ \A x \in T : f.rank[x] <= f.rank[c]
      /\ \A x \in U : f.rank[x] <= f.rank[d]
      /\ \A x \in T \ {c} : f.parent[x][1] \in T
      /\ \A x \in U \ {d} : f.parent[x][1] \in U
      /\ \A x \in (T \ {c}) \cup (U \ {d}) : x \notin f.roots
  BY DEF Subtree
<1>2. \A x \in f.live : f.rank[x] \in Nat
  BY DEF Forest, HeapOK
<1>3. a \notin T /\ a \notin U
  <2>1. ~(f.rank[a] <= f.rank[c]) /\ ~(f.rank[a] <= f.rank[d])
    BY <1>1, <1>2
  <2> QED
    BY <2>1, <1>1
<1>4. ASSUME NEW x \in T \cap U
      PROVE  f.parent[x][1] \in T \cap U /\ f.rank[x] < f.rank[f.parent[x][1]]
  <2>1. x # c
    <3> SUFFICES ASSUME x = c PROVE FALSE
      OBVIOUS
    <3>1. x \in U \ {d}
      BY <1>4
    <3> QED
      BY <3>1, <1>1, <1>3
  <2>2. x # d
    <3> SUFFICES ASSUME x = d PROVE FALSE
      OBVIOUS
    <3>1. x \in T \ {c}
      BY <1>4
    <3> QED
      BY <3>1, <1>1, <1>3
  <2>3. x \in f.live \ f.roots
    BY <2>1, <1>1, <1>4
  <2>4. f.rank[x] < f.rank[f.parent[x][1]]
    BY <2>3, ParentAbove
  <2> QED
    BY <2>1, <2>2, <2>4, <1>1, <1>4
<1>5. PICK D, h, r : D = T \cap U /\ r = f.rank[c] /\ h = [x \in D |-> r - f.rank[x]]
  OBVIOUS
<1>6. h \in [D -> Nat] /\ \A x \in D : h[x] = r - f.rank[x]
  BY <1>1, <1>2, <1>5
<1>9. PICK Z : Z = {}
  OBVIOUS
<1>7. ASSUME NEW x \in D, \A y \in D : h[y] < h[x] => y \in Z PROVE x \in Z
  <2>1. PICK y : y = f.parent[x][1]
    OBVIOUS
  <2>2. y \in D /\ f.rank[x] < f.rank[y]
    BY <2>1, <1>4, <1>5
  <2>3. f.rank[x] \in Nat /\ f.rank[y] \in Nat /\ r \in Nat
    BY <2>2, <1>1, <1>2, <1>5
  <2>4. h[y] < h[x]
    BY <2>2, <2>3, <1>6
  <2> QED
    BY <2>2, <2>4, <1>7, <1>9
<1>8. D \subseteq Z
  BY <1>6, <1>7, RankInduction
<1> QED
  BY <1>5, <1>8, <1>9

\* A node and the subtrees of its children are its subtree.
LEMMA SubtreeMade ==
  ASSUME NEW H, NEW P, NEW f, Forest(H, P, f), Whole(f), NEW a \in f.live,
         NEW t, ListOf(t, Kids(H, a)), NEW F, \A i \in 1..Len(t) : Subtree(H, f, t[i], F[i])
  PROVE  /\ Subtree(H, f, a, {a} \cup UpTo(F, Len(t))) /\ a \notin UpTo(F, Len(t))
         /\ \A i, j \in 1..Len(t) : i # j => F[i] \cap F[j] = {}
<1>1. PICK U, l, K : U = UpTo(F, Len(t)) /\ l = Len(t) /\ K = Kids(H, a)
  OBVIOUS
<1>2. /\ l \in Nat /\ \A i \in 1..l : t[i] \in K
      /\ \A i, j \in 1..l : t[i] = t[j] => i = j
      /\ \A x \in K : \E i \in 1..l : t[i] = x
  BY <1>1 DEF ListOf
<1>3. \A x \in f.live : f.rank[x] \in Nat
  BY DEF Forest, HeapOK
<1>4. \A x \in K : x \in f.live \ f.roots /\ f.parent[x][1] = a /\ f.rank[x] < f.rank[a]
  <2>1. TAKE x \in K
  <2>2. PICK p \in H[a].child : x = H[a].items[p].child
    BY <1>1 DEF Kids
  <2>3. ChildOK(H, f, a, p)
    BY <2>2, WholeChildren
  <2>4. f.parent[x] = <<a, p>>
    BY <2>2, <2>3 DEF ChildOK
  <2> QED
    BY <2>2, <2>3, <2>4 DEF ChildOK
<1>5. \A x \in U : \E i \in 1..l : x \in F[i]
  BY <1>1 DEF UpTo
<1>6. \A i \in 1..l : F[i] \subseteq U
  BY <1>1 DEF UpTo
<1>7. ASSUME NEW x \in U
      PROVE  /\ x \in f.live /\ Kids(H, x) \subseteq U /\ f.rank[x] < f.rank[a]
             /\ x \notin f.roots /\ f.parent[x][1] \in {a} \cup U
  <2>1. PICK i \in 1..l : x \in F[i]
    BY <1>5
  <2>2. Subtree(H, f, t[i], F[i])
    BY <2>1, <1>1
  <2>3. t[i] \in K
    BY <1>2
  <2>4. x \in f.live /\ Kids(H, x) \subseteq F[i] /\ f.rank[x] <= f.rank[t[i]]
    BY <2>1, <2>2 DEF Subtree
  <2>5. f.rank[x] < f.rank[a]
    BY <2>3, <2>4, <1>3, <1>4
  <2>6. x \notin f.roots /\ f.parent[x][1] \in {a} \cup F[i]
    <3>1. CASE x = t[i]
      BY <3>1, <2>3, <1>4
    <3>2. CASE x # t[i]
      BY <3>2, <2>1, <2>2 DEF Subtree
    <3> QED
      BY <3>1, <3>2
  <2> QED
    BY <2>4, <2>5, <2>6, <1>6
<1>8. a \notin U
  <2>1. ~(f.rank[a] < f.rank[a])
    BY <1>3
  <2> QED
    BY <2>1, <1>7
<1>9. K \subseteq U
  <2>1. ASSUME NEW x \in K PROVE x \in U
    <3>1. PICK i \in 1..l : t[i] = x
      BY <1>2
    <3>2. x \in F[i]
      BY <3>1, <1>1 DEF Subtree
    <3> QED
      BY <3>1, <3>2, <1>6
  <2> QED
    BY <2>1
<1>10. Subtree(H, f, a, {a} \cup U)
  <2>1. \A x \in {a} \cup U : Kids(H, x) \subseteq {a} \cup U /\ f.rank[x] <= f.rank[a]
    BY <1>1, <1>3, <1>7, <1>9
  <2> QED
    BY <2>1, <1>7 DEF Subtree
<1>11. ASSUME NEW i \in 1..l, NEW j \in 1..l, i # j PROVE F[i] \cap F[j] = {}
  <2>1. t[i] \in K /\ t[j] \in K /\ t[i] # t[j]
    BY <1>2, <1>11
  <2>2. Subtree(H, f, t[i], F[i]) /\ Subtree(H, f, t[j], F[j])
    BY <1>1
  <2> QED
    BY <2>1, <2>2, <1>4, SubtreesApart
<1> QED
  BY <1>1, <1>8, <1>10, <1>11

\* The recursion over the nodes comes to an end and visits the nodes below a node once.
LEMMA TreeNodesAre ==
  ASSUME NEW f, Forest(heap, Range(pending_two), f), Whole(f), root \in f.live
  PROVE  \E T : Subtree(heap, f, root, T) /\ ListOf(TreeNodes, T)
<1> DEFINE D == DOMAIN heap
           Num(a) == Len(ChildSlots(heap[a]))
           Down(a, n) == heap[a].items[ChildSlots(heap[a])[n]].child
           Parts(g, a) == [n \in 1..Num(a) |-> g[Down(a, n)]]
           Body(g) == [a \in D |-> <<a>> \o FlattenSeq(Parts(g, a))]
           From == CHOOSE g : g = Body(g)
           h == [a \in D |-> IF a \in f.live THEN f.rank[a] ELSE 0]
           V == Seq(D)
           B == [a \in D |-> [g \in [D -> V] |-> Body(g)[a]]]
<1>1. TreeNodes = From[root]
  BY DEF TreeNodes
<1>2. f.live \subseteq D /\ \A a \in f.live : f.rank[a] \in Nat
  BY DEF Forest, HeapOK
<1>3. ASSUME NEW a \in f.live
      PROVE  /\ ListOf([n \in 1..Num(a) |-> Down(a, n)], Kids(heap, a)) /\ Num(a) \in Nat
             /\ \A x \in Kids(heap, a) : x \in f.live /\ f.rank[x] < f.rank[a]
  <2>1. /\ Shape(heap[a]) /\ \A p \in heap[a].child : ChildOK(heap, f, a, p)
        /\ \A p, q \in heap[a].child : heap[a].items[p].child = heap[a].items[q].child => p = q
    BY WholeChildren
  <2>2. ListOf(ChildSlots(heap[a]), heap[a].child)
    BY <2>1, ChildSlotsList
  <2>3. ListOf([n \in 1..Num(a) |-> Down(a, n)], Kids(heap, a))
    BY <2>1, <2>2, KidsListed
  <2>4. Num(a) \in Nat
    BY <2>2 DEF ListOf
  <2>5. ASSUME NEW x \in Kids(heap, a) PROVE x \in f.live /\ f.rank[x] < f.rank[a]
    <3>1. PICK p \in heap[a].child : x = heap[a].items[p].child
      BY DEF Kids
    <3> QED
      BY <2>1, <3>1 DEF ChildOK
  <2> QED
    BY <2>3, <2>4, <2>5
<1>4. ASSUME NEW a \in D, a \notin f.live PROVE Num(a) = 0
  <2>1. heap[a].child = {} /\ heap[a].num_items = TwoItems
    BY <1>4 DEF Forest, HeapOK, PoolNode
  <2>2. ChildSlots(heap[a]) = Ascending({})
    BY <2>1 DEF ChildSlots
  <2>3. Cardinality({}) = 0
    BY FS_EmptySet
  <2>4. Ascending({}) = <<>>
    BY <2>3 DEF Ascending
  <2> QED
    BY <2>2, <2>4
<1>5. ASSUME NEW a \in D
      PROVE  Num(a) \in Nat /\ \A n \in 1..Num(a) : Down(a, n) \in D /\ h[Down(a, n)] < h[a]
  <2>1. CASE a \in f.live
    <3>1. PICK t : t = [n \in 1..Num(a) |-> Down(a, n)]
      OBVIOUS
    <3>2. \A n \in 1..Num(a) : t[n] \in Kids(heap, a)
      BY <2>1, <3>1, <1>3 DEF ListOf
    <3>3. \A n \in 1..Num(a) : Down(a, n) \in Kids(heap, a)
      BY <3>1, <3>2
    <3> QED
      BY <2>1, <3>3, <1>2, <1>3
  <2>2. CASE a \notin f.live
    BY <2>2, <1>4
  <2> QED
    BY <2>1, <2>2
<1>6. \A g : \A a \in D : Body(g)[a] = <<a>> \o FlattenSeq(Parts(g, a))
  OBVIOUS
<1>7. \A g : Body(g) = [a \in D |-> Body(g)[a]]
  OBVIOUS
<1>8. h \in [D -> Nat] /\ \A a \in f.live : h[a] = f.rank[a]
  BY <1>2
<1>9. From = CHOOSE g : g = Body(g)
  OBVIOUS
<1>10. \A g : \A a : /\ Len(Parts(g, a)) = Num(a) \/ Num(a) \notin Nat
                     /\ \A n \in 1..Num(a) : Parts(g, a)[n] = g[Down(a, n)]
  OBVIOUS
<1> HIDE DEF Num, Down, h, Body, From
<1>11. ASSUME NEW g \in [D -> V], NEW a \in D PROVE Body(g)[a] \in V
  <2>1. PICK u : u = Parts(g, a)
    OBVIOUS
  <2>2. \A n \in 1..Num(a) : u[n] \in V
    BY <2>1, <1>5
  <2>3. u \in Seq(V)
    BY <2>1, <2>2, <1>5
  <2>4. FlattenSeq(u) \in V
    <3>1. PICK w : Flattened(u, D, w)
      BY <2>3, FlattenIs
    <3>2. Len(u) \in 0..Len(u)
      BY <2>3
    <3> QED
      BY <3>1, <3>2 DEF Flattened
  <2>5. PICK w : w = FlattenSeq(u)
    OBVIOUS
  <2>6. <<a>> \o w \in V
    BY <2>4, <2>5
  <2> QED
    BY <2>1, <2>5, <2>6, <1>6
<1> HIDE DEF Parts
<1>12. B \in [D -> [[D -> V] -> V]] /\ \A a \in D : \A g \in [D -> V] : B[a][g] = Body(g)[a]
  BY <1>11
<1>13. ASSUME NEW a \in D, NEW g1 \in [D -> V], NEW g2 \in [D -> V],
              \A b \in D : h[b] < h[a] => g1[b] = g2[b]
       PROVE  B[a][g1] = B[a][g2]
  <2>1. \A n \in 1..Num(a) : g1[Down(a, n)] = g2[Down(a, n)]
    BY <1>5, <1>13
  <2>2. Parts(g1, a) = Parts(g2, a)
    BY <2>1 DEF Parts
  <2>3. Body(g1)[a] = Body(g2)[a]
    BY <2>2, <1>6
  <2> HIDE DEF B
  <2> QED
    BY <2>3, <1>12
<1>14. V # {}
  <2>1. <<>> \in Seq(D)
    OBVIOUS
  <2> QED
    BY <2>1
<1>15. Recursion(D, h, V, B)
  <2> HIDE DEF B, V, D
  <2> QED
    BY <1>8, <1>12, <1>13, <1>14 DEF Recursion
<1>16. From = Body(From)
  <2>1. PICK g \in [D -> V] : \A a \in D : g[a] = B[a][g]
    <3> HIDE DEF B, V, D
    <3> QED
      BY <1>15, RankRecursion
  <2>2. \A a \in D : g[a] = Body(g)[a]
    <3> HIDE DEF B, V, D
    <3> QED
      BY <2>1, <1>12
  <2>3. g = Body(g)
    BY <2>1, <2>2, <1>7
  <2> QED
    BY <2>3, <1>9
<1>17. \A a \in D : From[a] = <<a>> \o FlattenSeq(Parts(From, a))
  BY <1>6, <1>16
<1> DEFINE Good(a, T) == Subtree(heap, f, a, T) /\ ListOf(From[a], T)
           S == {a \in D : a \in f.live => \E T : Good(a, T)}
<1>18. ASSUME NEW a \in D, \A b \in D : h[b] < h[a] => b \in S PROVE a \in S
  <2> SUFFICES ASSUME a \in f.live PROVE \E T : Good(a, T)
    OBVIOUS
  <2>1. PICK t, l, u : t = [n \in 1..Num(a) |-> Down(a, n)] /\ l = Num(a) /\ u = Parts(From, a)
    OBVIOUS
  <2>2. /\ l \in Nat /\ Len(t) = l /\ ListOf(t, Kids(heap, a))
        /\ \A n \in 1..l : t[n] = Down(a, n) /\ t[n] \in f.live /\ u[n] = From[t[n]]
        /\ Len(u) = l
    <3>1. l \in Nat /\ Len(t) = l /\ ListOf(t, Kids(heap, a)) /\ Len(u) = l
      BY <2>1, <1>3, <1>10
    <3>2. \A n \in 1..l : t[n] = Down(a, n) /\ u[n] = From[t[n]]
      BY <2>1, <1>10
    <3>3. \A n \in 1..l : t[n] \in Kids(heap, a)
      BY <3>1 DEF ListOf
    <3> QED
      BY <3>1, <3>2, <3>3, <1>3
  <2>3. \A n \in 1..l : \E T : Good(t[n], T)
    <3>1. TAKE n \in 1..l
    <3>2. t[n] \in D /\ h[t[n]] < h[a]
      BY <2>1, <2>2, <1>5
    <3>3. t[n] \in S
      BY <3>2, <1>18
    <3> QED
      BY <3>3, <2>2
  <2>4. PICK F : F = [n \in 1..l |-> CHOOSE T : Good(t[n], T)]
    OBVIOUS
  <2>5. \A n \in 1..l : Good(t[n], F[n])
    BY <2>3, <2>4
  <2> HIDE DEF S
  <2>6. PICK T : T = UpTo(F, l)
    OBVIOUS
  <2>7. /\ Subtree(heap, f, a, {a} \cup T) /\ a \notin T
        /\ \A i, j \in 1..l : i # j => F[i] \cap F[j] = {}
    <3>1. \A n \in 1..Len(t) : Subtree(heap, f, t[n], F[n])
      BY <2>2, <2>5
    <3>2. /\ Subtree(heap, f, a, {a} \cup UpTo(F, Len(t))) /\ a \notin UpTo(F, Len(t))
          /\ \A i, j \in 1..Len(t) : i # j => F[i] \cap F[j] = {}
      BY <2>2, <3>1, SubtreeMade
    <3> QED
      BY <3>2, <2>2, <2>6
  <2>8. ListOf(FlattenSeq(u), T)
    <3>1. \A n \in 1..Len(u) : ListOf(u[n], F[n])
      BY <2>2, <2>5
    <3>2. \A i, j \in 1..Len(u) : i # j => F[i] \cap F[j] = {}
      BY <2>2, <2>7
    <3>3. u \in Seq(Seq(D))
      <4>1. ASSUME NEW n \in 1..l PROVE u[n] \in Seq(D)
        <5>1. F[n] \subseteq D
          BY <2>5, <1>2 DEF Subtree
        <5>2. u[n] \in Seq(F[n])
          BY <3>1, <2>2 DEF ListOf
        <5> QED
          BY <5>1, <5>2
      <4>2. u = [n \in 1..l |-> u[n]]
        BY <2>1 DEF Parts
      <4> QED
        BY <4>1, <4>2, <2>2
    <3>4. ListOf(FlattenSeq(u), UpTo(F, Len(u)))
      BY <3>1, <3>2, <3>3, ListsFlattened
    <3> QED
      BY <3>4, <2>2, <2>6
  <2>9. ListOf(From[a], {a} \cup T)
    <3>1. ListOf(<<a>>, {a})
      BY DEF ListOf
    <3>2. PICK w : w = FlattenSeq(u)
      OBVIOUS
    <3>3. {a} \cap T = {}
      BY <2>7
    <3>4. ListOf(<<a>> \o w, {a} \cup T)
      BY <3>1, <3>2, <3>3, <2>8, ListJoined
    <3> QED
      BY <3>2, <3>4, <2>1, <1>17
  <2> QED
    BY <2>7, <2>9
<1>19. D \subseteq S
  <2> HIDE DEF S, D
  <2> QED
    BY <1>8, <1>18, RankInduction
<1> QED
  BY <1>1, <1>2, <1>19

\* The tree has all nodes in use, each once.
LEMMA TreeIsAll ==
  ASSUME NEW f, Forest(heap, Range(pending_two), f), NEW K, TheTree(f, K)
  PROVE  ListOf(TreeNodes, f.live) /\ Whole(f) /\ root \in f.live /\ f.own[root] = K
<1>1. Whole(f) /\ root \in f.live /\ f.roots = {root} /\ f.own[root] = K
  BY DEF TheTree, Whole, Forest, HeapOK
<1>2. PICK T : Subtree(heap, f, root, T) /\ ListOf(TreeNodes, T)
  BY <1>1, TreeNodesAre
<1>3. T \subseteq f.live /\ root \in T /\ \A a \in T : Kids(heap, a) \subseteq T
  BY <1>2 DEF Subtree
<1>4. PICK m \in Nat : \A a \in f.live : f.rank[a] <= m
  BY RanksBounded
<1>5. PICK L, h : L = f.live /\ h = [a \in L |-> m - f.rank[a]]
  OBVIOUS
<1>6. \A a \in L : f.rank[a] \in Nat
  BY <1>5 DEF Forest, HeapOK
<1>7. h \in [L -> Nat] /\ \A a \in L : h[a] = m - f.rank[a]
  BY <1>4, <1>5, <1>6
<1>8. ASSUME NEW c \in L, \A a \in L : h[a] < h[c] => a \in T PROVE c \in T
  <2>1. CASE c = root
    BY <2>1, <1>3
  <2>2. CASE c # root
    <3>1. PICK a : a = f.parent[c][1]
      OBVIOUS
    <3>2. a \in L /\ c \in Kids(heap, a) /\ f.rank[c] < f.rank[a]
      BY <2>2, <3>1, <1>1, <1>5, ParentAbove
    <3>3. h[a] < h[c]
      BY <3>2, <1>6, <1>7
    <3> QED
      BY <3>2, <3>3, <1>3, <1>8
  <2> QED
    BY <2>1, <2>2
<1>9. L \subseteq T
  BY <1>7, <1>8, RankInduction
<1>10. T = f.live
  BY <1>3, <1>5, <1>9
<1> QED
  BY <1>1, <1>2, <1>10

\* Between calls a node is in the tree once, or in the pool once, or deleted; after the
\* destructor no node is left.
THEOREM LippNodesAccounted == Spec => []NodesAccounted
<1>1. IInv => NodesAccounted
  <2> SUFFICES ASSUME IInv PROVE NodesAccounted
    OBVIOUS
  <2>1. pc = "closed" => DOMAIN heap = {}
    BY DEF IInv
  <2>2. ASSUME pc = "idle"
        PROVE  /\ IsInjective(TreeNodes \o pending_two)
               /\ Range(TreeNodes \o pending_two) = DOMAIN heap
    <3>1. PICK f : Forest(heap, Range(pending_two), f) /\ TheTree(f, contents)
      BY <2>2 DEF IInv, Stage
    <3>2. PICK L, P, D, s, t : /\ L = f.live /\ P = Range(pending_two) /\ D = DOMAIN heap
                               /\ s = TreeNodes /\ t = pending_two
      OBVIOUS
    <3>3. ListOf(s, L)
      BY <3>1, <3>2, TreeIsAll
    <3>4. L \cap P = {} /\ L \cup P = D
      BY <3>1, <3>2 DEF Forest, HeapOK
    <3>5. ListOf(t, P)
      BY <3>2 DEF IInv, Pool, ListOf, Range, IsInjective
    <3>6. ListOf(s \o t, D)
      BY <3>3, <3>4, <3>5, ListJoined
    <3>7. PICK r : r = s \o t
      OBVIOUS
    <3>8. /\ r \in Seq(D) /\ \A i, j \in 1..Len(r) : r[i] = r[j] => i = j
          /\ \A x \in D : \E i \in 1..Len(r) : r[i] = x
      BY <3>6, <3>7 DEF ListOf
    <3>9. DOMAIN r = 1..Len(r) /\ Range(r) = D
      BY <3>8 DEF Range
    <3>10. IsInjective(r)
      BY <3>8, <3>9 DEF IsInjective
    <3> QED
      BY <3>2, <3>7, <3>9, <3>10
  <2> QED
    BY <2>1, <2>2 DEF NodesAccounted
<1> QED
  BY <1>1, LippInvariant, PTL

\* Between calls the size of every node is the number of items below it.
THEOREM LippSizesAgree == Spec => []SizesAgree
<1>1. IInv => SizesAgree
  <2> SUFFICES ASSUME IInv, pc = "idle", NEW a \in Range(TreeNodes)
               PROVE  heap[a].size = RoomOf(heap[a], Range(UsedSlots(heap[a])))
    BY DEF SizesAgree
  <2>1. PICK f : Forest(heap, Range(pending_two), f) /\ TheTree(f, contents)
    BY DEF IInv, Stage
  <2>2. a \in f.live
    <3>1. PICK s, L : s = TreeNodes /\ L = f.live
      OBVIOUS
    <3>2. s \in Seq(L)
      BY <2>1, <3>1, TreeIsAll DEF ListOf
    <3> QED
      BY <3>1, <3>2 DEF Range
  <2>3. PICK n, K, m, U : n = heap[a] /\ K = f.own[a] /\ m = n.num_items /\ U = Range(UsedSlots(n))
    OBVIOUS
  <2>4. f.raw = {} /\ Whole(f) /\ K \in SUBSET Keys
    BY <2>1, <2>2, <2>3 DEF TheTree, Whole, Forest, HeapOK
  <2>5. Shape(n) /\ OffGap(f, a) /\ n.size = Cardinality(K)
    <3>1. NodeOK(heap, f, a)
      BY <2>1, <2>2, <2>4 DEF Forest
    <3> QED
      BY <3>1, <2>1, <2>2, <2>3, <2>4, WholeChildren DEF NodeOK
  <2>6. m \in Nat /\ Slotted(n) /\ m \in 0..m /\ U = (0..(m - 1)) \ n.none
    BY <2>3, <2>5, UsedSlotsAre DEF Shape, Slotted, Node
  <2>7. {q \in U : q < m} = U
    BY <2>6
  <2>8. RoomOf(n, {q \in U : q < m}) = Cardinality(KeysBefore(n, K, m))
    <3>1. /\ Forest(heap, Range(pending_two), f) /\ f.raw = {} /\ a \in f.live /\ OffGap(f, a)
          /\ m \in 0..heap[a].num_items
      BY <2>1, <2>2, <2>3, <2>4, <2>5, <2>6
    <3>2. RoomOf(heap[a], {q \in Range(UsedSlots(heap[a])) : q < m})
            = Cardinality(KeysBefore(heap[a], f.own[a], m))
      BY ONLY <3>1, RoomBefore
    <3> QED
      BY <3>2, <2>3
  <2>9. KeysBefore(n, K, m) = K
    <3>1. \A k \in K : Predict(n, k) \in 0..(m - 1)
      BY <2>3, <2>4, <2>6, PredictInside, LippAssumption
    <3> QED
      BY <3>1, <2>6 DEF KeysBefore
  <2> QED
    BY <2>3, <2>5, <2>7, <2>8, <2>9
<1> QED
  BY <1>1, LippInvariant, PTL

-----------------------------------------------------------------------------
(* The iterator. *)

\* The items of greater keys after those of other keys.
LEMMA ListsJoined ==
  ASSUME NEW A \in SUBSET Keys, NEW B \in SUBSET Keys, NEW s, NEW t, Lists(s, A), Lists(t, B),
         \A x \in A : \A y \in B : x < y
  PROVE  Lists(s \o t, A \cup B)
<1>1. /\ A \in SUBSET Nat /\ B \in SUBSET Nat /\ IsFiniteSet(A) /\ IsFiniteSet(B)
      /\ \A x \in A : Rank(A, x) \in 0..(Cardinality(A) - 1)
      /\ \A x \in B : Rank(B, x) \in 0..(Cardinality(B) - 1)
  BY KeySets
<1>2. PICK m \in Nat, l \in Nat : m = Cardinality(A) /\ l = Cardinality(B)
  BY KeySets
<1>3. /\ s \in Seq(Item) /\ t \in Seq(Item) /\ Len(s) = m /\ Len(t) = l
      /\ \A x \in A : s[Rank(A, x) + 1] = Data(x)
      /\ \A x \in B : t[Rank(B, x) + 1] = Data(x)
  BY <1>2 DEF Lists
<1>4. PICK r, C : r = s \o t /\ C = A \cup B
  OBVIOUS
<1>5. /\ r \in Seq(Item) /\ Len(r) = m + l
      /\ \A i \in 1..m : r[i] = s[i]
      /\ \A i \in 1..l : r[m + i] = t[i]
  <2>1. PICK X : X = Item
    OBVIOUS
  <2>2. s \in Seq(X) /\ t \in Seq(X) /\ Len(s) = m /\ Len(t) = l
    BY <2>1, <1>3
  <2>3. /\ s \o t \in Seq(X) /\ Len(s \o t) = m + l
        /\ \A i \in 1..m : (s \o t)[i] = s[i]
        /\ \A i \in 1..l : (s \o t)[m + i] = t[i]
    BY ONLY <2>2, m \in Nat, l \in Nat
  <2> QED
    BY <2>1, <2>3, <1>4
<1>6. A \cap B = {}
  <2>1. \A x \in A : ~(x < x)
    BY <1>1
  <2> QED
    BY <2>1
<1>7. ASSUME NEW D, D \in SUBSET B PROVE Cardinality(A \cup D) = m + Cardinality(D)
  <2>1. IsFiniteSet(D) /\ A \cap D = {}
    BY <1>1, <1>6, <1>7, FS_Subset
  <2>2. Cardinality(A \cup D) = Cardinality(A) + Cardinality(D) - Cardinality(A \cap D)
    BY <2>1, <1>1, FS_Union
  <2>3. Cardinality(A \cap D) = 0 /\ Cardinality(D) \in Nat
    BY <2>1, FS_EmptySet, FS_CardinalityType
  <2> QED
    BY <2>2, <2>3, <1>2
<1>8. Cardinality(C) = m + l
  BY <1>2, <1>4, <1>7
<1>9. ASSUME NEW x \in A PROVE Rank(C, x) = Rank(A, x)
  <2>1. \A y \in B : ~(y < x)
    BY <1>1
  <2>2. {y \in C : y < x} = {y \in A : y < x}
    BY <2>1, <1>4
  <2> QED
    BY <2>2 DEF Rank
<1>10. ASSUME NEW x \in B PROVE Rank(C, x) = m + Rank(B, x)
  <2>1. {y \in C : y < x} = A \cup {y \in B : y < x}
    BY <1>4
  <2>2. Cardinality(A \cup {y \in B : y < x}) = m + Cardinality({y \in B : y < x})
    BY <1>7
  <2> QED
    BY <2>1, <2>2 DEF Rank
<1>11. ASSUME NEW x \in C PROVE r[Rank(C, x) + 1] = Data(x)
  <2>1. CASE x \in A
    <3>1. PICK q \in Nat : q = Rank(A, x) /\ q + 1 \in 1..m
      BY <2>1, <1>1, <1>2
    <3> QED
      BY <2>1, <3>1, <1>3, <1>5, <1>9
  <2>2. CASE x \in B
    <3>1. PICK q \in Nat : q = Rank(B, x) /\ q + 1 \in 1..l
      BY <2>2, <1>1, <1>2
    <3>2. Rank(C, x) + 1 = m + (q + 1)
      BY <2>2, <3>1, <1>10
    <3>3. r[m + (q + 1)] = t[q + 1]
      BY <3>1, <1>5
    <3> QED
      BY <2>2, <3>1, <3>2, <3>3, <1>3
  <2> QED
    BY <2>1, <2>2, <1>4
<1> QED
  BY <1>4, <1>5, <1>8, <1>11 DEF Lists

\* The items of sets of keys, each set above the one before.
LEMMA ItemsFlattened ==
  ASSUME NEW ss \in Seq(Seq(Item)), NEW F,
         \A i \in 1..Len(ss) : F[i] \in SUBSET Keys /\ Lists(ss[i], F[i]),
         \A i, j \in 1..Len(ss) : i < j => \A x \in F[i] : \A y \in F[j] : x < y
  PROVE  Lists(FlattenSeq(ss), UpTo(F, Len(ss))) /\ UpTo(F, Len(ss)) \in SUBSET Keys
<1>1. PICK g : Flattened(ss, Item, g)
  BY FlattenIs
<1>2. PICK n \in Nat : n = Len(ss)
  OBVIOUS
<1>3. ASSUME NEW i \in 0..n PROVE UpTo(F, i) \in SUBSET Keys
  <2>1. \A j \in 1..i : j \in 1..n
    BY <1>2
  <2>2. \A j \in 1..n : F[j] \in SUBSET Keys
    BY <1>2
  <2>3. \A x \in UpTo(F, i) : \E j \in 1..i : x \in F[j]
    BY DEF UpTo
  <2> QED
    BY <2>1, <2>2, <2>3
<1> DEFINE D == 0..n
           h == [i \in D |-> i]
           T == {i \in D : Lists(g[i], UpTo(F, i))}
<1>4. h \in [D -> Nat] /\ \A i \in D : h[i] = i
  BY <1>2
<1>5. ASSUME NEW i \in D, \A j \in D : h[j] < h[i] => j \in T PROVE i \in T
  <2>1. CASE i = 0
    <3>1. g[i] = <<>> /\ UpTo(F, i) = {}
      <4>1. 1 \in Nat \ {0}
        OBVIOUS
      <4> QED
        BY <2>1, <4>1, <1>1, UpToNext DEF Flattened
    <3>2. Lists(<<>>, {})
      <4>1. Cardinality({}) = 0
        BY FS_EmptySet
      <4> QED
        BY <4>1 DEF Lists
    <3> QED
      BY <3>1, <3>2
  <2>2. CASE i # 0
    <3>1. i \in 1..n /\ i - 1 \in D /\ i - 1 < i /\ i \in Nat \ {0}
      BY <2>2, <1>2
    <3>2. Lists(g[i - 1], UpTo(F, i - 1))
      BY <3>1, <1>4, <1>5
    <3>3. F[i] \in SUBSET Keys /\ Lists(ss[i], F[i]) /\ g[i] = g[i - 1] \o ss[i]
      BY <3>1, <1>1, <1>2 DEF Flattened
    <3>4. \A x \in UpTo(F, i - 1) : \A y \in F[i] : x < y
      <4>1. \A j \in 1..(i - 1) : j \in 1..n /\ j < i
        BY <3>1, <1>2
      <4>2. \A j \in 1..(i - 1) : \A x \in F[j] : \A y \in F[i] : x < y
        BY <3>1, <4>1, <1>2
      <4> QED
        BY <4>2 DEF UpTo
    <3>5. Lists(g[i], UpTo(F, i - 1) \cup F[i])
      <4>1. PICK A, s : A = UpTo(F, i - 1) /\ s = g[i - 1]
        OBVIOUS
      <4>2. /\ A \in SUBSET Keys /\ F[i] \in SUBSET Keys /\ Lists(s, A) /\ Lists(ss[i], F[i])
            /\ \A x \in A : \A y \in F[i] : x < y
        BY <4>1, <3>1, <3>2, <3>3, <3>4, <1>3
      <4>3. Lists(s \o ss[i], A \cup F[i])
        BY ONLY <4>2, ListsJoined
      <4> QED
        BY <4>1, <4>3, <3>3
    <3> QED
      BY <3>1, <3>5, UpToNext
  <2> QED
    BY <2>1, <2>2
<1>6. D \subseteq T
  <2> HIDE DEF T, D, h
  <2> QED
    BY <1>4, <1>5, RankInduction
<1>7. n \in D
  BY <1>2
<1> QED
  BY <1>1, <1>2, <1>3, <1>6, <1>7 DEF Flattened

\* The positions the iterator visits: the slots in use, in order.
SlotsFrom(n, from) == {b \in (0..(n.num_items - 1)) \ n.none : b >= from}

\* s has the elements of S in ascending order.
Ascends(s, S) ==
  /\ s \in Seq(S) /\ \A i, j \in 1..Len(s) : i < j => s[i] < s[j]
  /\ \A x \in S : \E i \in 1..Len(s) : s[i] = x

\* In a node of more than one slot the bits of the bitmap are those of slots.
LEMMA BitsFromAre ==
  ASSUME NEW n, Shape(n), n.num_items > 1, NEW from \in Nat
  PROVE  Ascends(BitsFrom(n, from), SlotsFrom(n, from)) /\ SlotsFrom(n, from) \subseteq Nat
<1>1. PICK S, I, s : S = SlotsFrom(n, from) /\ I = 0..(n.num_items - 1) /\ s = Ascending(S)
  OBVIOUS
<1>2. n.num_items \in Nat /\ Bits(n.num_items) \ n.none \subseteq I
  BY <1>1 DEF Shape, Slotted, Node
<1>3. I \subseteq Bits(n.num_items)
  BY <1>1, <1>2, BitsCover
<1>4. {b \in Bits(n.num_items) \ n.none : b >= from} = S
  BY <1>1, <1>2, <1>3 DEF SlotsFrom
<1>5. IsFiniteSet(S) /\ S \in SUBSET Int /\ S \subseteq Nat
  <2>1. IsFiniteSet(I) /\ I \in SUBSET Int /\ I \subseteq Nat
    <3>1. PICK m \in Nat : m = n.num_items
      BY <1>2
    <3>2. IsFiniteSet(0..(m - 1))
      BY FS_Interval
    <3>3. 0..(m - 1) \subseteq Nat
      OBVIOUS
    <3> QED
      BY <3>1, <3>2, <3>3, <1>1
  <2>2. S \in SUBSET I
    BY <1>1 DEF SlotsFrom
  <2> QED
    BY <2>1, <2>2, FS_Subset
<1>6. PICK c : c = Cardinality(S)
  OBVIOUS
<1>7. /\ c \in Nat /\ s \in [1..c -> S] /\ \A i, j \in 1..c : i < j => s[i] < s[j]
      /\ \A x \in S : \E i \in 1..c : s[i] = x
  BY <1>1, <1>5, <1>6, AscendingRanks
<1>8. s \in Seq(S) /\ Len(s) = c
  BY <1>7
<1>9. BitsFrom(n, from) = s
  BY <1>1, <1>4 DEF BitsFrom
<1> QED
  BY <1>1, <1>5, <1>7, <1>8, <1>9 DEF Ascends

\* What is visited in a node from a position on, when g[c] is what is visited at child c.
PartsOf(g, n, from) ==
  [i \in 1..Len(BitsFrom(n, from)) |->
     IF BitsFrom(n, from)[i] \in n.child THEN g[n.items[BitsFrom(n, from)[i]].child]
     ELSE <<Slot(n, BitsFrom(n, from)[i])>>]
VisitOf(g, n, from) == FlattenSeq(PartsOf(g, n, from))

\* An item alone is a list.
LEMMA ItemListed ==
  ASSUME NEW k \in Keys
  PROVE  Lists(<<Data(k)>>, {k})
<1>1. k \in Nat
  BY LippAssumption
<1>2. Data(k) \in Item /\ Cardinality({k}) = 1 /\ Rank({k}, k) = 0
  <2>1. Data(k) \in Item
    BY <1>1, ItemTypes
  <2>2. Rank({k}, k) = 0
    BY <1>1, RankAlone
  <2>3. Cardinality({k}) = 1
    BY FS_Singleton
  <2> QED
    BY <2>1, <2>2, <2>3
<1>3. PICK x : x = Data(k)
  OBVIOUS
<1>4. <<x>> \in Seq(Item) /\ Len(<<x>>) = 1 /\ <<x>>[1] = x
  BY <1>2, <1>3
<1> QED
  BY <1>2, <1>3, <1>4 DEF Lists

\* The iterator visits the items of a node from a position on.
LEMMA VisitLists ==
  ASSUME NEW f, Forest(heap, Range(pending_two), f), Whole(f), NEW a \in f.live,
         heap[a].num_items > 1, NEW from \in Nat, NEW g,
         \A p \in heap[a].child : Lists(g[heap[a].items[p].child], KeysAt(heap[a], f.own[a], p))
  PROVE  Lists(VisitOf(g, heap[a], from), {k \in f.own[a] : Predict(heap[a], k) >= from})
<1>1. PICK n, K, bs, ss, S, l : /\ n = heap[a] /\ K = f.own[a] /\ bs = BitsFrom(n, from)
                                /\ ss = PartsOf(g, n, from) /\ S = SlotsFrom(n, from)
                                /\ l = Len(bs)
  OBVIOUS
<1>2. Shape(n) /\ Slotted(n) /\ n.num_items \in Nat
  BY <1>1, WholeChildren DEF Shape, Slotted, Node
<1>3. \A p \in 0..(n.num_items - 1) : SlotOK(heap, f, a, p)
  BY <1>1 DEF Whole, Forest, NodeOK
<1>4. K \in SUBSET Keys /\ K \in SUBSET Nat
  <2>1. K \in SUBSET Keys
    BY <1>1 DEF Forest, HeapOK
  <2> QED
    BY <2>1, KeySets
<1>5. /\ l \in Nat /\ \A i \in 1..l : bs[i] \in S /\ bs[i] \in Nat
      /\ \A i, j \in 1..l : i < j => bs[i] < bs[j]
      /\ \A x \in S : \E i \in 1..l : bs[i] = x
  <2>1. Ascends(bs, S) /\ S \subseteq Nat
    BY <1>1, <1>2, BitsFromAre
  <2> QED
    BY <2>1, <1>1 DEF Ascends
<1>6. S = {b \in (0..(n.num_items - 1)) \ n.none : b >= from}
  BY <1>1 DEF SlotsFrom
<1>7. /\ Len(ss) = l
      /\ \A i \in 1..l : ss[i] = IF bs[i] \in n.child THEN g[n.items[bs[i]].child]
                                 ELSE <<Slot(n, bs[i])>>
  BY <1>1, <1>5 DEF PartsOf
<1>8. PICK F : F = [i \in 1..l |-> KeysAt(n, K, bs[i])]
  OBVIOUS
<1>9. ASSUME NEW i \in 1..l PROVE F[i] \in SUBSET Keys /\ Lists(ss[i], F[i])
  <2>1. PICK b : b = bs[i]
    OBVIOUS
  <2>2. b \in 0..(n.num_items - 1) /\ b \notin n.none /\ F[i] = KeysAt(n, K, b)
    BY <2>1, <1>5, <1>6, <1>8
  <2>3. F[i] \in SUBSET Keys
    BY <2>2, <1>4 DEF KeysAt
  <2>4. CASE b \in n.child
    BY <2>1, <2>2, <2>3, <2>4, <1>1, <1>7
  <2>5. CASE b \notin n.child
    <3>1. SlotOK(heap, f, a, b)
      BY <2>2, <1>3
    <3>2. PICK k \in Keys : KeysAt(n, K, b) = {k} /\ n.items[b] = Data(k)
      BY <2>2, <2>5, <3>1, <1>1 DEF SlotOK
    <3>3. Slot(n, b) = Data(k)
      BY <2>2, <3>2, <1>2 DEF Slot
    <3>4. Lists(<<Data(k)>>, {k})
      BY ItemListed
    <3> QED
      BY <2>1, <2>2, <2>3, <2>5, <3>2, <3>3, <3>4, <1>7
  <2> QED
    BY <2>4, <2>5
<1>10. ASSUME NEW i \in 1..l, NEW j \in 1..l, i < j, NEW x \in F[i], NEW y \in F[j]
       PROVE  x < y
  <2>1. x \in K /\ y \in K /\ Predict(n, x) = bs[i] /\ Predict(n, y) = bs[j]
    BY <1>8 DEF KeysAt
  <2>2. bs[i] < bs[j] /\ bs[i] \in Nat /\ bs[j] \in Nat
    BY <1>5, <1>10
  <2>3. x \in Nat /\ y \in Nat
    BY <2>1, <1>4
  <2>4. ~(y <= x)
    <3> SUFFICES ASSUME y <= x PROVE FALSE
      OBVIOUS
    <3>1. Predict(n, y) <= Predict(n, x)
      BY <2>3, <1>2, PredictMonotone
    <3> QED
      BY <2>1, <2>2, <3>1
  <2> QED
    BY <2>3, <2>4
<1>11. ss \in Seq(Seq(Item))
  <2>1. PICK X : X = Seq(Item)
    OBVIOUS
  <2>2. \A i \in 1..l : ss[i] \in X
    BY <2>1, <1>9 DEF Lists
  <2>3. ss = [i \in 1..l |-> ss[i]]
    BY <1>1 DEF PartsOf
  <2>4. ss \in Seq(X)
    BY ONLY <2>2, <2>3, <1>5
  <2> QED
    BY <2>1, <2>4
<1>12. Lists(FlattenSeq(ss), UpTo(F, l))
  <2>1. \A i \in 1..Len(ss) : F[i] \in SUBSET Keys /\ Lists(ss[i], F[i])
    BY <1>7, <1>9
  <2>2. \A i, j \in 1..Len(ss) : i < j => \A x \in F[i] : \A y \in F[j] : x < y
    BY <1>7, <1>10
  <2> QED
    BY <2>1, <2>2, <1>7, <1>11, ItemsFlattened
<1>13. UpTo(F, l) = {k \in K : Predict(n, k) >= from}
  <2>1. ASSUME NEW k \in UpTo(F, l) PROVE k \in K /\ Predict(n, k) >= from
    <3>1. PICK i \in 1..l : k \in F[i]
      BY <2>1 DEF UpTo
    <3> QED
      BY <3>1, <1>5, <1>6, <1>8 DEF KeysAt
  <2>2. ASSUME NEW k \in K, Predict(n, k) >= from PROVE k \in UpTo(F, l)
    <3>1. PICK p : p = Predict(n, k)
      OBVIOUS
    <3>2. p \in 0..(n.num_items - 1) /\ k \in KeysAt(n, K, p)
      BY <3>1, <1>2, <1>4, PredictInside DEF KeysAt
    <3>3. p \notin n.none
      BY <3>2, <1>1, <1>3 DEF SlotOK
    <3>4. p \in S
      BY <2>2, <3>1, <3>2, <3>3, <1>6
    <3>5. PICK i \in 1..l : bs[i] = p
      BY <3>4, <1>5
    <3>6. k \in F[i]
      BY <3>2, <3>5, <1>8
    <3> QED
      BY <3>6 DEF UpTo
  <2> QED
    BY <2>1, <2>2
<1> QED
  BY <1>1, <1>12, <1>13 DEF VisitOf

\* A node of the pool has nothing to visit.
LEMMA PoolVisit ==
  ASSUME NEW n, PoolNode(n), NEW from, NEW g
  PROVE  VisitOf(g, n, from) = <<>>
<1>1. n.none = Bits(n.num_items)
  BY DEF PoolNode
<1>2. {b \in Bits(n.num_items) \ n.none : b >= from} = {}
  BY <1>1
<1>3. Cardinality({}) = 0
  BY FS_EmptySet
<1>4. BitsFrom(n, from) = <<>>
  <2>1. BitsFrom(n, from) = Ascending({})
    BY <1>2 DEF BitsFrom
  <2>2. Ascending({}) = <<>>
    BY <1>3 DEF Ascending
  <2> QED
    BY <2>1, <2>2
<1>5. PartsOf(g, n, from) = <<>>
  BY <1>4 DEF PartsOf
<1>6. FlattenSeq(<<>>) = <<>>
  BY DEF FlattenSeq
<1> QED
  BY <1>5, <1>6 DEF VisitOf

\* What is visited is a sequence of items, and depends on the children only.
LEMMA VisitTypes ==
  ASSUME NEW n, Shape(n), n.num_items > 1, NEW from \in Nat, NEW g, NEW g2,
         \A p \in n.child : g[n.items[p].child] \in Seq(Item)
  PROVE  /\ VisitOf(g, n, from) \in Seq(Item)
         /\ (\A p \in n.child : g[n.items[p].child] = g2[n.items[p].child])
              => VisitOf(g, n, from) = VisitOf(g2, n, from)
<1>1. PICK bs, ss, S, l, X : /\ bs = BitsFrom(n, from) /\ S = SlotsFrom(n, from) /\ l = Len(bs)
                             /\ ss = PartsOf(g, n, from) /\ X = Seq(Item)
  OBVIOUS
<1>2. l \in Nat /\ \A i \in 1..l : bs[i] \in S
  <2>1. Ascends(bs, S)
    BY <1>1, BitsFromAre
  <2> QED
    BY <2>1, <1>1 DEF Ascends
<1>3. n.num_items \in Nat /\ n.items \in Items /\ DOMAIN n.items = 0..(n.num_items - 1)
  BY DEF Shape, Slotted, Node
<1>4. \A b \in S : Slot(n, b) \in Item
  <2>1. TAKE b \in S
  <2>2. b \in 0..(n.num_items - 1)
    BY <1>1 DEF SlotsFrom
  <2>3. n.items[b] \in Item
    BY <2>2, <1>3, ItemArrays
  <2> QED
    BY <2>2, <2>3, <1>3 DEF Slot
<1>5. ss = [i \in 1..l |-> IF bs[i] \in n.child THEN g[n.items[bs[i]].child]
                           ELSE <<Slot(n, bs[i])>>]
  BY <1>1 DEF PartsOf
<1>6. \A i \in 1..l : ss[i] \in X
  <2>1. TAKE i \in 1..l
  <2>2. CASE bs[i] \in n.child
    BY <2>2, <1>1, <1>5
  <2>3. CASE bs[i] \notin n.child
    <3>1. PICK x \in Item : x = Slot(n, bs[i])
      BY <1>2, <1>4
    <3>2. <<x>> \in Seq(Item)
      OBVIOUS
    <3> QED
      BY <2>3, <3>1, <3>2, <1>1, <1>5
  <2> QED
    BY <2>2, <2>3
<1>7. ss \in Seq(X)
  BY ONLY <1>2, <1>5, <1>6
<1>8. PICK w : Flattened(ss, Item, w)
  BY <1>1, <1>7, FlattenIs
<1>9. FlattenSeq(ss) \in Seq(Item)
  <2>1. Len(ss) \in 0..Len(ss)
    BY <1>7
  <2> QED
    BY <2>1, <1>8 DEF Flattened
<1>10. ASSUME \A p \in n.child : g[n.items[p].child] = g2[n.items[p].child]
       PROVE  PartsOf(g2, n, from) = ss
  BY <1>1, <1>5, <1>10 DEF PartsOf
<1> QED
  BY <1>1, <1>9, <1>10 DEF VisitOf

\* Every node has more than one slot.
Sizable(f) == \A a \in f.live : heap[a].num_items > 1

\* The recursion of the iterator comes to an end and visits the items below a node in order.
LEMMA VisitedIs ==
  ASSUME NEW f, Forest(heap, Range(pending_two), f), Whole(f), Sizable(f), NEW r \in f.live,
         NEW from \in Nat
  PROVE  Lists(Visited(heap[r], from), {k \in f.own[r] : Predict(heap[r], k) >= from})
<1> DEFINE D == DOMAIN heap
           Body(g) == [a \in D |-> VisitOf(g, heap[a], 0)]
           All == CHOOSE g : g = Body(g)
           h == [a \in D |-> IF a \in f.live THEN f.rank[a] ELSE 0]
           V == Seq(Item)
           B == [a \in D |-> [g \in [D -> V] |-> Body(g)[a]]]
<1>1. Visited(heap[r], from) = VisitOf(All, heap[r], from)
  BY DEF Visited, VisitOf, PartsOf
<1>2. f.live \subseteq D /\ (\A a \in f.live : f.rank[a] \in Nat) /\ 0 \in Nat
  BY DEF Forest, HeapOK
<1>3. ASSUME NEW a \in f.live
      PROVE  /\ Shape(heap[a]) /\ heap[a].num_items > 1
             /\ \A p \in heap[a].child : /\ heap[a].items[p].child \in f.live
                                         /\ f.rank[heap[a].items[p].child] < f.rank[a]
                                         /\ f.own[heap[a].items[p].child]
                                              = KeysAt(heap[a], f.own[a], p)
  <2>1. Shape(heap[a]) /\ \A p \in heap[a].child : ChildOK(heap, f, a, p)
    BY WholeChildren
  <2> QED
    BY <2>1 DEF Sizable, ChildOK
<1>4. \A a \in D : a \notin f.live => PoolNode(heap[a])
  BY DEF Forest, HeapOK
<1>5. \A g : \A a \in D : Body(g)[a] = VisitOf(g, heap[a], 0)
  OBVIOUS
<1>6. \A g : Body(g) = [a \in D |-> Body(g)[a]]
  OBVIOUS
<1>7. h \in [D -> Nat] /\ \A a \in f.live : h[a] = f.rank[a]
  BY <1>2
<1>8. All = CHOOSE g : g = Body(g)
  OBVIOUS
<1> HIDE DEF h, Body, All
<1>9. ASSUME NEW g \in [D -> V], NEW a \in D PROVE Body(g)[a] \in V
  <2>1. CASE a \in f.live
    <3>1. \A p \in heap[a].child : g[heap[a].items[p].child] \in Seq(Item)
      BY <2>1, <1>2, <1>3
    <3>2. VisitOf(g, heap[a], 0) \in Seq(Item)
      BY <2>1, <3>1, <1>2, <1>3, VisitTypes
    <3> QED
      BY <3>2, <1>5
  <2>2. CASE a \notin f.live
    <3>1. VisitOf(g, heap[a], 0) = <<>>
      BY <2>2, <1>4, PoolVisit
    <3>2. <<>> \in Seq(Item)
      OBVIOUS
    <3> QED
      BY <3>1, <3>2, <1>5
  <2> QED
    BY <2>1, <2>2
<1>10. B \in [D -> [[D -> V] -> V]] /\ \A a \in D : \A g \in [D -> V] : B[a][g] = Body(g)[a]
  BY <1>9
<1>11. ASSUME NEW a \in D, NEW g1 \in [D -> V], NEW g2 \in [D -> V],
              \A b \in D : h[b] < h[a] => g1[b] = g2[b]
       PROVE  B[a][g1] = B[a][g2]
  <2>1. CASE a \in f.live
    <3>1. \A p \in heap[a].child :
            /\ g1[heap[a].items[p].child] \in Seq(Item)
            /\ g1[heap[a].items[p].child] = g2[heap[a].items[p].child]
      BY <2>1, <1>2, <1>3, <1>7, <1>11
    <3>2. VisitOf(g1, heap[a], 0) = VisitOf(g2, heap[a], 0)
      BY <2>1, <3>1, <1>2, <1>3, VisitTypes
    <3> HIDE DEF B
    <3> QED
      BY <3>2, <1>5, <1>10
  <2>2. CASE a \notin f.live
    <3>1. VisitOf(g1, heap[a], 0) = <<>> /\ VisitOf(g2, heap[a], 0) = <<>>
      BY <2>2, <1>4, PoolVisit
    <3>2. Body(g1)[a] = <<>> /\ Body(g2)[a] = <<>>
      BY <3>1, <1>5
    <3> HIDE DEF B
    <3> QED
      BY <3>2, <1>10
  <2> QED
    BY <2>1, <2>2
<1>12. V # {}
  <2>1. <<>> \in Seq(Item)
    OBVIOUS
  <2> QED
    BY <2>1
<1>13. Recursion(D, h, V, B)
  <2> HIDE DEF B, V, D
  <2> QED
    BY <1>7, <1>10, <1>11, <1>12 DEF Recursion
<1>14. All = Body(All)
  <2>1. PICK g \in [D -> V] : \A a \in D : g[a] = B[a][g]
    <3> HIDE DEF B, V, D
    <3> QED
      BY <1>13, RankRecursion
  <2>2. \A a \in D : g[a] = Body(g)[a]
    <3> HIDE DEF B, V, D
    <3> QED
      BY <2>1, <1>10
  <2>3. g = Body(g)
    BY <2>1, <2>2, <1>6
  <2> QED
    BY <2>3, <1>8
<1>15. \A a \in D : All[a] = VisitOf(All, heap[a], 0)
  BY <1>5, <1>14
<1> DEFINE S == {a \in D : a \in f.live => Lists(All[a], f.own[a])}
<1>16. ASSUME NEW a \in D, \A b \in D : h[b] < h[a] => b \in S PROVE a \in S
  <2> SUFFICES ASSUME a \in f.live PROVE Lists(All[a], f.own[a])
    OBVIOUS
  <2>1. \A p \in heap[a].child : Lists(All[heap[a].items[p].child], KeysAt(heap[a], f.own[a], p))
    <3>1. TAKE p \in heap[a].child
    <3>2. PICK c : c = heap[a].items[p].child
      OBVIOUS
    <3>3. c \in f.live /\ c \in D /\ h[c] < h[a] /\ f.own[c] = KeysAt(heap[a], f.own[a], p)
      BY <3>2, <1>2, <1>3, <1>7
    <3>4. c \in S
      BY <3>3, <1>16
    <3> QED
      BY <3>2, <3>3, <3>4
  <2> HIDE DEF S
  <2>2. Lists(VisitOf(All, heap[a], 0), {k \in f.own[a] : Predict(heap[a], k) >= 0})
    BY <2>1, <1>2, <1>3, VisitLists
  <2>3. {k \in f.own[a] : Predict(heap[a], k) >= 0} = f.own[a]
    <3>1. f.own[a] \in SUBSET Keys
      BY DEF Forest, HeapOK
    <3>2. Slotted(heap[a]) /\ heap[a].num_items \in Nat
      BY <1>3 DEF Shape, Slotted, Node
    <3>3. \A k \in f.own[a] : Predict(heap[a], k) \in 0..(heap[a].num_items - 1)
      BY <3>1, <3>2, PredictInside, LippAssumption
    <3> QED
      BY <3>2, <3>3
  <2> QED
    BY <2>2, <2>3, <1>15
<1>17. D \subseteq S
  <2> HIDE DEF S, D
  <2> QED
    BY <1>7, <1>16, RankInduction
<1>18. \A p \in heap[r].child : Lists(All[heap[r].items[p].child], KeysAt(heap[r], f.own[r], p))
  <2>1. TAKE p \in heap[r].child
  <2>2. PICK c : c = heap[r].items[p].child
    OBVIOUS
  <2>3. c \in f.live /\ c \in D /\ f.own[c] = KeysAt(heap[r], f.own[r], p)
    BY <2>2, <1>2, <1>3
  <2> QED
    BY <2>2, <2>3, <1>17
<1> HIDE DEF S, B, V, D
<1>19. PICK g : g = All
  OBVIOUS
<1>20. Lists(VisitOf(g, heap[r], from), {k \in f.own[r] : Predict(heap[r], k) >= from})
  <2>1. \A p \in heap[r].child : Lists(g[heap[r].items[p].child], KeysAt(heap[r], f.own[r], p))
    BY <1>18, <1>19
  <2>2. heap[r].num_items > 1
    BY <1>3
  <2> QED
    BY <2>1, <2>2, VisitLists
<1> QED
  BY <1>1, <1>19, <1>20

\* lower_bound in a node: the slot of the key, and what the iterator visits after it.
HereOf(g, n, k) ==
  LET p == Predict(n, k)
  IN  IF p \in n.child THEN g[n.items[p].child]
      ELSE IF p \notin n.none /\ n.items[p].key >= k THEN <<n.items[p]>> ELSE <<>>
BoundOf(g, n, k) == HereOf(g, n, k) \o Visited(n, NextPosition(Predict(n, k)))

\* A node of the pool.
LEMMA PoolBound ==
  ASSUME NEW n, PoolNode(n), NEW k \in Nat, NEW g
  PROVE  BoundOf(g, n, k) = <<>>
<1>1. PICK p, q : p = Predict(n, k) /\ q = NextPosition(p)
  OBVIOUS
<1>2. p \in n.none /\ n.child = {}
  <2>1. Slotted(n) /\ n.num_items = 8 /\ n.none = 0..7
    BY BitsOfTwo DEF PoolNode, Slotted, TwoItems
  <2>2. p \in 0..(n.num_items - 1)
    BY <2>1, <1>1, PredictInside
  <2> QED
    BY <2>1, <2>2 DEF PoolNode
<1>3. HereOf(g, n, k) = <<>>
  BY <1>1, <1>2 DEF HereOf
<1>4. Visited(n, q) = <<>>
  <2> DEFINE Body(All) == [a \in DOMAIN heap |-> VisitOf(All, heap[a], 0)]
             Every == CHOOSE All : All = Body(All)
  <2>1. Visited(n, q) = VisitOf(Every, n, q)
    BY DEF Visited, VisitOf, PartsOf
  <2> HIDE DEF Every
  <2> QED
    BY <2>1, PoolVisit
<1> QED
  BY <1>1, <1>3, <1>4 DEF BoundOf

\* lower_bound in a node visits its items from the key on.
LEMMA BoundLists ==
  ASSUME NEW f, Forest(heap, Range(pending_two), f), Whole(f), Sizable(f), NEW a \in f.live,
         NEW k \in Nat, NEW g, NEW p, p = Predict(heap[a], k),
         p \in heap[a].child =>
           Lists(g[heap[a].items[p].child], {x \in KeysAt(heap[a], f.own[a], p) : x >= k})
  PROVE  Lists(BoundOf(g, heap[a], k), {x \in f.own[a] : x >= k})
<1>1. PICK n, K, s, t, A, B : /\ n = heap[a] /\ K = f.own[a] /\ s = HereOf(g, n, k)
                              /\ t = Visited(n, p + 1)
                              /\ A = {x \in KeysAt(n, K, p) : x >= k}
                              /\ B = {x \in K : Predict(n, x) >= p + 1}
  OBVIOUS
<1>2. Shape(n) /\ Slotted(n) /\ n.num_items \in Nat
  BY <1>1, WholeChildren DEF Shape, Slotted, Node
<1>3. K \in SUBSET Keys /\ K \in SUBSET Nat
  <2>1. K \in SUBSET Keys
    BY <1>1 DEF Forest, HeapOK
  <2> QED
    BY <2>1, KeySets
<1>4. p \in 0..(n.num_items - 1) /\ p \in Nat /\ p + 1 \in Nat /\ SlotOK(heap, f, a, p)
  <2>1. p \in 0..(n.num_items - 1)
    BY <1>1, <1>2, PredictInside
  <2>2. SlotOK(heap, f, a, p)
    BY <2>1, <1>1 DEF Whole, Forest, NodeOK
  <2> QED
    BY <2>1, <2>2
<1>5. A \in SUBSET Keys /\ B \in SUBSET Keys
  BY <1>1, <1>3 DEF KeysAt
<1>6. Lists(s, A)
  <2>1. CASE p \in n.child
    BY <2>1, <1>1 DEF HereOf
  <2>2. CASE p \in n.none /\ p \notin n.child
    <3>1. s = <<>>
      BY <2>2, <1>1 DEF HereOf
    <3>2. A = {}
      BY <2>2, <1>1, <1>4 DEF SlotOK
    <3>3. Cardinality({}) = 0
      BY FS_EmptySet
    <3>4. Lists(<<>>, {})
      BY <3>3 DEF Lists
    <3> QED
      BY <3>1, <3>2, <3>4
  <2>3. CASE p \notin n.none /\ p \notin n.child
    <3>1. PICK y \in Keys : KeysAt(n, K, p) = {y} /\ n.items[p] = Data(y)
      BY <2>3, <1>1, <1>4 DEF SlotOK
    <3>2. y \in Nat /\ Data(y).key = y
      BY LippAssumption, ItemTypes
    <3>3. CASE y >= k
      <4>1. s = <<Data(y)>>
        BY <2>3, <3>1, <3>2, <3>3, <1>1 DEF HereOf
      <4>2. A = {y}
        BY <3>1, <3>3, <1>1
      <4> QED
        BY <4>1, <4>2, ItemListed
    <3>4. CASE ~(y >= k)
      <4>1. s = <<>>
        BY <2>3, <3>1, <3>2, <3>4, <1>1 DEF HereOf
      <4>2. A = {}
        BY <3>1, <3>4, <1>1
      <4>3. Cardinality({}) = 0
        BY FS_EmptySet
      <4>4. Lists(<<>>, {})
        BY <4>3 DEF Lists
      <4> QED
        BY <4>1, <4>2, <4>4
    <3> QED
      BY <3>3, <3>4
  <2> QED
    BY <2>1, <2>2, <2>3
<1>7. Lists(t, B)
  <2>1. Lists(Visited(heap[a], p + 1), {x \in f.own[a] : Predict(heap[a], x) >= p + 1})
    BY <1>4, VisitedIs
  <2> QED
    BY <2>1, <1>1
<1>8. \A x \in K : Predict(n, x) \in 0..(n.num_items - 1)
  BY <1>2, <1>3, PredictInside
<1>9. ASSUME NEW x \in K, NEW y \in K, Predict(n, x) < Predict(n, y) PROVE x < y
  <2>1. x \in Nat /\ y \in Nat /\ Predict(n, x) \in Int /\ Predict(n, y) \in Int
    BY <1>2, <1>3, <1>8
  <2>2. ~(y <= x)
    <3> SUFFICES ASSUME y <= x PROVE FALSE
      OBVIOUS
    <3>1. Predict(n, y) <= Predict(n, x)
      BY <2>1, <1>2, PredictMonotone
    <3> QED
      BY <3>1, <2>1, <1>9
  <2> QED
    BY <2>1, <2>2
<1>10. ASSUME NEW x \in A, NEW y \in B PROVE x < y
  <2>1. x \in K /\ y \in K /\ Predict(n, x) = p /\ Predict(n, y) >= p + 1
    BY <1>1 DEF KeysAt
  <2>2. Predict(n, x) < Predict(n, y)
    BY <2>1, <1>2, <1>4, <1>8
  <2> QED
    BY <2>1, <2>2, <1>9
<1>11. A \cup B = {x \in K : x >= k}
  <2>1. ASSUME NEW x \in K, x >= k PROVE x \in A \cup B
    <3>1. x \in Nat /\ Predict(n, x) \in Int
      BY <1>2, <1>3, <1>8
    <3>2. p <= Predict(n, x)
      BY <2>1, <3>1, <1>1, <1>2, PredictMonotone
    <3>3. Predict(n, x) = p \/ Predict(n, x) >= p + 1
      BY <3>1, <3>2, <1>4
    <3> QED
      BY <2>1, <3>3, <1>1 DEF KeysAt
  <2>2. ASSUME NEW x \in B PROVE x \in K /\ x >= k
    <3>1. x \in Nat /\ x \in K /\ Predict(n, x) \in Int /\ Predict(n, x) >= p + 1
      BY <1>1, <1>2, <1>3, <1>8
    <3>2. ~(x <= k)
      <4> SUFFICES ASSUME x <= k PROVE FALSE
        OBVIOUS
      <4>1. Predict(n, x) <= p
        BY <3>1, <1>1, <1>2, PredictMonotone
      <4> QED
        BY <3>1, <4>1, <1>4
    <3> QED
      BY <3>1, <3>2
  <2>3. \A x \in A : x \in K /\ x >= k
    BY <1>1 DEF KeysAt
  <2> QED
    BY <2>1, <2>2, <2>3
<1>12. Lists(s \o t, A \cup B)
  BY <1>5, <1>6, <1>7, <1>10, ListsJoined
<1>13. BoundOf(g, n, k) = s \o t
  BY <1>1 DEF BoundOf, NextPosition
<1> QED
  BY <1>1, <1>11, <1>12, <1>13

\* lower_bound and the iterator visit the items from the key on, in order.
LEMMA LowerBoundLists ==
  ASSUME NEW f, Forest(heap, Range(pending_two), f), Whole(f), Sizable(f), root \in f.live,
         NEW k \in Nat
  PROVE  Lists(LowerBound(k), {x \in f.own[root] : x >= k})
<1> DEFINE D == DOMAIN heap
           Body(g) == [a \in D |-> BoundOf(g, heap[a], k)]
           From == CHOOSE g : g = Body(g)
           h == [a \in D |-> IF a \in f.live THEN f.rank[a] ELSE 0]
           V == Seq(Item)
           B == [a \in D |-> [g \in [D -> V] |-> Body(g)[a]]]
           Slot0(a) == Predict(heap[a], k)
           Down(a) == heap[a].items[Slot0(a)].child
           Rest(a) == Visited(heap[a], NextPosition(Slot0(a)))
<1>1. LowerBound(k) = From[root]
  BY DEF LowerBound, BoundOf, HereOf
<1>2. f.live \subseteq D /\ (\A a \in f.live : f.rank[a] \in Nat) /\ 0 \in Nat
  BY DEF Forest, HeapOK
<1>3. ASSUME NEW a \in f.live
      PROVE  /\ Slot0(a) \in 0..(heap[a].num_items - 1) /\ Slot0(a) + 1 \in Nat
             /\ (Slot0(a) \notin heap[a].none \/ Slot0(a) \in heap[a].child)
                  => heap[a].items[Slot0(a)] \in Item
             /\ Slot0(a) \in heap[a].child =>
                  /\ Down(a) \in f.live /\ f.rank[Down(a)] < f.rank[a]
                  /\ f.own[Down(a)] = KeysAt(heap[a], f.own[a], Slot0(a))
             /\ Rest(a) \in Seq(Item)
  <2>1. Shape(heap[a]) /\ \A p \in heap[a].child : ChildOK(heap, f, a, p)
    BY WholeChildren
  <2>2. Slotted(heap[a]) /\ heap[a].num_items \in Nat
    BY <2>1 DEF Shape, Slotted, Node
  <2>3. Slot0(a) \in 0..(heap[a].num_items - 1) /\ Slot0(a) + 1 \in Nat
    BY <2>2, PredictInside
  <2>4. heap[a].items[Slot0(a)] \in Item
    <3>1. heap[a].items \in Items /\ DOMAIN heap[a].items = 0..(heap[a].num_items - 1)
      BY <2>1 DEF Shape, Slotted, Node
    <3> QED
      BY <2>3, <3>1, ItemArrays
  <2>5. Rest(a) \in Seq(Item)
    <3>1. Lists(Visited(heap[a], Slot0(a) + 1),
                {x \in f.own[a] : Predict(heap[a], x) >= Slot0(a) + 1})
      BY <2>3, VisitedIs
    <3> QED
      BY <3>1 DEF Lists, NextPosition
  <2> QED
    BY <2>1, <2>3, <2>4, <2>5 DEF ChildOK
<1>4. \A a \in D : a \notin f.live => PoolNode(heap[a])
  BY DEF Forest, HeapOK
<1>5. \A g : \A a \in D : Body(g)[a] = BoundOf(g, heap[a], k)
  OBVIOUS
<1>6. \A g : Body(g) = [a \in D |-> Body(g)[a]]
  OBVIOUS
<1>7. h \in [D -> Nat] /\ \A a \in f.live : h[a] = f.rank[a]
  BY <1>2
<1>8. From = CHOOSE g : g = Body(g)
  OBVIOUS
<1>9. \A g : \A a :
        /\ BoundOf(g, heap[a], k) = HereOf(g, heap[a], k) \o Rest(a)
        /\ HereOf(g, heap[a], k) =
             IF Slot0(a) \in heap[a].child THEN g[Down(a)]
             ELSE IF Slot0(a) \notin heap[a].none /\ heap[a].items[Slot0(a)].key >= k
                  THEN <<heap[a].items[Slot0(a)]>> ELSE <<>>
  BY DEF BoundOf, HereOf
<1> HIDE DEF h, Body, From, Slot0, Down, Rest
<1>10. ASSUME NEW g \in [D -> V], NEW a \in D PROVE Body(g)[a] \in V
  <2>1. CASE a \in f.live
    <3>1. HereOf(g, heap[a], k) \in Seq(Item)
      <4>1. CASE Slot0(a) \in heap[a].child
        <5>1. Down(a) \in D
          BY <2>1, <4>1, <1>2, <1>3
        <5>2. g[Down(a)] \in V
          BY <5>1
        <5>3. HereOf(g, heap[a], k) = g[Down(a)]
          BY <4>1, <1>9
        <5>4. V = Seq(Item)
          OBVIOUS
        <5> QED
          BY <5>2, <5>3, <5>4
      <4>2. CASE Slot0(a) \notin heap[a].child /\ Slot0(a) \notin heap[a].none
        <5>1. PICK x \in Item : x = heap[a].items[Slot0(a)]
          BY <2>1, <4>2, <1>3
        <5>2. <<x>> \in Seq(Item) /\ <<>> \in Seq(Item)
          OBVIOUS
        <5> QED
          BY <4>2, <5>1, <5>2, <1>9
      <4>3. CASE Slot0(a) \notin heap[a].child /\ Slot0(a) \in heap[a].none
        <5>1. <<>> \in Seq(Item)
          OBVIOUS
        <5> QED
          BY <4>3, <5>1, <1>9
      <4> QED
        BY <4>1, <4>2, <4>3
    <3>2. PICK s, t : s = HereOf(g, heap[a], k) /\ t = Rest(a)
      OBVIOUS
    <3>3. s \o t \in Seq(Item)
      BY <2>1, <3>1, <3>2, <1>3
    <3> QED
      BY <3>2, <3>3, <1>5, <1>9
  <2>2. CASE a \notin f.live
    <3>1. BoundOf(g, heap[a], k) = <<>>
      BY <2>2, <1>4, PoolBound
    <3>2. <<>> \in Seq(Item)
      OBVIOUS
    <3> QED
      BY <3>1, <3>2, <1>5
  <2> QED
    BY <2>1, <2>2
<1>11. B \in [D -> [[D -> V] -> V]] /\ \A a \in D : \A g \in [D -> V] : B[a][g] = Body(g)[a]
  BY <1>10
<1>12. ASSUME NEW a \in D, NEW g1 \in [D -> V], NEW g2 \in [D -> V],
              \A b \in D : h[b] < h[a] => g1[b] = g2[b]
       PROVE  B[a][g1] = B[a][g2]
  <2>1. BoundOf(g1, heap[a], k) = BoundOf(g2, heap[a], k)
    <3>1. CASE a \in f.live
      <4>1. Slot0(a) \in heap[a].child => g1[Down(a)] = g2[Down(a)]
        BY <3>1, <1>2, <1>3, <1>7, <1>12
      <4>2. HereOf(g1, heap[a], k) = HereOf(g2, heap[a], k)
        BY <4>1, <1>9
      <4> QED
        BY <4>2, <1>9
    <3>2. CASE a \notin f.live
      BY <3>2, <1>4, PoolBound
    <3> QED
      BY <3>1, <3>2
  <2>2. Body(g1)[a] = Body(g2)[a]
    BY <2>1, <1>5
  <2> HIDE DEF B
  <2> QED
    BY <2>2, <1>11
<1>13. V # {}
  <2>1. <<>> \in Seq(Item)
    OBVIOUS
  <2> QED
    BY <2>1
<1>14. Recursion(D, h, V, B)
  <2> HIDE DEF B, V, D
  <2> QED
    BY <1>7, <1>11, <1>12, <1>13 DEF Recursion
<1>15. From = Body(From)
  <2>1. PICK g \in [D -> V] : \A a \in D : g[a] = B[a][g]
    <3> HIDE DEF B, V, D
    <3> QED
      BY <1>14, RankRecursion
  <2>2. \A a \in D : g[a] = Body(g)[a]
    <3> HIDE DEF B, V, D
    <3> QED
      BY <2>1, <1>11
  <2>3. g = Body(g)
    BY <2>1, <2>2, <1>6
  <2> QED
    BY <2>3, <1>8
<1>16. \A a \in D : From[a] = BoundOf(From, heap[a], k)
  BY <1>5, <1>15
<1> DEFINE S == {a \in D : a \in f.live => Lists(From[a], {x \in f.own[a] : x >= k})}
<1>17. ASSUME NEW a \in D, \A b \in D : h[b] < h[a] => b \in S PROVE a \in S
  <2> SUFFICES ASSUME a \in f.live PROVE Lists(From[a], {x \in f.own[a] : x >= k})
    OBVIOUS
  <2>1. PICK g, p, c : g = From /\ p = Predict(heap[a], k) /\ c = heap[a].items[p].child
    OBVIOUS
  <2>2. p = Slot0(a) /\ c = Down(a)
    BY <2>1 DEF Slot0, Down
  <2>3. ASSUME p \in heap[a].child
        PROVE  Lists(g[c], {x \in KeysAt(heap[a], f.own[a], p) : x >= k})
    <3>1. c \in f.live /\ c \in D /\ h[c] < h[a] /\ f.own[c] = KeysAt(heap[a], f.own[a], p)
      BY <2>2, <2>3, <1>2, <1>3, <1>7
    <3>2. c \in S
      BY <3>1, <1>17
    <3> QED
      BY <2>1, <3>1, <3>2
  <2> HIDE DEF S
  <2>4. Lists(BoundOf(g, heap[a], k), {x \in f.own[a] : x >= k})
    BY <2>1, <2>3, BoundLists
  <2> QED
    BY <2>1, <2>4, <1>16
<1>18. D \subseteq S
  <2> HIDE DEF S, D
  <2> QED
    BY <1>7, <1>17, RankInduction
<1> QED
  BY <1>1, <1>2, <1>18

\* Once the root is not the node of build_tree_none, iteration from any key visits exactly the
\* stored items from there on, in order.
THEOREM LippIterationCorrect == Spec => []IterationCorrectOnceBuilt
<1>1. IInv => IterationCorrectOnceBuilt
  <2> SUFFICES ASSUME IInv, pc = "idle", heap[root].num_items > 1, NEW k \in Keys,
                      NEW visited, visited = LowerBound(k),
                      NEW ks, ks = Ascending({x \in contents : x >= k})
               PROVE  [n \in 1..Len(visited) |-> <<visited[n].key, visited[n].value>>]
                        = [n \in 1..Len(ks) |-> <<ks[n], ValueOf(ks[n])>>]
    BY DEF IterationCorrectOnceBuilt, IterationCorrect
  <2>1. PICK f : Forest(heap, Range(pending_two), f) /\ TheTree(f, contents)
    BY DEF IInv, Stage
  <2>2. Whole(f) /\ root \in f.live /\ f.own[root] = contents /\ f.roots = {root}
    BY <2>1, TreeIsAll DEF TheTree
  <2>3. Sizable(f)
    <3> SUFFICES ASSUME NEW c \in f.live, c # root PROVE heap[c].num_items > 1
      BY DEF Sizable
    <3>1. c \in f.live \ f.roots
      BY <2>2
    <3>2. PICK a \in f.live : \E p \in heap[a].child : heap[a].items[p].child = c
      BY <2>1, <3>1 DEF Forest, LinkOK
    <3>3. PICK p \in heap[a].child : heap[a].items[p].child = c
      BY <3>2
    <3>4. ChildOK(heap, f, a, p)
      BY <2>1, <2>2, <3>3, WholeChildren
    <3> QED
      BY <2>2, <3>3, <3>4 DEF ChildOK, Whole
  <2>4. PICK K, c : K = {x \in contents : x >= k} /\ c = Cardinality(K)
    OBVIOUS
  <2>5. K \in SUBSET Keys
    BY <2>4 DEF IInv
  <2>6. K \in SUBSET Int /\ K \in SUBSET Nat /\ IsFiniteSet(K) /\ k \in Nat
    BY <2>5, KeySets, LippAssumption
  <2>7. Lists(visited, K)
    BY <2>1, <2>2, <2>3, <2>4, <2>6, LowerBoundLists
  <2>8. c \in Nat /\ ks \in [1..c -> K] /\ \A i \in 1..c : Rank(K, ks[i]) = i - 1
    BY <2>4, <2>6, AscendingRanks
  <2>9. Len(ks) = c /\ Len(visited) = c
    BY <2>4, <2>7, <2>8 DEF Lists
  <2>10. ASSUME NEW i \in 1..c PROVE visited[i] = Data(ks[i])
    <3>1. PICK x \in K : x = ks[i]
      BY <2>8
    <3>2. Rank(K, x) = i - 1
      BY <2>8, <3>1
    <3>3. Rank(K, x) + 1 = i
      BY <3>2
    <3>4. visited[Rank(K, x) + 1] = Data(x)
      BY <2>7 DEF Lists
    <3> QED
      BY <3>1, <3>3, <3>4
  <2>11. ASSUME NEW i \in 1..c
         PROVE visited[i].key = ks[i] /\ visited[i].value = ValueOf(ks[i])
    <3>1. PICK x : x = ks[i]
      OBVIOUS
    <3>2. visited[i] = Data(x)
      BY <2>10, <3>1
    <3>3. Data(x).key = x /\ Data(x).value = ValueOf(x)
      BY DEF Data
    <3> QED
      BY <3>1, <3>2, <3>3
  <2> QED
    BY <2>9, <2>11
<1> QED
  BY <1>1, LippInvariant, PTL
=============================================================================
