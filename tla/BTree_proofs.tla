---------------------------- MODULE BTree_proofs ----------------------------
(***************************************************************************)
(* Proofs about BTree, for every key type, all numbers of slots and all    *)
(* bulk loads.                                                             *)
(***************************************************************************)
EXTENDS BTree, OrderTheorems, SequenceTheorems, TLAPS

-----------------------------------------------------------------------------
(* The inductive invariant. *)

Item == [key : Keys, id : Nat]
Node == [level : Nat, items : Seq(Item), prev : Nat, next : Nat,
         keys : Seq(Keys), child : Seq(Nat)]
Address == 1..Len(nodes)

Typed ==
  /\ pc \in {"new", "bulk", "idle", "unwind"} /\ nodes \in Seq(Node)
  /\ {root, head, tail, newchild} \subseteq 0..Len(nodes)
  /\ nextlevel \in Seq([node : Nat, max : Keys]) /\ stack \in Seq([node : Nat, slot : Nat])
  /\ pc # "unwind" => newchild = 0
  /\ pc \in {"new", "bulk"} => root = 0
  /\ IsFiniteSet(contents)

\* The nodes one level below another.
Below(level) == {c \in Address : nodes[c].level + 1 = level}

\* The slots of a node, and whether it has enough of them in use.
Slots(node) ==
  /\ Len(node.items) <= LeafSlots /\ Len(node.keys) <= InnerSlots
  /\ node.level > 0 =>
       Len(node.child) = Len(node.keys) + 1 /\ node.child \in Seq(Below(node.level))
EnoughUsed(node) ==
  IF node.level = 0 THEN Len(node.items) >= LeafSlots \div 2
  ELSE Len(node.keys) >= InnerSlots \div 2

ShapeOf(a) == nodes[a].level < a /\ Slots(nodes[a])
Shape == \A a \in Address : ShapeOf(a)

\* The root may have few slots in use, but not once it has been split.
RootMayUnderflow == ~(pc = "unwind" /\ stack = <<>>)
HalfFull == \A a \in Address : EnoughUsed(nodes[a]) \/ (a = root /\ RootMayUnderflow)

\* The nodes without a parent are of one level.
Bulk ==
  pc = "bulk" =>
    /\ Len(nextlevel) >= 2
    /\ \A i \in 1..Len(nextlevel) :
         /\ nextlevel[i].node \in Address
         /\ nodes[nextlevel[i].node].level = nodes[nextlevel[1].node].level

\* The stack goes down from the root, level by level, to the parent of newchild.
Unwind ==
  pc = "unwind" =>
    /\ root \in Address /\ newchild \in Address /\ newkey \in Keys
    /\ nodes[root].level = nodes[newchild].level + Len(stack)
    /\ stack # <<>> => stack[1].node = root
    /\ \A i \in 1..Len(stack) :
         /\ stack[i].node \in Address /\ stack[i].slot <= Len(nodes[stack[i].node].keys)
         /\ nodes[stack[i].node].level = nodes[newchild].level + Len(stack) - i + 1

IInv == Typed /\ Shape /\ HalfFull /\ Bulk /\ Unwind

-----------------------------------------------------------------------------
(* bulk_load shares evenly. *)

\* The numbers of slots, and half of them.
LEMMA SlotNumbers ==
  /\ LeafSlots \in Nat /\ LeafSlots >= 2 /\ InnerSlots \in Nat /\ InnerSlots >= 3
  /\ LeafSlots \div 2 \in Nat /\ 2 * (LeafSlots \div 2) <= LeafSlots /\ LeafSlots \div 2 >= 1
  /\ InnerSlots \div 2 \in Nat /\ 2 * (InnerSlots \div 2) <= InnerSlots
  /\ LeafSlots <= 2 * (LeafSlots \div 2) + 1
  /\ InnerSlots <= 2 * (InnerSlots \div 2) + 1 /\ InnerSlots \div 2 >= 1
<1>1. LeafSlots \in Nat /\ LeafSlots >= 2 /\ InnerSlots \in Nat /\ InnerSlots >= 3
  BY BTreeAssumption
<1> QED
  BY <1>1

\* What a quotient is.
LEMMA Quotient ==
  ASSUME NEW a \in Nat, NEW r \in Nat \ {0}
  PROVE  a \div r \in Nat /\ r * (a \div r) <= a /\ a < r * (a \div r) + r
  BY SMT

\* There is no other.
LEMMA QuotientIs ==
  ASSUME NEW a \in Nat, NEW r \in Nat \ {0}, NEW q \in Nat, r * q <= a, a < r * q + r
  PROVE  a \div r = q
<1> DEFINE p == a \div r
<1>1. p \in Nat /\ r * p <= a /\ a < r * p + r
  BY Quotient
<1> HIDE DEF p
<1>2. ~(p < q)
  <2> SUFFICES ASSUME p + 1 <= q PROVE FALSE
    BY <1>1
  <2>1. r * (p + 1) <= r * q
    BY <1>1
  <2>2. r * (p + 1) = r * p + r /\ r * p \in Nat /\ r * q \in Nat
    BY <1>1
  <2> QED
    BY <2>1, <2>2, <1>1
<1>3. ~(q < p)
  <2> SUFFICES ASSUME q + 1 <= p PROVE FALSE
    BY <1>1
  <2>1. r * (q + 1) <= r * p
    BY <1>1
  <2>2. r * (q + 1) = r * q + r /\ r * p \in Nat /\ r * q \in Nat
    BY <1>1
  <2> QED
    BY <2>1, <2>2, <1>1
<1> QED
  BY <1>1, <1>2, <1>3 DEF p

\* One of r nodes takes its part of what is left, and the others have no less and no more
\* to share than they can take.
LEMMA ShareStep ==
  ASSUME NEW left \in Nat, NEW r \in Nat \ {0}, NEW lo \in Nat, NEW hi \in Nat,
         r * lo <= left, left <= r * hi
  PROVE  LET rest == CeilDiv(left * (r - 1), r)
         IN  /\ rest \in 0..left /\ left - rest \in lo..hi
             /\ (r - 1) * lo <= rest /\ rest <= (r - 1) * hi
<1> DEFINE q == left \div r
           rest == left - q
<1>1. q \in Nat /\ r * q <= left /\ left < r * q + r
  BY Quotient
<1> HIDE DEF q
<1>2. q <= left
  <2>1. r * q = (r - 1) * q + q /\ (r - 1) * q \in Nat
    BY <1>1
  <2> QED
    BY <2>1, <1>1
<1>3. lo <= q
  <2> SUFFICES ASSUME q + 1 <= lo PROVE FALSE
    BY <1>1
  <2>1. r * (q + 1) <= r * lo /\ r * (q + 1) = r * q + r /\ r * q \in Nat /\ r * lo \in Nat
    BY <1>1
  <2> QED
    BY <2>1, <1>1
<1>4. q <= hi
  <2> SUFFICES ASSUME hi + 1 <= q PROVE FALSE
    BY <1>1
  <2>1. r * (hi + 1) <= r * q /\ r * (hi + 1) = r * hi + r /\ r * q \in Nat /\ r * hi \in Nat
    BY <1>1
  <2> QED
    BY <2>1, <1>1
<1>5. CeilDiv(left * (r - 1), r) = rest
  <2> DEFINE a == left * (r - 1) + r - 1
  <2>1. left * (r - 1) = left * r - left /\ left * r \in Nat /\ left * (r - 1) \in Nat
    OBVIOUS
  <2>2. r * rest = left * r - r * q /\ r * q \in Nat
    BY <1>1
  <2>3. a \in Nat /\ r * rest <= a /\ a < r * rest + r /\ rest \in Nat
    BY <2>1, <2>2, <1>1, <1>2
  <2> HIDE DEF a, rest
  <2>4. a \div r = rest
    BY <2>3, QuotientIs
  <2> QED
    BY <2>4 DEF CeilDiv, a
<1>6. (r - 1) * lo <= rest /\ rest <= (r - 1) * hi
  <2>1. (r - 1) * lo <= (r - 1) * q /\ (r - 1) * q <= (r - 1) * hi
    BY <1>1, <1>3, <1>4
  <2>2. (r - 1) * q = r * q - q /\ r * q \in Nat /\ (r - 1) * hi \in Nat /\ (r - 1) * lo \in Nat
    BY <1>1
  <2>3. (r - 1) * lo <= rest
    BY <2>1, <2>2, <1>1
  <2>4. rest <= (r - 1) * hi
    <3>1. CASE q = hi
      <4>1. (r - 1) * hi = r * hi - hi /\ r * hi \in Nat
        OBVIOUS
      <4> QED
        BY <3>1, <4>1, <1>1
    <3>2. CASE q + 1 <= hi
      <4>1. (r - 1) * (q + 1) <= (r - 1) * hi
        BY <1>1, <3>2
      <4>2. (r - 1) * (q + 1) = r * q - q + r - 1
        BY <1>1
      <4> QED
        BY <4>1, <4>2, <2>2, <1>1
    <3> QED
      BY <3>1, <3>2, <1>1, <1>4
  <2> QED
    BY <2>3, <2>4
<1> QED
  BY <1>1, <1>2, <1>3, <1>4, <1>5, <1>6

\* Each of m nodes gets at least lo and at most hi of n things, if these are enough and
\* not too many.
LEMMA ShareParts ==
  ASSUME NEW n \in Nat, NEW m \in Nat, NEW lo \in Nat, NEW hi \in Nat,
         m * lo <= n, n <= m * hi
  PROVE  /\ \A i \in 1..m : /\ Share(n, m)[i].from \in 1..(n + 1)
                            /\ Share(n, m)[i].to \in 0..n
                            /\ Share(n, m)[i].to - Share(n, m)[i].from + 1 \in lo..hi
<1> DEFINE Body(g) == [i \in 0..m |-> IF i = 0 THEN n
                                      ELSE CeilDiv(g[i - 1] * (m - i), m - i + 1)]
           Solves(f, j) == /\ f = [i \in 0..m |-> f[i]]
                           /\ \A i \in 0..j : f[i] = Body(f)[i]
           Bad == {j \in 0..m : ~ \E f : Solves(f, j)}
           Left == CHOOSE g : g = Body(g)
<1>1. Bad = {}
  <2> SUFFICES ASSUME Bad # {} PROVE FALSE
    OBVIOUS
  <2>1. Bad \in SUBSET Int /\ 0 \in Int /\ \A x \in Bad : 0 <= x
    OBVIOUS
  <2> DEFINE j == Min(Bad)
  <2>2. j \in Bad /\ \A x \in Bad : j <= x
    <3> HIDE DEF Bad
    <3> QED
      BY <2>1, LeastElement
  <2> HIDE DEF j
  <2>3. j \in 0..m
    BY <2>2
  <2>4. CASE j = 0
    <3> DEFINE f == [i \in 0..m |-> n]
    <3>1. Solves(f, 0)
      OBVIOUS
    <3> QED
      BY <2>2, <2>4, <3>1
  <2>5. CASE j # 0
    <3>1. j - 1 \in 0..m /\ j - 1 \notin Bad
      <4> HIDE DEF Bad
      <4> QED
        BY <2>2, <2>3, <2>5
    <3>2. PICK f : Solves(f, j - 1)
      BY <3>1
    <3> DEFINE g == [i \in 0..m |-> IF i = j THEN Body(f)[j] ELSE f[i]]
    <3>3. ASSUME NEW i \in 0..j
          PROVE  g[i] = Body(g)[i]
      <4>1. i \in 0..m /\ (i # j => i \in 0..(j - 1)) /\ (i # 0 => i - 1 \in 0..m /\ i - 1 # j)
        BY <2>3
      <4>2. i # 0 => g[i - 1] = f[i - 1]
        BY <4>1
      <4>3. Body(g)[i] = Body(f)[i]
        BY <4>1, <4>2
      <4>4. g[i] = Body(f)[i]
        <5> HIDE DEF Body
        <5> QED
          BY <4>1, <3>2
      <4> QED
        BY <4>3, <4>4
    <3>4. Solves(g, j)
      BY <3>3
    <3> QED
      BY <2>2, <3>4
  <2> QED
    BY <2>4, <2>5
<1>2. Left = Body(Left)
  <2>1. PICK f : Solves(f, m)
    <3>1. m \in 0..m
      OBVIOUS
    <3> QED
      BY <1>1, <3>1
  <2>2. DOMAIN Body(f) = 0..m /\ Body(f) = [i \in 0..m |-> Body(f)[i]]
    OBVIOUS
  <2>3. f = [i \in 0..m |-> f[i]]
    BY <2>1
  <2>4. f = Body(f)
    <3> HIDE DEF Body
    <3> QED
      BY <2>1, <2>2, <2>3
  <2> HIDE DEF Body
  <2> QED
    BY <2>4
<1> HIDE DEF Left
<1>3. /\ Left[0] = n
      /\ \A i \in 1..m : Left[i] = CeilDiv(Left[i - 1] * (m - i), m - i + 1)
  BY <1>2
<1> DEFINE Fits(i) == /\ Left[i] \in 0..n
                      /\ (m - i) * lo <= Left[i] /\ Left[i] <= (m - i) * hi
           Out == {i \in 0..m : ~Fits(i)}
<1>4. ASSUME NEW i \in 1..m, Fits(i - 1)
      PROVE  Fits(i) /\ Left[i - 1] - Left[i] \in lo..hi
  <2> DEFINE left == Left[i - 1]
             r == m - i + 1
             rest == CeilDiv(left * (r - 1), r)
  <2>1. r \in Nat \ {0} /\ m - (i - 1) = r /\ r - 1 = m - i
    OBVIOUS
  <2>2. left \in Nat /\ left <= n /\ r * lo <= left /\ left <= r * hi
    BY <1>4, <2>1
  <2>3. Left[i] = rest
    BY <1>3, <2>1
  <2> HIDE DEF r, left
  <2>4. /\ rest \in 0..left /\ left - rest \in lo..hi
        /\ (r - 1) * lo <= rest /\ rest <= (r - 1) * hi
    BY <2>1, <2>2, ShareStep
  <2> HIDE DEF rest
  <2>5. Left[i] \in 0..n
    BY <2>2, <2>3, <2>4
  <2>6. (m - i) * lo <= Left[i] /\ Left[i] <= (m - i) * hi
    BY <2>1, <2>3, <2>4
  <2>7. Left[i - 1] - Left[i] \in lo..hi
    BY <2>3, <2>4 DEF left
  <2> QED
    BY <2>5, <2>6, <2>7
<1>5. Out = {}
  <2> SUFFICES ASSUME Out # {} PROVE FALSE
    OBVIOUS
  <2>1. Out \in SUBSET Int /\ 0 \in Int /\ \A x \in Out : 0 <= x
    OBVIOUS
  <2> DEFINE j == Min(Out)
  <2>2. j \in Out /\ \A x \in Out : j <= x
    <3> HIDE DEF Out
    <3> QED
      BY <2>1, LeastElement
  <2> HIDE DEF j
  <2>3. j \in 0..m /\ ~Fits(j)
    BY <2>2
  <2>4. Fits(0)
    BY <1>3
  <2> HIDE DEF Fits
  <2>5. j \in 1..m /\ j - 1 \in 0..m
    BY <2>3, <2>4
  <2>6. Fits(j - 1)
    BY <2>2, <2>5
  <2> QED
    BY <2>3, <2>5, <2>6, <1>4
<1>6. Share(n, m) = [i \in 1..m |-> [from |-> n - Left[i - 1] + 1, to |-> n - Left[i]]]
  BY DEF Share, Left
<1> QED
  <2> SUFFICES ASSUME NEW i \in 1..m
               PROVE  /\ n - Left[i - 1] + 1 \in 1..(n + 1) /\ n - Left[i] \in 0..n
                      /\ (n - Left[i]) - (n - Left[i - 1] + 1) + 1 \in lo..hi
    BY <1>6
  <2>1. i - 1 \in 0..m /\ i \in 0..m
    OBVIOUS
  <2>2. Fits(i - 1) /\ Fits(i)
    <3> HIDE DEF Fits
    <3> QED
      BY <2>1, <1>5
  <2>3. Left[i - 1] - Left[i] \in lo..hi
    BY <2>2, <1>4
  <2>4. Left[i - 1] \in 0..n /\ Left[i] \in 0..n
    BY <2>2
  <2> QED
    BY <2>3, <2>4

\* How many nodes bulk_load makes: enough, and so few that each is at least half full,
\* unless it is one.
LEMMA NodesNeeded ==
  ASSUME NEW n \in Nat, NEW hi \in Nat \ {0}, NEW lo \in Nat, 2 * lo <= hi + 1
  PROVE  LET m == CeilDiv(n, hi)
         IN  /\ m \in Nat /\ n <= m * hi /\ (n > 0 => m > 0) /\ (n = 0 => m = 0)
             /\ n > hi => m >= 2
             /\ m > 1 => m * lo <= n
<1> DEFINE m == CeilDiv(n, hi)
<1>1. m \in Nat /\ hi * m <= n + hi - 1 /\ n + hi - 1 < hi * m + hi
  <2>1. n + hi - 1 \in Nat
    OBVIOUS
  <2> QED
    BY <2>1, Quotient DEF CeilDiv
<1> HIDE DEF m
<1>2. hi * m \in Nat /\ m * hi = hi * m
  BY <1>1
<1>3. n <= m * hi
  BY <1>1, <1>2
<1>4. n > 0 => m > 0
  BY <1>1
<1>5. n = 0 => m = 0
  <2> SUFFICES ASSUME n = 0, m >= 1 PROVE FALSE
    BY <1>1
  <2>1. hi * m >= hi
    BY <1>1
  <2> QED
    BY <2>1, <1>1, <1>2
<1>6. n > hi => m >= 2
  <2> SUFFICES ASSUME n > hi, m <= 1 PROVE FALSE
    BY <1>1
  <2>1. m * hi <= hi
    BY <1>1
  <2> QED
    BY <2>1, <1>3, <1>2
<1>7. m > 1 => m * lo <= n
  <2> SUFFICES ASSUME m > 1 PROVE m * lo <= n
    OBVIOUS
  <2> DEFINE k == m - 2
  <2>1. k \in Nat /\ m = k + 2
    BY <1>1
  <2> HIDE DEF k
  <2>2. hi * m = hi * k + 2 * hi /\ m * lo = k * lo + 2 * lo /\ hi * k \in Nat /\ k * lo \in Nat
    BY <2>1
  <2>3. k * lo <= hi * k
    <3>1. lo <= hi
      OBVIOUS
    <3> QED
      BY <3>1, <2>1
  <2> QED
    BY <2>2, <2>3, <1>1
<1> QED
  BY <1>1, <1>3, <1>4, <1>5, <1>6, <1>7 DEF m

-----------------------------------------------------------------------------
(* The descent. *)

\* find_lower answers a slot of the node or the one after its last.
LEMMA SlotInside ==
  ASSUME NEW a, Len(SlotKeys(a)) \in Nat, NEW k
  PROVE  FindLower(a, k) \in 0..Len(SlotKeys(a))
<1> DEFINE L == Len(SlotKeys(a))
           S == {n \in 1..L : SlotKeys(a)[n] < k}
<1>1. IsFiniteSet(1..L) /\ Cardinality(1..L) = L
  <2>1. L \in Nat
    OBVIOUS
  <2> HIDE DEF L
  <2> QED
    BY <2>1, FS_Interval
<1>2. S \subseteq 1..L
  OBVIOUS
<1> HIDE DEF S
<1>3. IsFiniteSet(S) /\ Cardinality(S) <= L
  BY <1>1, <1>2, FS_Subset
<1>4. Cardinality(S) \in Nat
  BY <1>3, FS_CardinalityType
<1> QED
  BY <1>3, <1>4 DEF FindLower, S

\* A node that is not a leaf has a child to go on with, one level down.
LEMMA ChildBelow ==
  ASSUME nodes \in Seq(Node), Shape, NEW a \in Address, nodes[a].level > 0, NEW k
  PROVE  LET c == nodes[a].child[FindLower(a, k) + 1]
         IN  /\ FindLower(a, k) \in 0..Len(nodes[a].keys)
             /\ c \in Address /\ nodes[c].level + 1 = nodes[a].level
<1>1. nodes[a] \in Node
  BY DEF Address
<1>2. nodes[a].keys \in Seq(Keys) /\ nodes[a].child \in Seq(Nat)
  BY <1>1 DEF Node
<1>3. SlotKeys(a) = nodes[a].keys
  BY DEF SlotKeys
<1>4. Len(nodes[a].keys) \in Nat
  BY <1>2
<1>5. FindLower(a, k) \in 0..Len(nodes[a].keys)
  BY <1>3, <1>4, SlotInside
<1>6. Slots(nodes[a])
  BY DEF Shape, ShapeOf
<1>7. Len(nodes[a].child) = Len(nodes[a].keys) + 1 /\ nodes[a].child \in Seq(Below(nodes[a].level))
  BY <1>6 DEF Slots
<1>8. FindLower(a, k) + 1 \in 1..Len(nodes[a].child)
  BY <1>4, <1>5, <1>7
<1>9. nodes[a].child[FindLower(a, k) + 1] \in Below(nodes[a].level)
  BY <1>7, <1>8
<1> QED
  BY <1>5, <1>9 DEF Below

\* insert_descend goes from the root down level by level to a leaf.
LEMMA DescentPath ==
  ASSUME nodes \in Seq(Node), Shape, root \in Address, NEW k
  PROVE  LET path == Descent(k, FindLower)
         IN  /\ path \in Seq(Address) /\ Len(path) = nodes[root].level + 1
             /\ path[1] = root
             /\ \A i \in 1..Len(path) : nodes[path[i]].level = nodes[root].level - (i - 1)
<1> DEFINE level(a) == nodes[a].level
           Down(a) == nodes[a].child[FindLower(a, k) + 1]
           Body(g) == [a \in 1..Len(nodes) |-> IF nodes[a].level = 0 THEN <<a>>
                                               ELSE <<a>> \o g[Down(a)]]
           Solves(f, j) == /\ f = [a \in Address |-> f[a]]
                           /\ \A a \in Address : level(a) <= j => f[a] = Body(f)[a]
           Bad == {j \in Nat : ~ \E f : Solves(f, j)}
           From == CHOOSE g : g = Body(g)
<1>1. /\ Len(nodes) \in Nat
      /\ \A a \in Address : /\ level(a) \in Nat /\ level(a) < Len(nodes)
                            /\ level(a) # 0 => Down(a) \in Address /\ level(Down(a)) = level(a) - 1
  <2>1. Len(nodes) \in Nat
    OBVIOUS
  <2>2. ASSUME NEW a \in Address
        PROVE  level(a) \in Nat /\ level(a) < Len(nodes)
    <3>1. nodes[a] \in Node /\ nodes[a].level < a /\ a <= Len(nodes) /\ a \in Nat
      BY <2>1 DEF Address, Shape, ShapeOf
    <3>2. nodes[a].level \in Nat
      BY <3>1 DEF Node
    <3> QED
      BY <3>1, <3>2, <2>1
  <2>3. ASSUME NEW a \in Address, level(a) # 0
        PROVE  Down(a) \in Address /\ level(Down(a)) = level(a) - 1
    <3>1. nodes[a].level > 0
      BY <2>2, <2>3
    <3>2. Down(a) \in Address /\ nodes[Down(a)].level + 1 = nodes[a].level
      BY <3>1, ChildBelow
    <3>3. level(Down(a)) \in Nat
      BY <2>2, <3>2
    <3> QED
      BY <3>2, <3>3
  <2> QED
    BY <2>1, <2>2, <2>3
<1>2. \A g : \A a \in Address :
        Body(g)[a] = IF level(a) = 0 THEN <<a>> ELSE <<a>> \o g[Down(a)]
  BY DEF Address
<1>3. \A g : Body(g) = [a \in Address |-> Body(g)[a]]
  BY DEF Address
<1>4. From = CHOOSE g : g = Body(g)
  OBVIOUS
<1>5. Descent(k, FindLower) = From[root]
  BY DEF Descent
<1> HIDE DEF Body, From, Down, level
<1>6. Bad = {}
  <2> SUFFICES ASSUME Bad # {} PROVE FALSE
    OBVIOUS
  <2>1. Bad \in SUBSET Int /\ 0 \in Int /\ \A x \in Bad : 0 <= x
    OBVIOUS
  <2> DEFINE j == Min(Bad)
  <2>2. j \in Bad /\ \A x \in Bad : j <= x
    <3> HIDE DEF Bad
    <3> QED
      BY <2>1, LeastElement
  <2> HIDE DEF j
  <2>3. j \in Nat
    BY <2>2
  <2>4. CASE j = 0
    <3> DEFINE f == [a \in Address |-> <<a>>]
    <3>1. ASSUME NEW a \in Address, level(a) <= 0
          PROVE  f[a] = Body(f)[a]
      <4>1. level(a) = 0
        BY <3>1, <1>1
      <4>2. Body(f)[a] = <<a>>
        <5> HIDE DEF f
        <5> QED
          BY <4>1, <1>2
      <4> QED
        BY <4>2
    <3>2. f = [a \in Address |-> f[a]]
      OBVIOUS
    <3>3. Solves(f, 0)
      <4> HIDE DEF f
      <4> QED
        BY <3>1, <3>2
    <3> QED
      BY <2>2, <2>4, <3>3
  <2>5. CASE j # 0
    <3>1. j - 1 \in Nat /\ j - 1 \notin Bad
      <4> HIDE DEF Bad
      <4> QED
        BY <2>2, <2>3, <2>5
    <3>2. PICK f : Solves(f, j - 1)
      BY <3>1
    <3> DEFINE g == [a \in Address |-> IF level(a) = j THEN Body(f)[a] ELSE f[a]]
    <3>3. ASSUME NEW a \in Address, level(a) <= j
          PROVE  g[a] = Body(g)[a]
      <4>1. level(a) # 0 => g[Down(a)] = f[Down(a)]
        BY <3>3, <1>1, <2>3
      <4>2. Body(g)[a] = Body(f)[a]
        BY <4>1, <1>2
      <4>3. level(a) # j => level(a) <= j - 1
        BY <3>3, <1>1, <2>3
      <4>4. g[a] = Body(f)[a]
        BY <4>3, <3>2
      <4> QED
        BY <4>2, <4>4
    <3>4. g = [a \in Address |-> g[a]]
      OBVIOUS
    <3>5. Solves(g, j)
      <4> HIDE DEF g
      <4> QED
        BY <3>3, <3>4
    <3> QED
      BY <2>2, <3>5
  <2> QED
    BY <2>4, <2>5
<1>7. From = Body(From)
  <2>1. PICK f : Solves(f, Len(nodes))
    BY <1>1, <1>6
  <2>2. \A a \in Address : f[a] = Body(f)[a]
    BY <2>1, <1>1
  <2>3. f = Body(f)
    BY <2>1, <2>2, <1>3
  <2> QED
    BY <2>3, <1>4
<1>8. \A a \in Address :
        From[a] = IF level(a) = 0 THEN <<a>> ELSE <<a>> \o From[Down(a)]
  BY <1>2, <1>7
<1> DEFINE Good(a) ==
             /\ From[a] \in Seq(Address) /\ Len(From[a]) = level(a) + 1 /\ From[a][1] = a
             /\ \A i \in 1..Len(From[a]) : level(From[a][i]) = level(a) - (i - 1)
           Out == {level(a) : a \in {b \in Address : ~Good(b)}}
<1>9. ASSUME NEW a \in Address, level(a) # 0 => Good(Down(a))
      PROVE  Good(a)
  <2>1. CASE level(a) = 0
    <3>1. From[a] = <<a>>
      BY <2>1, <1>8
    <3> QED
      BY <3>1, <2>1
  <2>2. CASE level(a) # 0
    <3> DEFINE c == Down(a)
               t == From[c]
    <3>1. /\ c \in Address /\ level(c) = level(a) - 1 /\ level(a) \in Nat /\ level(c) \in Nat
          /\ t \in Seq(Address) /\ Len(t) = level(c) + 1
          /\ \A i \in 1..Len(t) : level(t[i]) = level(c) - (i - 1)
      BY <2>2, <1>1, <1>9
    <3>2. From[a] = <<a>> \o t
      BY <2>2, <1>8
    <3> HIDE DEF c, t
    <3>3. /\ <<a>> \o t \in Seq(Address) /\ Len(<<a>> \o t) = level(a) + 1
          /\ (<<a>> \o t)[1] = a
          /\ \A i \in 2..(level(a) + 1) : (<<a>> \o t)[i] = t[i - 1]
      BY <3>1
    <3>4. ASSUME NEW i \in 1..(level(a) + 1)
          PROVE  level((<<a>> \o t)[i]) = level(a) - (i - 1)
      <4>1. CASE i = 1
        BY <4>1, <3>1, <3>3
      <4>2. CASE i # 1
        <5>1. i \in 2..(level(a) + 1) /\ i - 1 \in 1..Len(t)
          BY <4>2, <3>1
        <5> QED
          BY <5>1, <3>1, <3>3
      <4> QED
        BY <4>1, <4>2
    <3> QED
      BY <3>2, <3>3, <3>4
  <2> QED
    BY <2>1, <2>2
<1> HIDE DEF Good
<1>10. Out = {}
  <2> SUFFICES ASSUME Out # {} PROVE FALSE
    OBVIOUS
  <2>1. Out \in SUBSET Int /\ 0 \in Int /\ \A x \in Out : 0 <= x
    BY <1>1
  <2> DEFINE j == Min(Out)
  <2>2. j \in Out /\ \A x \in Out : j <= x
    <3> HIDE DEF Out
    <3> QED
      BY <2>1, LeastElement
  <2> HIDE DEF j
  <2>3. PICK a \in Address : ~Good(a) /\ level(a) = j
    BY <2>2
  <2>4. level(a) # 0 => Good(Down(a))
    <3> SUFFICES ASSUME level(a) # 0, ~Good(Down(a)) PROVE FALSE
      OBVIOUS
    <3>1. Down(a) \in Address /\ level(Down(a)) = level(a) - 1 /\ level(a) \in Nat
      BY <1>1
    <3>2. level(Down(a)) \in Out
      BY <3>1
    <3>3. j <= level(Down(a))
      BY <3>2, <2>2
    <3> QED
      BY <3>1, <3>3, <2>3
  <2> QED
    BY <2>3, <2>4, <1>9
<1>11. Good(root)
  BY <1>10
<1> QED
  BY <1>5, <1>11 DEF Good, level

-----------------------------------------------------------------------------
(* What the steps do to nodes. *)

\* Nodes of one level stay nodes of this level, so that what is not touched keeps its
\* shape.
LEMMA ShapeKept ==
  ASSUME nodes \in Seq(Node), nodes' \in Seq(Node), Len(nodes) <= Len(nodes'),
         \A c \in Address : nodes'[c].level = nodes[c].level
  PROVE  /\ Address \subseteq Address'
         /\ \A level : Below(level) \subseteq Below(level)'
         /\ \A level : Seq(Below(level)) \subseteq Seq(Below(level)')
<1>1. Address \subseteq Address'
  BY DEF Address
<1>2. \A level : Below(level) \subseteq Below(level)'
  BY <1>1 DEF Below
<1>3. \A level : Seq(Below(level)) \subseteq Seq(Below(level)')
  BY <1>2, SeqMonotonic
<1> QED
  BY <1>1, <1>2, <1>3

\* A node of a sequence of nodes.
LEMMA NodeFields ==
  ASSUME nodes \in Seq(Node), NEW a \in Address
  PROVE  /\ Len(nodes) \in Nat /\ a \in Nat \ {0} /\ a <= Len(nodes) /\ nodes[a] \in Node
         /\ nodes[a].level \in Nat /\ nodes[a].items \in Seq(Item)
         /\ nodes[a].keys \in Seq(Keys) /\ nodes[a].child \in Seq(Nat)
         /\ nodes[a].prev \in Nat /\ nodes[a].next \in Nat
         /\ Len(nodes[a].items) \in Nat /\ Len(nodes[a].keys) \in Nat
<1>1. Len(nodes) \in Nat /\ a \in Nat \ {0} /\ a <= Len(nodes) /\ nodes[a] \in Node
  BY DEF Address
<1>2. /\ nodes[a].level \in Nat /\ nodes[a].items \in Seq(Item)
      /\ nodes[a].keys \in Seq(Keys) /\ nodes[a].child \in Seq(Nat)
      /\ nodes[a].prev \in Nat /\ nodes[a].next \in Nat
  BY <1>1 DEF Node
<1> QED
  BY <1>1, <1>2

\* Moving elements up makes room for one.
LEMMA InsertAtGrows ==
  ASSUME NEW S, NEW s \in Seq(S), NEW i \in 1..(Len(s) + 1), NEW e \in S
  PROVE  InsertAt(s, i, e) \in Seq(S) /\ Len(InsertAt(s, i, e)) = Len(s) + 1
<1> DEFINE l == SubSeq(s, 1, i - 1)
           r == SubSeq(s, i, Len(s))
<1>1. l \in Seq(S) /\ Len(l) = i - 1
  OBVIOUS
<1>2. r \in Seq(S) /\ Len(r) = Len(s) - i + 1
  OBVIOUS
<1> HIDE DEF l, r
<1>3. <<e>> \in Seq(S) /\ Len(<<e>>) = 1
  OBVIOUS
<1>4. (l \o <<e>>) \in Seq(S) /\ Len(l \o <<e>>) = i
  BY <1>1, <1>3
<1>5. (l \o <<e>>) \o r \in Seq(S) /\ Len((l \o <<e>>) \o r) = Len(s) + 1
  BY <1>2, <1>4
<1> QED
  BY <1>5 DEF InsertAt, l, r

\* A part of a sequence.
LEMMA PartOf ==
  ASSUME NEW S, NEW s \in Seq(S), NEW i \in 1..(Len(s) + 1), NEW j \in (i - 1)..Len(s)
  PROVE  SubSeq(s, i, j) \in Seq(S) /\ Len(SubSeq(s, i, j)) = j - i + 1
  BY SubSeqProperties

\* The node of an inner slot that has been given a key and a child.
LEMMA WithChildSlots ==
  ASSUME NEW node \in Node, NEW B \in SUBSET Nat, NEW c \in B, NEW k \in Keys, NEW slot \in Nat,
         slot <= Len(node.keys), node.child \in Seq(B), Len(node.child) = Len(node.keys) + 1
  PROVE  LET new == WithChild(node, slot, k, c)
         IN  /\ new \in Node /\ new.level = node.level /\ new.items = node.items
             /\ Len(new.keys) = Len(node.keys) + 1 /\ Len(new.child) = Len(new.keys) + 1
             /\ new.child \in Seq(B)
<1> DEFINE ks == InsertAt(node.keys, slot + 1, k)
           cs == InsertAt(node.child, slot + 2, c)
           new == WithChild(node, slot, k, c)
<1>1. node.keys \in Seq(Keys) /\ Len(node.keys) \in Nat
  BY DEF Node
<1>2. ks \in Seq(Keys) /\ Len(ks) = Len(node.keys) + 1
  <2>1. slot + 1 \in 1..(Len(node.keys) + 1)
    BY <1>1
  <2> QED
    BY <1>1, <2>1, InsertAtGrows
<1>3. cs \in Seq(B) /\ Len(cs) = Len(node.child) + 1
  <2>1. slot + 2 \in 1..(Len(node.child) + 1)
    BY <1>1
  <2> QED
    BY <2>1, InsertAtGrows
<1>4. cs \in Seq(Nat)
  BY <1>3, SeqMonotonic
<1>5. new = [node EXCEPT !.keys = ks, !.child = cs]
  BY DEF WithChild
<1> HIDE DEF ks, cs, new
<1>6. new \in Node /\ new.level = node.level /\ new.items = node.items /\ new.keys = ks /\ new.child = cs
  BY <1>2, <1>4, <1>5 DEF Node
<1> QED
  BY <1>2, <1>3, <1>6 DEF new

\* A node whose slots are the same has the shape it had.
LEMMA UntouchedNode ==
  ASSUME nodes \in Seq(Node), nodes' \in Seq(Node), Len(nodes) <= Len(nodes'), Shape,
         \A c \in Address : nodes'[c].level = nodes[c].level, NEW a \in Address,
         nodes'[a].items = nodes[a].items, nodes'[a].keys = nodes[a].keys,
         nodes'[a].child = nodes[a].child
  PROVE  ShapeOf(a)' /\ (EnoughUsed(nodes[a]) => EnoughUsed(nodes'[a]))
<1>1. \A level : Seq(Below(level)) \subseteq Seq(Below(level)')
  BY ShapeKept
<1>2. nodes[a].level < a /\ Slots(nodes[a]) /\ nodes'[a].level = nodes[a].level
  BY DEF Shape, ShapeOf
<1>3. Slots(nodes[a])'
  BY <1>1, <1>2 DEF Slots
<1> QED
  BY <1>2, <1>3 DEF ShapeOf, EnoughUsed

\* The leaf that insert_descend comes to, and the slot for the key in it.
LEMMA LeafReached ==
  ASSUME nodes \in Seq(Node), Shape, root \in Address, NEW k
  PROVE  LET a == Last(Descent(k, FindLower))
         IN  /\ a \in Address /\ nodes[a].level = 0
             /\ FindLower(a, k) \in 0..Len(nodes[a].items)
<1> DEFINE path == Descent(k, FindLower)
           a == Last(path)
<1>1. /\ path \in Seq(Address) /\ Len(path) = nodes[root].level + 1
      /\ \A i \in 1..Len(path) : nodes[path[i]].level = nodes[root].level - (i - 1)
  BY DescentPath
<1> HIDE DEF path
<1>2. nodes[root].level \in Nat
  BY NodeFields
<1>3. Len(path) \in 1..Len(path) /\ a = path[Len(path)]
  BY <1>1, <1>2 DEF Last
<1>4. a \in Address /\ nodes[a].level = 0
  <2>1. path[Len(path)] \in Address
    BY <1>1, <1>3
  <2>2. nodes[path[Len(path)]].level = nodes[root].level - (Len(path) - 1)
    BY <1>1, <1>3
  <2>3. nodes[path[Len(path)]].level = 0
    BY <2>2, <1>1, <1>2
  <2> HIDE DEF a
  <2> QED
    BY <2>1, <2>3, <1>3
<1> HIDE DEF a
<1>5. Len(SlotKeys(a)) = Len(nodes[a].items) /\ Len(nodes[a].items) \in Nat
  <2>1. Len(nodes[a].items) \in Nat
    BY <1>4, NodeFields
  <2>2. SlotKeys(a) = [n \in 1..Len(nodes[a].items) |-> nodes[a].items[n].key]
    BY <1>4 DEF SlotKeys
  <2> QED
    BY <2>1, <2>2
<1>6. FindLower(a, k) \in 0..Len(nodes[a].items)
  BY <1>5, SlotInside
<1> QED
  BY <1>4, <1>6 DEF a, path

\* The item of a call of insert.
LEMMA NewItemIs ==
  ASSUME IsFiniteSet(contents), NEW k \in Keys
  PROVE  /\ NewItem(k) \in Item
         /\ Remember(k) => IsFiniteSet(contents')
<1>1. Cardinality(contents) \in Nat
  BY FS_CardinalityType
<1>2. IsFiniteSet(contents \cup {NewItem(k)})
  BY FS_AddElement
<1>3. NewItem(k) \in Item
  BY <1>1 DEF NewItem, Item
<1>4. Remember(k) => contents' = contents \cup {NewItem(k)}
  BY DEF Remember
<1> QED
  BY <1>2, <1>3, <1>4

-----------------------------------------------------------------------------
(* insert at the leaf. *)

\* The first leaf.
LEMMA InsertFirstStep ==
  ASSUME IInv, NEW k \in Keys, InsertFirst(k)
  PROVE  IInv'
<1> DEFINE leaf == Leaf(<<NewItem(k)>>, 0, 0)
<1>1. /\ pc = "idle" /\ pc' = "idle" /\ nodes' = <<leaf>> /\ root' = 1 /\ head' = 1 /\ tail' = 1
      /\ nextlevel' = nextlevel /\ stack' = stack /\ newchild' = newchild
  BY DEF InsertFirst
<1>2. Typed
  BY DEF IInv
<1>3. NewItem(k) \in Item /\ IsFiniteSet(contents')
  BY <1>2, NewItemIs DEF Typed, InsertFirst
<1>4. leaf \in Node /\ leaf.level = 0 /\ Len(leaf.items) = 1 /\ Len(leaf.keys) = 0
  BY <1>3 DEF Leaf, Node
<1> HIDE DEF leaf
<1>5. nodes' \in Seq(Node) /\ Len(nodes') = 1 /\ Address' = {1} /\ nodes'[1] = leaf
  BY <1>1, <1>4 DEF Address
<1>6. Typed'
  BY <1>1, <1>2, <1>3, <1>5 DEF Typed
<1>7. Shape'
  <2>1. nodes'[1].level = 0 /\ nodes'[1].level < 1
    BY <1>4, <1>5
  <2>2. Len(nodes'[1].items) <= LeafSlots /\ Len(nodes'[1].keys) <= InnerSlots
    <3>1. Len(nodes'[1].items) = 1 /\ Len(nodes'[1].keys) = 0
      BY <1>4, <1>5
    <3> QED
      BY <3>1, SlotNumbers
  <2>3. Slots(nodes[1])'
    BY <2>1, <2>2 DEF Slots
  <2> QED
    BY <2>1, <2>3, <1>5 DEF Shape, ShapeOf
<1>8. HalfFull' /\ Bulk' /\ Unwind'
  BY <1>1, <1>5 DEF HalfFull, RootMayUnderflow, Bulk, Unwind
<1> QED
  BY <1>6, <1>7, <1>8 DEF IInv

\* A leaf that is not full.
LEMMA InsertIntoLeafStep ==
  ASSUME IInv, NEW k \in Keys, InsertIntoLeaf(k)
  PROVE  IInv'
<1>0. PICK a : a = Last(Descent(k, FindLower))
  OBVIOUS
<1> DEFINE items == InsertAt(nodes[a].items, FindLower(a, k) + 1, NewItem(k))
<1>1. /\ pc = "idle" /\ pc' = "idle" /\ root # 0 /\ root' = root /\ head' = head /\ tail' = tail
      /\ nextlevel' = nextlevel /\ stack' = stack /\ newchild' = newchild
      /\ Len(nodes[a].items) < LeafSlots
      /\ nodes' = [nodes EXCEPT ![a].items = items]
      /\ Remember(k)
  BY <1>0 DEF InsertIntoLeaf, links
<1>2. Typed /\ Shape /\ HalfFull /\ nodes \in Seq(Node)
  BY DEF IInv, Typed
<1>3. root \in Address
  BY <1>1, <1>2 DEF Typed, Address
<1>4. a \in Address /\ nodes[a].level = 0 /\ FindLower(a, k) \in 0..Len(nodes[a].items)
  BY <1>0, <1>2, <1>3, LeafReached
<1>5. NewItem(k) \in Item /\ IsFiniteSet(contents')
  BY <1>1, <1>2, NewItemIs DEF Typed
<1>6. nodes[a].items \in Seq(Item) /\ nodes[a] \in Node /\ Len(nodes[a].items) \in Nat
  BY <1>2, <1>4, NodeFields
<1>7. items \in Seq(Item) /\ Len(items) = Len(nodes[a].items) + 1
  <2>1. FindLower(a, k) + 1 \in 1..(Len(nodes[a].items) + 1)
    BY <1>4, <1>6
  <2> QED
    BY <1>5, <1>6, <2>1, InsertAtGrows
<1> HIDE DEF items
<1> DEFINE leaf == [nodes[a] EXCEPT !.items = items]
<1>8. /\ leaf \in Node /\ leaf.level = nodes[a].level /\ leaf.keys = nodes[a].keys
      /\ leaf.items = items
  BY <1>6, <1>7 DEF Node
<1> HIDE DEF leaf
<1>9. /\ Len(nodes) \in Nat /\ nodes' = [nodes EXCEPT ![a] = leaf]
  BY <1>1, <1>2 DEF leaf
<1>10. nodes' \in Seq(Node) /\ Len(nodes') = Len(nodes) /\ Address' = Address
  BY <1>2, <1>4, <1>8, <1>9 DEF Address
<1>11. nodes'[a] = leaf /\ \A c \in Address \ {a} : nodes'[c] = nodes[c]
  BY <1>2, <1>4, <1>9 DEF Address
<1>12. \A c \in Address : nodes'[c].level = nodes[c].level
  BY <1>8, <1>11
<1>13. \A c \in Address \ {a} : ShapeOf(c)'
  BY <1>2, <1>10, <1>11, <1>12, UntouchedNode
<1>14. ShapeOf(a)'
  <2>1. nodes[a].level < a /\ Slots(nodes[a])
    BY <1>2, <1>4 DEF Shape, ShapeOf
  <2>2. nodes'[a].level = 0 /\ nodes'[a].level < a
    BY <2>1, <1>4, <1>8, <1>11
  <2>3. Len(nodes'[a].items) <= LeafSlots /\ Len(nodes'[a].keys) <= InnerSlots
    <3>1. Len(nodes'[a].items) = Len(nodes[a].items) + 1
      BY <1>7, <1>8, <1>11
    <3>2. Len(nodes'[a].keys) = Len(nodes[a].keys)
      BY <1>8, <1>11
    <3>3. Len(nodes[a].items) < LeafSlots /\ Len(nodes[a].keys) <= InnerSlots
      BY <2>1, <1>1 DEF Slots
    <3> QED
      BY <3>1, <3>2, <3>3, <1>6, SlotNumbers
  <2> QED
    BY <2>2, <2>3 DEF ShapeOf, Slots
<1>15. Shape'
  BY <1>10, <1>13, <1>14 DEF Shape
<1>16. HalfFull'
  <2>1. EnoughUsed(nodes[a]) => EnoughUsed(nodes'[a])
    BY <1>4, <1>6, <1>7, <1>8, <1>11, SlotNumbers DEF EnoughUsed
  <2> QED
    BY <2>1, <1>1, <1>2, <1>4, <1>10, <1>11 DEF HalfFull, RootMayUnderflow
<1>17. Typed'
  BY <1>1, <1>2, <1>5, <1>10 DEF Typed
<1>18. Bulk' /\ Unwind'
  BY <1>1 DEF Bulk, Unwind
<1> QED
  BY <1>15, <1>16, <1>17, <1>18 DEF IInv

\* The two leaves of a split have a half of the items each, and one of them the new item.
LEMMA SplitLeafItems ==
  ASSUME NEW items \in Seq(Item), Len(items) = LeafSlots, NEW slot \in 0..LeafSlots,
         NEW item \in Item
  PROVE  LET mid == Len(items) \div 2
             old == SubSeq(items, 1, mid)
             new == SubSeq(items, mid + 1, Len(items))
             right == InNewLeaf(slot, mid)
             l == IF right THEN old ELSE InsertAt(old, slot + 1, item)
             r == IF right THEN InsertAt(new, slot - mid + 1, item) ELSE new
         IN  /\ l \in Seq(Item) /\ Len(l) \in (LeafSlots \div 2)..LeafSlots
             /\ r \in Seq(Item) /\ Len(r) \in (LeafSlots \div 2)..LeafSlots
             /\ items[mid].key \in Keys
<1> DEFINE mid == LeafSlots \div 2
           old == SubSeq(items, 1, mid)
           new == SubSeq(items, mid + 1, LeafSlots)
<1>1. mid \in Nat /\ mid >= 1 /\ 2 * mid <= LeafSlots /\ LeafSlots \in Nat
  BY SlotNumbers
<1> HIDE DEF mid
<1>2. old \in Seq(Item) /\ Len(old) = mid
  BY <1>1
<1>3. new \in Seq(Item) /\ Len(new) = LeafSlots - mid
  BY <1>1
<1> HIDE DEF old, new
<1>4. items[mid].key \in Keys
  <2>1. items[mid] \in Item
    BY <1>1
  <2> QED
    BY <2>1 DEF Item
<1>5. CASE slot >= mid
  <2> DEFINE r == InsertAt(new, slot - mid + 1, item)
  <2>1. r \in Seq(Item) /\ Len(r) = LeafSlots - mid + 1
    <3> DEFINE i == slot - mid + 1
    <3>1. i \in 1..(Len(new) + 1)
      BY <1>1, <1>3, <1>5
    <3> HIDE DEF i
    <3>2. InsertAt(new, i, item) \in Seq(Item) /\ Len(InsertAt(new, i, item)) = Len(new) + 1
      BY <3>1, <1>3, InsertAtGrows
    <3> QED
      BY <3>2, <1>3 DEF i
  <2> HIDE DEF r
  <2>2. Len(r) \in mid..LeafSlots /\ Len(old) \in mid..LeafSlots
    BY <2>1, <1>1, <1>2
  <2> QED
    BY <2>1, <2>2, <1>2, <1>4, <1>5 DEF InNewLeaf, r, old, new, mid
<1>6. CASE ~(slot >= mid)
  <2> DEFINE l == InsertAt(old, slot + 1, item)
  <2>1. l \in Seq(Item) /\ Len(l) = mid + 1
    <3>1. slot + 1 \in 1..(Len(old) + 1)
      BY <1>1, <1>2, <1>6
    <3> QED
      BY <3>1, <1>2, InsertAtGrows
  <2> HIDE DEF l
  <2>2. Len(l) \in mid..LeafSlots /\ Len(new) \in mid..LeafSlots
    BY <2>1, <1>1, <1>3
  <2> QED
    BY <2>1, <2>2, <1>3, <1>4, <1>6 DEF InNewLeaf, l, old, new, mid
<1> QED
  BY <1>5, <1>6

\* Nodes with other links and items.
LEMMA NodeWithPrev ==
  ASSUME NEW node \in Node, NEW p \in Nat
  PROVE  LET new == [node EXCEPT !.prev = p]
         IN  /\ new \in Node /\ new.level = node.level /\ new.keys = node.keys
             /\ new.child = node.child /\ new.items = node.items
  BY DEF Node

\* The same for the old one of two leaves.
LEMMA NodeWithItems ==
  ASSUME NEW node \in Node, NEW l \in Seq(Item), NEW p \in Nat
  PROVE  LET new == [node EXCEPT !.items = l, !.next = p]
         IN  /\ new \in Node /\ new.level = node.level /\ new.keys = node.keys
             /\ new.child = node.child /\ new.items = l
  BY DEF Node

\* What a split of a leaf makes of the nodes.
AfterLeafSplit(a, l, leaf) ==
  Append([Relinked(nodes[a].next, Len(nodes) + 1) EXCEPT
            ![a].items = l, ![a].next = Len(nodes) + 1], leaf)

\* The links and items that a split of a leaf changes leave the tree above as it is.
LEMMA SplitLeafNodes ==
  ASSUME nodes \in Seq(Node), NEW a \in Address, nodes[a].level = 0, NEW l \in Seq(Item),
         NEW leaf \in Node
  PROVE  LET b == Len(nodes) + 1
             new == AfterLeafSplit(a, l, leaf)
         IN  /\ new \in Seq(Node) /\ Len(new) = b /\ new[b] = leaf /\ new[a].items = l
             /\ \A c \in Address : /\ new[c].level = nodes[c].level
                                   /\ new[c].keys = nodes[c].keys
                                   /\ new[c].child = nodes[c].child
                                   /\ c # a => new[c].items = nodes[c].items
<1> DEFINE N == Len(nodes)
           after == nodes[a].next
           R == Relinked(after, N + 1)
           U == [R EXCEPT ![a].items = l, ![a].next = N + 1]
<1>1. N \in Nat /\ Address = 1..N /\ DOMAIN nodes = 1..N /\ a \in 1..N
      /\ nodes \in [1..N -> Node]
  BY DEF Address
<1> HIDE DEF N
<1>2. N + 1 \in Nat /\ \A c \in 1..N : nodes[c] \in Node
  BY <1>1
<1>3. /\ R \in [1..N -> Node]
      /\ \A c \in 1..N : /\ R[c].level = nodes[c].level /\ R[c].keys = nodes[c].keys
                         /\ R[c].child = nodes[c].child /\ R[c].items = nodes[c].items
  <2>1. CASE after = 0
    <3>1. R = nodes
      BY <2>1 DEF Relinked
    <3> QED
      BY <3>1, <1>1
  <2>2. CASE after # 0
    <3>1. R = [nodes EXCEPT ![after] = [nodes[after] EXCEPT !.prev = N + 1]]
      BY <2>2 DEF Relinked
    <3>2. R = [c \in 1..N |-> IF c = after THEN [nodes[c] EXCEPT !.prev = N + 1] ELSE nodes[c]]
      BY <3>1, <1>1
    <3>3. ASSUME NEW c \in 1..N
          PROVE  /\ R[c] \in Node /\ R[c].level = nodes[c].level /\ R[c].keys = nodes[c].keys
                 /\ R[c].child = nodes[c].child /\ R[c].items = nodes[c].items
      <4>1. R[c] = nodes[c] \/ R[c] = [nodes[c] EXCEPT !.prev = N + 1]
        BY <3>2
      <4>2. nodes[c] \in Node
        BY <1>2
      <4> HIDE DEF R
      <4>3. CASE R[c] = nodes[c]
        BY <4>2, <4>3
      <4>4. CASE R[c] = [nodes[c] EXCEPT !.prev = N + 1]
        BY <4>2, <4>4, <1>2, NodeWithPrev
      <4> QED
        BY <4>1, <4>3, <4>4
    <3> QED
      BY <3>2, <3>3
  <2> QED
    BY <2>1, <2>2
<1> HIDE DEF R
<1> DEFINE node == [R[a] EXCEPT !.items = l, !.next = N + 1]
<1>4. /\ node \in Node /\ node.level = R[a].level /\ node.keys = R[a].keys
      /\ node.child = R[a].child /\ node.items = l
  <2>1. R[a] \in Node
    BY <1>1, <1>3
  <2> QED
    BY <2>1, <1>2, NodeWithItems
<1>5. U = [R EXCEPT ![a] = node]
  BY <1>1, <1>3
<1> HIDE DEF node
<1>6. U \in [1..N -> Node] /\ U[a] = node /\ \A c \in 1..N : c # a => U[c] = R[c]
  BY <1>1, <1>3, <1>4, <1>5
<1> DEFINE new == Append(U, leaf)
<1> HIDE DEF U
<1>7. U \in Seq(Node) /\ Len(U) = N
  BY <1>1, <1>6
<1>8. /\ new \in Seq(Node) /\ Len(new) = N + 1 /\ new[N + 1] = leaf
      /\ \A c \in 1..N : new[c] = U[c]
  BY <1>1, <1>7, AppendProperties
<1> HIDE DEF new
<1>9. new[a].items = l
  BY <1>1, <1>4, <1>6, <1>8
<1>10. \A c \in Address : /\ new[c].level = nodes[c].level /\ new[c].keys = nodes[c].keys
                          /\ new[c].child = nodes[c].child
                          /\ c # a => new[c].items = nodes[c].items
  BY <1>1, <1>3, <1>4, <1>6, <1>8
<1> QED
  BY <1>8, <1>9, <1>10 DEF N, R, U, new, AfterLeafSplit

\* The stack of insert_descend: the nodes above the leaf, each with a slot it has.
LEMMA PathToStack ==
  ASSUME nodes \in Seq(Node), Shape, root \in Address, NEW k
  PROVE  /\ PathTo(k) \in Seq([node : Nat, slot : Nat]) /\ Len(PathTo(k)) = nodes[root].level
         /\ PathTo(k) # <<>> => PathTo(k)[1].node = root
         /\ \A i \in 1..Len(PathTo(k)) :
              /\ PathTo(k)[i].node \in Address
              /\ PathTo(k)[i].slot <= Len(nodes[PathTo(k)[i].node].keys)
              /\ nodes[PathTo(k)[i].node].level = nodes[root].level - i + 1
         /\ nodes[root].level = 0 => Last(Descent(k, FindLower)) = root
<1> DEFINE path == Descent(k, FindLower)
           L == nodes[root].level
           s == PathTo(k)
<1>1. /\ path \in Seq(Address) /\ Len(path) = L + 1 /\ path[1] = root
      /\ \A i \in 1..Len(path) : nodes[path[i]].level = L - (i - 1)
  BY DescentPath
<1>2. L \in Nat /\ Address \subseteq Nat
  BY NodeFields DEF Address
<1>3. s = [i \in 1..(Len(path) - 1) |-> [node |-> path[i], slot |-> FindLower(path[i], k)]]
  BY DEF PathTo
<1> HIDE DEF path, L, s
<1>4. ASSUME NEW i \in 1..L
      PROVE  /\ path[i] \in Address /\ nodes[path[i]].level = L - i + 1
             /\ FindLower(path[i], k) \in 0..Len(nodes[path[i]].keys)
             /\ Len(nodes[path[i]].keys) \in Nat
  <2>1. i \in 1..Len(path)
    BY <1>1, <1>2
  <2>2. path[i] \in Address /\ nodes[path[i]].level = L - i + 1 /\ nodes[path[i]].level > 0
    BY <2>1, <1>1, <1>2
  <2>3. FindLower(path[i], k) \in 0..Len(nodes[path[i]].keys)
    BY <2>2, ChildBelow
  <2> QED
    BY <2>2, <2>3, NodeFields
<1>5. s = [i \in 1..L |-> [node |-> path[i], slot |-> FindLower(path[i], k)]]
  BY <1>1, <1>2, <1>3
<1>6. \A i \in 1..L : path[i] \in Nat /\ FindLower(path[i], k) \in Nat
  <2> SUFFICES ASSUME NEW i \in 1..L
               PROVE  path[i] \in Nat /\ FindLower(path[i], k) \in Nat
    OBVIOUS
  <2>1. /\ path[i] \in Address /\ FindLower(path[i], k) \in 0..Len(nodes[path[i]].keys)
        /\ Len(nodes[path[i]].keys) \in Nat
    BY <1>4
  <2> DEFINE f == FindLower(path[i], k)
             m == Len(nodes[path[i]].keys)
  <2>2. f \in 0..m /\ m \in Nat
    BY <2>1
  <2> HIDE DEF f, m
  <2>3. f \in Nat
    BY <2>2
  <2>4. path[i] \in Nat
    BY <2>1, <1>2
  <2> QED
    BY <2>3, <2>4 DEF f
<1> DEFINE Entry == [node : Nat, slot : Nat]
<1>7. s \in [1..L -> Entry]
  BY <1>5, <1>6
<1> HIDE DEF Entry
<1>8. s \in Seq(Entry) /\ Len(s) = L
  BY <1>2, <1>7
<1>9. \A i \in 1..L : s[i].node = path[i] /\ s[i].slot = FindLower(path[i], k)
  BY <1>5
<1>10. s # <<>> => s[1].node = root
  <2> SUFFICES ASSUME s # <<>> PROVE s[1].node = root
    OBVIOUS
  <2>1. 1 \in 1..L
    BY <1>2, <1>8
  <2> QED
    BY <2>1, <1>1, <1>9
<1>11. \A i \in 1..Len(s) : /\ s[i].node \in Address /\ s[i].slot <= Len(nodes[s[i].node].keys)
                            /\ nodes[s[i].node].level = L - i + 1
  <2> SUFFICES ASSUME NEW i \in 1..L
               PROVE  /\ s[i].node \in Address /\ s[i].slot <= Len(nodes[s[i].node].keys)
                      /\ nodes[s[i].node].level = L - i + 1
    BY <1>8
  <2>1. s[i].node = path[i] /\ s[i].slot = FindLower(path[i], k)
    BY <1>9
  <2> QED
    BY <2>1, <1>4
<1>12. L = 0 => Last(path) = root
  BY <1>1 DEF Last
<1> QED
  BY <1>8, <1>10, <1>11, <1>12 DEF s, path, L, Entry

\* A full leaf: it is split, and the new leaf waits for its parent.
LEMMA SplitLeafStep ==
  ASSUME IInv, NEW k \in Keys, SplitLeaf(k)
  PROVE  IInv'
<1>0. PICK a : a = Last(Descent(k, FindLower))
  OBVIOUS
<1> DEFINE items == nodes[a].items
           slot == FindLower(a, k)
           mid == Len(items) \div 2
           old == SubSeq(items, 1, mid)
           new == SubSeq(items, mid + 1, Len(items))
           right == InNewLeaf(slot, mid)
<1>1. PICK l, r, b : /\ b = Len(nodes) + 1
                     /\ l = IF right THEN old ELSE InsertAt(old, slot + 1, NewItem(k))
                     /\ r = IF right THEN InsertAt(new, slot - mid + 1, NewItem(k)) ELSE new
  OBVIOUS
<1> DEFINE leaf == Leaf(r, a, nodes[a].next)
<1>2. /\ pc = "idle" /\ pc' = "unwind" /\ root # 0 /\ root' = root /\ head' = head
      /\ nextlevel' = nextlevel /\ stack' = PathTo(k) /\ newchild' = b /\ Remember(k)
      /\ tail' \in {tail, b}
  BY <1>0, <1>1 DEF SplitLeaf
<1>3. /\ Len(items) = LeafSlots
      /\ nodes' = Append([Relinked(nodes[a].next, b) EXCEPT ![a].items = l, ![a].next = b], leaf)
  BY <1>0, <1>1 DEF SplitLeaf
<1>4. newkey' = k \/ newkey' = items[mid].key
  BY <1>0, <1>1 DEF SplitLeaf, SplitKey
<1>5. Typed /\ Shape /\ HalfFull /\ nodes \in Seq(Node) /\ Len(nodes) \in Nat /\ b \in Nat
  BY <1>1 DEF IInv, Typed
<1>6. root \in Address
  BY <1>2, <1>5 DEF Typed, Address
<1>7. a \in Address /\ nodes[a].level = 0 /\ slot \in 0..Len(items)
  BY <1>0, <1>5, <1>6, LeafReached
<1>8. NewItem(k) \in Item /\ IsFiniteSet(contents')
  BY <1>2, <1>5, NewItemIs DEF Typed
<1>9. items \in Seq(Item) /\ nodes[a].next \in Nat /\ a \in Nat
  BY <1>5, <1>7, NodeFields
<1>10. /\ l \in Seq(Item) /\ Len(l) \in (LeafSlots \div 2)..LeafSlots
       /\ r \in Seq(Item) /\ Len(r) \in (LeafSlots \div 2)..LeafSlots
       /\ items[mid].key \in Keys
  <2>1. slot \in 0..LeafSlots
    BY <1>3, <1>7
  <2> HIDE DEF items, slot
  <2> QED
    BY <2>1, <1>1, <1>3, <1>8, <1>9, SplitLeafItems
<1>11. newkey' \in Keys
  BY <1>4, <1>10
<1>12. /\ leaf \in Node /\ leaf.level = 0 /\ leaf.items = r /\ Len(leaf.keys) = 0
  BY <1>9, <1>10 DEF Leaf, Node
<1> HIDE DEF items, slot, mid, old, new, right, leaf
<1>13. /\ nodes' \in Seq(Node) /\ Len(nodes') = b /\ nodes'[b] = leaf /\ nodes'[a].items = l
       /\ \A c \in Address : /\ nodes'[c].level = nodes[c].level
                             /\ nodes'[c].keys = nodes[c].keys
                             /\ nodes'[c].child = nodes[c].child
                             /\ c # a => nodes'[c].items = nodes[c].items
  <2> DEFINE n == AfterLeafSplit(a, l, leaf)
  <2>1. /\ n \in Seq(Node) /\ Len(n) = Len(nodes) + 1 /\ n[Len(nodes) + 1] = leaf
        /\ n[a].items = l
        /\ \A c \in Address : /\ n[c].level = nodes[c].level
                              /\ n[c].keys = nodes[c].keys
                              /\ n[c].child = nodes[c].child
                              /\ c # a => n[c].items = nodes[c].items
    BY <1>5, <1>7, <1>10, <1>12, SplitLeafNodes
  <2>2. nodes' = n
    BY <1>1, <1>3 DEF AfterLeafSplit
  <2> HIDE DEF n
  <2> QED
    BY <2>1, <2>2, <1>1
<1>14. Address' = Address \cup {b} /\ b \notin Address /\ Len(nodes) <= Len(nodes')
  BY <1>1, <1>5, <1>13 DEF Address
<1>15. \A c \in Address \ {a} : ShapeOf(c)' /\ (EnoughUsed(nodes[c]) => EnoughUsed(nodes'[c]))
  BY <1>5, <1>13, <1>14, UntouchedNode
<1>16. ShapeOf(a)' /\ EnoughUsed(nodes'[a])
  <2>1. nodes[a].level < a /\ Len(nodes[a].keys) <= InnerSlots
    BY <1>5, <1>7 DEF Shape, ShapeOf, Slots
  <2>2. nodes'[a].level = 0 /\ nodes'[a].level < a /\ Len(nodes'[a].keys) <= InnerSlots
    BY <2>1, <1>7, <1>13
  <2>3. Len(nodes'[a].items) \in (LeafSlots \div 2)..LeafSlots
    BY <1>10, <1>13
  <2>4. Len(nodes'[a].items) <= LeafSlots /\ Len(nodes'[a].items) >= LeafSlots \div 2
    BY <2>3, SlotNumbers
  <2> QED
    BY <2>2, <2>4 DEF ShapeOf, Slots, EnoughUsed
<1>17. ShapeOf(b)' /\ EnoughUsed(nodes'[b])
  <2>1. nodes'[b].level = 0 /\ nodes'[b].level < b
    BY <1>1, <1>5, <1>12, <1>13
  <2>2. Len(nodes'[b].items) \in (LeafSlots \div 2)..LeafSlots /\ Len(nodes'[b].keys) = 0
    BY <1>10, <1>12, <1>13
  <2>3. /\ Len(nodes'[b].items) <= LeafSlots /\ Len(nodes'[b].items) >= LeafSlots \div 2
        /\ Len(nodes'[b].keys) <= InnerSlots
    BY <2>2, SlotNumbers
  <2> QED
    BY <2>1, <2>3 DEF ShapeOf, Slots, EnoughUsed
<1>18. Shape'
  BY <1>14, <1>15, <1>16, <1>17 DEF Shape
<1>19. /\ stack' \in Seq([node : Nat, slot : Nat]) /\ Len(stack') = nodes[root].level
       /\ stack' # <<>> => stack'[1].node = root
       /\ \A i \in 1..Len(stack') :
            /\ stack'[i].node \in Address
            /\ stack'[i].slot <= Len(nodes[stack'[i].node].keys)
            /\ nodes[stack'[i].node].level = nodes[root].level - i + 1
       /\ nodes[root].level = 0 => a = root
  BY <1>0, <1>2, <1>5, <1>6, PathToStack
<1>20. HalfFull'
  <2> SUFFICES ASSUME NEW c \in Address'
               PROVE  EnoughUsed(nodes'[c]) \/ (c = root /\ ~(stack' = <<>>))
    BY <1>2 DEF HalfFull, RootMayUnderflow
  <2>1. CASE c \in {a, b}
    BY <2>1, <1>16, <1>17
  <2>2. CASE c \notin {a, b}
    <3>1. c \in Address
      BY <2>2, <1>14
    <3>2. EnoughUsed(nodes[c]) \/ c = root
      BY <3>1, <1>5 DEF HalfFull
    <3>3. CASE EnoughUsed(nodes[c])
      BY <3>1, <3>3, <2>2, <1>15
    <3>4. CASE c = root
      <4>1. nodes[root].level # 0
        BY <3>4, <2>2, <1>19
      <4>2. Len(<<>>) = 0
        OBVIOUS
      <4> QED
        BY <3>4, <4>1, <4>2, <1>19
    <3> QED
      BY <3>2, <3>3, <3>4
  <2> QED
    BY <2>1, <2>2
<1>21. Unwind'
  <2>1. nodes'[b].level = 0 /\ nodes'[root].level = nodes[root].level /\ nodes[root].level \in Nat
    BY <1>5, <1>6, <1>12, <1>13, NodeFields
  <2>2. root \in Address' /\ b \in Address'
    BY <1>6, <1>14
  <2>3. ASSUME NEW i \in 1..Len(stack')
        PROVE  /\ stack'[i].node \in Address'
               /\ stack'[i].slot <= Len(nodes'[stack'[i].node].keys)
               /\ nodes'[stack'[i].node].level = nodes'[b].level + Len(stack') - i + 1
    <3>1. /\ stack'[i].node \in Address /\ stack'[i].slot <= Len(nodes[stack'[i].node].keys)
          /\ nodes[stack'[i].node].level = nodes[root].level - i + 1
      BY <1>19
    <3>2. /\ nodes'[stack'[i].node].level = nodes[stack'[i].node].level
          /\ nodes'[stack'[i].node].keys = nodes[stack'[i].node].keys
      BY <3>1, <1>13
    <3>3. i \in Nat /\ Len(stack') = nodes[root].level
      BY <1>19
    <3>4. nodes'[stack'[i].node].level = nodes'[b].level + Len(stack') - i + 1
      BY <3>1, <3>2, <3>3, <2>1
    <3> QED
      BY <3>1, <3>2, <3>4, <1>14
  <2>4. nodes'[root].level = nodes'[b].level + Len(stack')
    BY <2>1, <1>19
  <2> QED
    BY <2>2, <2>3, <2>4, <1>2, <1>11, <1>19 DEF Unwind
<1>22. Typed'
  <2>1. root \in 0..b /\ head \in 0..b /\ tail \in 0..b /\ b \in 0..b
    BY <1>1, <1>5 DEF Typed
  <2>2. {root', head', tail', newchild'} \subseteq 0..Len(nodes')
    BY <2>1, <1>2, <1>13
  <2>3. nextlevel' \in Seq([node : Nat, max : Keys])
    BY <1>2, <1>5 DEF Typed
  <2> QED
    BY <2>2, <2>3, <1>2, <1>8, <1>13, <1>19 DEF Typed
<1>23. Bulk'
  BY <1>2 DEF Bulk
<1> QED
  BY <1>18, <1>20, <1>21, <1>22, <1>23 DEF IInv

-----------------------------------------------------------------------------
(* insert on the way up. *)

\* The node on top of the stack is the parent of newchild to be.
LEMMA TopOfStack ==
  ASSUME IInv, pc = "unwind", stack # <<>>
  PROVE  LET top == Last(stack)
             x == top.node
         IN  /\ top = stack[Len(stack)] /\ Len(stack) \in Nat \ {0}
             /\ x \in Address /\ nodes[x] \in Node /\ top.slot \in Nat
             /\ top.slot <= Len(nodes[x].keys)
             /\ nodes[x].level = nodes[newchild].level + 1 /\ nodes[newchild].level \in Nat
             /\ newchild \in Below(nodes[x].level) /\ newkey \in Keys
             /\ nodes[x].child \in Seq(Below(nodes[x].level))
             /\ Len(nodes[x].child) = Len(nodes[x].keys) + 1
<1>1. Typed /\ Shape /\ Unwind /\ nodes \in Seq(Node)
  BY DEF IInv, Typed
<1> DEFINE Entry == [node : Nat, slot : Nat]
<1>2. stack \in Seq(Entry)
  BY <1>1 DEF Typed
<1> HIDE DEF Entry
<1>3. Len(stack) \in Nat \ {0} /\ Len(stack) \in 1..Len(stack) /\ stack[Len(stack)] \in Entry
  BY <1>2
<1>4. PICK top : top = stack[Len(stack)]
  OBVIOUS
<1>5. top = Last(stack)
  BY <1>4 DEF Last
<1>6. top.slot \in Nat
  BY <1>3, <1>4 DEF Entry
<1>7. /\ newchild \in Address /\ newkey \in Keys
      /\ top.node \in Address /\ top.slot <= Len(nodes[top.node].keys)
      /\ nodes[top.node].level = nodes[newchild].level + Len(stack) - Len(stack) + 1
  BY <1>1, <1>3, <1>4 DEF Unwind
<1>8. nodes[newchild].level \in Nat /\ nodes[top.node] \in Node
  BY <1>1, <1>7, NodeFields
<1>9. nodes[top.node].level = nodes[newchild].level + 1 /\ nodes[top.node].level > 0
  BY <1>3, <1>7, <1>8
<1>10. newchild \in Below(nodes[top.node].level)
  BY <1>7, <1>9 DEF Below
<1>11. /\ nodes[top.node].child \in Seq(Below(nodes[top.node].level))
       /\ Len(nodes[top.node].child) = Len(nodes[top.node].keys) + 1
  BY <1>1, <1>7, <1>9 DEF Shape, ShapeOf, Slots
<1> QED
  BY <1>3, <1>4, <1>5, <1>6, <1>7, <1>8, <1>9, <1>10, <1>11

\* One node is replaced by another.
LEMMA ReplacedNode ==
  ASSUME nodes \in Seq(Node), NEW a \in Address, NEW node \in Node
  PROVE  LET new == [nodes EXCEPT ![a] = node]
         IN  /\ new \in Seq(Node) /\ Len(new) = Len(nodes) /\ new[a] = node
             /\ \A c \in Address : c # a => new[c] = nodes[c]
  BY DEF Address

\* A node in a place of the tree, by its new slots.
LEMMA InnerNodeShape ==
  ASSUME nodes \in Seq(Node), nodes' \in Seq(Node), Len(nodes) <= Len(nodes'),
         \A c \in Address : nodes'[c].level = nodes[c].level, NEW a \in Address',
         nodes'[a].level < a, nodes'[a].level \in Nat \ {0},
         Len(nodes'[a].items) <= LeafSlots, Len(nodes'[a].keys) <= InnerSlots,
         Len(nodes'[a].child) = Len(nodes'[a].keys) + 1,
         nodes'[a].child \in Seq(Below(nodes'[a].level))
  PROVE  ShapeOf(a)'
<1>1. PICK level : level = nodes'[a].level
  OBVIOUS
<1>2. Seq(Below(level)) \subseteq Seq(Below(level)')
  BY ShapeKept
<1>3. nodes'[a].child \in Seq(Below(level)')
  BY <1>1, <1>2
<1> QED
  BY <1>1, <1>3 DEF ShapeOf, Slots

\* An inner node that is not full.
LEMMA InsertIntoInnerStep ==
  ASSUME IInv, InsertIntoInner
  PROVE  IInv'
<1>0. PICK top, x, node : /\ top = Last(stack) /\ x = top.node
                          /\ node = WithChild(nodes[x], top.slot, newkey, newchild)
  OBVIOUS
<1>1. /\ pc = "unwind" /\ stack # <<>> /\ pc' = "idle" /\ stack' = <<>> /\ newchild' = 0
      /\ root' = root /\ head' = head /\ tail' = tail /\ nextlevel' = nextlevel
      /\ contents' = contents
      /\ Len(nodes[x].keys) < InnerSlots /\ nodes' = [nodes EXCEPT ![x] = node]
  BY <1>0 DEF InsertIntoInner, links, history
<1>2. Typed /\ Shape /\ HalfFull /\ nodes \in Seq(Node)
  BY DEF IInv, Typed
<1>3. PICK B : B = Below(nodes[x].level)
  OBVIOUS
<1>4. /\ x \in Address /\ nodes[x] \in Node /\ top.slot \in Nat
      /\ top.slot <= Len(nodes[x].keys)
      /\ nodes[x].level = nodes[newchild].level + 1 /\ nodes[newchild].level \in Nat
      /\ newchild \in B /\ newkey \in Keys /\ nodes[x].child \in Seq(B)
      /\ Len(nodes[x].child) = Len(nodes[x].keys) + 1
  BY <1>0, <1>1, <1>3, TopOfStack
<1>5. B \in SUBSET Nat
  BY <1>2, <1>3 DEF Below, Address
<1>6. /\ node \in Node /\ node.level = nodes[x].level /\ node.items = nodes[x].items
      /\ Len(node.keys) = Len(nodes[x].keys) + 1 /\ Len(node.child) = Len(node.keys) + 1
      /\ node.child \in Seq(B)
  <2>1. PICK old, slot : old = nodes[x] /\ slot = top.slot
    OBVIOUS
  <2>2. /\ old \in Node /\ newchild \in B /\ newkey \in Keys /\ slot \in Nat
        /\ slot <= Len(old.keys) /\ old.child \in Seq(B) /\ Len(old.child) = Len(old.keys) + 1
    BY <2>1, <1>4
  <2>3. node = WithChild(old, slot, newkey, newchild)
    BY <2>1, <1>0
  <2>4. /\ node \in Node /\ node.level = old.level /\ node.items = old.items
        /\ Len(node.keys) = Len(old.keys) + 1 /\ Len(node.child) = Len(node.keys) + 1
        /\ node.child \in Seq(B)
    BY <2>2, <2>3, <1>5, WithChildSlots
  <2> QED
    BY <2>1, <2>4
<1>7. /\ nodes' \in Seq(Node) /\ Len(nodes') = Len(nodes) /\ nodes'[x] = node
      /\ \A c \in Address : c # x => nodes'[c] = nodes[c]
  BY <1>1, <1>2, <1>4, <1>6, ReplacedNode
<1>8. Address' = Address /\ Len(nodes) <= Len(nodes')
  BY <1>2, <1>7 DEF Address
<1>9. \A c \in Address : nodes'[c].level = nodes[c].level
  BY <1>6, <1>7
<1>10. \A c \in Address \ {x} : ShapeOf(c)'
  BY <1>2, <1>7, <1>8, <1>9, UntouchedNode
<1>11. Len(nodes[x].keys) \in Nat
  BY <1>2, <1>4, NodeFields
<1>12. ShapeOf(x)'
  <2>1. nodes[x].level < x /\ Len(nodes[x].items) <= LeafSlots
    BY <1>2, <1>4 DEF Shape, ShapeOf, Slots
  <2>2. Len(node.keys) <= InnerSlots
    BY <1>1, <1>6, <1>11, SlotNumbers
  <2>3. node.level < x /\ node.level \in Nat \ {0} /\ Len(node.items) <= LeafSlots
    BY <2>1, <1>4, <1>6
  <2>4. node.child \in Seq(Below(node.level))
    BY <1>3, <1>6
  <2> QED
    BY <2>2, <2>3, <2>4, <1>2, <1>4, <1>6, <1>7, <1>8, <1>9, InnerNodeShape
<1>13. Shape'
  BY <1>8, <1>10, <1>12 DEF Shape
<1>14. HalfFull'
  <2>1. EnoughUsed(nodes[x]) => EnoughUsed(node)
    BY <1>4, <1>6, <1>11, SlotNumbers DEF EnoughUsed
  <2> QED
    BY <2>1, <1>1, <1>2, <1>7, <1>8 DEF HalfFull, RootMayUnderflow
<1>15. Typed'
  <2>1. stack' \in Seq([node : Nat, slot : Nat])
    BY <1>1
  <2> QED
    BY <2>1, <1>1, <1>2, <1>7 DEF Typed
<1>16. Bulk' /\ Unwind'
  BY <1>1 DEF Bulk, Unwind
<1> QED
  BY <1>13, <1>14, <1>15, <1>16 DEF IInv


\* The part of a split node that gets no child is half full, and the other one as soon as
\* it has it.
FairSplit(slot, mid, rest, h) ==
  /\ mid \in 0..(InnerSlots - 1) /\ rest \in 0..(InnerSlots - 1) /\ rest + mid + 1 = InnerSlots
  /\ slot = mid + 1 /\ mid < rest => mid + 1 >= h /\ rest >= h
  /\ slot >= mid + 1 /\ ~(slot = mid + 1 /\ mid < rest) => mid >= h /\ rest + 1 >= h
  /\ ~(slot >= mid + 1) => mid + 1 >= h /\ rest >= h

\* Full inner nodes are split so, whatever the parity of innerslotmax.
LEMMA InnerMidFair ==
  ASSUME NEW slot \in 0..InnerSlots
  PROVE  LET mid == InnerMid(InnerSlots, slot)
         IN  FairSplit(slot, mid, InnerSlots - (mid + 1), InnerSlots \div 2)
<1>0. PICK mid, rest, h : /\ mid = InnerMid(InnerSlots, slot) /\ rest = InnerSlots - (mid + 1)
                          /\ h = InnerSlots \div 2
  OBVIOUS
<1>1. /\ InnerSlots \in Nat /\ InnerSlots >= 3 /\ h \in Nat /\ h >= 1
      /\ 2 * h <= InnerSlots /\ InnerSlots <= 2 * h + 1
  BY <1>0, SlotNumbers
<1>2. mid = IF slot <= h /\ h > InnerSlots - (h + 1) THEN h - 1 ELSE h
  BY <1>0 DEF InnerMid
<1>3. PICK u : u = InnerSlots
  OBVIOUS
<1>4. u \in Nat /\ u >= 3 /\ h \in Nat /\ h >= 1 /\ 2 * h <= u /\ u <= 2 * h + 1 /\ slot \in 0..u
  BY <1>1, <1>3
<1>5. mid = IF slot <= h /\ h > u - (h + 1) THEN h - 1 ELSE h
  BY <1>2, <1>3
<1>6. rest = u - (mid + 1)
  BY <1>0, <1>3
<1>7. /\ mid \in 0..(u - 1) /\ rest \in 0..(u - 1) /\ rest + mid + 1 = u
      /\ slot = mid + 1 /\ mid < rest => mid + 1 >= h /\ rest >= h
      /\ slot >= mid + 1 /\ ~(slot = mid + 1 /\ mid < rest) => mid >= h /\ rest + 1 >= h
      /\ ~(slot >= mid + 1) => mid + 1 >= h /\ rest >= h
  <2>1. CASE u = 2 * h
    <3>1. CASE slot <= h
      <4>1. mid = h - 1 /\ rest = h
        BY <2>1, <3>1, <1>4, <1>5, <1>6
      <4> QED
        BY <4>1, <2>1, <3>1, <1>4
    <3>2. CASE slot > h
      <4>1. mid = h /\ rest = h - 1
        BY <2>1, <3>2, <1>4, <1>5, <1>6
      <4> QED
        BY <4>1, <2>1, <3>2, <1>4
    <3> QED
      BY <3>1, <3>2, <1>4
  <2>2. CASE u = 2 * h + 1
    <3>1. mid = h /\ rest = h
      BY <2>2, <1>4, <1>5, <1>6
    <3> QED
      BY <3>1, <2>2, <1>4
  <2> QED
    BY <2>1, <2>2, <1>4
<1> QED
  BY <1>0, <1>3, <1>7 DEF FairSplit

\* A node of some level, with its number of keys and one more child, all from a set.
InnerPart(part, node, n, B) ==
  /\ part \in Node /\ part.level = node.level /\ part.items = node.items
  /\ Len(part.keys) = n /\ Len(part.child) = n + 1 /\ part.child \in Seq(B)

\* The parts of a full inner node.
LEMMA PartsOfSplit ==
  ASSUME NEW node \in Node, NEW B \in SUBSET Nat, node.child \in Seq(B),
         Len(node.keys) = InnerSlots, Len(node.child) = InnerSlots + 1,
         NEW mid \in 0..(InnerSlots - 1)
  PROVE  LET p == SplitParts(node, mid)
         IN  /\ InnerPart(p.left, node, mid, B)
             /\ InnerPart(p.right, node, InnerSlots - (mid + 1), B)
             /\ p.key \in Keys
<1> DEFINE lk == SubSeq(node.keys, 1, mid)
           lc == SubSeq(node.child, 1, mid + 1)
           rk == SubSeq(node.keys, mid + 2, Len(node.keys))
           rc == SubSeq(node.child, mid + 2, Len(node.child))
<1>1. InnerSlots \in Nat /\ InnerSlots >= 3
  BY SlotNumbers
<1>2. node.keys \in Seq(Keys)
  BY DEF Node
<1>3. lk \in Seq(Keys) /\ Len(lk) = mid
  BY <1>1, <1>2
<1>4. lc \in Seq(B) /\ Len(lc) = mid + 1
  BY <1>1
<1>5. rk \in Seq(Keys) /\ Len(rk) = InnerSlots - (mid + 1)
  BY <1>1, <1>2
<1>6. rc \in Seq(B) /\ Len(rc) = InnerSlots - (mid + 1) + 1
  BY <1>1
<1>7. node.keys[mid + 1] \in Keys
  BY <1>1, <1>2
<1> DEFINE l == [node EXCEPT !.keys = lk, !.child = lc]
           r == [node EXCEPT !.keys = rk, !.child = rc]
           p == SplitParts(node, mid)
<1>8. p.left = l /\ p.right = r /\ p.key = node.keys[mid + 1]
  BY DEF SplitParts
<1> HIDE DEF lk, lc, rk, rc, p
<1>9. lc \in Seq(Nat) /\ rc \in Seq(Nat)
  BY <1>4, <1>6, SeqMonotonic
<1>10. l \in Node /\ l.level = node.level /\ l.items = node.items /\ l.keys = lk /\ l.child = lc
  BY <1>3, <1>9 DEF Node
<1>11. r \in Node /\ r.level = node.level /\ r.items = node.items /\ r.keys = rk /\ r.child = rc
  BY <1>5, <1>9 DEF Node
<1> HIDE DEF l, r
<1>12. InnerPart(l, node, mid, B) /\ InnerPart(r, node, InnerSlots - (mid + 1), B)
  BY <1>3, <1>4, <1>5, <1>6, <1>10, <1>11 DEF InnerPart
<1> QED
  BY <1>7, <1>8, <1>12 DEF p


\* A part of a split node with one more key and child.
LEMMA PartWithChild ==
  ASSUME NEW node, NEW part, NEW n \in Nat, NEW B \in SUBSET Nat, InnerPart(part, node, n, B),
         NEW slot \in Nat, slot <= n, NEW k \in Keys, NEW c \in B
  PROVE  InnerPart(WithChild(part, slot, k, c), node, n + 1, B)
<1>1. /\ part \in Node /\ part.level = node.level /\ part.items = node.items
      /\ Len(part.keys) = n /\ Len(part.child) = n + 1 /\ part.child \in Seq(B)
  BY DEF InnerPart
<1>2. PICK new : new = WithChild(part, slot, k, c)
  OBVIOUS
<1>3. /\ new \in Node /\ new.level = part.level /\ new.items = part.items
      /\ Len(new.keys) = Len(part.keys) + 1 /\ Len(new.child) = Len(new.keys) + 1
      /\ new.child \in Seq(B)
  BY <1>1, <1>2, WithChildSlots
<1>4. InnerPart(new, node, n + 1, B)
  BY <1>1, <1>3 DEF InnerPart
<1> QED
  BY <1>2, <1>4

\* The left part, when the new child belongs between the parts: it takes the key between
\* them and the first child of the right one.
LEMMA LeftPartExtended ==
  ASSUME NEW node, NEW part, NEW n \in Nat, NEW B \in SUBSET Nat, InnerPart(part, node, n, B),
         NEW k \in Keys, NEW c \in B
  PROVE  InnerPart([part EXCEPT !.keys = Append(@, k), !.child = Append(@, c)], node, n + 1, B)
<1>1. /\ part \in Node /\ part.level = node.level /\ part.items = node.items
      /\ Len(part.keys) = n /\ Len(part.child) = n + 1 /\ part.child \in Seq(B)
  BY DEF InnerPart
<1> DEFINE ks == Append(part.keys, k)
           cs == Append(part.child, c)
           new == [part EXCEPT !.keys = ks, !.child = cs]
<1>2. part.keys \in Seq(Keys)
  BY <1>1 DEF Node
<1>3. ks \in Seq(Keys) /\ Len(ks) = n + 1
  BY <1>1, <1>2
<1>4. cs \in Seq(B) /\ Len(cs) = n + 1 + 1
  BY <1>1
<1> HIDE DEF ks, cs
<1>5. cs \in Seq(Nat)
  BY <1>4, SeqMonotonic
<1>6. new \in Node /\ new.level = part.level /\ new.items = part.items /\ new.keys = ks /\ new.child = cs
  BY <1>1, <1>3, <1>5 DEF Node
<1> HIDE DEF new
<1>7. InnerPart(new, node, n + 1, B)
  BY <1>1, <1>3, <1>4, <1>6 DEF InnerPart
<1> QED
  BY <1>7 DEF new, ks, cs

\* The right part then starts with the new child.
LEMMA RightPartReplaced ==
  ASSUME NEW node, NEW part, NEW n \in Nat, NEW B \in SUBSET Nat, InnerPart(part, node, n, B),
         NEW c \in B
  PROVE  /\ InnerPart([part EXCEPT !.child = [@ EXCEPT ![1] = c]], node, n, B)
         /\ part.child[1] \in B
<1>1. /\ part \in Node /\ part.level = node.level /\ part.items = node.items
      /\ Len(part.keys) = n /\ Len(part.child) = n + 1 /\ part.child \in Seq(B)
  BY DEF InnerPart
<1> DEFINE cs == [part.child EXCEPT ![1] = c]
           new == [part EXCEPT !.child = cs]
<1>2. cs \in Seq(B) /\ Len(cs) = n + 1
  BY <1>1
<1>3. part.child[1] \in B
  BY <1>1
<1> HIDE DEF cs
<1>4. cs \in Seq(Nat)
  BY <1>2, SeqMonotonic
<1>5. new \in Node /\ new.level = part.level /\ new.items = part.items /\ new.keys = part.keys /\ new.child = cs
  BY <1>1, <1>4 DEF Node
<1> HIDE DEF new
<1>6. InnerPart(new, node, n, B)
  BY <1>1, <1>2, <1>5 DEF InnerPart
<1> QED
  BY <1>3, <1>6 DEF new, cs

\* split_inner_node and the insert leave two nodes that are at least half full.
LEMMA AfterSplitParts ==
  ASSUME NEW node \in Node, NEW B \in SUBSET Nat, node.child \in Seq(B),
         Len(node.keys) = InnerSlots, Len(node.child) = InnerSlots + 1,
         NEW slot \in 0..InnerSlots, newkey \in Keys, newchild \in B
  PROVE  LET p == AfterSplit(node, slot)
         IN  /\ \E n \in (InnerSlots \div 2)..InnerSlots : InnerPart(p.left, node, n, B)
             /\ \E n \in (InnerSlots \div 2)..InnerSlots : InnerPart(p.right, node, n, B)
             /\ p.key \in Keys
<1>1. PICK mid, rest, h : /\ mid = InnerMid(InnerSlots, slot) /\ rest = InnerSlots - (mid + 1)
                          /\ h = InnerSlots \div 2
  OBVIOUS
<1>2. /\ mid \in 0..(InnerSlots - 1) /\ rest \in 0..(InnerSlots - 1) /\ rest + mid + 1 = InnerSlots
      /\ slot = mid + 1 /\ mid < rest => mid + 1 >= h /\ rest >= h
      /\ slot >= mid + 1 /\ ~(slot = mid + 1 /\ mid < rest) => mid >= h /\ rest + 1 >= h
      /\ ~(slot >= mid + 1) => mid + 1 >= h /\ rest >= h
  BY <1>1, InnerMidFair DEF FairSplit
<1>3. PICK p : p = SplitParts(node, mid)
  OBVIOUS
<1>4. InnerPart(p.left, node, mid, B) /\ InnerPart(p.right, node, rest, B) /\ p.key \in Keys
  BY <1>1, <1>2, <1>3, PartsOfSplit
<1>5. /\ Len(p.left.keys) = mid /\ Len(p.right.keys) = rest
      /\ mid \in Nat /\ rest \in Nat /\ h \in Nat /\ InnerSlots \in Nat /\ slot \in Nat
  BY <1>1, <1>2, <1>4, SlotNumbers DEF InnerPart
<1>6. AfterSplit(node, slot) =
        IF slot = mid + 1 /\ mid < rest
        THEN [left  |-> [p.left EXCEPT !.keys = Append(@, p.key),
                                       !.child = Append(@, p.right.child[1])],
              right |-> [p.right EXCEPT !.child = [@ EXCEPT ![1] = newchild]],
              key   |-> newkey]
        ELSE IF slot >= mid + 1
        THEN [p EXCEPT !.right = WithChild(@, slot - (mid + 1), newkey, newchild)]
        ELSE [p EXCEPT !.left = WithChild(@, slot, newkey, newchild)]
  BY <1>1, <1>3, <1>5 DEF AfterSplit, Between
<1>7. DOMAIN p = {"left", "right", "key"}
  BY <1>3 DEF SplitParts
<1>8. CASE slot = mid + 1 /\ mid < rest
  <2> DEFINE l == [p.left EXCEPT !.keys = Append(@, p.key),
                                 !.child = Append(@, p.right.child[1])]
             r == [p.right EXCEPT !.child = [@ EXCEPT ![1] = newchild]]
  <2>1. InnerPart(r, node, rest, B) /\ p.right.child[1] \in B
    BY <1>4, <1>5, RightPartReplaced
  <2>2. InnerPart(l, node, mid + 1, B)
    BY <2>1, <1>4, <1>5, LeftPartExtended
  <2>3. AfterSplit(node, slot) = [left |-> l, right |-> r, key |-> newkey]
    BY <1>6, <1>8
  <2> HIDE DEF l, r
  <2>4. mid + 1 \in h..InnerSlots /\ rest \in h..InnerSlots
    BY <1>2, <1>5, <1>8
  <2> QED
    BY <2>1, <2>2, <2>3, <2>4, <1>1
<1>9. CASE ~(slot = mid + 1 /\ mid < rest) /\ slot >= mid + 1
  <2> DEFINE r == WithChild(p.right, slot - (mid + 1), newkey, newchild)
  <2>1. slot - (mid + 1) \in Nat /\ slot - (mid + 1) <= rest
    BY <1>2, <1>5, <1>9
  <2>2. InnerPart(r, node, rest + 1, B)
    BY <2>1, <1>4, <1>5, PartWithChild
  <2>3. AfterSplit(node, slot) = [p EXCEPT !.right = r]
    BY <1>6, <1>9
  <2> HIDE DEF r
  <2>4. mid \in h..InnerSlots /\ rest + 1 \in h..InnerSlots
    BY <1>2, <1>5, <1>9
  <2>5. /\ AfterSplit(node, slot).left = p.left /\ AfterSplit(node, slot).right = r
        /\ AfterSplit(node, slot).key = p.key
    BY <2>3, <1>7
  <2> QED
    BY <2>2, <2>4, <2>5, <1>1, <1>4
<1>10. CASE ~(slot >= mid + 1)
  <2> DEFINE l == WithChild(p.left, slot, newkey, newchild)
  <2>1. slot <= mid
    BY <1>2, <1>5, <1>10
  <2>2. InnerPart(l, node, mid + 1, B)
    BY <2>1, <1>4, <1>5, PartWithChild
  <2>3. AfterSplit(node, slot) = [p EXCEPT !.left = l]
    BY <1>5, <1>6, <1>10
  <2> HIDE DEF l
  <2>4. rest \in h..InnerSlots /\ mid + 1 \in h..InnerSlots
    BY <1>2, <1>5, <1>10
  <2>5. /\ AfterSplit(node, slot).left = l /\ AfterSplit(node, slot).right = p.right
        /\ AfterSplit(node, slot).key = p.key
    BY <2>3, <1>7
  <2> QED
    BY <2>2, <2>4, <2>5, <1>1, <1>4
<1> QED
  BY <1>8, <1>9, <1>10


\* A sequence without its last element.
LEMMA AllButLast ==
  ASSUME NEW S, NEW s \in Seq(S), Len(s) \in Nat \ {0}
  PROVE  /\ Front(s) \in Seq(S) /\ Len(Front(s)) = Len(s) - 1
         /\ \A i \in 1..Len(Front(s)) : Front(s)[i] = s[i]
<1>1. \A i \in 1..(Len(s) - 1) : s[i] \in S
  OBVIOUS
<1>2. PICK t : t = SubSeq(s, 1, Len(s) - 1)
  OBVIOUS
<1>3. 1 \in Int /\ Len(s) - 1 \in Int
  OBVIOUS
<1>4. /\ t \in Seq(S) /\ Len(t) = IF 1 <= Len(s) - 1 THEN Len(s) - 1 - 1 + 1 ELSE 0
      /\ \A i \in 1..(Len(s) - 1 - 1 + 1) : t[i] = s[1 + i - 1]
  BY <1>1, <1>2, <1>3, SubSeqProperties
<1>5. Len(t) = Len(s) - 1
  <2>1. PICK n : n = Len(s)
    OBVIOUS
  <2>2. n \in Nat \ {0} /\ Len(t) = IF 1 <= n - 1 THEN n - 1 - 1 + 1 ELSE 0
    BY <2>1, <1>4
  <2>3. Len(t) = n - 1
    BY <2>2
  <2> QED
    BY <2>1, <2>3
<1>6. \A i \in 1..Len(t) : t[i] = s[i]
  <2> SUFFICES ASSUME NEW i \in 1..(Len(s) - 1) PROVE t[i] = s[i]
    BY <1>5
  <2>1. i \in 1..(Len(s) - 1 - 1 + 1) /\ 1 + i - 1 = i
    OBVIOUS
  <2> QED
    BY <2>1, <1>4
<1> QED
  BY <1>2, <1>4, <1>5, <1>6 DEF Front

\* A full inner node: it is split, and the new one waits for its parent.
LEMMA SplitInnerStep ==
  ASSUME IInv, SplitInner
  PROVE  IInv'
<1>0. PICK top, x, p, l, r, b : /\ top = Last(stack) /\ x = top.node
                                /\ p = AfterSplit(nodes[x], top.slot)
                                /\ l = p.left /\ r = p.right /\ b = Len(nodes) + 1
  OBVIOUS
<1>1. /\ pc = "unwind" /\ stack # <<>> /\ pc' = "unwind" /\ stack' = Front(stack) /\ newchild' = b
      /\ root' = root /\ head' = head /\ tail' = tail /\ nextlevel' = nextlevel
      /\ contents' = contents /\ newkey' = p.key
      /\ Len(nodes[x].keys) = InnerSlots
      /\ nodes' = Append([nodes EXCEPT ![x] = l], r)
  BY <1>0 DEF SplitInner, links, history
<1>2. Typed /\ Shape /\ HalfFull /\ Unwind /\ nodes \in Seq(Node) /\ Len(nodes) \in Nat
  BY DEF IInv, Typed
<1>3. PICK B, old, slot : B = Below(nodes[x].level) /\ old = nodes[x] /\ slot = top.slot
  OBVIOUS
<1>4. /\ x \in Address /\ old \in Node /\ slot \in Nat /\ slot <= Len(old.keys)
      /\ top = stack[Len(stack)] /\ Len(stack) \in Nat \ {0}
      /\ old.level = nodes[newchild].level + 1 /\ nodes[newchild].level \in Nat
      /\ newchild \in B /\ newkey \in Keys /\ old.child \in Seq(B)
      /\ Len(old.child) = Len(old.keys) + 1
  BY <1>0, <1>1, <1>3, TopOfStack
<1>5. B \in SUBSET Nat
  BY <1>2, <1>3 DEF Below, Address
<1>6. /\ \E n \in (InnerSlots \div 2)..InnerSlots : InnerPart(l, old, n, B)
      /\ \E n \in (InnerSlots \div 2)..InnerSlots : InnerPart(r, old, n, B)
      /\ p.key \in Keys
  <2>1. Len(old.keys) = InnerSlots /\ Len(old.child) = InnerSlots + 1 /\ slot \in 0..InnerSlots
    BY <1>1, <1>3, <1>4, SlotNumbers
  <2>2. p = AfterSplit(old, slot)
    BY <1>0, <1>3
  <2> QED
    BY <2>1, <2>2, <1>0, <1>4, <1>5, AfterSplitParts
<1>7. ASSUME NEW q \in {l, r}
      PROVE  /\ q \in Node /\ q.level = old.level /\ q.items = old.items
             /\ Len(q.keys) <= InnerSlots /\ Len(q.keys) >= InnerSlots \div 2
             /\ Len(q.child) = Len(q.keys) + 1 /\ q.child \in Seq(B)
  <2>1. PICK n \in (InnerSlots \div 2)..InnerSlots : InnerPart(q, old, n, B)
    BY <1>6
  <2> QED
    BY <2>1, SlotNumbers DEF InnerPart
<1> DEFINE kept == [nodes EXCEPT ![x] = l]
<1>8. /\ kept \in Seq(Node) /\ Len(kept) = Len(nodes) /\ kept[x] = l
      /\ \A c \in Address : c # x => kept[c] = nodes[c]
  BY <1>2, <1>4, <1>7, ReplacedNode
<1>9. nodes' = Append(kept, r)
  BY <1>1
<1> HIDE DEF kept
<1>10. /\ nodes' \in Seq(Node) /\ Len(nodes') = b /\ nodes'[b] = r /\ nodes'[x] = l
       /\ \A c \in Address : c # x => nodes'[c] = nodes[c]
  <2>1. r \in Node
    BY <1>7
  <2>2. /\ Append(kept, r) \in Seq(Node) /\ Len(Append(kept, r)) = Len(kept) + 1
        /\ Append(kept, r)[Len(kept) + 1] = r
        /\ \A c \in 1..Len(kept) : Append(kept, r)[c] = kept[c]
    BY <2>1, <1>8, AppendProperties
  <2>3. Address = 1..Len(kept)
    BY <1>8 DEF Address
  <2> QED
    BY <2>2, <2>3, <1>0, <1>4, <1>8, <1>9
<1>11. Address' = Address \cup {b} /\ b \notin Address /\ Len(nodes) <= Len(nodes') /\ b \in Nat
  BY <1>0, <1>2, <1>10 DEF Address
<1>12. \A c \in Address : nodes'[c].level = nodes[c].level
  BY <1>3, <1>7, <1>10
<1>13. \A c \in Address \ {x} : ShapeOf(c)' /\ (EnoughUsed(nodes[c]) => EnoughUsed(nodes'[c]))
  BY <1>2, <1>10, <1>11, <1>12, UntouchedNode
<1>14. old.level < x /\ Len(old.items) <= LeafSlots /\ x < b /\ x \in Nat
  BY <1>0, <1>2, <1>3, <1>4 DEF Shape, ShapeOf, Slots, Address
<1>15. ASSUME NEW q \in {l, r}, NEW c \in Address', nodes'[c] = q, x <= c
       PROVE  ShapeOf(c)' /\ EnoughUsed(nodes'[c])
  <2>1. /\ q.level = old.level /\ q.items = old.items
        /\ Len(q.keys) <= InnerSlots /\ Len(q.keys) >= InnerSlots \div 2
        /\ Len(q.child) = Len(q.keys) + 1 /\ q.child \in Seq(B)
    BY <1>7
  <2>2. old.level \in Nat \ {0} /\ c \in Nat
    BY <1>4, <1>10 DEF Address
  <2>3. q.level < c /\ q.level \in Nat \ {0} /\ Len(q.items) <= LeafSlots
    BY <2>1, <2>2, <1>14, <1>15
  <2>4. q.child \in Seq(Below(q.level))
    BY <2>1, <1>3
  <2>5. ShapeOf(c)'
    BY <2>1, <2>3, <2>4, <1>2, <1>10, <1>11, <1>12, <1>15, InnerNodeShape
  <2>6. EnoughUsed(q)
    BY <2>1, <2>3 DEF EnoughUsed
  <2> QED
    BY <2>5, <2>6, <1>15
<1>16. ShapeOf(x)' /\ EnoughUsed(nodes'[x]) /\ ShapeOf(b)' /\ EnoughUsed(nodes'[b])
  <2>1. x \in Address' /\ b \in Address' /\ x <= x /\ x <= b
    BY <1>4, <1>11, <1>14
  <2> QED
    BY <2>1, <1>10, <1>15
<1>17. Shape'
  BY <1>11, <1>13, <1>16 DEF Shape
<1> DEFINE Entry == [node : Nat, slot : Nat]
<1>18. stack \in Seq(Entry)
  BY <1>2 DEF Typed
<1> HIDE DEF Entry
<1>19. /\ stack' \in Seq(Entry) /\ Len(stack') = Len(stack) - 1
       /\ \A i \in 1..Len(stack') : stack'[i] = stack[i]
  BY <1>1, <1>4, <1>18, AllButLast
<1>20. root \in Address /\ nodes[root].level = nodes[newchild].level + Len(stack) /\ stack[1].node = root
  BY <1>1, <1>2 DEF Unwind
<1>21. ASSUME NEW i \in 1..Len(stack')
       PROVE  /\ stack'[i].node \in Address /\ stack'[i].node # x
              /\ stack'[i].slot <= Len(nodes[stack'[i].node].keys)
              /\ nodes[stack'[i].node].level = nodes[newchild].level + Len(stack) - i + 1
  <2>1. i \in 1..Len(stack) /\ i \in Nat /\ i < Len(stack) /\ stack'[i] = stack[i]
    BY <1>4, <1>19
  <2>2. /\ stack[i].node \in Address
        /\ stack[i].slot <= Len(nodes[stack[i].node].keys)
        /\ nodes[stack[i].node].level = nodes[newchild].level + Len(stack) - i + 1
    BY <2>1, <1>1, <1>2 DEF Unwind
  <2>3. nodes[stack[i].node].level # nodes[x].level
    BY <2>1, <2>2, <1>3, <1>4
  <2> QED
    BY <2>1, <2>2, <2>3
<1>22. Unwind'
  <2>1. nodes'[b].level = nodes[newchild].level + 1
    BY <1>4, <1>7, <1>10
  <2>2. nodes'[root].level = nodes'[b].level + Len(stack')
    <3>1. nodes'[root].level = nodes[newchild].level + Len(stack)
      BY <1>12, <1>20
    <3>2. Len(stack') = Len(stack) - 1 /\ Len(stack) \in Nat /\ nodes[newchild].level \in Nat
      BY <1>4, <1>19
    <3> QED
      BY <3>1, <3>2, <2>1
  <2>3. ASSUME NEW i \in 1..Len(stack')
        PROVE  /\ stack'[i].node \in Address' /\ stack'[i].slot <= Len(nodes'[stack'[i].node].keys)
               /\ nodes'[stack'[i].node].level = nodes'[b].level + Len(stack') - i + 1
    <3>1. /\ stack'[i].node \in Address /\ nodes'[stack'[i].node] = nodes[stack'[i].node]
          /\ stack'[i].slot <= Len(nodes[stack'[i].node].keys)
          /\ nodes[stack'[i].node].level = nodes[newchild].level + Len(stack) - i + 1
      BY <1>10, <1>21
    <3>2. nodes[newchild].level + Len(stack) - i + 1 = nodes'[b].level + Len(stack') - i + 1
      BY <2>1, <1>4, <1>19
    <3> QED
      BY <3>1, <3>2, <1>11
  <2>4. stack' # <<>> => stack'[1].node = root
    <3> SUFFICES ASSUME stack' # <<>> PROVE stack'[1].node = root
      OBVIOUS
    <3>1. 1 \in 1..Len(stack')
      BY <1>19
    <3> QED
      BY <3>1, <1>19, <1>20
  <2>5. root' \in Address' /\ newchild' \in Address' /\ newkey' \in Keys
    BY <1>1, <1>6, <1>11, <1>20
  <2> QED
    BY <2>2, <2>3, <2>4, <2>5, <1>1 DEF Unwind
<1>23. HalfFull'
  <2> SUFFICES ASSUME NEW c \in Address'
               PROVE  EnoughUsed(nodes'[c]) \/ (c = root /\ stack' # <<>>)
    BY <1>1 DEF HalfFull, RootMayUnderflow
  <2>1. CASE c \in {x, b}
    BY <2>1, <1>16
  <2>2. CASE c \notin {x, b}
    <3>1. c \in Address
      BY <2>2, <1>11
    <3>2. EnoughUsed(nodes[c]) \/ c = root
      BY <3>1, <1>2 DEF HalfFull
    <3>3. CASE EnoughUsed(nodes[c])
      BY <3>1, <3>3, <2>2, <1>13
    <3>4. CASE c = root
      <4> SUFFICES ASSUME stack' = <<>> PROVE FALSE
        BY <3>4
      <4>1. Len(stack) = 1
        BY <1>4, <1>19
      <4> QED
        BY <4>1, <3>4, <2>2, <1>0, <1>4, <1>20
    <3> QED
      BY <3>2, <3>3, <3>4
  <2> QED
    BY <2>1, <2>2
<1>24. Typed'
  <2>1. {root', head', tail', newchild'} \subseteq 0..Len(nodes')
    BY <1>0, <1>1, <1>2, <1>10 DEF Typed
  <2> QED
    BY <2>1, <1>1, <1>2, <1>10, <1>19 DEF Typed, Entry
<1>25. Bulk'
  BY <1>1 DEF Bulk
<1> QED
  BY <1>17, <1>22, <1>23, <1>24, <1>25 DEF IInv

\* The root was split: a new root above the two.
LEMMA NewRootStep ==
  ASSUME IInv, NewRoot
  PROVE  IInv'
<1>0. PICK b, node : /\ b = Len(nodes) + 1
                     /\ node = Inner(nodes[root].level + 1, <<newkey>>, <<root, newchild>>)
  OBVIOUS
<1>1. /\ pc = "unwind" /\ stack = <<>> /\ pc' = "idle" /\ stack' = stack /\ newchild' = 0
      /\ root' = b /\ head' = head /\ tail' = tail /\ nextlevel' = nextlevel
      /\ contents' = contents /\ nodes' = Append(nodes, node)
  BY <1>0 DEF NewRoot, history
<1>2. Typed /\ Shape /\ HalfFull /\ Unwind /\ nodes \in Seq(Node) /\ Len(nodes) \in Nat
  BY DEF IInv, Typed
<1>3. /\ root \in Address /\ newchild \in Address /\ newkey \in Keys
      /\ nodes[root].level = nodes[newchild].level
  <2>1. Len(stack) = 0
    BY <1>1
  <2>2. /\ root \in Address /\ newchild \in Address /\ newkey \in Keys
        /\ nodes[root].level = nodes[newchild].level + Len(stack)
    BY <1>1, <1>2 DEF Unwind
  <2>3. nodes[newchild].level \in Nat
    BY <2>2, <1>2, NodeFields
  <2> QED
    BY <2>1, <2>2, <2>3
<1>4. nodes[root].level \in Nat /\ nodes[root].level < root /\ root \in Nat /\ newchild \in Nat
      /\ root < b
  BY <1>0, <1>2, <1>3, NodeFields DEF Shape, ShapeOf
<1>5. PICK level : level = nodes[root].level + 1
  OBVIOUS
<1>6. /\ node \in Node /\ node.level = level /\ node.items = <<>> /\ Len(node.keys) = 1
      /\ node.child = <<root, newchild>>
  <2>1. <<newkey>> \in Seq(Keys) /\ <<root, newchild>> \in Seq(Nat) /\ level \in Nat
    BY <1>3, <1>4, <1>5
  <2> QED
    BY <2>1, <1>0, <1>5 DEF Inner, Node
<1>7. /\ nodes' \in Seq(Node) /\ Len(nodes') = b /\ nodes'[b] = node
      /\ \A c \in Address : nodes'[c] = nodes[c]
  BY <1>0, <1>1, <1>2, <1>6, AppendProperties DEF Address
<1>8. Address' = Address \cup {b} /\ b \notin Address /\ Len(nodes) <= Len(nodes') /\ b \in Nat
  BY <1>0, <1>2, <1>7 DEF Address
<1>9. \A c \in Address : nodes'[c].level = nodes[c].level
  BY <1>7
<1>10. \A c \in Address : ShapeOf(c)'
  BY <1>2, <1>7, <1>8, <1>9, UntouchedNode
<1>11. ShapeOf(b)'
  <2>1. <<root, newchild>> \in Seq(Below(level))
    <3>1. root \in Below(level) /\ newchild \in Below(level)
      BY <1>3, <1>5 DEF Below
    <3> QED
      BY <3>1
  <2>2. Len(<<root, newchild>>) = 2 /\ Len(<<>>) = 0
    OBVIOUS
  <2>3. level < b /\ level \in Nat \ {0} /\ b \in Address'
    BY <1>4, <1>5, <1>8
  <2>4. /\ Len(node.items) <= LeafSlots /\ Len(node.keys) <= InnerSlots
        /\ Len(node.child) = Len(node.keys) + 1 /\ node.child \in Seq(Below(node.level))
    BY <2>1, <2>2, <1>6, SlotNumbers
  <2> QED
    BY <2>3, <2>4, <1>2, <1>6, <1>7, <1>8, <1>9, InnerNodeShape
<1>12. Shape'
  BY <1>8, <1>10, <1>11 DEF Shape
<1>13. HalfFull'
  BY <1>1, <1>2, <1>7, <1>8 DEF HalfFull, RootMayUnderflow
<1>14. Typed'
  BY <1>0, <1>1, <1>2, <1>7 DEF Typed
<1>15. Bulk' /\ Unwind'
  BY <1>1 DEF Bulk, Unwind
<1> QED
  BY <1>12, <1>13, <1>14, <1>15 DEF IInv


-----------------------------------------------------------------------------
(* bulk_load. *)

\* The elements of a sequence are finitely many.
LEMMA RangeFinite ==
  ASSUME NEW n \in Nat, NEW f, DOMAIN f = 1..n, f = [i \in 1..n |-> f[i]]
  PROVE  IsFiniteSet(Range(f))
<1>1. Range(f) = {f[i] : i \in 1..n}
  BY DEF Range
<1>2. f \in Surjection(1..n, Range(f))
  BY <1>1 DEF Surjection
<1>3. IsFiniteSet(1..n)
  BY FS_Interval
<1> QED
  BY <1>2, <1>3, FS_Surjection

\* head of m linked leaves.
LEMMA FirstLeaf ==
  ASSUME NEW m \in Nat
  PROVE  Min({1, m}) \in 0..m /\ (m <= 1 => Min({1, m}) = m)
<1>1. Min({1, m}) \in {1, m} /\ \A x \in {1, m} : Min({1, m}) <= x
  <2>1. {1, m} \in SUBSET Int /\ 0 \in Int /\ {1, m} # {} /\ \A x \in {1, m} : 0 <= x
    OBVIOUS
  <2> QED
    BY <2>1, LeastElement
<1> QED
  BY <1>1

\* The items of a bulk load, and those of its leaves: each has at most leafslotmax of
\* them, and half of this if it is not the only one.
BulkItems(keys) == [j \in 1..Len(keys) |-> [key |-> keys[j], id |-> j]]
BulkLeafParts(keys, n, m, items) ==
  /\ n \in Nat /\ m \in Nat /\ items \in Seq(Item) /\ IsFiniteSet(Range(items))
  /\ \A i \in 1..m :
       LET part == Share(n, m)[i]
           own == SubSeq(items, part.from, part.to)
       IN  /\ own \in Seq(Item) /\ Len(own) \in 0..LeafSlots
           /\ m > 1 => Len(own) >= LeafSlots \div 2 /\ keys[part.to] \in Keys

\* bulk_load makes such leaves.
LEMMA BulkLeafPartsHold ==
  ASSUME NEW keys \in Inputs
  PROVE  BulkLeafParts(keys, Len(keys), CeilDiv(Len(keys), LeafSlots), BulkItems(keys))
<1>0. PICK n, m, items : n = Len(keys) /\ m = CeilDiv(n, LeafSlots) /\ items = BulkItems(keys)
  OBVIOUS
<1> DEFINE half == LeafSlots \div 2
           lo == IF m > 1 THEN half ELSE 0
<1>1. /\ LeafSlots \in Nat \ {0} /\ half \in Nat /\ half >= 1 /\ 2 * half <= LeafSlots + 1
  BY SlotNumbers
<1>2. keys \in Seq(Keys) /\ n \in Nat /\ DOMAIN keys = 1..n
  BY <1>0, BTreeAssumption
<1>3. items \in [1..n -> Item]
  BY <1>0, <1>2 DEF Item, BulkItems
<1>4. items \in Seq(Item) /\ Len(items) = n /\ DOMAIN items = 1..n
  BY <1>2, <1>3
<1>5. IsFiniteSet(Range(items))
  <2>1. DOMAIN items = 1..n /\ items = [i \in 1..n |-> items[i]]
    BY <1>3
  <2> QED
    BY <2>1, <1>2, RangeFinite
<1> HIDE DEF half
<1>6. m \in Nat /\ n <= m * LeafSlots /\ (m > 1 => m * half <= n)
  BY <1>0, <1>1, <1>2, NodesNeeded
<1>7. lo \in Nat /\ m * lo <= n
  BY <1>1, <1>2, <1>6
<1> HIDE DEF lo
<1>8. ASSUME NEW i \in 1..m
      PROVE  LET part == Share(n, m)[i]
                 own == SubSeq(items, part.from, part.to)
             IN  /\ own \in Seq(Item) /\ Len(own) \in 0..LeafSlots
                 /\ m > 1 => Len(own) >= LeafSlots \div 2 /\ keys[part.to] \in Keys
  <2>1. PICK from, to : from = Share(n, m)[i].from /\ to = Share(n, m)[i].to
    OBVIOUS
  <2>2. from \in 1..(n + 1) /\ to \in 0..n /\ to - from + 1 \in lo..LeafSlots
    BY <2>1, <1>1, <1>2, <1>6, <1>7, ShareParts
  <2>3. from \in 1..(Len(items) + 1) /\ to \in (from - 1)..Len(items)
    BY <2>2, <1>1, <1>2, <1>4, <1>7
  <2>4. SubSeq(items, from, to) \in Seq(Item) /\ Len(SubSeq(items, from, to)) = to - from + 1
    BY <2>3, <1>4, PartOf
  <2>5. to - from + 1 \in 0..LeafSlots /\ (m > 1 => to - from + 1 >= half)
    BY <2>2, <1>1, <1>2, <1>7 DEF lo
  <2>6. m > 1 => keys[to] \in Keys
    <3> SUFFICES ASSUME m > 1 PROVE keys[to] \in Keys
      OBVIOUS
    <3>1. to \in 1..n
      BY <2>2, <2>5, <1>1, <1>2
    <3> QED
      BY <3>1, <1>2
  <2> QED
    BY <2>1, <2>4, <2>5, <2>6 DEF half
<1> QED
  BY <1>0, <1>2, <1>4, <1>5, <1>6, <1>8 DEF BulkLeafParts

\* The leaves are as full as they have to be.
LEMMA BulkLeavesStep ==
  ASSUME IInv, NEW keys \in Inputs, BulkLeaves(keys)
  PROVE  IInv'
<1>0. PICK n, m, items : n = Len(keys) /\ m = CeilDiv(n, LeafSlots) /\ items = BulkItems(keys)
  OBVIOUS
<1> DEFINE part == Share(n, m)
           own(i) == SubSeq(items, part[i].from, part[i].to)
           leaf(i) == Leaf(own(i), i - 1, IF i = m THEN 0 ELSE i + 1)
<1>1. /\ pc = "new" /\ nodes' = [i \in 1..m |-> leaf(i)]
      /\ head' = Min({1, m}) /\ tail' = m /\ contents' = Range(items)
      /\ stack' = stack /\ newchild' = newchild
  BY <1>0 DEF BulkLeaves, BulkItems
<1>2. IF m <= 1 THEN root' = head' /\ pc' = "idle" /\ nextlevel' = <<>>
      ELSE /\ root' = 0 /\ pc' = "bulk"
           /\ nextlevel' = [i \in 1..m |-> [node |-> i, max |-> keys[part[i].to]]]
  BY <1>0 DEF BulkLeaves, BulkItems
<1>3. /\ n \in Nat /\ m \in Nat /\ items \in Seq(Item) /\ IsFiniteSet(Range(items))
      /\ \A i \in 1..m : /\ own(i) \in Seq(Item) /\ Len(own(i)) \in 0..LeafSlots
                         /\ m > 1 => Len(own(i)) >= LeafSlots \div 2 /\ keys[part[i].to] \in Keys
  <2>1. BulkLeafParts(keys, n, m, items)
    BY <1>0, BulkLeafPartsHold
  <2> QED
    BY <2>1 DEF BulkLeafParts
<1> HIDE DEF part, own
<1>4. ASSUME NEW i \in 1..m
      PROVE  leaf(i) \in Node /\ leaf(i).level = 0 /\ leaf(i).items = own(i) /\ leaf(i).keys = <<>>
  <2>1. own(i) \in Seq(Item) /\ i - 1 \in Nat /\ (IF i = m THEN 0 ELSE i + 1) \in Nat
    BY <1>3
  <2>2. PICK next : next = IF i = m THEN 0 ELSE i + 1
    OBVIOUS
  <2>3. PICK prev : prev = i - 1
    OBVIOUS
  <2>4. leaf(i) = Leaf(own(i), prev, next) /\ prev \in Nat /\ next \in Nat
    BY <2>1, <2>2, <2>3
  <2> QED
    BY <2>1, <2>4 DEF Leaf, Node
<1> HIDE DEF leaf
<1>5. nodes' \in Seq(Node) /\ Len(nodes') = m /\ Address' = 1..m
  <2>1. nodes' \in [1..m -> Node]
    BY <1>1, <1>4
  <2> QED
    BY <2>1, <1>3 DEF Address
<1>6. \A i \in 1..m : /\ nodes'[i].level = 0 /\ nodes'[i].items = own(i) /\ nodes'[i].keys = <<>>
  BY <1>1, <1>4
<1>7. Shape'
  <2> SUFFICES ASSUME NEW i \in 1..m PROVE ShapeOf(i)'
    BY <1>5 DEF Shape
  <2>1. nodes'[i].level = 0 /\ nodes'[i].level < i
    BY <1>3, <1>6
  <2>2. Len(nodes'[i].items) <= LeafSlots
    BY <1>3, <1>6, SlotNumbers
  <2>3. Len(nodes'[i].keys) <= InnerSlots
    <3>1. Len(<<>>) = 0
      OBVIOUS
    <3> QED
      BY <3>1, <1>6, SlotNumbers
  <2> QED
    BY <2>1, <2>2, <2>3 DEF ShapeOf, Slots
<1>8. Min({1, m}) \in 0..m /\ (m <= 1 => Min({1, m}) = m)
  BY <1>3, FirstLeaf
<1>9. HalfFull'
  <2> SUFFICES ASSUME NEW i \in 1..m
               PROVE  EnoughUsed(nodes'[i]) \/ (i = root' /\ RootMayUnderflow')
    BY <1>5 DEF HalfFull
  <2>1. CASE m > 1
    BY <2>1, <1>3, <1>6 DEF EnoughUsed
  <2>2. CASE m <= 1
    <3>1. i = root' /\ pc' = "idle"
      BY <2>2, <1>1, <1>2, <1>3, <1>8
    <3> QED
      BY <3>1 DEF RootMayUnderflow
  <2> QED
    BY <2>1, <2>2, <1>3
<1> DEFINE Entry == [node : Nat, max : Keys]
<1>10. nextlevel' \in Seq(Entry)
  <2>1. CASE m <= 1
    BY <2>1, <1>2
  <2>2. CASE m > 1
    <3>1. nextlevel' = [i \in 1..m |-> [node |-> i, max |-> keys[part[i].to]]]
      BY <2>2, <1>2, <1>3
    <3>2. \A i \in 1..m : i \in Nat /\ keys[part[i].to] \in Keys
      BY <2>2, <1>3
    <3>3. nextlevel' \in [1..m -> Entry]
      BY <3>1, <3>2
    <3> HIDE DEF Entry
    <3> QED
      BY <3>3, <1>3
  <2> QED
    BY <2>1, <2>2, <1>3
<1>11. Typed'
  <2>1. newchild = 0 /\ stack \in Seq([node : Nat, slot : Nat])
    BY <1>1 DEF IInv, Typed
  <2>2. root' \in 0..m /\ head' \in 0..m /\ tail' \in 0..m
    BY <1>1, <1>2, <1>3, <1>8
  <2>3. {root', head', tail', newchild'} \subseteq 0..m
    BY <2>1, <2>2, <1>1, <1>3
  <2>4. pc' \in {"idle", "bulk"} /\ (pc' = "bulk" => root' = 0)
    BY <1>2
  <2> QED
    BY <2>1, <2>3, <2>4, <1>1, <1>3, <1>5, <1>10 DEF Typed
<1>12. Bulk'
  <2> SUFFICES ASSUME pc' = "bulk"
               PROVE  /\ Len(nextlevel') >= 2
                      /\ \A i \in 1..Len(nextlevel') :
                           /\ nextlevel'[i].node \in Address'
                           /\ nodes'[nextlevel'[i].node].level = nodes'[nextlevel'[1].node].level
    BY DEF Bulk
  <2>1. m > 1 /\ nextlevel' = [i \in 1..m |-> [node |-> i, max |-> keys[part[i].to]]]
    BY <1>2, <1>3
  <2>2. Len(nextlevel') = m /\ \A i \in 1..m : nextlevel'[i].node = i
    BY <2>1, <1>3
  <2>3. Len(nextlevel') >= 2 /\ 1 \in 1..m
    BY <2>1, <2>2, <1>3
  <2> QED
    BY <2>2, <2>3, <1>5, <1>6
<1>13. Unwind'
  BY <1>2 DEF Unwind
<1> QED
  BY <1>7, <1>9, <1>11, <1>12, <1>13 DEF IInv


\* A parent of some of the nodes without one, as bulk_load makes it.
Parent(s, from, to, level) ==
  LET below == SubSeq(s, from, to)
  IN  Inner(level, [n \in 1..(Len(below) - 1) |-> below[n].max],
                   [n \in 1..Len(below) |-> below[n].node])

\* The entries of nextlevel, by the nodes they are about.
Entry(B) == [node : B, max : Keys]

\* An inner node with some number of keys, and with children from a set.
ParentOf(node, level, n, B) ==
  /\ node \in Node /\ node.level = level /\ node.items = <<>>
  /\ Len(node.keys) = n /\ Len(node.child) = Len(node.keys) + 1 /\ node.child \in Seq(B)

\* It has one key less than children, and these are one level down.
LEMMA ParentNode ==
  ASSUME NEW B \in SUBSET Nat, NEW s \in Seq(Entry(B)), NEW level \in Nat,
         NEW from \in 1..(Len(s) + 1), NEW to \in from..Len(s)
  PROVE  ParentOf(Parent(s, from, to, level), level, to - from, B)
<1>1. s \in Seq(Entry(B))
  OBVIOUS
<1>2. \A e \in Entry(B) : e.node \in B /\ e.max \in Keys
  BY DEF Entry
<1>3. PICK below : below = SubSeq(s, from, to)
  OBVIOUS
<1>4. to \in (from - 1)..Len(s) /\ Len(s) \in Nat
  BY <1>1
<1>5. below \in Seq(Entry(B)) /\ Len(below) = to - from + 1
  BY <1>1, <1>3, <1>4, PartOf
<1>6. PICK w : w = Len(below)
  OBVIOUS
<1>7. w \in Nat \ {0} /\ w - 1 = to - from /\ \A n \in 1..w : below[n] \in Entry(B)
  BY <1>4, <1>5, <1>6
<1>8. PICK ks, cs : ks = [n \in 1..(w - 1) |-> below[n].max] /\ cs = [n \in 1..w |-> below[n].node]
  OBVIOUS
<1>9. ks \in Seq(Keys) /\ Len(ks) = w - 1
  <2>1. ks \in [1..(w - 1) -> Keys]
    BY <1>2, <1>7, <1>8
  <2> QED
    BY <2>1, <1>7
<1>10. cs \in Seq(B) /\ Len(cs) = w
  <2>1. cs \in [1..w -> B]
    BY <1>2, <1>7, <1>8
  <2> QED
    BY <2>1, <1>7
<1>11. cs \in Seq(Nat)
  BY <1>10, SeqMonotonic
<1>12. PICK node : node = Inner(level, ks, cs)
  OBVIOUS
<1>13. /\ node \in Node /\ node.level = level /\ node.items = <<>> /\ node.keys = ks
       /\ node.child = cs
  BY <1>9, <1>11, <1>12 DEF Inner, Node
<1>14. Parent(s, from, to, level) = node
  BY <1>3, <1>6, <1>8, <1>12 DEF Parent
<1>15. Len(ks) = to - from /\ Len(cs) = Len(ks) + 1
  BY <1>7, <1>9, <1>10
<1> QED
  BY <1>10, <1>13, <1>14, <1>15 DEF ParentOf

\* How bulk_load shares n nodes of a level among m parents.
BulkLevelParts(n, m) ==
  /\ m \in Nat \ {0}
  /\ \A i \in 1..m :
       LET part == Share(n, m)[i]
       IN  /\ part.from \in 1..n /\ part.to \in part.from..n
           /\ part.to - part.from \in 1..InnerSlots
           /\ m > 1 => part.to - part.from >= InnerSlots \div 2

\* No parent gets more children than it has slots for, and none but an only one fewer
\* than half of that.
LEMMA BulkLevelPartsHold ==
  ASSUME NEW n \in Nat, n >= 2
  PROVE  BulkLevelParts(n, CeilDiv(n, InnerSlots + 1))
<1>0. PICK m, half, hi : /\ m = CeilDiv(n, InnerSlots + 1) /\ half = InnerSlots \div 2
                         /\ hi = InnerSlots + 1
  OBVIOUS
<1>1. /\ InnerSlots \in Nat /\ hi \in Nat \ {0} /\ half \in Nat /\ half >= 1
      /\ half + 1 \in Nat /\ 2 * (half + 1) <= hi + 1
  BY <1>0, SlotNumbers
<1>2. m \in Nat /\ n <= m * hi /\ m > 0 /\ (m > 1 => m * (half + 1) <= n)
  BY <1>0, <1>1, NodesNeeded
<1>3. PICK lo : lo = IF m > 1 THEN half + 1 ELSE 2
  OBVIOUS
<1>4. lo \in Nat /\ lo >= 2 /\ m * lo <= n /\ (m > 1 => lo = half + 1)
  BY <1>1, <1>2, <1>3
<1>5. ASSUME NEW i \in 1..m
      PROVE  LET part == Share(n, m)[i]
             IN  /\ part.from \in 1..n /\ part.to \in part.from..n
                 /\ part.to - part.from \in 1..InnerSlots
                 /\ m > 1 => part.to - part.from >= InnerSlots \div 2
  <2>1. PICK from, to : from = Share(n, m)[i].from /\ to = Share(n, m)[i].to
    OBVIOUS
  <2>2. from \in 1..(n + 1) /\ to \in 0..n /\ to - from + 1 \in lo..hi
    BY <2>1, <1>1, <1>2, <1>4, ShareParts
  <2>3. from \in 1..n /\ to \in from..n /\ to - from \in 1..(hi - 1) /\ (m > 1 => to - from >= half)
    BY <2>2, <1>1, <1>4
  <2> QED
    BY <2>1, <2>3, <1>0, <1>1
<1> QED
  BY <1>0, <1>2, <1>5 DEF BulkLevelParts

\* A level of inner nodes.
LEMMA BulkLevelStep ==
  ASSUME IInv, BulkLevel
  PROVE  IInv'
<1>0. PICK N, n, m, level : /\ N = Len(nodes) /\ n = Len(nextlevel)
                            /\ m = CeilDiv(n, InnerSlots + 1)
                            /\ level = nodes[nextlevel[1].node].level + 1
  OBVIOUS
<1>1. PICK part, new : /\ part = Share(n, m)
                       /\ new = [i \in 1..m |-> Parent(nextlevel, part[i].from, part[i].to, level)]
  OBVIOUS
<1>2. /\ pc = "bulk" /\ nodes' = nodes \o new
      /\ head' = head /\ tail' = tail /\ stack' = stack /\ newchild' = newchild
      /\ contents' = contents
  BY <1>0, <1>1 DEF BulkLevel, Parent, history
<1>3. IF m = 1 THEN root' = N + 1 /\ pc' = "idle" /\ nextlevel' = <<>>
      ELSE /\ nextlevel' = [i \in 1..m |-> [node |-> N + i, max |-> nextlevel[part[i].to].max]]
           /\ root' = root /\ pc' = pc
  BY <1>0, <1>1 DEF BulkLevel
<1>4. Typed /\ Shape /\ HalfFull /\ Bulk /\ nodes \in Seq(Node) /\ N \in Nat /\ root = 0
      /\ Address = 1..N
  BY <1>0, <1>2 DEF IInv, Typed, Address
<1>5. nextlevel \in Seq(Entry(Nat))
  BY <1>4 DEF Typed, Entry
<1>6. /\ n \in Nat /\ n >= 2
      /\ \A i \in 1..n : /\ nextlevel[i].node \in Address
                         /\ nodes[nextlevel[i].node].level + 1 = level
                         /\ nextlevel[i] \in Entry(Nat)
  <2>1. n \in Nat /\ \A i \in 1..n : nextlevel[i] \in Entry(Nat)
    BY <1>0, <1>5
  <2> QED
    BY <2>1, <1>0, <1>2, <1>4 DEF Bulk
<1>7. PICK B : B = Below(level)
  OBVIOUS
<1>8. B \in SUBSET Nat /\ \A i \in 1..n : nextlevel[i].node \in B
  BY <1>4, <1>6, <1>7 DEF Below
<1>9. nextlevel \in Seq(Entry(B))
  <2>1. \A i \in 1..n : nextlevel[i] \in Entry(B)
    BY <1>6, <1>8 DEF Entry
  <2>2. nextlevel \in [1..n -> Entry(B)]
    BY <2>1, <1>0, <1>5
  <2> QED
    BY <2>2, <1>6
<1>10. level \in Nat \ {0} /\ level <= N
  <2>1. PICK a : a = nextlevel[1].node
    OBVIOUS
  <2>2. a \in Address /\ level = nodes[a].level + 1
    BY <2>1, <1>0, <1>6
  <2>3. nodes[a].level \in Nat /\ nodes[a].level < a /\ a \in Nat /\ a <= N
    BY <2>2, <1>0, <1>4, NodeFields DEF Shape, ShapeOf
  <2> QED
    BY <2>2, <2>3, <1>4
<1>11. /\ m \in Nat \ {0}
       /\ \A i \in 1..m : /\ part[i].from \in 1..n /\ part[i].to \in part[i].from..n
                          /\ part[i].to - part[i].from \in 1..InnerSlots
                          /\ m > 1 => part[i].to - part[i].from >= InnerSlots \div 2
  <2>1. BulkLevelParts(n, m)
    BY <1>0, <1>6, BulkLevelPartsHold
  <2> QED
    BY <2>1, <1>1 DEF BulkLevelParts
<1>12. ASSUME NEW i \in 1..m
       PROVE  /\ new[i] \in Node /\ new[i].level = level /\ new[i].items = <<>>
              /\ Len(new[i].keys) <= InnerSlots
              /\ m > 1 => Len(new[i].keys) >= InnerSlots \div 2
              /\ Len(new[i].child) = Len(new[i].keys) + 1 /\ new[i].child \in Seq(B)
  <2>1. PICK from, to : from = part[i].from /\ to = part[i].to
    OBVIOUS
  <2>2. /\ from \in 1..n /\ to \in from..n /\ to - from \in 1..InnerSlots
        /\ m > 1 => to - from >= InnerSlots \div 2
    BY <2>1, <1>11
  <2>3. from \in 1..(Len(nextlevel) + 1) /\ to \in from..Len(nextlevel)
    BY <2>2, <1>0, <1>6
  <2>4. new[i] = Parent(nextlevel, from, to, level)
    BY <2>1, <1>1
  <2>5. /\ new[i] \in Node /\ new[i].level = level /\ new[i].items = <<>>
        /\ Len(new[i].keys) = to - from /\ Len(new[i].child) = Len(new[i].keys) + 1
        /\ new[i].child \in Seq(B)
    <3>1. PICK s, node : s = nextlevel /\ node = Parent(s, from, to, level)
      OBVIOUS
    <3>2. /\ level \in Nat /\ B \in SUBSET Nat /\ s \in Seq(Entry(B))
          /\ from \in 1..(Len(s) + 1) /\ to \in from..Len(s)
      BY <3>1, <2>3, <1>8, <1>9, <1>10
    <3>3. /\ node \in Node /\ node.level = level /\ node.items = <<>>
          /\ Len(node.keys) = to - from /\ Len(node.child) = Len(node.keys) + 1
          /\ node.child \in Seq(B)
      <4>1. ParentOf(Parent(s, from, to, level), level, to - from, B)
        BY <3>2, ParentNode
      <4> QED
        BY <4>1, <3>1 DEF ParentOf
    <3> QED
      BY <3>1, <3>3, <2>4
  <2>6. Len(new[i].keys) <= InnerSlots
    BY <2>2, <2>5, SlotNumbers
  <2> QED
    BY <2>2, <2>5, <2>6
<1>13. new \in Seq(Node) /\ Len(new) = m
  <2>1. new \in [1..m -> Node]
    BY <1>1, <1>12
  <2> QED
    BY <2>1, <1>11
<1>14. /\ nodes' \in Seq(Node) /\ Len(nodes') = N + m
       /\ \A c \in 1..(N + m) : nodes'[c] = IF c <= N THEN nodes[c] ELSE new[c - N]
  <2>1. /\ nodes \o new \in Seq(Node) /\ Len(nodes \o new) = Len(nodes) + Len(new)
        /\ \A c \in 1..(Len(nodes) + Len(new)) :
             (nodes \o new)[c] = IF c <= Len(nodes) THEN nodes[c] ELSE new[c - Len(nodes)]
    BY <1>4, <1>13, ConcatProperties
  <2>2. PICK t : t = nodes \o new
    OBVIOUS
  <2>3. /\ t \in Seq(Node) /\ Len(t) = N + m
        /\ \A c \in 1..(N + m) : t[c] = IF c <= N THEN nodes[c] ELSE new[c - N]
    BY <2>1, <2>2, <1>0, <1>13
  <2> QED
    BY <2>2, <2>3, <1>2
<1>15. Address' = 1..(N + m) /\ Len(nodes) <= Len(nodes')
  BY <1>0, <1>4, <1>11, <1>14 DEF Address
<1>16. \A c \in Address : nodes'[c] = nodes[c]
  BY <1>4, <1>11, <1>14
<1>17. ASSUME NEW c \in Address', c \notin Address
       PROVE  c - N \in 1..m /\ nodes'[c] = new[c - N] /\ c \in Nat /\ c > N
  BY <1>4, <1>11, <1>14, <1>15, <1>17
<1>18. \A c \in Address : ShapeOf(c)'
  BY <1>4, <1>14, <1>15, <1>16, UntouchedNode
<1>19. ASSUME NEW c \in Address', c \notin Address
       PROVE  ShapeOf(c)'
  <2>1. PICK i, node : i = c - N /\ node = new[i]
    OBVIOUS
  <2>2. i \in 1..m /\ nodes'[c] = node /\ c \in Nat /\ c > N
    BY <2>1, <1>17, <1>19
  <2>3. /\ node.level = level /\ node.items = <<>>
        /\ Len(node.keys) <= InnerSlots
        /\ Len(node.child) = Len(node.keys) + 1 /\ node.child \in Seq(B)
    BY <2>1, <2>2, <1>12
  <2>4. node.level < c /\ node.level \in Nat \ {0}
    BY <2>2, <2>3, <1>4, <1>10
  <2>5. Len(node.items) <= LeafSlots
    <3>1. Len(<<>>) = 0
      OBVIOUS
    <3> QED
      BY <3>1, <2>3, SlotNumbers
  <2>6. node.child \in Seq(Below(node.level))
    BY <2>3, <1>7
  <2> QED
    BY <2>2, <2>3, <2>4, <2>5, <2>6, <1>4, <1>14, <1>15, <1>16, InnerNodeShape
<1>20. Shape'
  BY <1>18, <1>19 DEF Shape
<1>21. HalfFull'
  <2> SUFFICES ASSUME NEW c \in Address'
               PROVE  EnoughUsed(nodes'[c]) \/ (c = root' /\ RootMayUnderflow')
    BY DEF HalfFull
  <2>1. CASE c \in Address
    <3>1. c # root
      BY <2>1, <1>4
    <3> QED
      BY <3>1, <2>1, <1>4, <1>16 DEF HalfFull
  <2>2. CASE c \notin Address
    <3>1. c - N \in 1..m /\ nodes'[c] = new[c - N] /\ c \in Nat
      BY <2>2, <1>17
    <3>2. CASE m > 1
      <4>1. nodes'[c].level # 0 /\ Len(nodes'[c].keys) >= InnerSlots \div 2
        BY <3>1, <3>2, <1>10, <1>12
      <4> QED
        BY <4>1 DEF EnoughUsed
    <3>3. CASE m = 1
      <4>1. c = N + 1
        BY <3>1, <3>3, <1>4
      <4> QED
        BY <4>1, <3>3, <1>3 DEF RootMayUnderflow
    <3> QED
      BY <3>2, <3>3, <1>11
  <2> QED
    BY <2>1, <2>2
<1>22. m # 1 => /\ nextlevel' \in Seq(Entry(Nat)) /\ Len(nextlevel') = m
                /\ \A i \in 1..m : nextlevel'[i].node = N + i
  <2> SUFFICES ASSUME m # 1
               PROVE  /\ nextlevel' \in Seq(Entry(Nat)) /\ Len(nextlevel') = m
                      /\ \A i \in 1..m : nextlevel'[i].node = N + i
    OBVIOUS
  <2>1. nextlevel' = [i \in 1..m |-> [node |-> N + i, max |-> nextlevel[part[i].to].max]]
    BY <1>3
  <2>2. \A i \in 1..m : N + i \in Nat /\ nextlevel[part[i].to].max \in Keys
    <3> SUFFICES ASSUME NEW i \in 1..m
                 PROVE  N + i \in Nat /\ nextlevel[part[i].to].max \in Keys
      OBVIOUS
    <3>1. PICK from, to : from = part[i].from /\ to = part[i].to
      OBVIOUS
    <3>2. from \in 1..n /\ to \in from..n
      BY <3>1, <1>11
    <3>3. to \in 1..n
      BY <3>2, <1>6
    <3>4. nextlevel[to] \in Entry(Nat)
      BY <3>3, <1>6
    <3>5. nextlevel[to].max \in Keys
      BY <3>4 DEF Entry
    <3> QED
      BY <3>1, <3>5, <1>4
  <2>3. nextlevel' \in [1..m -> Entry(Nat)]
    BY <2>1, <2>2 DEF Entry
  <2>4. \A i \in 1..m : nextlevel'[i].node = N + i
    BY <2>1
  <2> QED
    BY <2>3, <2>4, <1>11
<1>23. Typed'
  <2>1. nextlevel' \in Seq(Entry(Nat))
    <3>1. CASE m = 1
      BY <3>1, <1>3
    <3>2. CASE m # 1
      BY <3>2, <1>22
    <3> QED
      BY <3>1, <3>2
  <2>2. newchild = 0 /\ stack \in Seq([node : Nat, slot : Nat]) /\ IsFiniteSet(contents)
        /\ head \in 0..N /\ tail \in 0..N
    BY <1>0, <1>2, <1>4 DEF Typed
  <2>3. root' \in 0..(N + m)
    BY <1>3, <1>4, <1>11
  <2>4. {root', head', tail', newchild'} \subseteq 0..(N + m)
    BY <2>2, <2>3, <1>2, <1>4, <1>11
  <2>5. pc' \in {"idle", "bulk"} /\ (pc' = "bulk" => root' = 0)
    BY <1>2, <1>3, <1>4
  <2> QED
    BY <2>1, <2>2, <2>4, <2>5, <1>2, <1>14 DEF Typed, Entry
<1>24. Bulk'
  <2> SUFFICES ASSUME pc' = "bulk"
               PROVE  /\ Len(nextlevel') >= 2
                      /\ \A i \in 1..Len(nextlevel') :
                           /\ nextlevel'[i].node \in Address'
                           /\ nodes'[nextlevel'[i].node].level = nodes'[nextlevel'[1].node].level
    BY DEF Bulk
  <2>1. m # 1
    BY <1>3
  <2>2. Len(nextlevel') = m /\ m >= 2 /\ \A i \in 1..m : nextlevel'[i].node = N + i
    BY <2>1, <1>11, <1>22
  <2>3. ASSUME NEW i \in 1..m
        PROVE  nextlevel'[i].node \in Address' /\ nodes'[nextlevel'[i].node].level = level
    <3>1. N + i \in 1..(N + m) /\ ~(N + i <= N) /\ N + i - N = i
      BY <1>4, <1>11
    <3>2. nodes'[N + i] = new[i]
      <4>1. PICK c : c = N + i
        OBVIOUS
      <4>2. c \in 1..(N + m) /\ ~(c <= N) /\ c - N = i
        BY <4>1, <1>4, <1>11
      <4>3. nodes'[c] = new[c - N]
        BY <4>2, <1>14
      <4> QED
        BY <4>1, <4>2, <4>3
    <3> QED
      BY <3>1, <3>2, <2>2, <1>12, <1>15
  <2>4. 1 \in 1..m
    BY <2>2, <1>11
  <2> QED
    BY <2>2, <2>3, <2>4
<1>25. Unwind'
  BY <1>2, <1>3 DEF Unwind
<1> QED
  BY <1>20, <1>21, <1>23, <1>24, <1>25 DEF IInv


-----------------------------------------------------------------------------
(* The theorems. *)

\* The empty tree.
LEMMA InitHolds == Init => IInv
<1> SUFFICES ASSUME Init PROVE IInv
  OBVIOUS
<1>1. nodes = <<>> /\ Len(nodes) = 0 /\ Address = {}
  BY DEF Init, Address
<1>2. Typed
  <2>1. IsFiniteSet({})
    BY FS_EmptySet
  <2> QED
    BY <2>1, <1>1 DEF Init, Typed
<1>3. Shape /\ HalfFull /\ Bulk /\ Unwind
  BY <1>1 DEF Init, Shape, HalfFull, Bulk, Unwind
<1> QED
  BY <1>2, <1>3 DEF IInv

\* Every step of bulk_load and of insert keeps the invariant.
LEMMA StepHolds == IInv /\ [Next]_vars => IInv'
<1> SUFFICES ASSUME IInv, [Next]_vars PROVE IInv'
  OBVIOUS
<1>1. CASE \E keys \in Inputs : BulkLeaves(keys)
  BY <1>1, BulkLeavesStep
<1>2. CASE BulkLevel
  BY <1>2, BulkLevelStep
<1>3. CASE \E k \in Keys : inserts < MaxInserts /\ Insert(k)
  <2>1. PICK k \in Keys : Insert(k)
    BY <1>3
  <2>2. CASE InsertFirst(k)
    BY <2>2, InsertFirstStep
  <2>3. CASE InsertIntoLeaf(k)
    BY <2>3, InsertIntoLeafStep
  <2>4. CASE SplitLeaf(k)
    BY <2>4, SplitLeafStep
  <2> QED
    BY <2>1, <2>2, <2>3, <2>4 DEF Insert
<1>4. CASE InsertIntoInner
  BY <1>4, InsertIntoInnerStep
<1>5. CASE SplitInner
  BY <1>5, SplitInnerStep
<1>6. CASE NewRoot
  BY <1>6, NewRootStep
<1>7. CASE UNCHANGED vars
  BY <1>7 DEF vars, links, history, IInv, Typed, Shape, ShapeOf, Slots, Below, Address,
              HalfFull, EnoughUsed, RootMayUnderflow, Bulk, Unwind
<1> QED
  BY <1>1, <1>2, <1>3, <1>4, <1>5, <1>6, <1>7 DEF Next

\* The shape of the tree, during bulk_load and between the steps of an insert too:
\* children are one level down, and every node but the root is at least half full.
THEOREM BTreeInvariant == Spec => []IInv
<1> QED
  BY InitHolds, StepHolds, PTL DEF Spec

\* No node has more slots in use than it has, and none but the root fewer than half of
\* them, after bulk loads and splits alike, for all numbers of slots.
THEOREM BTreeTypeOK == Spec => []TypeOK
<1>1. IInv => TypeOK
  <2> SUFFICES ASSUME IInv PROVE TypeOK
    OBVIOUS
  <2>1. Typed /\ Shape /\ HalfFull /\ nodes \in Seq(Node)
    BY DEF IInv, Typed
  <2>2. ASSUME NEW a \in 1..Len(nodes)
        PROVE  /\ Len(nodes[a].items) <= LeafSlots /\ Len(nodes[a].keys) <= InnerSlots
               /\ nodes[a].level > 0 => Len(nodes[a].child) = Len(nodes[a].keys) + 1
    BY <2>1 DEF Shape, ShapeOf, Slots, Address
  <2>3. ASSUME NEW a \in 1..Len(nodes), a # root
        PROVE  ~Underflow(a)
    <3>1. a \in Address /\ EnoughUsed(nodes[a])
      BY <2>1, <2>3 DEF HalfFull, Address
    <3>2. Len(nodes[a].items) \in Nat /\ Len(nodes[a].keys) \in Nat
      BY <3>1, <2>1, NodeFields
    <3> QED
      BY <3>1, <3>2, SlotNumbers DEF EnoughUsed, Underflow
  <2> QED
    BY <2>1, <2>2, <2>3 DEF Typed, TypeOK
<1> QED
  BY <1>1, BTreeInvariant, PTL
=============================================================================
