------------------------------ MODULE Searches ------------------------------
(***************************************************************************)
(* The searches of src/searches: lower_bound and upper_bound in a sorted   *)
(* range, beginning at a guess (the position a model predicted).  An index *)
(* is instantiated with one of them and trusts its answer.                 *)
(*                                                                         *)
(* Positions are counted from the first of the range; last is len.  One    *)
(* step is one iteration of a loop.  The two sides differ only in which    *)
(* elements come before the answer.                                        *)
(***************************************************************************)
EXTENDS Integers, FiniteSets, FiniteSetsExt

CONSTANTS MaxLen,   \* greatest length of a range
          Values,   \* what the range may hold
          Lookups,  \* keys that are looked up
          Block     \* elements that scan_avx compares at once: 16 or 32

ASSUME SearchesAssumption ==
  /\ MaxLen \in Nat /\ Values \subseteq Int /\ Lookups \subseteq Int
  /\ Block \in Nat \ {0}

VARIABLES len, arr,   \* the range
          key, side,  \* what is looked up: the "lower" or the "upper" bound
          alg, start, \* the search class, and the guess
          pc,         \* "call", the loop that is running, or "done"
          l, r,       \* the iterators of that loop
          bound, size,\* of the exponential search
          reads,      \* the positions that the last step read
          result

input == <<len, arr, key, side, alg, start>>
vars  == <<input, pc, l, r, bound, size, reads, result>>

Algs == {"binary", "exponential", "interpolation", "linear", "avx"}

\* Definitions of the form Op_Fault are faulty variants of Op.  No action uses
\* them; each shows that a property notices the fault.

\* Outside of the range there may be anything.
At(p) == IF p \in 0..(len - 1) THEN arr[p] ELSE 0

\* less(at(p), key), or for the upper bound !less(key, at(p)).
Before(p) == IF side = "lower" THEN At(p) < key ELSE At(p) <= key

\* The comparison every search begins with: the answer is after the guess.
After     == start # len /\ Before(start)
StartRead == {start} \ {len}

Return(p) == pc' = "done" /\ result' = p

-----------------------------------------------------------------------------
(* BranchingBinarySearch. *)

StartBinary ==
  /\ pc = "call" /\ alg = "binary"
  /\ pc' = "halve"
  /\ IF After THEN l' = start + 1 /\ r' = len ELSE l' = 0 /\ r' = start
  /\ reads' = StartRead
  /\ UNCHANGED <<input, bound, size, result>>

RightOf_Same(mid) == mid
\* Where the search goes on when mid is before the answer.
RightOf(mid) == mid + 1

\* lower_bound_ and upper_bound_, with r for first + __len.
HalveStep ==
  /\ pc = "halve" /\ l < r
  /\ LET mid == l + (r - l) \div 2
     IN  /\ IF Before(mid) THEN l' = RightOf(mid) /\ r' = r ELSE l' = l /\ r' = mid
         /\ reads' = {mid}
  /\ UNCHANGED <<input, pc, bound, size, result>>

HalveDone ==
  /\ pc = "halve" /\ l = r
  /\ Return(l)
  /\ reads' = {}
  /\ UNCHANGED <<input, l, r, bound, size>>

-----------------------------------------------------------------------------
(* ExponentialSearch. *)

\* The other searches answer first if the range is empty.
EmptyRange ==
  /\ pc = "call" /\ alg \in {"exponential", "linear", "avx"} /\ len = 0
  /\ Return(0)
  /\ reads' = {}
  /\ UNCHANGED <<input, l, r, bound, size>>

RightSize_Up == (len - start + 2) \div 2
\* How far the doubling may go: half the distance to the end of the range.
RightSize == (len - start) \div 2
LeftSize  == (start + 1) \div 2

StartGallop ==
  /\ pc = "call" /\ alg = "exponential" /\ len > 0
  /\ bound' = 1
  /\ IF After
     THEN pc' = "right" /\ l' = start /\ r' = start + 1 /\ size' = RightSize
     ELSE pc' = "left" /\ l' = start - 1 /\ r' = start /\ size' = LeftSize
  /\ reads' = StartRead
  /\ UNCHANGED <<input, result>>

RightStep ==
  /\ pc = "right" /\ bound <= size /\ Before(r)
  /\ bound' = 2 * bound /\ l' = r /\ r' = r + bound'
  /\ reads' = {r}
  /\ UNCHANGED <<input, pc, size, result>>

\* The first position of the range that is left; l is known to be before the answer.
RightFrom_Same == l
RightFrom == l + 1

\* Its end: the doubling may have stopped at a position that was not read.
RightTo == IF bound > size THEN len ELSE r

RightEnd ==
  /\ pc = "right" /\ ~(bound <= size /\ Before(r))
  /\ l' = RightFrom /\ r' = RightTo
  /\ pc' = "tail"
  /\ reads' = IF bound <= size THEN {r} ELSE {}
  /\ UNCHANGED <<input, bound, size, result>>

LeftStep ==
  /\ pc = "left" /\ bound <= size /\ ~Before(l)
  /\ bound' = 2 * bound /\ r' = l /\ l' = l - bound'
  /\ reads' = {l}
  /\ UNCHANGED <<input, pc, size, result>>

LeftEnd ==
  /\ pc = "left" /\ ~(bound <= size /\ ~Before(l))
  /\ l' = IF bound > size THEN 0 ELSE l + 1
  /\ pc' = "tail"
  /\ reads' = IF bound <= size THEN {l} ELSE {}
  /\ UNCHANGED <<input, r, bound, size, result>>

\* The binary search of [l, r) with the guess l.
Tail ==
  /\ pc = "tail"
  /\ IF l # r /\ Before(l) THEN l' = l + 1 /\ r' = r ELSE l' = l /\ r' = l
  /\ pc' = "halve"
  /\ reads' = {l} \ {r}
  /\ UNCHANGED <<input, bound, size, result>>

-----------------------------------------------------------------------------
(* InterpolationSearch. *)

StartInterpolation ==
  /\ pc = "call" /\ alg = "interpolation"
  /\ LET from == IF After THEN start + 1 ELSE 0
         to   == IF After THEN len ELSE start
     IN  /\ l' = from /\ r' = to - 1
         /\ IF from = to THEN Return(from) ELSE pc' = "interpolate" /\ result' = result
  /\ reads' = StartRead
  /\ UNCHANGED <<input, bound, size>>

Interpolates == At(l) < At(r) /\ Before(l) /\ ~Before(r)

\* mid depends on a quotient of doubles in [0, 1]: with its rounding, any position
\* from l to r.
InterpolateStep ==
  /\ pc = "interpolate" /\ Interpolates
  /\ \E mid \in l..r :
       \/ /\ At(mid) < key
          /\ l' = RightOf(mid) /\ r' = r
          /\ reads' = {l, mid, r}
          /\ UNCHANGED <<pc, result>>
       \/ /\ key < At(mid)
          /\ r' = mid - 1 /\ l' = l
          /\ reads' = {l, mid, r}
          /\ UNCHANGED <<pc, result>>
       \/ /\ At(mid) = key /\ side = "lower"   \* down to the first that is equal
          /\ LET m == Max({p \in l..mid : p = l \/ At(p) # key})
             IN  /\ Return(IF Before(m) THEN m + 1 ELSE m)
                 /\ reads' = {l, r} \cup m..mid
          /\ UNCHANGED <<l, r>>
       \/ /\ At(mid) = key /\ side = "upper"   \* up to the first that is not
          /\ LET m == Min({p \in mid..(r + 1) : p = r + 1 \/ At(p) # key})
             IN  Return(m) /\ reads' = {l, r} \cup mid..Min({m, r})
          /\ UNCHANGED <<l, r>>
  /\ UNCHANGED <<input, bound, size>>

InterpolateDone ==
  /\ pc = "interpolate" /\ ~Interpolates
  /\ Return(IF Before(l) THEN r + 1 ELSE l)
  /\ reads' = {l, r}
  /\ UNCHANGED <<input, l, r, bound, size>>

-----------------------------------------------------------------------------
(* LinearSearch; l is it. *)

StartLinear ==
  /\ pc = "call" /\ alg = "linear" /\ len > 0
  /\ IF After THEN pc' = "forward" /\ l' = start + 1 ELSE pc' = "backward" /\ l' = start
  /\ reads' = StartRead
  /\ UNCHANGED <<input, r, bound, size, result>>

ForwardStep ==
  /\ pc = "forward" /\ l # len /\ Before(l)
  /\ l' = l + 1
  /\ reads' = {l}
  /\ UNCHANGED <<input, pc, r, bound, size, result>>

ForwardDone ==
  /\ pc = "forward" /\ ~(l # len /\ Before(l))
  /\ Return(l)
  /\ reads' = {l} \ {len}
  /\ UNCHANGED <<input, l, r, bound, size>>

BackwardStep ==
  /\ pc = "backward" /\ l # 0 /\ ~Before(l - 1)
  /\ l' = l - 1
  /\ reads' = {l - 1}
  /\ UNCHANGED <<input, pc, r, bound, size, result>>

\* The element before is before the answer, or there is none.
BackwardDone ==
  /\ pc = "backward" /\ ~(l # 0 /\ ~Before(l - 1))
  /\ Return(IF l = 0 /\ Before(0) THEN 1 ELSE l)
  /\ reads' = {Max({l - 1, 0})}
  /\ UNCHANGED <<input, l, r, bound, size>>

-----------------------------------------------------------------------------
(* LinearAVX: scan_avx in either direction, Block elements at once, and *)
(* LinearSearch for what is left.                                       *)

StartBlocks ==
  /\ pc = "call" /\ alg = "avx" /\ len > 0
  /\ IF After THEN pc' = "blocks_forward" /\ l' = start + 1
     ELSE pc' = "blocks_backward" /\ l' = start
  /\ reads' = StartRead
  /\ UNCHANGED <<input, r, bound, size, result>>

\* popcount of the comparison of one block: every element compares like Before says.
Count(block, before) == Cardinality({p \in block : Before(p) = before})

BlockForward ==
  LET block == l..(l + Block - 1) IN
  /\ pc = "blocks_forward" /\ len - l >= Block
  /\ IF Count(block, TRUE) = Block THEN l' = l + Block /\ UNCHANGED <<pc, result>>
     ELSE Return(l + Count(block, TRUE)) /\ l' = l
  /\ reads' = block
  /\ UNCHANGED <<input, r, bound, size>>

\* LinearSearch of [l, len) with the guess l does what its forward loop does from l.
RestForward ==
  /\ pc = "blocks_forward" /\ len - l < Block
  /\ pc' = "forward"
  /\ reads' = {}
  /\ UNCHANGED <<input, l, r, bound, size, result>>

FoundBackward_NoDelta(block) == Min(block)
\* The iterator is at the start of the block and moves past what is before the answer.
FoundBackward(block) == Min(block) + (Block - Count(block, FALSE))

BlockBackward ==
  LET block == (l - Block)..(l - 1) IN
  /\ pc = "blocks_backward" /\ l >= Block
  /\ IF Count(block, FALSE) = Block THEN l' = l - Block /\ UNCHANGED <<pc, result>>
     ELSE Return(FoundBackward(block)) /\ l' = l
  /\ reads' = block
  /\ UNCHANGED <<input, r, bound, size>>

\* LinearSearch of [0, l) with the guess l.
RestBackward ==
  /\ pc = "blocks_backward" /\ l < Block
  /\ IF l = 0 THEN Return(0) ELSE pc' = "backward" /\ result' = result
  /\ reads' = {}
  /\ UNCHANGED <<input, l, r, bound, size>>

-----------------------------------------------------------------------------
Sorted(a, n) == \A p, q \in 0..(n - 1) : p <= q => a[p] <= a[q]

Init ==
  /\ len \in 0..MaxLen
  /\ arr \in {a \in [0..(len - 1) -> Values] : Sorted(a, len)}
  /\ key \in Lookups /\ side \in {"lower", "upper"}
  /\ alg \in Algs /\ start \in 0..len
  /\ pc = "call" /\ l = 0 /\ r = 0 /\ bound = 0 /\ size = 0
  /\ reads = {} /\ result = 0

Next ==
  \/ EmptyRange
  \/ StartBinary \/ HalveStep \/ HalveDone
  \/ StartGallop \/ RightStep \/ RightEnd \/ LeftStep \/ LeftEnd \/ Tail
  \/ StartInterpolation \/ InterpolateStep \/ InterpolateDone
  \/ StartLinear \/ ForwardStep \/ ForwardDone \/ BackwardStep \/ BackwardDone
  \/ StartBlocks \/ BlockForward \/ RestForward \/ BlockBackward \/ RestBackward

Spec == Init /\ [][Next]_vars

\* A search is a loop of the calling thread: it goes on.
FairSpec == Spec /\ WF_vars(Next)

-----------------------------------------------------------------------------
(* Properties. *)

\* Every search answers the first position whose element is not before the answer:
\* of equal keys the first (lower_bound) or the one after the last (upper_bound),
\* whatever the guess was.
ResultCorrect ==
  pc = "done" => result = Cardinality({p \in 0..(len - 1) : Before(p)})

\* No search reads outside of [first, last): not the doubling steps, whose limits are
\* rounded halves, not the block loads, not a guess that is last.
ReadsInside == reads \subseteq 0..(len - 1)

\* While a range is halved, the answer stays in the part that is still searched.  When
\* the exponential search stops doubling, that part is also no longer than the distance
\* it has gone from the guess: it costs the logarithm of the error of the guess, not of
\* the range.
Bracketed ==
  /\ pc \in {"halve", "tail"} =>
       /\ l \in 0..len /\ r \in l..len
       /\ Cardinality({p \in 0..(len - 1) : Before(p)}) \in l..r
  /\ pc = "tail" => r - l <= IF l > start THEN l - start ELSE start - r

\* Every search ends: interpolation, too, on ranges with equal keys.
Terminates == <>(pc = "done")
=============================================================================
