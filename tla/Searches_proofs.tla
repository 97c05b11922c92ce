--------------------------- MODULE Searches_proofs ---------------------------
(***************************************************************************)
(* Machine-checked proofs about Searches, for ranges of every length, with *)
(* every content, key, guess and block size.                               *)
(***************************************************************************)
EXTENDS Searches, OrderTheorems

\* The positions before the answer.
Ahead == {p \in 0..(len - 1) : Before(p)}

-----------------------------------------------------------------------------
(* The inductive invariant. *)

InputInv ==
  /\ len \in Nat /\ arr \in [0..(len - 1) -> Int] /\ Sorted(arr, len)
  /\ key \in Int /\ side \in {"lower", "upper"} /\ start \in 0..len

\* Every position below lo is known to be before the answer.
Below(lo) == lo \in 0..len /\ 0..(lo - 1) \subseteq Ahead
\* No position from hi on is.
Above(hi) == hi \in 0..len /\ Ahead \subseteq 0..(hi - 1)

\* The halving, and what the doubling leaves to it.
HalveInv ==
  /\ pc \in {"halve", "tail"} => l <= r /\ Below(l) /\ Above(r)
  /\ pc = "tail" => r - l <= IF l > start THEN l - start ELSE start - r

\* The doubling keeps its distance from the guess: l and r are bound - 1 and
\* 2 * bound - 1 away from it.
GallopInv ==
  /\ pc \in {"right", "left"} => bound \in Nat \ {0} /\ size \in Nat
  /\ pc = "right" =>
       /\ l = start + bound - 1 /\ r = start + 2 * bound - 1
       /\ size = (len - start) \div 2
       /\ l < len /\ Below(l + 1)
  /\ pc = "left" =>
       /\ r = start - bound + 1 /\ l = start - 2 * bound + 1
       /\ size = (start + 1) \div 2
       /\ Above(r)

\* The interpolation searches the closed interval from l to r, which is not empty.
InterpolateInv == pc = "interpolate" => l <= r /\ Below(l) /\ Above(r + 1)

\* The scans have one side of the answer behind them.
ScanInv ==
  /\ pc \in {"forward", "blocks_forward"} => Below(l)
  /\ pc \in {"backward", "blocks_backward"} => Above(l) /\ len > 0

IInv ==
  /\ InputInv
  /\ l \in Int /\ r \in Int /\ result \in Int
  /\ HalveInv /\ GallopInv /\ InterpolateInv /\ ScanInv
  /\ ReadsInside
  /\ pc = "done" => Below(result) /\ Above(result)

-----------------------------------------------------------------------------
(* What every step relies on. *)

\* In a sorted range the positions before the answer are an initial segment of it, and
\* a comparison with the key tells which side of the answer a position is on.
LEMMA AheadInitial ==
  ASSUME InputInv
  PROVE  /\ Ahead \subseteq 0..(len - 1)
         /\ \A p \in 0..(len - 1) : Before(p) <=> p \in Ahead
         /\ \A q \in Ahead : \A p \in 0..q : p \in Ahead
<1>1. \A p \in 0..(len - 1) : Before(p) <=> p \in Ahead
  BY DEF Ahead
<1>2. ASSUME NEW q \in Ahead, NEW p \in 0..q
      PROVE  p \in Ahead
  <2>1. q \in 0..(len - 1) /\ p \in 0..(len - 1) /\ p <= q /\ Before(q)
    BY <1>2 DEF Ahead, InputInv
  <2>2. arr[p] <= arr[q] /\ arr[p] \in Int /\ arr[q] \in Int /\ key \in Int
    BY <2>1 DEF InputInv, Sorted
  <2>3. Before(p)
    BY <2>1, <2>2 DEF Before, At
  <2> QED
    BY <2>1, <2>3, <1>1
<1> QED
  BY <1>1, <1>2 DEF Ahead

\* A comparison that says "before" moves the lower end of what is searched past the
\* position, one that does not moves the upper end down to it.
LEMMA Compare ==
  ASSUME InputInv, NEW p \in 0..(len - 1)
  PROVE  /\ Before(p) => Below(p + 1) /\ Below(p)
         /\ ~Before(p) => Above(p)
<1>1. len \in Nat
  BY DEF InputInv
<1>2. CASE Before(p)
  <2>1. p \in Ahead
    BY <1>2, AheadInitial
  <2>2. \A q \in 0..p : q \in Ahead
    BY <2>1, AheadInitial
  <2> QED
    BY <1>1, <1>2, <2>2 DEF Below
<1>3. CASE ~Before(p)
  <2>1. p \notin Ahead
    BY <1>3, AheadInitial
  <2>2. \A q \in Ahead : q \in 0..(len - 1) /\ ~(p <= q)
    BY <2>1, AheadInitial
  <2> QED
    BY <1>1, <1>3, <2>2 DEF Above
<1> QED
  BY <1>2, <1>3

\* The ends of the range bracket the answer before anything is compared.
LEMMA Ends ==
  ASSUME InputInv
  PROVE  Below(0) /\ Above(len)
<1>1. len \in Nat
  BY DEF InputInv
<1> QED
  BY <1>1 DEF Below, Above, Ahead

\* No step changes the input.
LEMMA InputFixed ==
  ASSUME InputInv, UNCHANGED input
  PROVE  /\ InputInv' /\ Ahead' = Ahead
         /\ len' = len /\ start' = start
  BY DEF InputInv, Ahead, Before, At, Sorted, input

-----------------------------------------------------------------------------
(* One lemma for each search class. *)

\* The comparison at the guess.
LEMMA Guess ==
  ASSUME InputInv
  PROVE  /\ After => start < len /\ Below(start + 1)
         /\ ~After => Above(start)
         /\ StartRead \subseteq 0..(len - 1)
<1>1. len \in Nat /\ start \in 0..len
  BY DEF InputInv
<1>2. CASE start = len
  BY <1>1, <1>2, Ends DEF After, StartRead
<1>3. CASE start # len
  <2>1. start \in 0..(len - 1)
    BY <1>1, <1>3
  <2>2. /\ Before(start) => Below(start + 1)
        /\ ~Before(start) => Above(start)
    BY <2>1, Compare
  <2> QED
    BY <1>1, <1>3, <2>1, <2>2 DEF After, StartRead
<1> QED
  BY <1>2, <1>3

\* A step that ends a search with an answer that has everything before it behind it.
LEMMA Returns ==
  ASSUME IInv, UNCHANGED input, NEW p, Return(p), Below(p), Above(p),
         l' \in Int, r' \in Int, reads' \subseteq 0..(len - 1)
  PROVE  IInv'
<1>1. InputInv' /\ Ahead' = Ahead /\ len' = len /\ start' = start
  BY InputFixed DEF IInv
<1>2. pc' = "done" /\ result' = p /\ p \in Int
  BY DEF Return, Below, IInv, InputInv
<1> QED
  BY <1>1, <1>2 DEF IInv, HalveInv, GallopInv, InterpolateInv, ScanInv, ReadsInside,
     Below, Above

LEMMA EmptyStep ==
  ASSUME IInv, EmptyRange
  PROVE  IInv'
<1>1. Below(0) /\ Above(len) /\ len = 0
  BY Ends DEF IInv, EmptyRange
<1>2. /\ UNCHANGED input /\ Return(0) /\ reads' = {} /\ l' = l /\ r' = r
      /\ l \in Int /\ r \in Int
  BY DEF EmptyRange, IInv
<1> QED
  BY <1>1, <1>2, Returns

\* BranchingBinarySearch.
LEMMA BinaryStep ==
  ASSUME IInv, StartBinary \/ HalveStep \/ HalveDone
  PROVE  IInv'
<1>1. InputInv /\ len \in Nat /\ start \in 0..len /\ l \in Int /\ r \in Int
  BY DEF IInv, InputInv
<1>2. UNCHANGED input
  BY DEF StartBinary, HalveStep, HalveDone
<1>3. InputInv' /\ Ahead' = Ahead /\ len' = len /\ start' = start
  BY <1>1, <1>2, InputFixed
<1>4. CASE StartBinary
  <2>1. pc' = "halve" /\ result' = result /\ reads' = StartRead
    BY <1>4 DEF StartBinary
  <2>2. CASE After
    <3>1. l' = start + 1 /\ r' = len
      BY <1>4, <2>2 DEF StartBinary
    <3>2. start < len /\ Below(start + 1) /\ Above(len) /\ StartRead \subseteq 0..(len - 1)
      BY <1>1, <2>2, Guess, Ends
    <3> QED
      BY <1>1, <1>3, <2>1, <3>1, <3>2 DEF IInv, HalveInv, GallopInv, InterpolateInv,
         ScanInv, ReadsInside, Below, Above
  <2>3. CASE ~After
    <3>1. l' = 0 /\ r' = start
      BY <1>4, <2>3 DEF StartBinary
    <3>2. Below(0) /\ Above(start) /\ StartRead \subseteq 0..(len - 1)
      BY <1>1, <2>3, Guess, Ends
    <3> QED
      BY <1>1, <1>3, <2>1, <3>1, <3>2 DEF IInv, HalveInv, GallopInv, InterpolateInv,
         ScanInv, ReadsInside, Below, Above
  <2> QED
    BY <2>2, <2>3
<1>5. CASE HalveStep
  <2> DEFINE mid == l + (r - l) \div 2
  <2>1. pc = "halve" /\ l < r /\ Below(l) /\ Above(r)
    BY <1>5 DEF HalveStep, IInv, HalveInv
  <2>2. mid \in l..(r - 1)
    BY <1>1, <2>1
  <2>3. mid \in 0..(len - 1)
    BY <1>1, <2>1, <2>2 DEF Below, Above
  <2>4. /\ IF Before(mid) THEN l' = mid + 1 /\ r' = r ELSE l' = l /\ r' = mid
        /\ reads' = {mid} /\ pc' = pc /\ result' = result
    BY <1>5 DEF HalveStep, RightOf
  <2>5. Before(mid) => Below(mid + 1)
    BY <1>1, <2>3, Compare
  <2>6. ~Before(mid) => Above(mid)
    BY <1>1, <2>3, Compare
  <2> HIDE DEF mid
  <2>7. l' <= r' /\ l' \in Int /\ r' \in Int
    BY <1>1, <2>2, <2>4
  <2>8. Below(l') /\ Above(r')
    BY <2>1, <2>4, <2>5, <2>6
  <2> QED
    BY <1>1, <1>3, <2>1, <2>3, <2>4, <2>7, <2>8 DEF IInv, HalveInv, GallopInv,
       InterpolateInv, ScanInv, ReadsInside, Below, Above
<1>6. CASE HalveDone
  <2>1. Below(l) /\ Above(l) /\ Return(l) /\ reads' = {} /\ l' = l /\ r' = r
    BY <1>6 DEF HalveDone, IInv, HalveInv
  <2> QED
    BY <1>1, <1>2, <2>1, Returns
<1> QED
  BY <1>4, <1>5, <1>6

-----------------------------------------------------------------------------
\* ExponentialSearch: the doubling.
LEMMA GallopStep ==
  ASSUME IInv, StartGallop \/ RightStep \/ LeftStep
  PROVE  IInv'
<1>1. InputInv /\ len \in Nat /\ start \in 0..len /\ l \in Int /\ r \in Int
  BY DEF IInv, InputInv
<1>2. UNCHANGED input
  BY DEF StartGallop, RightStep, LeftStep
<1>3. InputInv' /\ Ahead' = Ahead /\ len' = len /\ start' = start
  BY <1>1, <1>2, InputFixed
<1>4. CASE StartGallop
  <2>1. bound' = 1 /\ result' = result /\ reads' = StartRead
    BY <1>4 DEF StartGallop
  <2>2. CASE After
    <3>1. /\ pc' = "right" /\ l' = start /\ r' = start + 1
          /\ size' = (len - start) \div 2
      BY <1>4, <2>2 DEF StartGallop, RightSize
    <3>2. start < len /\ Below(start + 1) /\ StartRead \subseteq 0..(len - 1)
      BY <1>1, <2>2, Guess
    <3>3. (len - start) \div 2 \in Nat
      BY <1>1, <3>2, Half
    <3> QED
      BY <1>1, <1>3, <2>1, <3>1, <3>2, <3>3 DEF IInv, HalveInv, GallopInv,
         InterpolateInv, ScanInv, ReadsInside, Below
  <2>3. CASE ~After
    <3>1. /\ pc' = "left" /\ l' = start - 1 /\ r' = start
          /\ size' = (start + 1) \div 2
      BY <1>4, <2>3 DEF StartGallop, LeftSize
    <3>2. Above(start) /\ StartRead \subseteq 0..(len - 1)
      BY <1>1, <2>3, Guess
    <3>3. (start + 1) \div 2 \in Nat
      BY <1>1, Half
    <3> QED
      BY <1>1, <1>3, <2>1, <3>1, <3>2, <3>3 DEF IInv, HalveInv, GallopInv,
         InterpolateInv, ScanInv, ReadsInside, Above
  <2> QED
    BY <2>2, <2>3
<1>5. CASE RightStep
  <2>1. /\ bound \in Nat \ {0} /\ size \in Nat /\ bound <= size
        /\ l = start + bound - 1 /\ r = start + 2 * bound - 1
        /\ size = (len - start) \div 2
        /\ Before(r)
    BY <1>5 DEF RightStep, IInv, GallopInv
  <2>2. 2 * size <= len - start
    BY <1>1, <2>1, Half
  <2>3. r \in 0..(len - 1)
    BY <1>1, <2>1, <2>2
  <2>4. Below(r + 1)
    BY <1>1, <2>1, <2>3, Compare
  <2>5. /\ pc = "right" /\ pc' = "right" /\ size' = size /\ result' = result
        /\ bound' = 2 * bound /\ l' = r /\ r' = r + 2 * bound /\ reads' = {r}
    BY <1>5 DEF RightStep
  <2> QED
    BY <1>1, <1>3, <2>1, <2>3, <2>4, <2>5 DEF IInv, HalveInv, GallopInv,
       InterpolateInv, ScanInv, ReadsInside, Below
<1>6. CASE LeftStep
  <2>1. /\ bound \in Nat \ {0} /\ size \in Nat /\ bound <= size
        /\ r = start - bound + 1 /\ l = start - 2 * bound + 1
        /\ size = (start + 1) \div 2
        /\ ~Before(l)
    BY <1>6 DEF LeftStep, IInv, GallopInv
  <2>2. 2 * size <= start + 1
    BY <1>1, <2>1, Half
  <2>3. l \in 0..(len - 1)
    BY <1>1, <2>1, <2>2
  <2>4. Above(l)
    BY <1>1, <2>1, <2>3, Compare
  <2>5. /\ pc = "left" /\ pc' = "left" /\ size' = size /\ result' = result
        /\ bound' = 2 * bound /\ r' = l /\ l' = l - 2 * bound /\ reads' = {l}
    BY <1>6 DEF LeftStep
  <2> QED
    BY <1>1, <1>3, <2>1, <2>3, <2>4, <2>5 DEF IInv, HalveInv, GallopInv,
       InterpolateInv, ScanInv, ReadsInside, Above
<1> QED
  BY <1>4, <1>5, <1>6

\* ExponentialSearch: the doubling stops.  That bound was more than half of what was left
\* makes the range that remains no longer than what was skipped.
LEMMA GallopEnd ==
  ASSUME IInv, RightEnd \/ LeftEnd
  PROVE  IInv'
<1>1. InputInv /\ len \in Nat /\ start \in 0..len /\ l \in Int /\ r \in Int
  BY DEF IInv, InputInv
<1>2. UNCHANGED input
  BY DEF RightEnd, LeftEnd
<1>3. InputInv' /\ Ahead' = Ahead /\ len' = len /\ start' = start
  BY <1>1, <1>2, InputFixed
<1>4. CASE RightEnd
  <2>1. /\ bound \in Nat \ {0} /\ size \in Nat
        /\ l = start + bound - 1 /\ r = start + 2 * bound - 1
        /\ size = (len - start) \div 2 /\ l < len /\ Below(l + 1)
        /\ ~(bound <= size /\ Before(r))
    BY <1>4 DEF RightEnd, IInv, GallopInv
  <2>2. 2 * size <= len - start /\ len - start <= 2 * size + 1
    BY <1>1, <2>1, Half
  <2>3. /\ pc' = "tail" /\ l' = l + 1 /\ result' = result
        /\ r' = IF bound > size THEN len ELSE r
        /\ reads' = IF bound <= size THEN {r} ELSE {}
    BY <1>4 DEF RightEnd, RightFrom, RightTo
  <2>4. bound <= size => r \in 0..(len - 1) /\ Above(r)
    BY <1>1, <2>1, <2>2, Compare
  <2>5. Above(r')
    BY <1>1, <2>1, <2>3, <2>4, Ends
  <2>6. /\ l' \in Int /\ r' \in Int /\ l' <= r' /\ l' > start
        /\ r' - l' <= l' - start
        /\ reads' \subseteq 0..(len - 1)
    BY <1>1, <2>1, <2>2, <2>3, <2>4
  <2> QED
    BY <1>1, <1>3, <2>1, <2>3, <2>5, <2>6 DEF IInv, HalveInv, GallopInv,
       InterpolateInv, ScanInv, ReadsInside, Below, Above
<1>5. CASE LeftEnd
  <2>1. /\ bound \in Nat \ {0} /\ size \in Nat
        /\ r = start - bound + 1 /\ l = start - 2 * bound + 1
        /\ size = (start + 1) \div 2 /\ Above(r)
        /\ ~(bound <= size /\ ~Before(l))
    BY <1>5 DEF LeftEnd, IInv, GallopInv
  <2>2. 2 * size <= start + 1 /\ start + 1 <= 2 * size + 1
    BY <1>1, <2>1, Half
  <2>3. /\ pc' = "tail" /\ r' = r /\ result' = result
        /\ l' = IF bound > size THEN 0 ELSE l + 1
        /\ reads' = IF bound <= size THEN {l} ELSE {}
    BY <1>5 DEF LeftEnd
  <2>4. bound <= size => l \in 0..(len - 1) /\ Below(l + 1)
    BY <1>1, <2>1, <2>2, Compare
  <2>5. Below(l')
    BY <1>1, <2>1, <2>3, <2>4, Ends
  <2>6. r \in 0..len
    BY <2>1 DEF Above
  <2>7. /\ l' \in Int /\ l' <= r' /\ ~(l' > start)
        /\ r' - l' <= start - r'
        /\ reads' \subseteq 0..(len - 1)
    BY <1>1, <2>1, <2>2, <2>3, <2>4, <2>6
  <2> QED
    BY <1>1, <1>3, <2>1, <2>3, <2>5, <2>7 DEF IInv, HalveInv, GallopInv,
       InterpolateInv, ScanInv, ReadsInside, Below, Above
<1> QED
  BY <1>4, <1>5

\* ExponentialSearch: the binary search of what is left compares its first element.
LEMMA TailStep ==
  ASSUME IInv, Tail
  PROVE  IInv'
<1>1. InputInv /\ len \in Nat /\ l \in Int /\ r \in Int
  BY DEF IInv, InputInv
<1>2. /\ UNCHANGED input /\ pc' = "halve" /\ result' = result
      /\ reads' = {l} \ {r}
      /\ IF l # r /\ Before(l) THEN l' = l + 1 /\ r' = r ELSE l' = l /\ r' = l
  BY DEF Tail
<1>3. InputInv' /\ Ahead' = Ahead /\ len' = len /\ start' = start
  BY <1>1, <1>2, InputFixed
<1>4. l <= r /\ Below(l) /\ Above(r)
  BY DEF Tail, IInv, HalveInv
<1>5. l # r => l \in 0..(len - 1)
  BY <1>1, <1>4 DEF Below, Above
<1>6. l # r => (Before(l) => Below(l + 1)) /\ (~Before(l) => Above(l))
  BY <1>1, <1>5, Compare
<1>7. Below(l') /\ Above(r')
  BY <1>2, <1>4, <1>6
<1>8. l' \in Int /\ r' \in Int /\ l' <= r' /\ reads' \subseteq 0..(len - 1)
  BY <1>1, <1>2, <1>4, <1>5
<1> QED
  BY <1>1, <1>2, <1>3, <1>7, <1>8 DEF IInv, HalveInv, GallopInv, InterpolateInv,
     ScanInv, ReadsInside, Below, Above

-----------------------------------------------------------------------------
\* InterpolationSearch, wherever between l and r the interpolation points to.
LEMMA InterpolationStep ==
  ASSUME IInv, StartInterpolation \/ InterpolateStep \/ InterpolateDone
  PROVE  IInv'
<1>1. InputInv /\ len \in Nat /\ start \in 0..len /\ l \in Int /\ r \in Int
  BY DEF IInv, InputInv
<1>2. UNCHANGED input
  BY DEF StartInterpolation, InterpolateStep, InterpolateDone
<1>3. InputInv' /\ Ahead' = Ahead /\ len' = len /\ start' = start
  BY <1>1, <1>2, InputFixed
<1>4. CASE StartInterpolation
  <2> DEFINE from == IF After THEN start + 1 ELSE 0
             to   == IF After THEN len ELSE start
  <2>1. /\ l' = from /\ r' = to - 1 /\ reads' = StartRead
        /\ IF from = to THEN Return(from) ELSE pc' = "interpolate" /\ result' = result
    BY <1>4 DEF StartInterpolation
  <2>2. /\ After => start < len /\ Below(start + 1)
        /\ ~After => Above(start)
        /\ StartRead \subseteq 0..(len - 1)
        /\ Below(0) /\ Above(len)
    BY <1>1, Guess, Ends
  <2>3. from \in Int /\ to \in Int /\ from <= to /\ Below(from) /\ Above(to)
    BY <1>1, <2>2
  <2> HIDE DEF from, to
  <2>4. CASE from = to
    BY <1>2, <2>1, <2>2, <2>3, <2>4, Returns
  <2>5. CASE from # to
    <3>1. to - 1 + 1 = to /\ from <= to - 1 /\ to - 1 \in Int
      BY <2>3, <2>5
    <3> QED
      BY <1>1, <1>3, <2>1, <2>2, <2>3, <2>5, <3>1 DEF IInv, HalveInv, GallopInv,
         InterpolateInv, ScanInv, ReadsInside, Below, Above
  <2> QED
    BY <2>4, <2>5
<1>5. CASE InterpolateDone
  <2>1. /\ l <= r /\ Below(l) /\ Above(r + 1) /\ ~Interpolates
        /\ Return(IF Before(l) THEN r + 1 ELSE l)
        /\ reads' = {l, r} /\ l' = l /\ r' = r
    BY <1>5 DEF InterpolateDone, IInv, InterpolateInv
  <2>2. l \in 0..(len - 1) /\ r \in 0..(len - 1)
    BY <1>1, <2>1 DEF Below, Above
  <2>3. CASE ~Before(l)
    BY <1>1, <1>2, <2>1, <2>2, <2>3, Compare, Returns
  <2>4. CASE Before(l)
    <3>1. arr[l] <= arr[r] /\ arr[l] \in Int /\ arr[r] \in Int /\ key \in Int
      BY <1>1, <2>1, <2>2 DEF InputInv, Sorted
    <3>2. Before(r)
      BY <2>1, <2>2, <2>4, <3>1 DEF Interpolates, Before, At
    <3>3. Below(r + 1)
      BY <1>1, <2>2, <3>2, Compare
    <3> QED
      BY <1>1, <1>2, <2>1, <2>2, <2>4, <3>3, Returns
  <2> QED
    BY <2>3, <2>4
<1>6. CASE InterpolateStep
  <2>1. /\ pc = "interpolate" /\ Interpolates
        /\ l <= r /\ Below(l) /\ Above(r + 1)
    BY <1>6 DEF InterpolateStep, IInv, InterpolateInv
  <2>2. l \in 0..(len - 1) /\ r \in 0..(len - 1)
    BY <1>1, <2>1 DEF Below, Above
  <2>3. PICK mid \in l..r :
       \/ /\ At(mid) < key
          /\ l' = RightOf(mid) /\ r' = r
          /\ reads' = {l, mid, r}
          /\ UNCHANGED <<pc, result>>
       \/ /\ key < At(mid)
          /\ r' = mid - 1 /\ l' = l
          /\ reads' = {l, mid, r}
          /\ UNCHANGED <<pc, result>>
       \/ /\ At(mid) = key /\ side = "lower"
          /\ LET m == Max({p \in l..mid : p = l \/ At(p) # key})
             IN  /\ Return(IF Before(m) THEN m + 1 ELSE m)
                 /\ reads' = {l, r} \cup m..mid
          /\ UNCHANGED <<l, r>>
       \/ /\ At(mid) = key /\ side = "upper"
          /\ LET m == Min({p \in mid..(r + 1) : p = r + 1 \/ At(p) # key})
             IN  Return(m) /\ reads' = {l, r} \cup mid..Min({m, r})
          /\ UNCHANGED <<l, r>>
    BY <1>6 DEF InterpolateStep
  <2>4. mid \in 0..(len - 1) /\ l <= mid /\ mid <= r
    BY <1>1, <2>2, <2>3
  <2>5. \A p \in 0..(len - 1) : At(p) \in Int /\ At(p) = arr[p]
    BY <1>1 DEF InputInv, At
  <2>6. \A p, q \in 0..(len - 1) : p <= q => At(p) <= At(q)
    BY <1>1, <2>5 DEF InputInv, Sorted
  <2>7. key \in Int /\ side \in {"lower", "upper"}
    BY <1>1 DEF InputInv
  <2>8. CASE At(mid) < key /\ l' = RightOf(mid) /\ r' = r /\ reads' = {l, mid, r}
             /\ UNCHANGED <<pc, result>>
    <3>1. Before(mid) /\ mid # r
      BY <2>1, <2>2, <2>4, <2>5, <2>7, <2>8 DEF Before, Interpolates
    <3>2. Below(mid + 1) /\ mid + 1 <= r
      BY <1>1, <2>4, <3>1, Compare
    <3> QED
      BY <1>1, <1>3, <2>1, <2>2, <2>4, <2>8, <3>2 DEF IInv, HalveInv, GallopInv,
         InterpolateInv, ScanInv, ReadsInside, Below, Above, RightOf
  <2>9. CASE key < At(mid) /\ r' = mid - 1 /\ l' = l /\ reads' = {l, mid, r}
             /\ UNCHANGED <<pc, result>>
    <3>1. ~Before(mid) /\ mid # l
      BY <2>1, <2>2, <2>4, <2>5, <2>7, <2>9 DEF Before, Interpolates
    <3>2. Above(mid) /\ l <= mid - 1 /\ mid - 1 + 1 = mid
      BY <1>1, <2>4, <3>1, Compare
    <3> QED
      BY <1>1, <1>3, <2>1, <2>2, <2>4, <2>9, <3>2 DEF IInv, HalveInv, GallopInv,
         InterpolateInv, ScanInv, ReadsInside, Below, Above
  <2>10. ASSUME At(mid) = key, side = "lower",
                NEW m, m = Max({p \in l..mid : p = l \/ At(p) # key}),
                Return(IF Before(m) THEN m + 1 ELSE m),
                reads' = {l, r} \cup m..mid, UNCHANGED <<l, r>>
         PROVE  IInv'
    <3> DEFINE S == {p \in l..mid : p = l \/ At(p) # key}
    <3>1. S \in SUBSET Int /\ l \in S /\ mid \in Int /\ \A x \in S : x <= mid
      BY <1>1, <2>4
    <3>2. m \in S /\ \A x \in S : x <= m
      BY <2>10, <3>1, GreatestElement
    <3>3. m \in 0..(len - 1) /\ m <= mid /\ l <= m
      BY <1>1, <2>2, <2>4, <3>2
    <3>4. Before(l) /\ At(l) < key
      BY <2>1, <2>10 DEF Interpolates, Before
    <3>5. At(m) < key
      BY <2>4, <2>5, <2>6, <2>7, <2>10, <3>2, <3>3, <3>4
    <3>6. Before(m) /\ Below(m + 1)
      BY <1>1, <2>10, <3>3, <3>5, Compare DEF Before
    <3>7. m # mid
      BY <2>5, <2>7, <2>10, <3>3, <3>5
    <3>8. m + 1 \in 0..(len - 1) /\ m + 1 \in l..mid /\ m + 1 \notin S
      BY <1>1, <2>4, <3>2, <3>3, <3>7
    <3>9. ~Before(m + 1)
      BY <2>5, <2>7, <2>10, <3>8 DEF Before
    <3>10. Above(m + 1)
      BY <1>1, <3>8, <3>9, Compare
    <3>11. Return(m + 1) /\ reads' \subseteq 0..(len - 1)
      BY <1>1, <2>2, <2>4, <2>10, <3>3, <3>6
    <3> QED
      BY <1>1, <1>2, <2>10, <3>6, <3>10, <3>11, Returns
  <2>11. ASSUME At(mid) = key, side = "upper",
                NEW m, m = Min({p \in mid..(r + 1) : p = r + 1 \/ At(p) # key}),
                Return(m), reads' = {l, r} \cup mid..Min({m, r}), UNCHANGED <<l, r>>
         PROVE  IInv'
    <3> DEFINE S == {p \in mid..(r + 1) : p = r + 1 \/ At(p) # key}
    <3>1. S \in SUBSET Int /\ r + 1 \in S /\ mid \in Int /\ \A x \in S : mid <= x
      BY <1>1, <2>4
    <3>2. m \in S /\ \A x \in S : m <= x
      BY <2>11, <3>1, LeastElement
    <3>3. m \in Int /\ mid <= m /\ m <= r + 1
      BY <1>1, <2>4, <3>2
    <3>4. Before(mid)
      BY <2>5, <2>4, <2>7, <2>11 DEF Before
    <3>5. m # mid
      BY <1>1, <2>4, <2>11, <3>2
    <3>6. m - 1 \in 0..(len - 1) /\ m - 1 \in mid..(r + 1) /\ m - 1 \notin S /\ m - 1 <= r
      BY <1>1, <2>2, <2>4, <3>2, <3>3, <3>5
    <3>7. Before(m - 1)
      BY <1>1, <2>5, <2>7, <2>11, <3>6 DEF Before
    <3>8. Below(m)
      <4>1. Below(m - 1 + 1) /\ m - 1 + 1 = m
        BY <1>1, <3>3, <3>6, <3>7, Compare
      <4> QED
        BY <4>1
    <3>9. Above(m)
      <4>1. CASE m = r + 1
        BY <2>1, <4>1
      <4>2. CASE m # r + 1
        <5>1. m \in 0..(len - 1) /\ At(m) # key
          BY <1>1, <2>2, <2>4, <3>2, <3>3, <4>2
        <5>2. At(mid) <= At(m)
          BY <2>4, <2>6, <3>3, <5>1
        <5>3. ~Before(m)
          BY <2>5, <2>7, <2>11, <5>1, <5>2 DEF Before
        <5> QED
          BY <1>1, <5>1, <5>3, Compare
      <4> QED
        BY <4>1, <4>2
    <3>10. Min({m, r}) <= r /\ Min({m, r}) \in Int
      <4>1. {m, r} \in SUBSET Int /\ \A x \in {m, r} : mid <= x
        BY <1>1, <2>4, <3>3
      <4> QED
        BY <1>1, <4>1, <3>3, LeastElement
    <3>11. reads' \subseteq 0..(len - 1)
      BY <1>1, <2>2, <2>4, <2>11, <3>10
    <3> QED
      BY <1>1, <1>2, <2>11, <3>8, <3>9, <3>11, Returns
  <2> QED
    BY <2>3, <2>8, <2>9, <2>10, <2>11
<1> QED
  BY <1>4, <1>5, <1>6

-----------------------------------------------------------------------------
\* LinearSearch, and where LinearAVX hands over to it.
LEMMA LinearStep ==
  ASSUME IInv,
         \/ StartLinear \/ StartBlocks \/ RestForward \/ RestBackward
         \/ ForwardStep \/ ForwardDone \/ BackwardStep \/ BackwardDone
  PROVE  IInv'
<1>1. InputInv /\ len \in Nat /\ start \in 0..len /\ l \in Int /\ r \in Int
  BY DEF IInv, InputInv
<1>2. UNCHANGED input
  BY DEF StartLinear, StartBlocks, RestForward, RestBackward, ForwardStep,
     ForwardDone, BackwardStep, BackwardDone
<1>3. InputInv' /\ Ahead' = Ahead /\ len' = len /\ start' = start
  BY <1>1, <1>2, InputFixed
<1>4. CASE StartLinear \/ StartBlocks
  <2>1. /\ r' = r /\ result' = result /\ reads' = StartRead /\ len > 0
        /\ After => pc' \in {"forward", "blocks_forward"} /\ l' = start + 1
        /\ ~After => pc' \in {"backward", "blocks_backward"} /\ l' = start
    BY <1>4 DEF StartLinear, StartBlocks
  <2>2. /\ After => Below(start + 1)
        /\ ~After => Above(start)
        /\ StartRead \subseteq 0..(len - 1)
    BY <1>1, Guess
  <2> QED
    BY <1>1, <1>3, <2>1, <2>2 DEF IInv, HalveInv, GallopInv, InterpolateInv, ScanInv,
       ReadsInside, Below, Above
<1>5. CASE RestForward
  BY <1>1, <1>3, <1>5 DEF RestForward, IInv, HalveInv, GallopInv, InterpolateInv,
     ScanInv, ReadsInside, Below
<1>6. CASE RestBackward
  <2>1. Above(l) /\ len > 0 /\ reads' = {} /\ l' = l /\ r' = r
    BY <1>6 DEF RestBackward, IInv, ScanInv
  <2>2. CASE l = 0
    BY <1>1, <1>2, <1>6, <2>1, <2>2, Ends, Returns DEF RestBackward
  <2>3. CASE l # 0
    BY <1>1, <1>3, <1>6, <2>1, <2>3 DEF RestBackward, IInv, HalveInv, GallopInv,
       InterpolateInv, ScanInv, ReadsInside, Above
  <2> QED
    BY <2>2, <2>3
<1>7. CASE ForwardStep
  <2>1. Below(l) /\ l # len /\ Before(l)
    BY <1>7 DEF ForwardStep, IInv, ScanInv
  <2>2. l \in 0..(len - 1)
    BY <1>1, <2>1 DEF Below
  <2>3. Below(l + 1)
    BY <1>1, <2>1, <2>2, Compare
  <2> QED
    BY <1>1, <1>3, <1>7, <2>2, <2>3 DEF ForwardStep, IInv, HalveInv, GallopInv,
       InterpolateInv, ScanInv, ReadsInside, Below
<1>8. CASE ForwardDone
  <2>1. /\ Below(l) /\ ~(l # len /\ Before(l))
        /\ Return(l) /\ reads' = {l} \ {len} /\ l' = l /\ r' = r
    BY <1>8 DEF ForwardDone, IInv, ScanInv
  <2>2. l # len => l \in 0..(len - 1)
    BY <1>1, <2>1 DEF Below
  <2>3. Above(l)
    BY <1>1, <2>1, <2>2, Compare, Ends
  <2> QED
    BY <1>1, <1>2, <2>1, <2>2, <2>3, Returns
<1>9. CASE BackwardStep
  <2>1. Above(l) /\ len > 0 /\ l # 0 /\ ~Before(l - 1)
    BY <1>9 DEF BackwardStep, IInv, ScanInv
  <2>2. l - 1 \in 0..(len - 1)
    BY <1>1, <2>1 DEF Above
  <2>3. Above(l - 1)
    BY <1>1, <2>1, <2>2, Compare
  <2> QED
    BY <1>1, <1>3, <1>9, <2>1, <2>2, <2>3 DEF BackwardStep, IInv, HalveInv, GallopInv,
       InterpolateInv, ScanInv, ReadsInside, Above
<1>10. CASE BackwardDone
  <2>1. /\ Above(l) /\ len > 0 /\ ~(l # 0 /\ ~Before(l - 1))
        /\ Return(IF l = 0 /\ Before(0) THEN 1 ELSE l)
        /\ reads' = {Max({l - 1, 0})} /\ l' = l /\ r' = r
    BY <1>10 DEF BackwardDone, IInv, ScanInv
  <2>2. l \in 0..len
    BY <2>1 DEF Above
  <2>3. Max({l - 1, 0}) \in 0..(len - 1)
    <3>1. {l - 1, 0} \in SUBSET Int /\ \A x \in {l - 1, 0} : x <= len
      BY <1>1, <2>2
    <3>2. Max({l - 1, 0}) \in {l - 1, 0} /\ Max({l - 1, 0}) >= 0
      BY <1>1, <3>1, GreatestElement
    <3> QED
      BY <1>1, <2>1, <2>2, <3>2
  <2>4. CASE l = 0
    <3>1. 0 \in 0..(len - 1) /\ 0 \notin Ahead
      BY <1>1, <2>1, <2>4 DEF Above
    <3>2. ~Before(0)
      BY <1>1, <3>1, AheadInitial
    <3> QED
      BY <1>1, <1>2, <2>1, <2>3, <2>4, <3>2, Ends, Returns
  <2>5. CASE l # 0
    <3>1. l - 1 \in 0..(len - 1) /\ Before(l - 1) /\ l - 1 + 1 = l
      BY <1>1, <2>1, <2>2, <2>5
    <3>2. Below(l - 1 + 1)
      BY <1>1, <3>1, Compare
    <3> QED
      BY <1>1, <1>2, <2>1, <2>3, <2>5, <3>1, <3>2, Returns
  <2> QED
    BY <2>4, <2>5
<1> QED
  BY <1>4, <1>5, <1>6, <1>7, <1>8, <1>9, <1>10

-----------------------------------------------------------------------------
\* LinearAVX: the count of a block says how far into it the answer is, because the
\* elements before the answer are the first ones of the block.
LEMMA BlockStep ==
  ASSUME IInv, BlockForward \/ BlockBackward
  PROVE  IInv'
<1>1. InputInv /\ len \in Nat /\ l \in Int /\ r \in Int /\ Block \in Nat \ {0}
  BY SearchesAssumption DEF IInv, InputInv
<1>2. UNCHANGED input
  BY DEF BlockForward, BlockBackward
<1>3. InputInv' /\ Ahead' = Ahead /\ len' = len /\ start' = start
  BY <1>1, <1>2, InputFixed
<1>4. \A p : (Before(p) = TRUE <=> Before(p)) /\ (Before(p) = FALSE <=> ~Before(p))
  BY DEF Before
<1>5. CASE BlockForward
  <2> DEFINE block == l..(l + Block - 1)
             T == {p \in block : Before(p)}
             n == Cardinality(T)
  <2>1. Count(block, TRUE) = n
    <3>1. T = {p \in block : Before(p) = TRUE}
      BY <1>4
    <3> QED
      BY <3>1 DEF Count
  <2>2. /\ pc = "blocks_forward" /\ len - l >= Block /\ reads' = block /\ r' = r
        /\ IF n = Block THEN l' = l + Block /\ UNCHANGED <<pc, result>>
           ELSE Return(l + n) /\ l' = l
    BY <1>5, <2>1 DEF BlockForward
  <2>3. Below(l)
    BY <2>2 DEF IInv, ScanInv
  <2>4. block \subseteq 0..(len - 1)
    BY <1>1, <2>2, <2>3 DEF Below
  <2>5. n = Block <=> T = block
    <3>1. T \in SUBSET (l..(l + Block - 1)) /\ Block \in Nat
      BY <1>1
    <3> HIDE DEF T
    <3> QED
      BY <1>1, <3>1, WholeInterval
  <2>6. CASE n = Block
    <3>1. l + Block - 1 \in T /\ l + Block - 1 + 1 = l + Block
      BY <1>1, <2>5, <2>6
    <3>2. Below(l + Block)
      BY <1>1, <2>4, <3>1, Compare
    <3> QED
      BY <1>1, <1>3, <2>2, <2>4, <2>6, <3>2 DEF IInv, HalveInv, GallopInv,
         InterpolateInv, ScanInv, ReadsInside, Below
  <2>7. CASE n # Block
    <3> DEFINE F == {p \in block : ~Before(p)}
               k == Min(F)
    <3>1. F # {} /\ F \in SUBSET Int /\ \A x \in F : l <= x
      BY <1>1, <2>5, <2>7
    <3>2. k \in F /\ \A x \in F : k <= x
      BY <1>1, <3>1, LeastElement
    <3> HIDE DEF k
    <3>3. k \in 0..(len - 1) /\ k \in block /\ ~Before(k)
      BY <2>4, <3>2
    <3>4. Above(k)
      BY <1>1, <3>3, Compare
    <3>5. \A p \in l..(k - 1) : p \in block /\ Before(p)
      BY <1>1, <3>2, <3>3
    <3>6. T = l..(k - 1)
      <4>1. ASSUME NEW p \in T PROVE p \in l..(k - 1)
        <5>1. p \in Ahead /\ p \in Int /\ l <= p
          BY <1>1, <2>4, <4>1, AheadInitial
        <5> QED
          BY <1>1, <3>3, <3>4, <5>1 DEF Above
      <4> QED
        BY <3>5, <4>1
    <3>7. n = k - l
      <4>1. k \in Int /\ l <= k
        BY <1>1, <3>3
      <4>2. Cardinality(l..(k - 1)) = k - l
        BY <1>1, <4>1, IntervalSize
      <4> QED
        BY <3>6, <4>2
    <3>8. Below(k)
      <4>1. CASE k = l
        BY <2>3, <4>1
      <4>2. CASE k # l
        <5>1. k - 1 \in 0..(len - 1) /\ Before(k - 1) /\ k - 1 + 1 = k
          BY <1>1, <2>4, <3>3, <3>5, <4>2
        <5>2. Below(k - 1 + 1)
          BY <1>1, <5>1, Compare
        <5> QED
          BY <5>1, <5>2
      <4> QED
        BY <4>1, <4>2
    <3>9. l + n = k
      BY <1>1, <3>3, <3>7
    <3> QED
      BY <1>1, <1>2, <2>2, <2>4, <2>7, <3>4, <3>8, <3>9, Returns
  <2> QED
    BY <2>6, <2>7
<1>6. CASE BlockBackward
  <2> DEFINE a == l - Block
             block == a..(l - 1)
             F == {p \in block : ~Before(p)}
             n == Cardinality(F)
  <2>1. Count(block, FALSE) = n
    <3>1. F = {p \in block : Before(p) = FALSE}
      BY <1>4
    <3> QED
      BY <3>1 DEF Count
  <2>2. a \in Int /\ block = a..(a + Block - 1) /\ a < l
    BY <1>1
  <2>3. Min(block) = a
    <3>1. block \in SUBSET Int /\ a \in block /\ \A x \in block : a <= x
      BY <1>1, <2>2
    <3>2. Min(block) \in block /\ \A x \in block : Min(block) <= x
      BY <2>2, <3>1, LeastElement
    <3> QED
      BY <1>1, <3>1, <3>2
  <2>4. /\ pc = "blocks_backward" /\ l >= Block /\ reads' = block /\ r' = r
        /\ IF n = Block THEN l' = a /\ UNCHANGED <<pc, result>>
           ELSE Return(a + (Block - n)) /\ l' = l
    BY <1>6, <2>1, <2>3 DEF BlockBackward, FoundBackward
  <2>5. Above(l) /\ len > 0
    BY <2>4 DEF IInv, ScanInv
  <2>6. block \subseteq 0..(len - 1)
    BY <1>1, <2>4, <2>5 DEF Above
  <2>7. n = Block <=> F = block
    <3>1. F \in SUBSET (a..(a + Block - 1)) /\ Block \in Nat
      BY <1>1, <2>2
    <3> HIDE DEF F
    <3> QED
      BY <2>2, <3>1, WholeInterval
  <2>8. CASE n = Block
    <3>1. a \in F
      BY <1>1, <2>2, <2>7, <2>8
    <3>2. Above(a)
      BY <1>1, <2>6, <3>1, Compare
    <3> QED
      BY <1>1, <1>3, <2>2, <2>4, <2>5, <2>6, <2>8, <3>2 DEF IInv, HalveInv, GallopInv,
         InterpolateInv, ScanInv, ReadsInside, Above
  <2>9. CASE n # Block
    <3>1. CASE F = {}
      <4>1. n = 0 /\ a + (Block - n) = l
        BY <1>1, <3>1, FS_EmptySet
      <4>2. l - 1 \in 0..(len - 1) /\ Before(l - 1) /\ l - 1 + 1 = l
        BY <1>1, <2>2, <2>6, <3>1
      <4>3. Below(l - 1 + 1)
        BY <1>1, <4>2, Compare
      <4> QED
        BY <1>1, <1>2, <2>4, <2>5, <2>6, <2>9, <4>1, <4>2, <4>3, Returns
    <3>2. CASE F # {}
      <4> DEFINE k == Min(F)
      <4>1. F \in SUBSET Int /\ \A x \in F : a <= x
        BY <1>1, <2>2
      <4>2. k \in F /\ \A x \in F : k <= x
        BY <2>2, <3>2, <4>1, LeastElement
      <4> HIDE DEF k
      <4>3. k \in 0..(len - 1) /\ k \in block /\ ~Before(k)
        BY <2>6, <4>2
      <4>4. Above(k)
        BY <1>1, <4>3, Compare
      <4>5. ASSUME NEW p \in k..(l - 1) PROVE p \in F
        <5>1. p \in block /\ p \notin 0..(k - 1)
          BY <1>1, <2>2, <4>3, <4>5
        <5>2. ~Before(p)
          BY <1>1, <2>6, <4>4, <5>1, AheadInitial DEF Above
        <5> QED
          BY <5>1, <5>2
      <4>6. F = k..(l - 1)
        BY <1>1, <2>2, <4>2, <4>3, <4>5
      <4>7. n = l - k
        <5>1. k \in Int /\ k < l
          BY <1>1, <2>2, <4>3
        <5>2. Cardinality(k..(l - 1)) = l - k
          BY <1>1, <5>1, IntervalSize
        <5> QED
          BY <4>6, <5>2
      <4>8. k # a
        BY <2>7, <2>9, <4>6
      <4>9. k - 1 \in 0..(len - 1) /\ k - 1 \in block /\ k - 1 \notin F /\ k - 1 + 1 = k
        BY <1>1, <2>2, <2>6, <4>2, <4>3, <4>8
      <4>10. Below(k - 1 + 1)
        BY <1>1, <4>9, Compare
      <4>11. a + (Block - n) = k
        BY <1>1, <4>3, <4>7
      <4> QED
        BY <1>1, <1>2, <2>4, <2>6, <2>9, <4>4, <4>9, <4>10, <4>11, Returns
    <3> QED
      BY <3>1, <3>2
  <2> QED
    BY <2>8, <2>9
<1> QED
  BY <1>5, <1>6

-----------------------------------------------------------------------------
(* The theorems. *)

\* The inductive invariant holds in every search.
THEOREM SearchesInvariant == Spec => []IInv
<1>1. Init => IInv
  <2> SUFFICES ASSUME Init PROVE IInv
    OBVIOUS
  <2>1. /\ len \in Nat /\ arr \in [0..(len - 1) -> Values] /\ Sorted(arr, len)
        /\ key \in Int /\ side \in {"lower", "upper"} /\ start \in 0..len
    BY SearchesAssumption DEF Init
  <2>2. arr \in [0..(len - 1) -> Int]
    BY <2>1, SearchesAssumption
  <2>3. InputInv
    BY <2>1, <2>2 DEF InputInv
  <2> QED
    BY <2>3 DEF Init, IInv, HalveInv, GallopInv, InterpolateInv, ScanInv, ReadsInside
<1>2. IInv /\ [Next]_vars => IInv'
  <2> SUFFICES ASSUME IInv, [Next]_vars PROVE IInv'
    OBVIOUS
  <2>1. CASE EmptyRange
    BY <2>1, EmptyStep
  <2>2. CASE StartBinary \/ HalveStep \/ HalveDone
    BY <2>2, BinaryStep
  <2>3. CASE StartGallop \/ RightStep \/ LeftStep
    BY <2>3, GallopStep
  <2>4. CASE RightEnd \/ LeftEnd
    BY <2>4, GallopEnd
  <2>5. CASE Tail
    BY <2>5, TailStep
  <2>6. CASE StartInterpolation \/ InterpolateStep \/ InterpolateDone
    BY <2>6, InterpolationStep
  <2>7. CASE \/ StartLinear \/ StartBlocks \/ RestForward \/ RestBackward
             \/ ForwardStep \/ ForwardDone \/ BackwardStep \/ BackwardDone
    BY <2>7, LinearStep
  <2>8. CASE BlockForward \/ BlockBackward
    BY <2>8, BlockStep
  <2>9. CASE UNCHANGED vars
    <3>1. InputInv' /\ Ahead' = Ahead /\ len' = len /\ start' = start
      BY <2>9, InputFixed DEF vars, IInv
    <3> QED
      BY <2>9, <3>1 DEF vars, IInv, HalveInv, GallopInv, InterpolateInv, ScanInv,
         ReadsInside, Below, Above
  <2> QED
    BY <2>1, <2>2, <2>3, <2>4, <2>5, <2>6, <2>7, <2>8, <2>9 DEF Next
<1> QED
  BY <1>1, <1>2, PTL DEF Spec

\* No search reads outside of the range it was given.
THEOREM SearchesReadInside == Spec => []ReadsInside
<1>1. IInv => ReadsInside
  BY DEF IInv
<1> QED
  BY <1>1, SearchesInvariant, PTL

\* The part that is being halved always holds the answer, and the exponential search
\* leaves a part that is no longer than its distance from the guess.
THEOREM SearchesBracketed == Spec => []Bracketed
<1>1. IInv => Bracketed
  <2> SUFFICES ASSUME IInv, pc \in {"halve", "tail"}
               PROVE  l \in 0..len /\ r \in l..len /\ Cardinality(Ahead) \in l..r
    BY DEF IInv, HalveInv, Bracketed, Ahead
  <2>1. len \in Nat /\ l <= r /\ Below(l) /\ Above(r)
    BY DEF IInv, InputInv, HalveInv
  <2>2. l \in 0..len /\ r \in 0..len
    BY <2>1 DEF Below, Above
  <2>3. Cardinality(Ahead) \in l..r
    <3>1. 0..(l - 1) \subseteq Ahead /\ Ahead \subseteq 0..(r - 1)
      BY <2>1 DEF Below, Above
    <3>2. l \in Nat /\ r \in Nat
      BY <2>2
    <3> QED
      BY <3>1, <3>2, CardinalityBetween
  <2> QED
    BY <2>1, <2>2, <2>3
<1> QED
  BY <1>1, SearchesInvariant, PTL

\* Every search class answers lower_bound and upper_bound, whatever the guess.
THEOREM SearchesCorrect == Spec => []ResultCorrect
<1>1. IInv => ResultCorrect
  <2> SUFFICES ASSUME IInv, pc = "done" PROVE result = Cardinality(Ahead)
    BY DEF ResultCorrect, Ahead
  <2>1. Below(result) /\ Above(result) /\ len \in Nat
    BY DEF IInv, InputInv
  <2>2. result \in Nat
    BY <2>1 DEF Below
  <2>3. Cardinality(Ahead) \in result..result
    BY <2>1, <2>2, CardinalityBetween DEF Below, Above
  <2> QED
    BY <2>2, <2>3
<1> QED
  BY <1>1, SearchesInvariant, PTL
=============================================================================
