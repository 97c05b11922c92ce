--------------------------- MODULE PGMIndex_proofs ---------------------------
(***************************************************************************)
(* Machine-checked proofs about PGMIndex, for every sorted sequence of      *)
(* keys and every error.                                                    *)
(***************************************************************************)
EXTENDS PGMIndex, SequenceTheorems, TLAPS

-----------------------------------------------------------------------------
(* The inductive invariant. *)

\* The key of back_check, which no key of a level exceeds.
EndKey == data[n - IgnoreLast] + 1

\* The keys of the first m segments are sorted and at most k.
KeysUpTo(segments, m, k) ==
  /\ \A a \in 1..m : segments[a].key \in Int /\ segments[a].key <= k
  /\ \A a, b \in 1..m : a < b => segments[a].key <= segments[b].key

\* A finished level is sorted up to its padding.
LevelsInv ==
  /\ levels \in Seq(Range(levels))
  /\ levels # <<>> =>
       /\ Len(Last(levels)) \in Nat
       /\ pc = "segment" => Len(Last(levels)) > 2
       /\ KeysUpTo(Last(levels), Len(Last(levels)) - 1, EndKey)

\* The fields of opt.
IsModel(o) ==
  o = [points |-> o.points, first_x |-> o.first_x, last_x |-> o.last_x,
       rectangle |-> o.rectangle, lower |-> o.lower, upper |-> o.upper,
       lower_start |-> o.lower_start, upper_start |-> o.upper_start]

\* A segment that has begun has the point before i as its last one, be it added or
\* skipped.
OptInv ==
  /\ IsModel(opt) /\ opt.points \in Nat
  /\ pc = "segment" =>
       /\ opt.points = 0 => i = start /\ i < PointCount
       /\ opt.points > 0 =>
            /\ i > start /\ opt.last_x = Point(i - 1)[1]
            /\ opt.first_x \in Int /\ opt.first_x <= opt.last_x

\* The segments of the level so far begin no later than the current one.
LevelInv ==
  /\ level \in Seq(Range(level))
  /\ pc = "segment" =>
       KeysUpTo(level, Len(level), IF opt.points > 0 THEN opt.first_x ELSE Point(i)[1])

IInv ==
  /\ data \in Inputs /\ pc \in {"segment", "built"}
  /\ LevelsInv
  /\ pc = "segment" => i \in 0..PointCount /\ start \in 0..i
  /\ OptInv /\ LevelInv

-----------------------------------------------------------------------------
(* The points of a level. *)

\* How many points the data have, and where the keys are.
LEMMA DataFacts ==
  ASSUME data \in Inputs
  PROVE  /\ n \in Nat /\ n > 0 /\ IgnoreLast \in {0, 1} /\ n - IgnoreLast \in 1..n
         /\ \A a \in 1..n : data[a] \in Int
         /\ \A a, b \in 1..n : a < b => data[a] <= data[b]
         /\ EndKey \in Int
         /\ \A a \in 1..(n - IgnoreLast) : data[a] + 1 <= EndKey
<1>1. /\ data # <<>> /\ data \in Seq(0..MaxKey) /\ data[1] < MaxKey /\ MaxKey \in Nat
      /\ \A a, b \in 1..n : a < b => data[a] <= data[b]
  BY PGMAssumption DEF n
<1>2. n \in Nat /\ n > 0 /\ \A a \in 1..n : data[a] \in 0..MaxKey
  BY <1>1 DEF n
<1>3. IgnoreLast \in {0, 1} /\ n - IgnoreLast \in 1..n
  <2>1. CASE n = 1
    BY <1>1, <1>2, <2>1 DEF IgnoreLast, Last, n
  <2>2. CASE n # 1
    BY <1>2, <2>2 DEF IgnoreLast
  <2> QED
    BY <2>1, <2>2
<1>4. EndKey \in Int
  BY <1>2, <1>3 DEF EndKey
<1>5. ASSUME NEW a \in 1..(n - IgnoreLast)
      PROVE  data[a] + 1 <= EndKey
  <2>1. a \in 1..n /\ (a = n - IgnoreLast \/ a < n - IgnoreLast)
    BY <1>2, <1>3, <1>5
  <2>2. \A b \in 1..n : data[b] \in Int
    BY <1>1, <1>2
  <2>3. data[a] <= data[n - IgnoreLast]
    BY <1>1, <1>3, <2>1, <2>2
  <2> QED
    BY <1>3, <2>1, <2>2, <2>3 DEF EndKey
<1> QED
  BY <1>1, <1>2, <1>3, <1>4, <1>5

\* in_fun moves a key by at most one, and not up to the next key.
LEMMA InFunBetween ==
  ASSUME data \in Inputs, NEW j \in 0..(n - 1)
  PROVE  /\ InFun(j)[1] \in Int
         /\ data[j + 1] <= InFun(j)[1] /\ InFun(j)[1] <= data[j + 1] + 1
         /\ j + 1 < n => InFun(j)[1] <= data[j + 2]
<1>1. /\ n \in Nat /\ \A a \in 1..n : data[a] \in Int
      /\ \A a, b \in 1..n : a < b => data[a] <= data[b]
  BY DataFacts
<1>2. j + 1 \in 1..n /\ data[j + 1] \in Int
  BY <1>1
<1>3. j + 1 < n => data[j + 2] \in Int /\ data[j + 1] <= data[j + 2]
  BY <1>1, <1>2
<1> QED
  BY <1>2, <1>3 DEF InFun

\* The points of the level that is being built are sorted and not beyond the key of
\* back_check.
LEMMA PointsSorted ==
  ASSUME data \in Inputs, LevelsInv, pc = "segment"
  PROVE  /\ PointCount \in Nat /\ PointCount > 0
         /\ \A j \in 0..(PointCount - 1) : Point(j)[1] \in Int /\ Point(j)[1] <= EndKey
         /\ \A j, m \in 0..(PointCount - 1) : j < m => Point(j)[1] <= Point(m)[1]
<1>1. CASE levels = <<>>
  <2>1. PointCount = n - IgnoreLast /\ \A j : Point(j) = InFun(j)
    BY <1>1 DEF PointCount, Point
  <2>2. PointCount \in 1..n /\ n \in Nat
    BY <2>1, DataFacts
  <2>3. ASSUME NEW j \in 0..(PointCount - 1)
        PROVE  Point(j)[1] \in Int /\ Point(j)[1] <= EndKey
    <3>1. j \in 0..(n - 1) /\ j + 1 \in 1..(n - IgnoreLast) /\ j + 1 \in 1..n
      BY <2>1, <2>2, <2>3
    <3>2. data[j + 1] \in Int /\ EndKey \in Int /\ data[j + 1] + 1 <= EndKey
      BY <3>1, DataFacts
    <3> QED
      BY <2>1, <3>1, <3>2, InFunBetween
  <2>4. ASSUME NEW j \in 0..(PointCount - 1), NEW m \in 0..(PointCount - 1), j < m
        PROVE  Point(j)[1] <= Point(m)[1]
    <3>1. /\ j \in 0..(n - 1) /\ m \in 0..(n - 1) /\ j + 1 < n
          /\ j + 2 \in 1..n /\ m + 1 \in 1..n /\ (j + 2 = m + 1 \/ j + 2 < m + 1)
      BY <2>2, <2>4
    <3>2. data[j + 2] <= data[m + 1] /\ data[j + 2] \in Int /\ data[m + 1] \in Int
      BY <3>1, DataFacts
    <3>3. InFun(j)[1] \in Int /\ InFun(j)[1] <= data[j + 2]
      BY <3>1, InFunBetween
    <3>4. InFun(m)[1] \in Int /\ data[m + 1] <= InFun(m)[1]
      BY <3>1, InFunBetween
    <3> QED
      BY <2>1, <3>2, <3>3, <3>4
  <2> QED
    BY <2>2, <2>3, <2>4
<1>2. CASE levels # <<>>
  <2>1. /\ PointCount = Len(Last(levels)) - 1
        /\ \A j : Point(j)[1] = Last(levels)[j + 1].key
    BY <1>2 DEF PointCount, Point
  <2>2. Len(Last(levels)) \in Nat /\ Len(Last(levels)) > 2
    BY <1>2 DEF LevelsInv
  <2>3. /\ \A a \in 1..PointCount : Last(levels)[a].key \in Int /\ Last(levels)[a].key <= EndKey
        /\ \A a, b \in 1..PointCount : a < b => Last(levels)[a].key <= Last(levels)[b].key
    BY <1>2, <2>1 DEF LevelsInv, KeysUpTo
  <2>4. \A j \in 0..(PointCount - 1) : j + 1 \in 1..PointCount
    BY <2>1, <2>2
  <2> QED
    BY <2>1, <2>2, <2>3, <2>4
<1> QED
  BY <1>1, <1>2

-----------------------------------------------------------------------------
(* What add_point does to the counters of the model, whatever it does to the hulls. *)

\* The first point of a segment is its first and its last.
LEMMA FirstPointFields ==
  ASSUME NEW p, NEW e
  PROVE  /\ IsModel(FirstPoint(p, e)) /\ FirstPoint(p, e).points = 1
         /\ FirstPoint(p, e).first_x = p[1] /\ FirstPoint(p, e).last_x = p[1]
<1>1. IsModel(Empty)
  BY DEF Empty, IsModel
<1> DEFINE r == <<Up(p, e), Down(p, e)>>
           w == <<Down(p, e)>>
           u == <<Up(p, e)>>
<1>2. FirstPoint(p, e) =
        [Empty EXCEPT !.points = 1, !.first_x = p[1], !.last_x = p[1],
                      !.rectangle = r, !.lower = w, !.upper = u]
  BY DEF FirstPoint
<1> HIDE DEF r, w, u
<1> QED
  BY <1>1, <1>2 DEF IsModel

\* Every later point moves the end only: the second,
LEMMA SecondPointFields ==
  ASSUME NEW o, NEW p, NEW e, IsModel(o)
  PROVE  /\ IsModel(SecondPoint(o, p, e)) /\ SecondPoint(o, p, e).points = 2
         /\ SecondPoint(o, p, e).first_x = o.first_x /\ SecondPoint(o, p, e).last_x = p[1]
<1> DEFINE r == o.rectangle \o <<Down(p, e), Up(p, e)>>
           w == Append(o.lower, Down(p, e))
           u == Append(o.upper, Up(p, e))
<1>1. SecondPoint(o, p, e) =
        [o EXCEPT !.points = 2, !.last_x = p[1], !.rectangle = r, !.lower = w, !.upper = u]
  BY DEF SecondPoint
<1> HIDE DEF r, w, u
<1> QED
  BY <1>1 DEF IsModel

\* ... what the upper new point changes,
LEMMA LoweredFields ==
  ASSUME NEW o, NEW p, NEW e, IsModel(o)
  PROVE  /\ IsModel(Lowered(o, p, e))
         /\ Lowered(o, p, e).points = o.points /\ Lowered(o, p, e).first_x = o.first_x
BY DEF Lowered, IsModel

\* ... what the lower new point changes,
LEMMA RaisedFields ==
  ASSUME NEW before, NEW o, NEW p, NEW e, IsModel(o)
  PROVE  /\ IsModel(Raised(before, o, p, e))
         /\ Raised(before, o, p, e).points = o.points
         /\ Raised(before, o, p, e).first_x = o.first_x
BY DEF Raised, IsModel

\* ... and so a point that has been added to the hulls.
LEMMA InnerPointFields ==
  ASSUME NEW o, NEW p, NEW e, IsModel(o)
  PROVE  /\ IsModel(InnerPoint(o, p, e)) /\ InnerPoint(o, p, e).points = o.points + 1
         /\ InnerPoint(o, p, e).first_x = o.first_x /\ InnerPoint(o, p, e).last_x = p[1]
<1> DEFINE q == Raised(o, Lowered(o, p, e), p, e)
<1>1. IsModel(q) /\ q.points = o.points /\ q.first_x = o.first_x
  BY LoweredFields, RaisedFields
<1>2. InnerPoint(o, p, e) = [q EXCEPT !.points = @ + 1, !.last_x = p[1]]
  BY DEF InnerPoint
<1> HIDE DEF q
<1> QED
  BY <1>1, <1>2 DEF IsModel

\* A segment that has just ended has no point.
LEMMA EmptyFields ==
  ASSUME NEW x
  PROVE  IsModel([Empty EXCEPT !.last_x = x]) /\ [Empty EXCEPT !.last_x = x].points = 0
BY DEF Empty, IsModel

\* A segment begins at the first key of its model.
LEMMA SegmentKey ==
  ASSUME NEW o
  PROVE  MakeSegment(o).key = o.first_x
BY DEF MakeSegment

-----------------------------------------------------------------------------
(* Sequences of segments. *)

\* Appending to any sequence, and putting two together.
LEMMA Appended ==
  ASSUME NEW s, s \in Seq(Range(s)), NEW e
  PROVE  /\ Append(s, e) \in Seq(Range(Append(s, e)))
         /\ Len(s) \in Nat /\ Len(Append(s, e)) = Len(s) + 1
         /\ \A a \in 1..Len(s) : Append(s, e)[a] = s[a]
         /\ Append(s, e)[Len(s) + 1] = e
<1> DEFINE S == Range(s) \cup {e}
           t == Append(s, e)
<1>1. s \in Seq(S) /\ e \in S
  BY SeqMonotonic
<1>2. t \in Seq(S) /\ Len(s) \in Nat
  BY <1>1
<1>3. Len(t) = Len(s) + 1 /\ (\A a \in 1..Len(s) : t[a] = s[a]) /\ t[Len(s) + 1] = e
  BY <1>1
<1> HIDE DEF t, S
<1>4. Len(t) \in Nat /\ t = [a \in 1..Len(t) |-> t[a]] /\ DOMAIN t = 1..Len(t)
  BY <1>2, LenProperties
<1>5. t \in Seq(Range(t))
  BY <1>2, <1>4 DEF Range
<1> QED
  BY <1>2, <1>3, <1>5 DEF t

\* A level's segments with a later one stay sorted.
LEMMA KeysAppended ==
  ASSUME NEW s, s \in Seq(Range(s)), NEW seg, NEW k \in Int, seg.key \in Int, seg.key <= k,
         KeysUpTo(s, Len(s), seg.key)
  PROVE  KeysUpTo(Append(s, seg), Len(s) + 1, k)
<1> DEFINE t == Append(s, seg)
<1>1. Len(s) \in Nat /\ (\A a \in 1..Len(s) : t[a] = s[a]) /\ t[Len(s) + 1] = seg
  BY Appended
<1> HIDE DEF t
<1>2. \A a \in 1..(Len(s) + 1) : a \in 1..Len(s) \/ a = Len(s) + 1
  BY <1>1
<1>3. \A a \in 1..Len(s) : t[a].key \in Int /\ t[a].key <= seg.key
  BY <1>1 DEF KeysUpTo
<1>4. \A a \in 1..(Len(s) + 1) : t[a].key \in Int /\ t[a].key <= k
  BY <1>1, <1>2, <1>3
<1>5. ASSUME NEW a \in 1..(Len(s) + 1), NEW b \in 1..(Len(s) + 1), a < b
      PROVE  t[a].key <= t[b].key
  <2>1. a \in 1..Len(s) /\ (b \in 1..Len(s) \/ b = Len(s) + 1)
    BY <1>1, <1>5
  <2> QED
    BY <1>1, <1>3, <1>5, <2>1 DEF KeysUpTo
<1> QED
  BY <1>4, <1>5 DEF KeysUpTo, t

\* The end of a level, with and without the segment of back_check.
LEMMA TwoAppended ==
  ASSUME NEW s, s \in Seq(Range(s)), NEW x, NEW y
  PROVE  /\ s \o (<<x>> \o <<y>>) = Append(Append(s, x), y)
         /\ s \o (<<>> \o <<y>>) = Append(s, y)
<1> DEFINE S == Range(s) \cup {x, y}
<1>1. s \in Seq(S) /\ x \in S /\ y \in S
  BY SeqMonotonic
<1> HIDE DEF S
<1>2. /\ <<x>> \in Seq(S) /\ <<y>> \in Seq(S) /\ <<>> \o <<y>> = <<y>>
      /\ s \o <<x>> = Append(s, x) /\ s \o <<y>> = Append(s, y)
  BY <1>1
<1>3. Append(s, x) \in Seq(S) /\ Append(s, x) \o <<y>> = Append(Append(s, x), y)
  BY <1>1
<1>4. s \o (<<x>> \o <<y>>) = (s \o <<x>>) \o <<y>>
  BY <1>1, <1>2, ConcatAssociative
<1> QED
  BY <1>2, <1>3, <1>4

\* A level that ends is sorted up to its padding.
LEMMA WholeLevel ==
  ASSUME NEW s, s \in Seq(Range(s)), NEW k \in Int, k <= EndKey, EndKey \in Int,
         KeysUpTo(s, Len(s), k)
  PROVE  LET whole == s \o LevelEnd(s)
         IN  Len(whole) \in Nat /\ KeysUpTo(whole, Len(whole) - 1, EndKey)
<1> DEFINE x == [key |-> EndKey, slope |-> <<0, 1>>, intercept |-> PointCount]
           y == Padding(PointCount)
           whole == s \o LevelEnd(s)
<1>1. whole = Append(Append(s, x), y) \/ whole = Append(s, y)
  BY TwoAppended DEF LevelEnd, EndKey
<1>2. x.key = EndKey
  OBVIOUS
<1> HIDE DEF x, y, whole
<1>3. Len(s) \in Nat /\ KeysUpTo(s, Len(s), EndKey)
  BY Appended DEF KeysUpTo
<1>4. CASE whole = Append(s, y)
  BY <1>3, <1>4, Appended DEF KeysUpTo, whole
<1>5. CASE whole = Append(Append(s, x), y)
  <2> DEFINE t == Append(s, x)
  <2>1. t \in Seq(Range(t)) /\ Len(t) = Len(s) + 1 /\ KeysUpTo(t, Len(t), EndKey)
    BY <1>2, <1>3, Appended, KeysAppended
  <2> HIDE DEF t
  <2>2. /\ Len(t) \in Nat /\ Len(Append(t, y)) = Len(t) + 1
        /\ \A a \in 1..Len(t) : Append(t, y)[a] = t[a]
    BY <2>1, Appended
  <2> QED
    BY <1>5, <2>1, <2>2 DEF KeysUpTo, whole, t
<1> QED
  BY <1>1, <1>4, <1>5 DEF whole

-----------------------------------------------------------------------------
(* Every step keeps the invariant. *)

\* The points of a level are the same as long as the level is being built.
LEMMA SameLevel ==
  ASSUME data' = data, levels' = levels
  PROVE  /\ PointCount' = PointCount /\ EndKey' = EndKey
         /\ \A j : Point(j)' = Point(j)
BY DEF PointCount, EndKey, Point, InFun, IgnoreLast, n

\* The point that a step has taken is the one before the next.
LEMMA NextPoint ==
  ASSUME data' = data, levels' = levels, i \in Int, i' = i + 1
  PROVE  Point(i - 1)' = Point(i)
<1>1. i' - 1 = i
  OBVIOUS
<1> QED
  BY <1>1 DEF Point, InFun, n

\* A skipped point is the last one again.
LEMMA StepSkip ==
  ASSUME IInv, SkipPoint
  PROVE  IInv'
<1>1. /\ pc = "segment" /\ i \in 0..(PointCount - 1) /\ start \in 0..i /\ PointCount \in Nat
      /\ i # start /\ Point(i)[1] = opt.last_x
  BY PointsSorted DEF IInv, SkipPoint, Repeated
<1>2. i' = i + 1 /\ UNCHANGED <<data, pc, start, opt, level, levels>>
  BY DEF SkipPoint
<1>3. opt.points > 0 /\ opt.points \in Nat
  BY <1>1 DEF IInv, OptInv
<1>4. LevelsInv'
  BY <1>2, SameLevel DEF IInv, LevelsInv, KeysUpTo
<1>5. OptInv'
  <2>1. Point(i - 1)' = Point(i) /\ i' > start'
    BY <1>1, <1>2, NextPoint
  <2>2. pc' = pc /\ opt' = opt
    BY <1>2
  <2> QED
    BY <1>1, <1>3, <2>1, <2>2 DEF IInv, OptInv, IsModel
<1>6. LevelInv'
  BY <1>2, <1>3 DEF IInv, LevelInv, KeysUpTo
<1> QED
  BY <1>1, <1>2, <1>4, <1>5, <1>6, SameLevel DEF IInv

\* An added point is not before the last one, and begins the segment if it is the first.
LEMMA StepAdd ==
  ASSUME IInv, AddPoint
  PROVE  IInv'
<1>1. /\ pc = "segment" /\ i \in 0..(PointCount - 1) /\ start \in 0..i /\ PointCount \in Nat
      /\ ~Repeated /\ Point(i)[1] \in Int
  BY PointsSorted DEF IInv, AddPoint
<1>2. i' = i + 1 /\ UNCHANGED <<data, pc, start, level, levels>>
  BY DEF AddPoint
<1>3. LevelsInv'
  BY <1>2, SameLevel DEF IInv, LevelsInv, KeysUpTo
<1>4. /\ IsModel(opt') /\ opt'.points \in Nat /\ opt'.points > 0
      /\ opt'.last_x = Point(i)[1]
      /\ opt'.first_x = IF opt.points > 0 THEN opt.first_x ELSE Point(i)[1]
  <2>1. IsModel(opt) /\ opt.points \in Nat
    BY DEF IInv, OptInv
  <2>2. CASE opt.points = 0 /\ opt' = FirstPoint(Point(i), LevelError)
    BY <2>2, FirstPointFields
  <2>3. CASE opt.points = 1 /\ opt' = SecondPoint(opt, Point(i), LevelError)
    BY <2>1, <2>3, SecondPointFields
  <2>4. CASE opt.points > 1 /\ opt' = InnerPoint(opt, Point(i), LevelError)
    BY <2>1, <2>4, InnerPointFields
  <2> QED
    BY <2>2, <2>3, <2>4 DEF AddPoint
<1>5. opt'.first_x \in Int /\ opt'.first_x <= opt'.last_x
  <2>1. CASE opt.points > 0
    <3>1. opt.first_x \in Int /\ opt.first_x <= opt.last_x /\ opt.last_x = Point(i - 1)[1] /\ i > start
      BY <1>1, <2>1 DEF IInv, OptInv
    <3>2. i - 1 \in 0..(PointCount - 1) /\ i - 1 < i
      BY <1>1, <3>1
    <3>3. Point(i - 1)[1] \in Int /\ Point(i - 1)[1] <= Point(i)[1]
      BY <1>1, <3>2, PointsSorted DEF IInv
    <3> QED
      BY <1>1, <1>4, <2>1, <3>1, <3>3
  <2>2. CASE ~(opt.points > 0)
    BY <1>1, <1>4, <2>2
  <2> QED
    BY <2>1, <2>2
<1>6. OptInv'
  <2>1. Point(i - 1)' = Point(i) /\ i' > start'
    BY <1>1, <1>2, NextPoint
  <2> QED
    BY <1>4, <1>5, <2>1 DEF OptInv, IsModel
<1>7. LevelInv'
  <2>1. level' = level /\ pc' = pc
    BY <1>2
  <2>2. /\ level \in Seq(Range(level))
        /\ KeysUpTo(level, Len(level), opt'.first_x)
    BY <1>1, <1>4 DEF IInv, LevelInv
  <2> QED
    BY <1>4, <2>1, <2>2 DEF LevelInv, KeysUpTo
<1> QED
  BY <1>1, <1>2, <1>3, <1>6, <1>7, SameLevel DEF IInv

\* The segment that ends begins after the ones before it and before the next point.
LEMMA StepEndSegment ==
  ASSUME IInv, EndSegment
  PROVE  IInv'
<1>1. /\ pc = "segment" /\ i \in 0..(PointCount - 1) /\ start \in 0..i /\ PointCount \in Nat
      /\ opt.points \in Nat /\ opt.points > 1 /\ Point(i)[1] \in Int
  BY PointsSorted DEF IInv, OptInv, EndSegment
<1>2. /\ start' = i /\ level' = Append(level, MakeSegment(opt))
      /\ opt' = [Empty EXCEPT !.last_x = Point(i)[1]]
      /\ UNCHANGED <<data, pc, i, levels>>
  BY DEF EndSegment
<1>3. LevelsInv'
  BY <1>2, SameLevel DEF IInv, LevelsInv, KeysUpTo
<1>4. IsModel(opt') /\ opt'.points = 0
  BY <1>2, EmptyFields
<1>5. OptInv'
  BY <1>1, <1>2, <1>4, SameLevel DEF OptInv
<1>6. opt.first_x \in Int /\ opt.first_x <= Point(i)[1]
  <2>1. /\ opt.first_x \in Int /\ opt.first_x <= opt.last_x
        /\ opt.last_x = Point(i - 1)[1] /\ i > start
    BY <1>1 DEF IInv, OptInv
  <2>2. i - 1 \in 0..(PointCount - 1) /\ i - 1 < i
    BY <1>1, <2>1
  <2>3. Point(i - 1)[1] \in Int /\ Point(i - 1)[1] <= Point(i)[1]
    BY <1>1, <2>2, PointsSorted DEF IInv
  <2> QED
    BY <1>1, <2>1, <2>3
<1>7. LevelInv'
  <2>1. level \in Seq(Range(level)) /\ KeysUpTo(level, Len(level), opt.first_x)
    BY <1>1 DEF IInv, LevelInv
  <2>2. /\ level' \in Seq(Range(level')) /\ Len(level') = Len(level) + 1
        /\ KeysUpTo(level', Len(level'), Point(i)[1])
    BY <1>1, <1>2, <1>6, <2>1, SegmentKey, Appended, KeysAppended
  <2>3. Point(i)' = Point(i)
    BY <1>2, SameLevel
  <2> QED
    BY <1>4, <2>2, <2>3 DEF LevelInv, KeysUpTo
<1> QED
  BY <1>1, <1>2, <1>3, <1>5, <1>7, SameLevel DEF IInv

\* The level that ends is the sorted data of the next.
LEMMA StepEndLevel ==
  ASSUME IInv, EndLevel
  PROVE  IInv'
<1> DEFINE segments == Append(level, MakeSegment(opt))
           whole == segments \o LevelEnd(segments)
<1>1. /\ pc = "segment" /\ i = PointCount /\ start \in 0..i
      /\ PointCount \in Nat /\ PointCount > 0 /\ EndKey \in Int
  BY PointsSorted, DataFacts DEF IInv, EndLevel
<1>2. /\ levels' = Append(levels, whole) /\ pc' = IF Len(whole) > 2 THEN "segment" ELSE "built"
      /\ i' = 0 /\ start' = 0 /\ opt' = Empty /\ level' = <<>> /\ data' = data
  BY DEF EndLevel
<1>3. opt.points > 0
  BY <1>1 DEF IInv, OptInv
<1>4. opt.first_x \in Int /\ opt.first_x <= EndKey
  <2>1. /\ opt.first_x \in Int /\ opt.first_x <= opt.last_x
        /\ opt.last_x = Point(i - 1)[1]
    BY <1>1, <1>3 DEF IInv, OptInv
  <2>2. i - 1 \in 0..(PointCount - 1)
    BY <1>1
  <2>3. Point(i - 1)[1] \in Int /\ Point(i - 1)[1] <= EndKey
    BY <1>1, <2>2, PointsSorted DEF IInv
  <2> QED
    BY <1>1, <2>1, <2>3
<1>5. Len(whole) \in Nat /\ KeysUpTo(whole, Len(whole) - 1, EndKey)
  <2>1. level \in Seq(Range(level)) /\ KeysUpTo(level, Len(level), opt.first_x)
    BY <1>1, <1>3 DEF IInv, LevelInv
  <2>2. /\ segments \in Seq(Range(segments)) /\ Len(segments) = Len(level) + 1
        /\ KeysUpTo(segments, Len(segments), opt.first_x)
    <3>1. MakeSegment(opt).key = opt.first_x
      BY SegmentKey
    <3>2. segments \in Seq(Range(segments)) /\ Len(segments) = Len(level) + 1
      BY <2>1, Appended
    <3>3. KeysUpTo(segments, Len(level) + 1, opt.first_x)
      BY <1>4, <2>1, <3>1, KeysAppended
    <3> HIDE DEF segments
    <3> QED
      BY <3>2, <3>3
  <2> HIDE DEF segments
  <2> QED
    BY <1>1, <1>4, <2>2, WholeLevel
<1> HIDE DEF whole
<1>6. /\ levels' \in Seq(Range(levels')) /\ levels' # <<>> /\ Last(levels') = whole
  <2>1. levels \in Seq(Range(levels))
    BY DEF IInv, LevelsInv
  <2> QED
    BY <1>2, <2>1, Appended DEF Last
<1>7. EndKey' = EndKey
  BY <1>2 DEF EndKey, n, IgnoreLast
<1>8. LevelsInv'
  BY <1>2, <1>5, <1>6, <1>7 DEF LevelsInv, KeysUpTo
<1>9. pc' = "segment" => PointCount' \in Nat /\ PointCount' > 0
  BY <1>2, <1>5, <1>6 DEF PointCount
<1>10. OptInv'
  BY <1>2, <1>9 DEF OptInv, Empty, IsModel
<1>11. LevelInv'
  <2>1. level' \in Seq(Range(level')) /\ Len(level') = 0
    BY <1>2
  <2> QED
    BY <2>1 DEF LevelInv, KeysUpTo
<1> QED
  BY <1>2, <1>8, <1>9, <1>10, <1>11 DEF IInv

\* The index is built with sorted levels and sorted points, whatever the hulls do.
THEOREM PGMIndexInvariant == Spec => []IInv
<1>1. Init => IInv
  <2> SUFFICES ASSUME Init PROVE IInv
    OBVIOUS
  <2>1. /\ data \in Inputs /\ pc = "segment" /\ i = 0 /\ start = 0 /\ opt = Empty
        /\ level = <<>> /\ levels = <<>>
    BY DEF Init
  <2>2. LevelsInv /\ Len(level) = 0 /\ level \in Seq(Range(level))
    BY <2>1 DEF LevelsInv
  <2>3. PointCount \in Nat /\ PointCount > 0
    BY <2>1, <2>2, PointsSorted
  <2>4. OptInv
    BY <2>1, <2>3 DEF OptInv, Empty, IsModel
  <2>5. LevelInv
    BY <2>2 DEF LevelInv, KeysUpTo
  <2> QED
    BY <2>1, <2>2, <2>3, <2>4, <2>5 DEF IInv
<1>2. IInv /\ [Next]_vars => IInv'
  <2> SUFFICES ASSUME IInv, [Next]_vars PROVE IInv'
    OBVIOUS
  <2>1. CASE Next
    BY <2>1, StepSkip, StepAdd, StepEndSegment, StepEndLevel DEF Next
  <2>2. CASE UNCHANGED vars
    <3>1. UNCHANGED <<data, pc, i, start, opt, level, levels>>
      BY <2>2 DEF vars
    <3> QED
      BY <3>1, SameLevel DEF IInv, LevelsInv, OptInv, LevelInv, KeysUpTo, IsModel
  <2> QED
    BY <2>1, <2>2
<1> QED
  BY <1>1, <1>2, PTL DEF Spec

\* add_point never throws "Points must be increasing by x.", for any sorted data with any
\* repetitions, on any level: a key that in_fun has moved is not past the next key, and a
\* key that is repeated is skipped by the segment that has it.
THEOREM PGMIndexPointsIncrease == Spec => []PointsIncrease
<1>1. IInv => PointsIncrease
  <2> SUFFICES ASSUME IInv, pc = "segment", i < PointCount, ~Repeated, opt.points > 0
               PROVE  Point(i)[1] > opt.last_x
    BY DEF PointsIncrease
  <2>1. PointCount \in Nat /\ i \in 0..(PointCount - 1) /\ start \in 0..i
    BY PointsSorted DEF IInv
  <2>2. i > start /\ opt.last_x = Point(i - 1)[1]
    BY DEF IInv, OptInv
  <2>3. i - 1 \in 0..(PointCount - 1) /\ i - 1 < i
    BY <2>1, <2>2
  <2>4. /\ Point(i - 1)[1] \in Int /\ Point(i)[1] \in Int
        /\ Point(i - 1)[1] <= Point(i)[1]
    BY <2>1, <2>3, PointsSorted DEF IInv
  <2>5. Point(i)[1] # opt.last_x
    BY <2>1, <2>2 DEF Repeated
  <2> QED
    BY <2>2, <2>4, <2>5
<1> QED
  BY <1>1, PGMIndexInvariant, PTL
=============================================================================
