------------------------------ MODULE PGMIndex ------------------------------
(***************************************************************************)
(* The static PGM index of PGM-index/include/pgm_index.hpp and             *)
(* piecewise_linear_model.hpp: piecewise linear models, built in one pass  *)
(* over sorted keys, that give the position of a key up to Error.  The     *)
(* first keys of the segments are the data of the next level, until a      *)
(* level has one segment.                                                  *)
(*                                                                         *)
(* One step is one iteration of the loop of make_segmentation.  Slopes and *)
(* intercepts are exact fractions, rounded where the code rounds to        *)
(* integers; the rounding of long double and double is left out.           *)
(***************************************************************************)
EXTENDS Integers, Sequences, FiniteSets, FiniteSetsExt, SequencesExt

CONSTANTS MaxKey,          \* numeric_limits<K>::max()
          Inputs,          \* the sorted sequences of keys to index
          Error,           \* error of the first level
          RecursiveError   \* error of the upper levels

\* The greatest key is there at most once, and not first.
ASSUME PGMAssumption ==
  /\ MaxKey \in Nat
  /\ \A d \in Inputs :
       /\ d # <<>> /\ d \in Seq(0..MaxKey) /\ d[1] < MaxKey
       /\ \A j, l \in 1..Len(d) : j < l => d[j] <= d[l] /\ d[j] < MaxKey
  /\ Error \in Nat \ {0} /\ RecursiveError \in Nat \ {0}

VARIABLES data,     \* the keys, sorted; position i of the code is data[i + 1]
          pc,       \* "segment" or "built"
          i,        \* the loop variable of make_segmentation
          start,    \* first point of the current segment
          opt,      \* OptimalPiecewiseLinearModel: hulls and rectangle
          level,    \* the segments of the level being built
          levels    \* the finished levels, each with its last, padding segment

vars == <<data, pc, i, start, opt, level, levels>>

n == Len(data)

\* Definitions of the form Op_Fault are faulty variants of Op.  No action uses
\* them; each shows that a property notices the fault.

-----------------------------------------------------------------------------
(* The points of a level. *)

\* The greatest key is kept for padding: one that is in the data is left out.
IgnoreLast == IF Last(data) = MaxKey THEN 1 ELSE 0

InFun_EveryCopy(j) ==
  IF j > 0 /\ j + 1 < n /\ data[j + 1] = data[j] THEN <<data[j + 1] + 1, j>>
  ELSE <<data[j + 1], j>>
\* in_fun: the last of several equal keys stands for the keys after it, if the next
\* key leaves room.
InFun(j) ==
  LET x == data[j + 1]
  IN  IF /\ j > 0 /\ j + 1 < n /\ x = data[j]
         /\ x # data[j + 2] /\ x + 1 # data[j + 2]
      THEN <<x + 1, j>> ELSE <<x, j>>

\* How many points the level that is being built has, and which.
PointCount == IF levels = <<>> THEN n - IgnoreLast ELSE Len(Last(levels)) - 1
Point(j)   == IF levels = <<>> THEN InFun(j) ELSE <<Last(levels)[j + 1].key, j>>
LevelError == IF levels = <<>> THEN Error ELSE RecursiveError

-----------------------------------------------------------------------------
(* OptimalPiecewiseLinearModel.  A point is <<x, y>>, a slope <<dx, dy>>. *)

Minus(p, o) == <<p[1] - o[1], p[2] - o[2]>>
Less(s, t)  == s[2] * t[1] < s[1] * t[2]
Cross(o, a, b) ==
  LET oa == Minus(a, o)
      ob == Minus(b, o)
  IN  oa[1] * ob[2] - oa[2] * ob[1]

\* Where a hull starts anew: no point.
Empty == [points |-> 0, first_x |-> 0, last_x |-> 0, rectangle |-> <<>>,
          lower |-> <<>>, upper |-> <<>>, lower_start |-> 1, upper_start |-> 1]

Up(p, e)   == <<p[1], p[2] + e>>
Down(p, e) == <<p[1], p[2] - e>>

FirstPoint(p, e) ==
  [Empty EXCEPT !.points = 1, !.first_x = p[1], !.last_x = p[1],
                !.rectangle = <<Up(p, e), Down(p, e)>>,
                !.lower = <<Down(p, e)>>, !.upper = <<Up(p, e)>>]

SecondPoint(o, p, e) ==
  [o EXCEPT !.points = 2, !.last_x = p[1],
            !.rectangle = @ \o <<Down(p, e), Up(p, e)>>,
            !.lower = Append(@, Down(p, e)), !.upper = Append(@, Up(p, e))]

\* The new point is outside of what the lines through the rectangle allow.
Outside(o, p, e) ==
  LET r == o.rectangle
  IN  \/ Less(Minus(Up(p, e), r[3]), Minus(r[3], r[1]))
      \/ Less(Minus(r[4], r[2]), Minus(Down(p, e), r[4]))

\* The index of the extreme slope towards p: the loop goes on from start while the
\* slopes do not turn.
Extreme(hull, from, p, Turns(_, _)) ==
  Max({j \in from..Len(hull) :
         \A m \in (from + 1)..j : ~Turns(Minus(hull[m], p), Minus(hull[m - 1], p))})

\* A hull with p added: points that are no longer corners are removed from its end.
\* The lower hull turns the other way.
HullWith(hull, from, p, sign) ==
  LET end == Max({j \in 0..Len(hull) :
                    \/ j < from + 1
                    \/ sign * Cross(hull[j - 1], hull[j], p) > 0})
  IN  Append(SubSeq(hull, 1, end), p)

\* The upper new point makes the greatest slope smaller.
Lowered(o, p, e) ==
  LET p1 == Up(p, e)
      j  == Extreme(o.lower, o.lower_start, p1, LAMBDA s, t : Less(t, s))
  IN  IF Less(Minus(p1, o.rectangle[2]), Minus(o.rectangle[4], o.rectangle[2]))
      THEN [o EXCEPT !.rectangle = [@ EXCEPT ![2] = o.lower[j], ![4] = p1],
                     !.lower_start = j,
                     !.upper = HullWith(@, o.upper_start, p1, 1)]
      ELSE o

\* The lower new point makes the least slope greater; the slope of the rectangle it is
\* compared with is the one before the point was added.
Raised(before, o, p, e) ==
  LET p2 == Down(p, e)
      r  == before.rectangle
      j  == Extreme(o.upper, o.upper_start, p2, LAMBDA s, t : Less(s, t))
  IN  IF Less(Minus(r[3], r[1]), Minus(p2, o.rectangle[1]))
      THEN [o EXCEPT !.rectangle = [@ EXCEPT ![1] = o.upper[j], ![3] = p2],
                     !.upper_start = j,
                     !.lower = HullWith(@, o.lower_start, p2, -1)]
      ELSE o

InnerPoint_UpperOnly(o, p, e) == [Lowered(o, p, e) EXCEPT !.points = @ + 1, !.last_x = p[1]]
InnerPoint(o, p, e) ==
  [Raised(o, Lowered(o, p, e), p, e) EXCEPT !.points = @ + 1, !.last_x = p[1]]

-----------------------------------------------------------------------------
(* CanonicalSegment and Segment.  A fraction is <<numerator, denominator>>. *)

\* std::round: halves away from zero.
Round(f) ==
  LET a == IF f[2] < 0 THEN -f[1] ELSE f[1]
      b == IF f[2] < 0 THEN -f[2] ELSE f[2]
  IN  IF a >= 0 THEN (2 * a + b) \div (2 * b) ELSE -((-2 * a + b) \div (2 * b))

OnePoint(r) == Len(r) = 2 \/ (r[1] = r[3] /\ r[2] = r[4])

\* The mean of the least and the greatest slope.
MeanSlope(r) ==
  LET s == Minus(r[3], r[1])
      t == Minus(r[4], r[2])
  IN  <<s[2] * t[1] + t[2] * s[1], 2 * s[1] * t[1]>>

\* The line of that slope through the point where the two extreme lines meet, at x.
LineAt(r, x) ==
  LET s == Minus(r[3], r[1])
      t == Minus(r[4], r[2])
      m == MeanSlope(r)
      a == s[1] * t[2] - s[2] * t[1]
      b == Minus(r[2], r[1])[1] * t[2] - Minus(r[2], r[1])[2] * t[1]
  IN  IF a = 0 THEN <<r[1][2] * m[2] - (r[1][1] - x) * m[1], m[2]>>
      ELSE <<(r[1][2] * a + b * s[2]) * m[2] - ((r[1][1] - x) * a + b * s[1]) * m[1], a * m[2]>>

\* The segment of a rectangle.  (An intercept outside its type is an overflow_error in
\* the code: positions here are far below that.)
MakeSegment(o) ==
  IF OnePoint(o.rectangle)
  THEN [key |-> o.first_x, slope |-> <<0, 1>>,
        intercept |-> (o.rectangle[1][2] + o.rectangle[2][2]) \div 2]
  ELSE [key |-> o.first_x, slope |-> MeanSlope(o.rectangle),
        intercept |-> Round(LineAt(o.rectangle, o.first_x))]

\* Segment(size_t n): the end of a level.
Padding(count) == [key |-> MaxKey, slope |-> <<0, 1>>, intercept |-> count]

\* back_check: after a flat last segment comes one for the keys after the last one.  In
\* the upper levels, too, that is the last key of the data.
LevelEnd(segments) ==
  (IF Last(segments).slope[1] = 0
   THEN <<[key |-> data[n - IgnoreLast] + 1, slope |-> <<0, 1>>, intercept |-> PointCount]>>
   ELSE <<>>)
  \o <<Padding(PointCount)>>

-----------------------------------------------------------------------------
(* make_segmentation and the constructor. *)

\* A key that the segment has already.
Repeated == i > 0 /\ i # start /\ Point(i)[1] = opt.last_x

SkipPoint ==
  /\ pc = "segment" /\ i < PointCount /\ Repeated
  /\ i' = i + 1
  /\ UNCHANGED <<data, pc, start, opt, level, levels>>

\* add_point answers true.
AddPoint ==
  /\ pc = "segment" /\ i < PointCount /\ ~Repeated
  /\ \/ opt.points = 0 /\ opt' = FirstPoint(Point(i), LevelError)
     \/ opt.points = 1 /\ opt' = SecondPoint(opt, Point(i), LevelError)
     \/ /\ opt.points > 1 /\ ~Outside(opt, Point(i), LevelError)
        /\ opt' = InnerPoint(opt, Point(i), LevelError)
  /\ i' = i + 1
  /\ UNCHANGED <<data, pc, start, level, levels>>

\* add_point answers false: the segment ends before this point.
EndSegment ==
  /\ pc = "segment" /\ i < PointCount /\ ~Repeated
  /\ opt.points > 1 /\ Outside(opt, Point(i), LevelError)
  /\ level' = Append(level, MakeSegment(opt))
  /\ start' = i
  /\ opt' = [Empty EXCEPT !.last_x = Point(i)[1]]
  /\ UNCHANGED <<data, pc, i, levels>>

\* The last segment, back_check, and on to the next level unless this one has one
\* segment.
EndLevel ==
  /\ pc = "segment" /\ i = PointCount
  /\ LET segments == Append(level, MakeSegment(opt))
         whole == segments \o LevelEnd(segments)
     IN  /\ levels' = Append(levels, whole)
         /\ pc' = IF Len(whole) > 2 THEN "segment" ELSE "built"
  /\ i' = 0 /\ start' = 0 /\ opt' = Empty /\ level' = <<>>
  /\ UNCHANGED data

Init ==
  /\ data \in Inputs
  /\ pc = "segment" /\ i = 0 /\ start = 0 /\ opt = Empty
  /\ level = <<>> /\ levels = <<>>

Next == SkipPoint \/ AddPoint \/ EndSegment \/ EndLevel

Spec == Init /\ [][Next]_vars

-----------------------------------------------------------------------------
(* Queries. *)

\* Segment::operator(): the product is cut to an integer.
Truncated(f) == IF f[1] * f[2] >= 0 THEN f[1] \div f[2] ELSE -((-f[1]) \div f[2])
Approximate(s, k) ==
  LET pos == Truncated(<<s.slope[1] * (k - s.key), s.slope[2]>>) + s.intercept
  IN  IF pos > 0 THEN pos ELSE 0

SubErr_None(x, e) == x
SubErr(x, e) == IF x <= e THEN 0 ELSE x - e
AddErr(x, e, size) == IF x + e >= size THEN size ELSE x + e

\* The position that segment s of a level gives, at most the next segment's first.
Position(segments, s, k) == Min({Approximate(segments[s], k), segments[s + 1].intercept})

SearchReach_Zero == 0
\* How far after the position segment_for_key looks.
SearchReach == RecursiveError + 2

\* segment_for_key: from the one segment of the top level, in each level the last of
\* the segments around the position whose key is not greater, or the one before.
SegmentForKey(k) ==
  LET Down1(l, s) ==     \* the segment of level l below segment s of level l + 1
        LET size == Len(levels[l]) - 1
            pos == Position(levels[l + 1], s, k)
            lo == SubErr(pos, RecursiveError + 1)
            hi == AddErr(pos, SearchReach, size)
            it == Min({m \in lo..hi : m = hi \/ levels[l][m + 1].key > k})
        IN  IF it = 0 THEN 1 ELSE it
      At[l \in 1..Len(levels)] == IF l = Len(levels) THEN 1 ELSE Down1(l, At[l + 1])
  IN  At[1]

LookupReach_Error == Error
\* How far after the position a lookup looks.
LookupReach == Error + 1

FindApproximatePosition(key) ==
  LET k == Max({data[1], key})
      pos == Position(levels[1], SegmentForKey(k), k)
  IN  [pos |-> pos, lo |-> SubErr(pos, Error), hi |-> AddErr(pos, LookupReach, n)]

\* SearchClass::lower_bound in the range; positions start at 0.
SearchFrom(key) ==
  LET a == FindApproximatePosition(key)
  IN  Min({p \in a.lo..a.hi : p = a.hi \/ data[p + 1] >= key})

\* EqualityLookup; n stands for OVERFLOW.
EqualityLookup(key) ==
  LET it == SearchFrom(key)
  IN  IF it = n THEN n ELSE IF data[it + 1] = key THEN it ELSE n

\* Where RangeQuery starts to add up: after the search it goes on, up only, to a key
\* that is not less.
RangeStart(key) == Min({p \in SearchFrom(key)..n : p = n \/ data[p + 1] >= key})

-----------------------------------------------------------------------------
(* Properties. *)

\* The first position whose key is not less than k.
LowerBound(k) == Cardinality({j \in 1..n : data[j] < k})

\* add_point never throws "Points must be increasing by x.": the keys moved by in_fun
\* stay between their neighbours and a repeated key is skipped, at the start of a
\* segment, too.
PointsIncrease ==
  pc = "segment" /\ i < PointCount /\ ~Repeated /\ opt.points > 0 => Point(i)[1] > opt.last_x

\* What the segments give for the points they were built on: never more than the
\* error above the true position, and at most one more than the error below it,
\* because the intercept is rounded and the product cut.
SegmentsPrecise ==
  pc = "built" =>
    \A j \in 0..(n - IgnoreLast - 1) :
      LET x == InFun(j)[1]
          s == Max({m \in 1..(Len(levels[1]) - 1) : levels[1][m].key <= x})
          first == Min({m \in 0..j : InFun(m)[1] = x})
      IN  /\ Approximate(levels[1][s], x) <= first + Error
          /\ Approximate(levels[1][s], x) >= first - Error - 1

\* segment_for_key finds in every level the last segment whose key is not greater: the
\* ranges it searches are wide enough for the errors of the level above.
RightSegment ==
  pc = "built" =>
    \A k \in data[1]..MaxKey :
      SegmentForKey(k) = Max({m \in 1..(Len(levels[1]) - 1) : levels[1][m].key <= k})

\* The greatest key is left out of the segments.  After copies of the key before it, of
\* which the first may be the segment's last point, nothing says where it is.
NotIndexed(k) ==
  k = MaxKey /\ IgnoreLast = 1 /\ n > 2 /\ data[n - 1] = data[n - 2]

\* EqualityLookup answers the first position of a key of the data, and OVERFLOW for
\* every other key: the range it searches is never too short or too far off, and its
\* pos, where the search starts, is inside.  The one exception is NotIndexed.
LookupCorrect ==
  pc = "built" =>
    \A k \in 0..MaxKey :
      LET a == FindApproximatePosition(k)
      IN  /\ ~NotIndexed(k) =>
               EqualityLookup(k) = IF k \in Range(data) THEN LowerBound(k) ELSE n
          /\ a.lo <= a.pos /\ a.pos <= a.hi /\ a.hi <= n

\* A range query starts at the first key that is not less than its lower key, also
\* for a lower key that is not in the data: the range may end too early for it, by
\* the rounding, but never begins too late, and RangeQuery goes up from there.
RangeStartCorrect ==
  pc = "built" => \A k \in 0..MaxKey : RangeStart(k) = LowerBound(k)
=============================================================================
