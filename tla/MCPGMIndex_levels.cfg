SPECIFICATION Spec
CONSTANTS
  MaxKey = 110
  SmallKeys = {0, 1, 2, 5, 8, 109, 110}
  MaxCopies = 3
  Inputs <- AllInputs
  Error = 1
  RecursiveError = 1
INVARIANTS PointsIncrease SegmentsPrecise RightSegment RangeStartCorrect LookupCorrect
CHECK_DEADLOCK FALSE
