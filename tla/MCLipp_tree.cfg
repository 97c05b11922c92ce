SPECIFICATION Spec
CONSTANTS
  Keys = {0, 1, 2, 9, 40, 41, 42}
  BulkSizes = {0, 1, 2, 3, 4, 5, 6, 7}
  RebuildMin = 4
  RebuildFactor = 2
  FixedMin = 6
  MaxDepth = 8
INVARIANTS TypeOK AssertsHold SizesAgree FindCorrect IterationCorrectOnceBuilt NodesAccounted
PROPERTIES SegmentsShrink
CHECK_DEADLOCK FALSE
