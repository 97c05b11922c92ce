SPECIFICATION Spec
CONSTANTS
  DataSets <- FiveItems
  Settings <- AllSettings
  RangeMin = 1
  RangeMax = 2
  MaxRetries = 1
  Repeats = 2
INVARIANTS PartitionExact NoFalseAlarm EveryOperationOnce SegmentsFit
CHECK_DEADLOCK FALSE
