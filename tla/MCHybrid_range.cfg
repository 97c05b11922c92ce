SPECIFICATION Spec
CONSTANTS
  Keys = {1, 2, 3}
  BulkKeys = {3}
  MinFlush = 2
  MaxFlush = 2
  Async = TRUE
INVARIANTS
  RangeQueryComplete
