SPECIFICATION Spec
CONSTANTS
  Keys = {1, 2, 3}
  BulkKeys = {3}
  MinFlush = 1
  MaxFlush = 1
  Async = TRUE
INVARIANTS
  LookupCorrect
