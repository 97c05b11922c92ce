SPECIFICATION FairSpec
CONSTANTS
  Keys = {1, 2, 3, 4, 5}
  BulkKeys = {3}
  MinFlush = 2
  MaxFlush = 2
  Async = TRUE
INVARIANTS
  TypeOK
  Accounted
  SizesAgree
  UnlockedReadSafe
  DrainedAtJoin
  InsertedNeverMissed
PROPERTIES
  FlushesInOrder
  DestructorReturns
  InsertReturns
  AwakeWorkerFlushes
