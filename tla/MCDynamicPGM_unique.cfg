SPECIFICATION Spec
CONSTANTS
  Keys = {1, 2, 3, 4, 5, 6, 7, 8, 9}
  Values = {1}
  MinLevel = 0
  MinIndexed = 2
  InitLevels = 4
  MaxLevel = 3
  Slots <- MCSlots
  BulkSizes = {3, 5}
  Updates = FALSE
  Erasures = FALSE
CHECK_DEADLOCK FALSE
INVARIANTS
  TargetsEmpty
  TypeOK
  FindCorrect
  RangeCorrect
  LevelsFit
