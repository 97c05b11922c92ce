SPECIFICATION Spec
CONSTANTS
  Keys = {1, 2}
  Values = {1}
  MinLevel = 0
  MinIndexed = 2
  InitLevels = 4
  MaxLevel = 3
  Slots <- MCSlots
  BulkSizes = {}
  Updates = TRUE
  Erasures = TRUE
CHECK_DEADLOCK FALSE
INVARIANTS
  FindCorrectUnlessClobbered
