SPECIFICATION Spec
CONSTANTS
  Keys = {1, 2, 3}
  Sizes = {0, 1, 5, 20, 22}
  Inputs <- AllInputs
  LeafSlots = 4
  InnerSlots = 4
  MaxInserts = 4
INVARIANTS TypeOK Verified ItemsKept QueriesCorrect
CHECK_DEADLOCK FALSE
