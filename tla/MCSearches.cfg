SPECIFICATION FairSpec
CONSTANTS
  MaxLen = 8
  Values = {1, 3, 5}
  Lookups = {0, 1, 2, 3, 5, 6}
  Block = 3
INVARIANTS ReadsInside Bracketed ResultCorrect
PROPERTIES Terminates
CHECK_DEADLOCK FALSE
