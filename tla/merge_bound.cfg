SPECIFICATION MCSpec
CONSTANTS
  N = 5
  MaxGroup = 3
INVARIANTS
  MergeKeepsBound
CHECK_DEADLOCK FALSE
