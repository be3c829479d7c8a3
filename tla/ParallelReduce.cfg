CONSTANTS
  MaxSize = 4
  MaxParts = 3

SPECIFICATION Spec

INVARIANTS
  ReduceCovers

CHECK_DEADLOCK FALSE
