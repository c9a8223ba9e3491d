SPECIFICATION Spec
CONSTANTS
  MaxStarts = 1
  MaxNested = 1
  MaxBytes = 1
INVARIANT
  KillsOnlyChild
CHECK_DEADLOCK FALSE
