SPECIFICATION Spec
CONSTANTS
  MaxAttempts = 2
INVARIANTS
  CancelFails
CHECK_DEADLOCK FALSE
