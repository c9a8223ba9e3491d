SPECIFICATION MCSpec
CONSTANTS
  Intervals <- TwoIntervals
  MaxQueue = 3
  QtTimers = {"t1"}
  ZeroTimers = {"z1"}
  Notifiers = {"r", "w"}
  MaxDepth = 2
  MaxCalls = 2
  MaxSteps = 4
  DispatchRules <- Followed
INVARIANTS
  Kept
  Registered
PROPERTIES
  OnlyWhenDue
  TimesOut
  NeverAsleep
CHECK_DEADLOCK FALSE
