SPECIFICATION Spec
CONSTANTS
  t1 = t1
  t2 = t2
  u = u
  Threads <- TwoThreads
  Values <- OneValue
  Rules <- RulesAll
  MaxFutures = 4
  MaxCalls = 2
PROPERTIES
  ForwardsResult
CHECK_DEADLOCK FALSE
