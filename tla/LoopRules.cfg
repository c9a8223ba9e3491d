SPECIFICATION MCSpec
CONSTANTS
  c1 = c1
  c2 = c2
  o1 = o1
  n1 = n1
  Callers <- TwoCallers
  MaxTasks = 2
  Threads <- TwoCallers
  Objects <- OneObject
  Notifies <- OneNotify
  MaxEmits = 3
  MaxDepth = 2
INVARIANTS
  NoGoneUse
  RunsAtHome
PROPERTIES
  CallsReturn
  Deleted
CHECK_DEADLOCK FALSE
