SPECIFICATION MCSpec
CONSTANTS
  t1 = t1
  t2 = t2
  val = val
  Home = t1
  Total = 2
  Modulus = 4
  MaxDones = 3
  MaxAsyncDones = 5
  MaxTotal = 2
  MaxAdds = 3
  CountModulus = 16
  BlockSize = 2
  MaxOut = 6
  MaxPushes = 2
  Threads <- TwoThreads
  Values <- OneValue
  Rules <- RulesAll
  MaxFutures = 4
  MaxCalls = 2
INVARIANTS
  Continuations
  Groups
  HandedOutOnce
PROPERTIES
  NoRace
  Propagates
  GroupsEnd
CHECK_DEADLOCK FALSE
