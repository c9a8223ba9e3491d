SPECIFICATION MCSpec
CONSTANTS
  a1 = a1
  a2 = a2
  a3 = a3
  a4 = a4
  a5 = a5
  Keys <- FourKeys
  Containers <- TwoHashes
  Nodes <- FiveNodes
  Null = "null"
  HashRules <- RulesAll
  LeftKeys <- ThreeKeys
  RightValues <- TwoData
  RightKeyOf <- KeyOf
  Trees <- TwoTrees
  MaxNodes = 5
  NoNode = 0
  TreeRules <- BothRules
  InitCap = 2
  MaxWritten = 6
  MaxCall = 3
INVARIANTS
  BytesIntact
  HashListed
  InsertionOrder
  BothWays
  TreesWalk
  ReadsBack
PROPERTIES
  QueueSpec
  OneToOneSpec
SYMMETRY Symmetry
CHECK_DEADLOCK FALSE
