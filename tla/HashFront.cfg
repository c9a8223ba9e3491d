SPECIFICATION Spec
CONSTANTS
  k1 = k1
  k2 = k2
  k3 = k3
  k4 = k4
  a1 = a1
  a2 = a2
  a3 = a3
  a4 = a4
  a5 = a5
  c1 = c1
  c2 = c2
  Null = Null
  Keys <- FourKeys
  Nodes <- FiveNodes
  Containers <- Two
  Rules <- RulesFront
INVARIANT
  AllVisited
CHECK_DEADLOCK FALSE
