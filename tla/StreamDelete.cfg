SPECIFICATION FairSpec
CONSTANTS
  InitCap = 2
  GrowSize = 2
  Rules <- RulesDelete
  MaxOpens = 1
  MaxOut = 2
  MaxIn = 2
INVARIANT NoGoneUse
CHECK_DEADLOCK FALSE
