SPECIFICATION Spec
CONSTANTS
  MaxOpens = 1
  MaxSends = 1
  MaxDatagrams = 2
INVARIANT
  DeliveredAsSent
CHECK_DEADLOCK FALSE
