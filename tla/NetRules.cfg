SPECIFICATION MCSpec
CONSTANTS
  MaxAttempts = 2
  MaxClients = 6
  MaxPeers = 3
  MaxOpens = 2
  MaxSends = 1
  MaxDatagrams = 2
  MaxWrites = 2
  MaxReads = 2
  DeviceRules = {"openOnce", "openFirst", "closeFirst"}
INVARIANTS
  AttemptsAnswered
  ClientsHandedOver
  EndsClosed
PROPERTIES
  KeepsEstablished
  Served
  AllAnswered
CHECK_DEADLOCK FALSE
