SPECIFICATION MCSpec
CONSTANTS
  InitCap = 2
  GrowSize = 2
  Rules <- RulesAll
  MaxOpens = 1
  MaxOut = 4
  MaxIn = 4
  MaxStarts = 2
  MaxNested = 1
  MaxBytes = 1
INVARIANTS
  SentInOrder
  ReceivedInOrder
  NoStalledWrite
  ErrorOnce
  NoGoneUse
  OneWatch
  ChildReleased
PROPERTIES
  SilentAfterError
  DisconnectReported
  OutputBeforeStopped
  StopAnswered
CHECK_DEADLOCK FALSE
