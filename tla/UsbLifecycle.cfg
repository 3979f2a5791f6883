SPECIFICATION ServedSpec
CONSTANTS
  MaxTransfers = 2
INVARIANTS
  TypeOK
  DeviceThereWhenUsed
  EndsClean
  BlockedOnItsOwn
PROPERTIES
  FinalizedIsFinal
  PressToExit
CHECK_DEADLOCK FALSE
