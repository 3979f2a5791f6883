SPECIFICATION Spec
CONSTANTS
  MaxTransfers = 0
PROPERTIES
  PressToExit
CHECK_DEADLOCK FALSE
