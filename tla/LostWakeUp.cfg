SPECIFICATION Spec
CONSTANTS
  MaxTransfers = 0
PROPERTIES
  ConnectionIsSeen
CHECK_DEADLOCK FALSE
