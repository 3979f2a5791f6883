SPECIFICATION Spec
CONSTANTS
  Chunk = 3
  SizeMod = 33
  Requests <- AnyPart
PROPERTIES
  PartReturns
CHECK_DEADLOCK FALSE
