SPECIFICATION Spec
CONSTANTS
  Chunk = 3
  SizeMod = 33
  Requests <- AllRequests
INVARIANTS
  TypeOK
  HostGetsFile
  SuccessIsExact
PROPERTIES
  Returns
CHECK_DEADLOCK FALSE
