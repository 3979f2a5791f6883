SPECIFICATION Spec
CONSTANTS
  Chunk = 3
  SizeMod = 66
  MaxSize = 13
  Excess <- AnyExcess
INVARIANTS
  TypeOK
  WrittenHalfIsIdle
  BlocksInPlace
  SuccessIsComplete
PROPERTIES
  Returns
CHECK_DEADLOCK FALSE
