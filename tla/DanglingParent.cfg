SPECIFICATION Spec
CONSTANTS
  sd = sd
  user = user
  Storages = {sd}
  InitFs <- SdOnly
  Names <- OneName
  Depths = {1, 2}
  StrayHandles = {}
  RootHandle = 100
  MaxHandle = 4
  MaxPath = 6
  MaxChanges = 2
  Null = Null
  Dangling = Dangling
INVARIANTS
  ParentsReadable
CHECK_DEADLOCK FALSE
