SPECIFICATION Spec
CONSTANTS
  sd = sd
  user = user
  Storages = {sd}
  InitFs <- SdOnly
  Names <- OneName
  Depths = {1}
  StrayHandles = {}
  RootHandle = 100
  MaxHandle = 4
  MaxPath = 6
  MaxChanges = 2
  Null = Null
  Dangling = Dangling
PROPERTIES
  CopiesWithinStoreSucceed
CHECK_DEADLOCK FALSE
