SPECIFICATION Spec
CONSTANTS
  sd = sd
  user = user
  Storages = {sd, user}
  InitFs <- TwoFs
  Names <- OneName
  Depths = {1, 2}
  StrayHandles = {3}
  RootHandle = 100
  MaxHandle = 4
  MaxPath = 6
  MaxChanges = 2
  Null = Null
  Dangling = Dangling
INVARIANTS
  KnownPathsResolve
  HandlesUnique
  OneStoragePerHandle
CHECK_DEADLOCK FALSE
