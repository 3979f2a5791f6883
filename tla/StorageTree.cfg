SPECIFICATION Spec
CONSTANTS
  sd = sd
  user = user
  Storages = {sd}
  InitFs <- SdOnly
  Names <- OneName
  Depths = {0, 1}
  StrayHandles = {}
  RootHandle = 100
  MaxHandle = 4
  MaxPath = 6
  MaxChanges = 3
  Null = Null
  Dangling = Dangling
INVARIANTS
  TypeOK
  KnownPathsResolve
  RegisteredPathAgrees
  PathsFollowParents
  ParentsLeadToRoot
  LastSentLives
PROPERTIES
  RegistrySpec
CHECK_DEADLOCK FALSE
