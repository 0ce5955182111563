SPECIFICATION Spec
CONSTANTS
  None = None
  Damaged = Damaged
  Ids <- AllIds
  BuiltinId = "hahapent"
  TestId = "hahapent-test"
  Repos <- AllRepos
  BuiltinRepo = "djeZo888/HAHAPent"
  Times = {1, 2}
  MaxSources = 2
  MaxModules = 1
  MaxFetches = 2
  MaxFaults = 1
  MaxTampers = 1
  MaxCrashes = 1
INVARIANTS
  SuccessMeansSaved
  OwnershipNotRebound
  InUseIsStored
PROPERTIES
  MetadataNeverGoesBack
CHECK_DEADLOCK FALSE
