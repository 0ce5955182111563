SPECIFICATION Spec
CONSTANTS
  None = None
  Damaged = Damaged
  Ids <- AllIds
  BuiltinId = "hahapent"
  TestId = "hahapent-test"
  Repos <- AllRepos
  BuiltinRepo = "djeZo888/HAHAPent"
  Times = {1}
  MaxSources = 3
  MaxModules = 1
  MaxFetches = 1
  MaxFaults = 0
  MaxTampers = 0
  MaxCrashes = 1
INVARIANTS
  NoSourceTwice
CHECK_DEADLOCK FALSE
