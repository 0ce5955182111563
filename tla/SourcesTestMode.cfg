SPECIFICATION Spec
CONSTANTS
  None = None
  Damaged = Damaged
  Ids <- AllIds
  BuiltinId = "hahapent"
  TestId = "hahapent-test"
  Repos <- OneRepo
  BuiltinRepo = "djeZo888/HAHAPent"
  Times = {1}
  MaxSources = 2
  MaxModules = 1
  MaxFetches = 1
  MaxFaults = 0
  MaxTampers = 0
  MaxCrashes = 1
INVARIANTS
  TestModeCanStart
CHECK_DEADLOCK FALSE
