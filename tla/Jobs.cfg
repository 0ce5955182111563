SPECIFICATION FairSpec
CONSTANTS
  Connections = {c1, c2, c3}
  Slots = 2
  MaxJobs = 2
  MaxStartFailures = 1
INVARIANTS
  OneAtATime
  DrainedMeansDone
  SlotsAccounted
PROPERTIES
  ServerEnds
CHECK_DEADLOCK FALSE
