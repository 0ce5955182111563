SPECIFICATION FairSpec
CONSTANTS
  Workers = {"channel", "optical", "off_automatic", "off_manual", "dark"}
  LampKinds = {"clears", "retains", "returns"}
  ReadAttempts = 2
  MaxMoves = 1
  MaxFaults = 2
INVARIANTS
  OnlyDeclaredFrames
  RecoveryIsTrue
  StopRestores
PROPERTIES
  AlarmStopsWrites
  Ends
CHECK_DEADLOCK FALSE
