SPECIFICATION FairSpec
CONSTANTS
  None = None
  Unreadable = Unreadable
  Channels <- OneChannel
  Levels = {0, 1, 2}
  Profiles = {"amled"}
  WriteProfiles = {"amled"}
  PowerProfiles = {"amled"}
  Commands <- LiveCommands
  OwnMixes <- PowerOwn
  OtherStates <- PowerOthers
  LateFrames = TRUE
  InitialLamps <- PowerLamps
  InitialRecords <- NewStore
  MaxRequests = 2
  MaxMoves = 0
  MaxSetups = 2
INVARIANTS
  RestoresLatestOff
PROPERTIES
  RequestsEnd
CHECK_DEADLOCK FALSE
