SPECIFICATION Spec
CONSTANTS
  None = None
  Unreadable = Unreadable
  Channels <- TwoChannels
  Levels = {0, 1}
  Profiles = {"amled"}
  WriteProfiles = {"amled"}
  PowerProfiles = {"amled"}
  Commands <- ThreeOverlapping
  OwnMixes <- AloneOwn
  OtherStates = {}
  LateFrames = FALSE
  InitialLamps <- AloneLamps
  InitialRecords <- NewStore
  MaxRequests = 3
  MaxMoves = 1
  MaxSetups = 1
INVARIANTS
  PictureIsTrue
  OvertakenNeverAdmitted
PROPERTIES
  NoVectorWhileOff
CHECK_DEADLOCK FALSE
