SPECIFICATION Spec
CONSTANTS
  None = None
  Unreadable = Unreadable
  Channels <- OneChannel
  Levels = {0, 1, 2}
  Profiles = {"amled"}
  WriteProfiles = {"amled"}
  PowerProfiles = {"amled"}
  Commands <- PowerCommands
  OwnMixes <- PowerOwn
  OtherStates <- PowerOthers
  LateFrames = FALSE
  InitialLamps <- PowerLamps
  InitialRecords <- AnyStore
  MaxRequests = 3
  MaxMoves = 1
  MaxSetups = 2
INVARIANTS
  IntentBeforeOff
  RestoresLatestOff
  TrustedMemoryIsDurable
  SightOfOnEndsOff
  UnloadSettles
PROPERTIES
  SilentWhileUnloading
  UnreadableKept
CHECK_DEADLOCK FALSE
