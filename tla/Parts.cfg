INIT Init
NEXT Next
CONSTANTS
  Bytes = {"c", "e", "h", "t", "a"}
  Core = "c"
  End = "e"
  CoreLength = 3
  Header <- MCHeader
  Trailer <- MCTrailer
  Payload <- MCPayload
  Acks = {"a"}
  MaxBuffer = 5
  MaxStreamBytes = 6
  MaxPiece = 2
  Stream <- MCStream
  FrameLength = 2
  System = "sys"
  Channels = "chan"
  Write = "write"
  SequenceSpace = 32
  Isns <- MCIsns
  MaxStream = 6
  MaxPackets = 4
  QueueLength = 1
  MaxSeen = 5
  Cuts = {0, 4, 6}
  MaxAnswers = 1
  Public = {"github", "raw"}
  Raw = "raw"
  Asset = {"asset", "asset2"}
  OtherHosts = {"other"}
  DnsSlots = 2
  MaxBytes = 2
  Framing = 1
  MaxDownloads = 2
  Names <- MCNames
  Fold <- MCFold
  Package <- MCPackage
  Unsafe = {".."}
  Manifest = "m"
  Initial = "i"
  FileSizes = {1, 2}
  MaxTotal = 5
  MaxFiles = 4
  Source = "s"
  Entries <- MCEntries
  MaxEntries = 3
  Agents = {"channel", "manual", "manual_via_ha", "number", "power_automatic",
            "power_manual", "resume", "compact", "composite"}
  Plans <- MCPlans
  MaxRivals = 2
  MaxMishaps = 3
INVARIANTS
  FramesExact
  QueryOnlyIsTrueOfOwn
  DownloadContained
  AcceptedExtracts
  CatalogIsOrdered
  LateTasksExcluded
PROPERTIES
  DoubtForbidsActing
CHECK_DEADLOCK FALSE
