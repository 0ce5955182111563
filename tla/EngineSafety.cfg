SPECIFICATION Spec
CONSTANTS
  Domains <- PairDomains
  Releases <- PairReleases
  DomainOf <- PairDomainOf
  OriginOf <- PairOriginOf
  VersionOf <- PairVersionOf
  Needs <- PairNeeds
  None = None
  Absent = Absent
  Partial = Partial
  Foreign = Foreign
  MaxTransactions = 4
  MaxCrashes = 2
  MaxFaults = 1
  TornDeletes = TRUE
  Users = FALSE
  ConfigEntries = "never"
INVARIANTS
  FilesMatchRegistry
  BackupsIntact
  RegistryStaysGood
PROPERTIES
  SuccessIsComplete
  ImplementsLifecycle
