SPECIFICATION FairSpec
CONSTANTS
  Domains <- SoloDomains
  Releases <- SoloReleases
  DomainOf <- SoloDomainOf
  OriginOf <- SoloOriginOf
  VersionOf <- SoloVersionOf
  Needs <- SoloNeeds
  None = None
  Absent = Absent
  Partial = Partial
  Foreign = Foreign
  MaxTransactions = 3
  MaxCrashes = 2
  MaxFaults = 2
  TornDeletes = FALSE
  Users = TRUE
  ConfigEntries = "until_recheck"
PROPERTIES
  ForeignCodeKept
  NeverRemovesConfigured
  TransactionsResolve
