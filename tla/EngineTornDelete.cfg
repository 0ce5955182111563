SPECIFICATION Spec
CONSTANTS
  Domains <- SoloDomains
  Releases <- SoloReleases
  DomainOf <- SoloDomainOf
  OriginOf <- SoloOriginOf
  VersionOf <- SoloVersionOf
  Needs <- SoloNeeds
  None = None
  Absent = Absent
  Partial = Partial
  Foreign = Foreign
  MaxTransactions = 2
  MaxCrashes = 1
  MaxFaults = 0
  TornDeletes = TRUE
  Users = FALSE
  ConfigEntries = "never"
INVARIANTS
  InterruptedRecovers
