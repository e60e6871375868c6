SPECIFICATION FairSpec
CONSTANTS
  None = None
  Corrupt = Corrupt
  Block <- MCBlock
  HeightOf <- MCHeightOf
  PrevHash <- MCPrevHash
  EpochSize = 2
  Chains <- MCChains
  ConfiguredStart = 1
  PeerBase = 2
  SyncFrom <- Levers
  Window = 3
  MaxRecoveries = 1
  MaxRepairs = 1
  NOTHING = 99
  ReportHeights <- Reports
  Bounds <- IngestorBounds
INVARIANTS
  TypeOK
  CacheLinked
  BaseDescribesCache
  AppendsExtendTip
PROPERTIES
  RepairDropsSuspects
  ImplementsChainStore
  RecoveryDropsCorruption
  RollsBackOnEvidence
  Converges
  ReportResolved
