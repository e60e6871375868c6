SPECIFICATION FairStreamSpec
CONSTANTS
  None = None
  Corrupt = Corrupt
  Block <- MCBlock
  HeightOf <- MCHeightOf
  PrevHash <- MCPrevHash
  EpochSize = 2
  Chains <- TwoChains
  ConfiguredStart = 1
  PeerBase = None
  SyncFrom <- NoLevers
  Window = 3
  MaxRecoveries = 1
  MaxRepairs = 1
  NOTHING = 99
  ReportHeights <- NoReports
  Bounds <- StreamBounds
  Client = {w1}
  Requests <- BothWays
  ChunkSize = 2
INVARIANTS
  ServedRunLinked
PROPERTIES
  WalletServed
