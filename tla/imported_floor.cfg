SPECIFICATION FairSpec
CONSTANTS
  None = None
  Corrupt = Corrupt
  Block <- MCBlock
  HeightOf <- MCHeightOf
  PrevHash <- MCPrevHash
  EpochSize = 2
  Chains <- MCChains
  ConfiguredStart = 1
  PeerBase = 2
  SyncFrom <- NoLevers
  Window = 2
  MaxRecoveries = 1
  MaxRepairs = 1
  NOTHING = 99
  ReportHeights <- NoReports
  Bounds <- FloorBounds
PROPERTIES
  ImportedFloorHolds
