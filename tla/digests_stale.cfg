SPECIFICATION FairServeSpec
CONSTANTS
  None = None
  Corrupt = Corrupt
  Block <- MCBlock
  HeightOf <- MCHeightOf
  PrevHash <- MCPrevHash
  EpochSize = 2
  Floor = 1
  MaxRollbacks = 1
  Peer = {}
  MaxDownloads = 1
  CHUNKS_IN_FLIGHT = 1
  Requests = 0
PROPERTIES
  DigestsBecomeCurrent
