SPECIFICATION FairServeSpec
CONSTANTS
  None = None
  Corrupt = Corrupt
  Block <- MCBlock
  HeightOf <- MCHeightOf
  PrevHash <- MCPrevHash
  EpochSize = 2
  Floor = 1
  MaxRollbacks = 2
  p1 = p1
  Peer = {p1}
  MaxDownloads = 1
  CHUNKS_IN_FLIGHT = 1
  Requests = 1
INVARIANTS
  DigestsCurrentUnlessRaced
  BodyIsOneRun
PROPERTIES
  EveryEpochPublished
  PermitComesBack
