SPECIFICATION FairImportSpec
CONSTANTS
  None = None
  Corrupt = Corrupt
  Block <- MCBlock
  HeightOf <- MCHeightOf
  PrevHash <- MCPrevHash
  EpochSize = 2
  NodeChains <- MCNodeChains
  PeerRuns <- MCPeerRuns
  StartHeight = 0
  FetchAttempts = 3
  Limit <- MCLimit
INVARIANTS
  ImportedLinked
  BaseIsLowest
PROPERTIES
  ImportedFromOneChain
  ImportEnds
CHECK_DEADLOCK FALSE
