SPECIFICATION DeliverySpec
CONSTANTS
  None = None
  g0 = g0
  m15 = m15
  m16 = m16
  m17 = m17
  m18 = m18
  a17 = a17
  a18 = a18
  Block <- MCBlock
  Chains <- MCChains
  TxsOf <- MCTxsOf
  Trees <- MCTrees
  Subtrees <- MCSubtrees
  Activation <- MCActivation
  Touching = {"t", "u"}
  Pending = {"p", "u"}
  U16 = 4
  U32 = 32
  MaxHeight = 20
  Calls <- MCCalls
  MaxMoves = 2
  PrevHash <- MCPrevHash
  Script <- MCScript
  PartsOf <- MCPartsOf
  BadRaw <- MCBadRaw
  Requests <- MCRequests
  MaxPoolTypes = 2
  MaxBlockRange = 4
  BatchBytes = 6
INVARIANTS
  SizesOfTheBlock
