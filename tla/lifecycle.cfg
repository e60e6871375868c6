SPECIFICATION FairLifeSpec
CONSTANTS
  None = None
  Refused = Refused
  w1 = w1
  w2 = w2
  Wallet = {w1, w2}
  Permits <- MCPermits
  MaxTxids = 1
  MaxBatches = 1
  Asks = 3
  CommandLines <- MCCommandLines
  ChainNames <- MCChainNames
  Sapling <- MCSapling
  BackoffCap = 4
  Signals = 1
INVARIANTS
  CallsTypeOK
  WorkHoldsPermits
PROPERTIES
  DeadlineStopsCalls
  PoolRecovers
  WiredAsAdvertised
  StopEndsProcess
CHECK_DEADLOCK FALSE
