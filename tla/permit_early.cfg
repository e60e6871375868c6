SPECIFICATION CallsSpec
CONSTANTS
  w1 = w1
  Wallet = {w1}
  Permits <- OnePermit
  MaxTxids = 1
  MaxBatches = 1
  Asks = 2
INVARIANT
  PermitUntilAnswered
CHECK_DEADLOCK FALSE
