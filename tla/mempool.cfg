SPECIFICATION FairMempoolSpec
CONSTANTS
  None = None
  Tip <- MCTip
  FirstTip = "A"
  NextTips <- MCNextTips
  Tx <- MCTx
  Garbled <- MCGarbled
  Client = {w1}
  Suffix <- MCSuffix
  EndsWith <- MCEndsWith
  TooLong <- MCTooLong
  MAX_EXCLUDE_TXID_SUFFIXES = 1
  Allowance <- MCAllowance
INVARIANTS
  NothingMinedPublished
  EmitsOnce
PROPERTIES
  TxReachesStreams
  OutageEndsStreams
  NewTipEndsStreams
  PollMissesNothing
