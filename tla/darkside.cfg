SPECIFICATION DarksideSpec
CONSTANTS
  Tx <- MCTx
  Notes <- MCNotes
  RawBlock <- MCRawBlock
  Nonces = {"n1"}
  Starts = {5, 6}
  StartSizes = {1}
  MaxCount = 2
  Heights <- MCHeights
  Limit <- MCLimit
INVARIANTS
  TreeSizesAddUp
  PresentedLinked
PROPERTIES
  MiningMovesHashes
  StagedTxsAreMined
CHECK_DEADLOCK FALSE
