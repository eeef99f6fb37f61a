SPECIFICATION Spec
CONSTANTS
  a = a
  Account = {a}
  Tx <- MCTx
  MaxTxs = 5
  MaxSlot = 1
  MaxBlocks = 1
  Retain = 2
  Stride = 25
INVARIANTS
  RecentFeeCoversAccount
CHECK_DEADLOCK FALSE
