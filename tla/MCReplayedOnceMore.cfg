SPECIFICATION MCSpec
CONSTANTS
  r1 = r1
  r2 = r2
  t1 = t1
  Request = {r1, r2}
  Tx = {t1}
  TxOf <- MCTxOf
  LastValid <- MCLastValid
  MaxReplay = 2
  Offset = 1
  QueueSize = 1
  MaxHeight = 2
  v1 = v1
  cheap = cheap
  dear = dear
  Parts = {"transactions"}
INVARIANTS
  ReplayedAsTold
