SPECIFICATION FairSpec
CONSTANTS
  v1 = v1
  cheap = cheap
  dear = dear
  Tx = {cheap, dear}
  FeeOf <- MCFeeOf
  LastValidOf <- MCLastValidOf
  MaxTransactions = 2
  Identity = {v1}
  MaxBorn = 1
  PoolSize = 1
  QueueSize = 2
  MaxSent = 3
  MaxHeight = 1
PROPERTIES
  RemovedEnds
