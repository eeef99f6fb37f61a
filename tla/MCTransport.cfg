SPECIFICATION MCSpec
CONSTANTS
  low1 = low1
  low2 = low2
  low3 = low3
  mid1 = mid1
  mid2 = mid2
  mid3 = mid3
  high1 = high1
  Tx = {low1, low2, low3, mid1, mid2, mid3, high1}
  FeeOf <- MCFeeOf
  LastValidOf <- MCLastValidOf
  MaxTransactions = 4
  Identity = {v1}
  MaxBorn = 2
  PoolSize = 1
  QueueSize = 1
  MaxSent = 2
  MaxHeight = 0
  MaxTip = 2
  Address = {a1, a2}
  Shards = 2
  Room = 1
  AgentRoom = 1
  MaxAgents = 3
  Backlog = 2
  MaxRequests = 2
  MaxHandlers = 1
  MaxAttempts = 1
  Tpu = {t1, t2}
  Batch = 2
  Chunk = 1
  MaxTx = 3
  MaxNodes = 2
  MaxSlot = 5
  MaxErrors = 1
  MaxAhead = 2
  Behind = 1
  Fanout = 1
  CacheCount = 5
  OldCount = 2
  MaxNotices = 2
  EpochSlots = 3
  FeedSlots = 3
  FeedRoom = 2
  MaxRuns = 2
INVARIANTS
  LeadersAreServed
  ProxiesDeliver
  LeadersAreKnown
PROPERTIES
  HeapIsRanked
\* Slots, blocks and requests are bounded.
CHECK_DEADLOCK FALSE
