SPECIFICATION MCSpec
CONSTANTS
  acc = acc
  prog = prog
  sys = sys
  Pubkey = {acc}
  Owner = {prog, sys}
  NoOwner = none
  MaxSlot = 2
  Streamed <- MCStreamed
  Loaded <- MCLoaded
  MaxCalls = 2
  Streamer = {s1}
  Fetcher = {f1}
  Loader = {l1}
  Caller = {c1, c2}
  Key = {k1}
  Ghost = {g1}
  Program = {p1}
  MaxTries = 1
  Boot = boot
  Request = {r1}
  Changing = {"votes"}
  EpochLen = 1
  LastEpoch = 4
  MaxVoteSlot = 3
  FileSlots = 9
  MaxEpoch = 4
  Staker = {d1, d2, d3}
  Voter = {v1, v2}
  Node = {1, 2}
  Amount = {0, 2, 3}
  Slots = 3
  Distance = 1
  MaxTxs = 2
  FeeSlots = 3
  MaxBlocks = 3
  Retain = 2
  Stride = 25
  Table = {t1}
  Modulus = 2
  BatchSize = 2
  MaxLookups = 2
  MaxLoads = 3
  BlockSlot = {2, 3}
  SlotsInEpoch = 2
  Sessions = 2
  Transaction = {x1, x2}
  BatchCapacity = 2
  MaxForwards = 2
  Task = {}
  Kind <- MCNobody
  Wanted <- MCNobody
  Subject = {}
  Capacity = 1
  Client = {c1, c2}
  Signature = {s1}
  Nobody = nobody
  Ttl = 1
  old = old
  middle = middle
  young = young
  Block = {old, middle, young}
  SlotOf <- MCSlotOf
  Period = 1
  Depth = 2
  Wrapped = 100
  MaxHeard = 5
INVARIANTS
  AccountsAreCurrent
  SubscribedIsWanted
  LatestIsKept
  ReadInARow
  CalculationsAreRight
  LookupsResolve
  BlocksAreWhole
  NoticesAreTrue
PROPERTIES
  NothingGoesBack
\* Slots, blocks and requests are bounded, and a query and an update of
\* accounts wait for one another when they take their locks in opposite order.
CHECK_DEADLOCK FALSE
