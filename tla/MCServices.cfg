SPECIFICATION MCSpec
CONSTANTS
  Boot = boot
  Request = {r1, r2}
  Changing = {}
  EpochLen = 2
  LastEpoch = 2
  VoteSlots = 2
  Caller = {c1, c2}
  Key = {k1}
  Ghost = {}
  Program = {}
  MaxTries = 1
  Source = {s1}
  MaxFilters = 3
  ta = ta
  ts = ts
  Subject = {b1, b2}
  Capacity = 1
  Nobody = nobody
  Ttl = 1
  Worker = {w1, w2}
  MaxSlot = 3
  Filled = {1, 3}
  TooOld = 1
  Sender = {s1, s2}
  Size = 1
  MaxPermits = 2
  Threshold = 0
  MaxId = 2
INVARIANTS
  EverySlotIsPursued
PROPERTIES
  RequestsAreAnswered
  CallsReturn
  StreamsGoOn
  AccountTasksEnd
  AvailableIsAnnounced
  ConnectionsAreShared
  SendsEnd
\* Epochs, filters, slots and clients are bounded; connections end when told.
CHECK_DEADLOCK FALSE
