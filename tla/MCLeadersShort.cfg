SPECIFICATION LeadersSpec
CONSTANTS
  MaxSlot = 5
  MaxErrors = 1
  MaxAhead = 2
  Behind = 1
  Fanout = 1
  CacheCount = 5
  OldCount = 2
  MaxNotices = 2
  EpochSlots = 3
INVARIANTS
  SlotLeadersAreAll
\* Slots and requests are bounded.
CHECK_DEADLOCK FALSE
