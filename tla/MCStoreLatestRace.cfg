SPECIFICATION MCSpec
CONSTANTS
  b0 = b0
  b1 = b1
  b2 = b2
  b3 = b3
  fork = fork
  Hash = {b0, b1, b2, b3, fork}
  SlotOf <- MCSlotOf
  HeightOf <- MCHeightOf
  Announced <- MCAnnounced
  Genesis = b0
  Writer = {block_task, blockinfo_task}
  MaxRecent = 1
  Block = {b1, b2, b3, fork}
  BlockSlot <- MCBlockSlot
  Canonical = {b1, b2, b3}
  MaxSize = 2
  Behind = 1
  MaxIdle = 0
  Parts = {"store"}
PROPERTIES
  LatestNeverRegresses
