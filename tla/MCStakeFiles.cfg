SPECIFICATION FilesSpec
CONSTANTS
  FileSlots = 9
  MaxEpoch = 4
INVARIANTS
  FilesAreUsed
CHECK_DEADLOCK FALSE
