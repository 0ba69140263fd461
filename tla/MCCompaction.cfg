SPECIFICATION Spec
CONSTANTS
  Memtable <- MCMemtable
  MaxVersion = 3
  MaxId = 6
  NumLevels = 3
  Compactor = {0, 1}
  NumLevelZeroTables = 1
  Stall = 3
  MinL0ToL0 = 1
  BaseLevelSize = 1
  LevelSizeMultiplier = 2
  MemtableSize = 2
  U32 = 4
INVARIANTS LevelsSorted OnePlanPerTable NewestKept DropsSafely
CHECK_DEADLOCK FALSE
