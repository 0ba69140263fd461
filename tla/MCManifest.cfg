SPECIFICATION Spec
CONSTANTS
  MaxId = 4
  MaxFlush = 3
  MaxLevel = 2
  MinL0ToL0 = 2
  Threshold = 1
  Ratio = 1
INVARIANTS IInv Durable AppliesCleanly CountersAgree FilesKept
\* A database whose manifest is refused stays closed.
CHECK_DEADLOCK FALSE
