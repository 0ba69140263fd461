SPECIFICATION Spec
CONSTANTS
  MaxVersion = 3
  MaxFid = 4
  MaxId = 5
  MemCap = 1
  NumMemtables = 1
  L0Stall = 3
  MinL0ToL0 = 2
  Reader = {r1}
INVARIANTS
  IInv
  NothingLost
  RecordedBeforeVisible
  RecordedInOrder
CHECK_DEADLOCK FALSE
