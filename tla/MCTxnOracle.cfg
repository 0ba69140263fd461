SPECIFICATION Spec
CONSTANTS
  Txn = {t1, t2, t3}
  Key = {k1}
  None = None
  MaxVersion = 1
  MaxTs = 4
  ChanCap = 2
  WriteCap = 1
  BatchCap = 2
SYMMETRY TxnSymmetry
INVARIANTS
  OInv
  CleanupBehind
  DiscardBelowReaders
PROPERTIES
  RepeatableRead
  FreshSnapshot
  CommitOrder
  UsesMarks
CHECK_DEADLOCK FALSE
