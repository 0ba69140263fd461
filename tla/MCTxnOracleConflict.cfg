SPECIFICATION Spec
CONSTANTS
  Txn = {t1, t2}
  Key = {k1}
  None = None
  MaxVersion = 1
  MaxTs = 3
  ChanCap = 2
  WriteCap = 1
  BatchCap = 1
INVARIANT NoStaleCommit
CHECK_DEADLOCK FALSE
