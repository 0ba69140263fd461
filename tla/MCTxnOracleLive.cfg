SPECIFICATION FairSpec
CONSTANTS
  Txn = {t1, t2}
  Key = {k1}
  None = None
  MaxVersion = 0
  MaxTs = 2
  ChanCap = 1
  WriteCap = 1
  BatchCap = 1
PROPERTIES
  TxnStarts
  CommitReturns
CHECK_DEADLOCK FALSE
