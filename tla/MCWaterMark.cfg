SPECIFICATION FairSpec
CONSTANTS
  Client = {c1, c2}
  Ts <- MCTs
  InitUntil = 0
  ChanCap = 2
INVARIANTS
  TypeOK
  OpenNotPassed
  MarksAhead
  WaitReturnSound
  IInv
PROPERTIES
  ImplementsPromise
  WaiterReturns
CHECK_DEADLOCK FALSE
