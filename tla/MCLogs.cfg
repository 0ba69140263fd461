SPECIFICATION MCSpec
CONSTANTS
  Page = 3
  Batch <- MCBatch
  VlogFileSize = 4
  VlogMaxEntries = 2
  MaxVlogFileSize = 12
  MaxRecord = 4
  MaxFid = 3
  Request <- MCRequest
  MemtableSize = 4
  MaxEntry = 5
  MaxLog = 3
INVARIANTS PointersHold LogAgrees
PROPERTY LogsGrow
