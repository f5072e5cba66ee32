CONSTANTS
  N = 3
  Streams = {1}
  Workers = {w1, w2}
  Window = 2
  Budget = 2
  ChunkCap = 1
  ChunkSize = 1
  Sizes = {2}
  MayFail = TRUE
  MayCancel = TRUE
SPECIFICATION FairSpec
CHECK_DEADLOCK FALSE
INVARIANT TypeOK BudgetKept WindowHolds NoFdLeak DeliveredInOrder
PROPERTY RefinesPayloadStream EndsComplete
