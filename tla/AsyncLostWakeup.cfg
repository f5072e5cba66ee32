CONSTANTS
  N = 2
  Streams = {1}
  Workers = {w1, w2}
  Window = 8
  Budget = 2
  ChunkCap = 2
  ChunkSize = 1
  Sizes = {1,3}
  MayFail = TRUE
  MayCancel = FALSE
SPECIFICATION FairSpec
CHECK_DEADLOCK FALSE
PROPERTY Ends
