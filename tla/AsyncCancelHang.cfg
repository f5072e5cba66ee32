CONSTANTS
  N = 2
  Streams = {1}
  Workers = {w1, w2}
  Window = 8
  Budget = 16
  ChunkCap = 2
  ChunkSize = 1
  Sizes = {1,3}
  MayFail = FALSE
  MayCancel = TRUE
SPECIFICATION FairSpec
CHECK_DEADLOCK FALSE
PROPERTY Ends
