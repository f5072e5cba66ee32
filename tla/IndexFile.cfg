CONSTANTS
  Ends <- ThreeChunks
  Ahead = 1
  CacheChunks = 0
  Readers = {r1, r2}
  Offsets <- SomeOffsets
  Lengths <- SomeLengths
  Gens = 2
  MaxReads = 2
  MayFail = TRUE
SPECIFICATION FairSpec
CHECK_DEADLOCK FALSE
INVARIANT TypeOK SharedDownload ReadExact RetryIsFresh
PROPERTY ReadsReturn
