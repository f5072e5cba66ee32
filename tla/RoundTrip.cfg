CONSTANTS
  b1 = b1
  b2 = b2
  Backups = {b1, b2}
  Ref <- SameRef
  Option <- BothFormats
  Sizes <- FourChunks
  Workers = 2
  Buffers = {1, 2}
  MayFail = TRUE
SPECIFICATION RTSpec
CHECK_DEADLOCK FALSE
INVARIANT TypeOK Whole SuccessIsCommitted Readable StreamExact FetchBounded
PROPERTY CallsReturn
