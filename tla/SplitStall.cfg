CONSTANTS
  N = 2
  Window = 1
  Sizes = {1}
  Layouts <- AllNew
  PadNum = 1
  PadDen = 2
  MayFail = FALSE
  MayGiveUp = TRUE
  MayCancel = FALSE
SPECIFICATION FairSpec
CHECK_DEADLOCK FALSE
PROPERTY UploadReturnsOnFailure
