CONSTANTS
  N = 2
  Window = 1
  Sizes = {1}
  Layouts <- BothOrders
  PadNum = 1
  PadDen = 2
  MayFail = TRUE
  MayGiveUp = TRUE
  MayCancel = TRUE
SPECIFICATION Spec
CHECK_DEADLOCK FALSE
INVARIANT TypeOK RefsResolve PairComplete NoStall
