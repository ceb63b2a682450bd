SPECIFICATION LoopingSpec
CONSTANTS
  f1 = f1
  f2 = f2
  Frames = {f1}
  Kinds = {"Configure"}
  Reentry = {}
  KeepsDisplay = FALSE
  CanBreak = FALSE
  CanFail = TRUE
  MaxSent = 1
  MaxDepth = 1
  MaxCallbacks = 3
PROPERTIES EventuallyDelivered
CHECK_DEADLOCK FALSE
