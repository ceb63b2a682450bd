SPECIFICATION Spec
CONSTANTS
  f1 = f1
  f2 = f2
  Frames = {f1}
  Kinds = {"Configure", "Close"}
  Reentry = {"drop", "unref"}
  KeepsDisplay = FALSE
  CanBreak = TRUE
  CanFail = TRUE
  MaxSent = 2
  MaxDepth = 2
  MaxCallbacks = 3
PROPERTIES DeliveredIfServed UnrefReturns
CHECK_DEADLOCK FALSE
