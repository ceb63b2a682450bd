SPECIFICATION Spec
CONSTANTS
  f1 = f1
  f2 = f2
  Frames = {f1}
  Kinds = {"Configure", "Close"}
  Reentry = {"dispatch", "unref"}
  KeepsDisplay = FALSE
  CanBreak = FALSE
  CanFail = FALSE
  MaxSent = 3
  MaxDepth = 3
  MaxCallbacks = 4
INVARIANTS NoFault
CHECK_DEADLOCK FALSE
