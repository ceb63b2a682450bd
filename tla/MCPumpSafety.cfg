SPECIFICATION Spec
CONSTANTS
  f1 = f1
  f2 = f2
  Frames = {f1, f2}
  Kinds = {"Configure", "Close"}
  Reentry = {"drop", "unref"}
  KeepsDisplay = FALSE
  CanBreak = FALSE
  CanFail = TRUE
  MaxSent = 2
  MaxDepth = 2
  MaxCallbacks = 4
INVARIANTS TypeOK NoFault TornDown AlwaysArmed CallbacksAccounted
PROPERTIES Mailbox
CHECK_DEADLOCK FALSE
