SPECIFICATION Spec
CONSTANTS
  Sizes <- WideSizes
  Looks <- HoverOrNot
  States <- AllButtons
  Serials = {1, 2}
  MaxFailures = 0
INVARIANTS Rerendered
CHECK_DEADLOCK FALSE
