SPECIFICATION Spec
CONSTANTS
  Sizes <- SomeSizes
  Looks <- HoverOrNot
  States <- AllOrClose
  Serials = {1, 2}
  MaxFailures = 2
INVARIANTS TypeOK BuffersOwned WindowTiled
PROPERTIES RendersAsLibdecor
CHECK_DEADLOCK FALSE
