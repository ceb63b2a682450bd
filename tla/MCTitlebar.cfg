SPECIFICATION Spec
CONSTANTS
  s1 = s1
  s2 = s2
  p1 = p1
  p2 = p2
  a1 = a1
  Seats = {s1, s2}
  Pointers = {p1, p2}
  NoPointer = NoPointer
  AppSurfaces = {}
  DecorationMgr = FALSE
  Subcompositor = TRUE
  CursorShapeMgr = FALSE
  EnvForceCsd = FALSE
  Modes = {}
  WindowSizes <- NoSets
  StateSets <- NoSets
  WmCapSets <- NoSets
  BoundSizes <- NoSets
  Positions <- TwoSpots
  Serials = {1}
  AppSizes <- TwoSizes
  CapSets <- NoSets
  AppCalls = {"resize"}
  ShmMayFail = FALSE
  MaxFrames = 1
  MaxEvents = 1
SYMMETRY Hands
INVARIANTS DrawingCurrent FeedbackHasPointer
PROPERTIES ClickMatchesPicture
