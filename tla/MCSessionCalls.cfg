SPECIFICATION SessionSpec
CONSTANTS
  s1 = s1
  a1 = a1
  Seats = {s1}
  Pointers = {}
  NoPointer = NoPointer
  AppSurfaces = {}
  DecorationMgr = FALSE
  Subcompositor = TRUE
  CursorShapeMgr = FALSE
  EnvForceCsd = FALSE
  Modes = {}
  WindowSizes <- OneConfiguredSize
  StateSets <- ActiveOnly
  WmCapSets <- NoManager
  BoundSizes <- SomeSizes
  Positions <- NoSets
  Serials = {1, 2, 3}
  AppSizes <- TwoSizes
  CapSets <- NoMinimize
  AppCalls = {"map", "force", "capabilities", "resize", "close", "toplevel", "visibility"}
  ShmMayFail = TRUE
  MaxFrames = 1
  MaxEvents = 2
  MaxConfigures = 1
INVARIANTS DrawingCurrent

CHECK_DEADLOCK FALSE
