SPECIFICATION Spec
CONSTANTS
  s1 = s1
  s2 = s2
  p1 = p1
  p2 = p2
  a1 = a1
  Seats = {s1}
  Pointers = {p1,p2}
  NoPointer = NoPointer
  AppSurfaces = {a1}
  DecorationMgr = TRUE
  Subcompositor = TRUE
  CursorShapeMgr = TRUE
  EnvForceCsd = FALSE
  Modes = {"ClientSide", "ServerSide"}
  WindowSizes <- NoSets
  StateSets <- NoSets
  WmCapSets <- NoSets
  BoundSizes <- NoSets
  Positions <- OneSpot
  Serials = {1}
  AppSizes <- SomeSizes
  CapSets <- NoSets
  AppCalls = {"force"}
  ShmMayFail = FALSE
  MaxFrames = 2
  MaxEvents = 0
INVARIANTS TypeOK RegistryExact FocusTracksCompositor
