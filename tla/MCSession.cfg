SPECIFICATION SessionSpec
CONSTANTS
  s1 = s1
  a1 = a1
  Seats = {s1}
  Pointers = {}
  NoPointer = NoPointer
  AppSurfaces = {a1}
  DecorationMgr = TRUE
  Subcompositor = TRUE
  CursorShapeMgr = FALSE
  EnvForceCsd = FALSE
  Modes = {"ClientSide", "ServerSide"}
  WindowSizes <- TinyOrNot
  StateSets <- ActiveOnly
  WmCapSets <- NoSets
  BoundSizes <- NoSets
  Positions <- NoSets
  Serials = {1, 2}
  AppSizes <- SomeSizes
  CapSets <- NoSets
  AppCalls = {"map"}
  ShmMayFail = FALSE
  MaxFrames = 2
  MaxEvents = 3
  MaxConfigures = 2
INVARIANTS NoProtocolError ObjectsExact SettledGeometry SettledDecoration ConfigurationsFaithful
PROPERTIES Handshake
CHECK_DEADLOCK FALSE
