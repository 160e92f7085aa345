SPECIFICATION CanvasSpec
CONSTANTS
  me = me
  peer = peer
  Painter = {me, peer}
  Me = me
  Data <- ItemData
  NoData <- ItemFresh
  Gesture = {"add", "remove", "undo", "move", "update"}
  PeerKind = {"move"}
  Stale = FALSE
  LateAnnounce = FALSE
  MaxId = 1
  MaxTask = 3
  Place = {0, 1}
  Scale = {1, 2}
  Origin = 0
  Unit = 1
  MaxGraphics = 2
  MaxGhosts = 1
INVARIANTS
  CanvasTypeOK
  
  NoOrphanGraphics
CHECK_DEADLOCK FALSE
