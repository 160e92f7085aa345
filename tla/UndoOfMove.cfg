SPECIFICATION CanvasSpec
CONSTANTS
  me = me
  peer = peer
  Painter = {me}
  Me = me
  Data <- ItemData
  NoData <- ItemFresh
  Gesture = {"add", "move", "undo"}
  PeerKind = {}
  Stale = FALSE
  LateAnnounce = FALSE
  MaxId = 1
  MaxTask = 4
  Place = {0, 1}
  Scale = {1}
  Origin = 0
  Unit = 1
  MaxGraphics = 2
  MaxGhosts = 1
INVARIANTS
  ShowsCommands
CHECK_DEADLOCK FALSE
