SPECIFICATION CanvasSpec
CONSTANTS
  me = me
  peer = peer
  Painter = {me}
  Me = me
  Data <- ItemData
  NoData <- ItemFresh
  Gesture = {"add", "remove", "undo"}
  PeerKind = {}
  Stale = FALSE
  LateAnnounce = FALSE
  MaxId = 2
  MaxTask = 6
  Place = {0}
  Scale = {1}
  Origin = 0
  Unit = 1
  MaxGraphics = 2
  MaxGhosts = 1
INVARIANTS
  PlaybackShowsPrefix
  OwnHistoryIsConsistent
  NoOrphanGraphics
  ShowsCommands
  CommandsNameKnownItems
PROPERTIES
  ImplementsUndoableDocument
CHECK_DEADLOCK FALSE
