SPECIFICATION Spec
CONSTANTS
  me = me
  peer = peer
  nodata = nodata
  Painter = {me, peer}
  Me = me
  Data = {nodata}
  NoData = nodata
  Gesture = {"add", "remove", "update", "move", "undo"}
  PeerKind = {"add"}
  Stale = TRUE
  LateAnnounce = FALSE
  MaxId = 1
  MaxTask = 4
INVARIANTS
  TypeOK
  PlayPositionInHistory
  FrozenWhilePlaying
  RunOncePerDisplay
  SentAtMostOnce
  DisplayedIsSent
  
CHECK_DEADLOCK FALSE
