SPECIFICATION Spec
CONSTANTS
  Shape <- Shapes
  BufSize = 5
  MaxBody = 3
  MaxSent = 2
INVARIANTS
  TypeOK
  OneWriteAtATime
  HeaderIsRead
PROPERTIES
  ImplementsChannel
  EveryPacketArrives
CHECK_DEADLOCK FALSE
