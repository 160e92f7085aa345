SPECIFICATION Spec
CONSTANTS
  c1 = c1
  c2 = c2
  c3 = c3
  none = none
  User = {1, 2}
  Client = {c1, c2, c3}
  None = none
INVARIANTS
  ConnectedIsInRoom
SYMMETRY Connections
CHECK_DEADLOCK FALSE
