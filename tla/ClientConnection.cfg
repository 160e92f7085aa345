SPECIFICATION Spec
CONSTANTS
  s1 = s1
  s2 = s2
  Session = {s1, s2}
  Endpoint = 2
  MaxRetry = 3
  MaxGesture = 2
INVARIANTS
  TypeOK
  StatusIsTrue
  NoForgottenConnection
PROPERTIES
  RemovesFinishedOnly
  LossIsRepaired
CHECK_DEADLOCK FALSE
