SPECIFICATION Spec
CONSTANTS
  t1 = t1
  Thread = {t1}
  MaxCall = 3
  MaxTimer = 2
  MaxDialog = 2
INVARIANTS
  TypeOK
  FirstRunsInOrder
  TwiceOnlyIfDisturbed
  LostOnlyBehindDialog
PROPERTIES
  EveryCallRuns
  EveryTimerExpires
CHECK_DEADLOCK FALSE
