SPECIFICATION Spec
CONSTANTS
  User = {1, 2, 3}
  Member = {1, 2}
  MaxTask = 2
  MaxClear = 1
  MaxBreak = 0
  MaxJoin = 1
INVARIANTS
  TypeOK
  
CHECK_DEADLOCK FALSE
