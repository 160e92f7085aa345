SPECIFICATION Spec
CONSTANTS
  User = {1, 2}
  Member = {1}
  MaxTask = 2
  MaxClear = 0
  MaxBreak = 1
  MaxJoin = 1

  
PROPERTIES
  EditableAgain
CHECK_DEADLOCK FALSE
