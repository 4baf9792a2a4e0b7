SPECIFICATION Spec
CONSTANTS
  None = None
  Weekdays = {1, 4}
  FirstDay = 14
  LastDay = 30
  MaxLate = 6
  WindowDays = 7
CHECK_DEADLOCK FALSE
INVARIANTS
  TypeOK
  
  TargetedFindsAll
