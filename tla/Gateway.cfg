SPECIFICATION MCSpec
CONSTANTS
  Entry = {1, 2, 3, 4}
  Side = {1, 2, 3, 4, 5, 6}
  Thread = {1}
  MaxRebuilds = 3
  MaxMoves = 1
  Faults = {"rebuild", "open", "publish", "die", "wedge", "restart"}
  MaxFaults = 1
  None = 0
  w = w
  t1 = t1
INVARIANTS
  
  SourceKept
PROPERTIES
  TargetSettles
  
  
  SourceSettles
CHECK_DEADLOCK FALSE
