SPECIFICATION MCSpec
CONSTANTS
  Pause = 3
  StartGrace = 8
  RecoverAfter = 7
  MaxGap = 2
PROPERTIES
  ProgressKept
  
  
  OutputsCatchUp
  
  ServingSettles
CHECK_DEADLOCK FALSE
