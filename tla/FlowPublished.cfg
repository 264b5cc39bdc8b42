SPECIFICATION FairSpec
CONSTANTS
  a = a
  Node = {a}
  Mxlfs = TRUE
  Window = 1
  MaxMoves = 2
  MaxFaults = 1
  MaxEvents = 1
INVARIANTS
  TypeOK
PROPERTIES
  ProducerIsPublished
  DeadCopyIsDemoted
CHECK_DEADLOCK FALSE
