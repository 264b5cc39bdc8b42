SPECIFICATION MCSpec
CONSTANTS
  a = a
  b = b
  n3 = n3
  t = t
  r1 = r1
  p1 = p1
  p2 = p2
  f1 = f1
  f2 = f2
  Node = {a}
  Window = 2
  MaxMoves = 2
  Grace = 1
  Retries = 2
  None = None
PROPERTIES
  FlowsKept
  FlowsSettle
  SetKept
  SetSettles
  ReaderKeepsMirrorInTime
  SourceFollowsMoves
CHECK_DEADLOCK FALSE
