SPECIFICATION Spec
CONSTANTS
  r1 = r1
  r2 = r2
  s1 = s1
  s2 = s2
  t = t
  Receiver = {r1, r2}
  Remote = {}
  Source = {s1}
  Target = t
  Leases = FALSE
  OnDemand = FALSE
  Concurrent = FALSE
  Retries = 2
  MaxMoves = 1
  MaxTouches = 1
  Shared = Shared
  Nil = Nil
SYMMETRY ReceiverSymmetry
INVARIANTS
  TypeOK
PROPERTIES
  PromiseKept
  SiblingsKeepReferences
CHECK_DEADLOCK FALSE
