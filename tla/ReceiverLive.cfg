SPECIFICATION LiveSpec
CONSTANTS
  r1 = r1
  r2 = r2
  s1 = s1
  s2 = s2
  t = t
  Receiver = {r1, r2}
  Remote = {r2}
  Source = {s1, s2}
  Target = t
  Leases = TRUE
  OnDemand = TRUE
  Concurrent = FALSE
  Retries = 2
  MaxMoves = 2
  MaxTouches = 1
  Shared = Shared
  Nil = Nil
CHECK_DEADLOCK FALSE
INVARIANTS
  NoOrphanRemote
PROPERTIES
  
  EndsAreNoticed
