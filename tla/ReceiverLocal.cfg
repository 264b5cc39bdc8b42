SPECIFICATION LocalSpec
CONSTANTS
  r1 = r1
  r2 = r2
  s1 = s1
  s2 = s2
  t = t
  Receiver = {r1}
  Remote = {}
  Source = {s1}
  Target = t
  Leases = FALSE
  OnDemand = FALSE
  Concurrent = FALSE
  Retries = 2
  MaxMoves = 0
  MaxTouches = 0
  Shared = Shared
  Nil = Nil
CHECK_DEADLOCK FALSE
PROPERTIES
  LocalReceiverBinds
