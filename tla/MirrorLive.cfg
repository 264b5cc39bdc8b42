SPECIFICATION FairSpec
CONSTANTS
  t = t
  a = a
  b = b
  r1 = r1
  r2 = r2
  p1 = p1
  p2 = p2
  None = None
  Node <- TwoNodes
  Target = t
  Receiver = {}
  Pod = {p1}
  Grace = 1
  Handover = 1
  Leases = TRUE
  LeaseWindow = 1
  Departing = {t}
  Prompt = FALSE
  MaxMoves = 1
  MaxClaims = 1
  MaxTouches = 1
PROPERTIES
  EndsAreNoticed
