SPECIFICATION Spec
CONSTANTS
  t = t
  a = a
  b = b
  r1 = r1
  r2 = r2
  p1 = p1
  p2 = p2
  None = None
  Node <- TwoNodes
  Target = t
  Receiver = {r1}
  Pod = {}
  Grace = 2
  Handover = 1
  Leases = TRUE
  LeaseWindow = 1
  Departing = {}
  Prompt = TRUE
  MaxMoves = 1
  MaxClaims = 2
  MaxTouches = 0
PROPERTIES
  GraceOutlastsReplacement
