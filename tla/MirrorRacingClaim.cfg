SPECIFICATION Spec
CONSTANTS
  t = t
  a = a
  b = b
  r1 = r1
  r2 = r2
  p1 = p1
  p2 = p2
  None = None
  Node <- TwoNodes
  Target = t
  Receiver = {r1}
  Pod = {p1}
  Grace = 1
  Handover = 1
  Leases = FALSE
  LeaseWindow = 1
  Departing = {}
  Prompt = FALSE
  MaxMoves = 0
  MaxClaims = 2
  MaxTouches = 0
PROPERTIES
  RacingClaimantKeepsMirror
