SPECIFICATION SafetySpec
CONSTANTS
  t = t
  a = a
  b = b
  r1 = r1
  r2 = r2
  p1 = p1
  p2 = p2
  None = None
  Node <- ThreeNodes
  Target = t
  Receiver = {r1}
  Pod = {p1, p2}
  Grace = 1
  Handover = 1
  Leases = FALSE
  LeaseWindow = 1
  Departing = {b}
  Prompt = FALSE
  MaxMoves = 1
  MaxClaims = 2
  MaxTouches = 0
INVARIANTS
  TypeOK
  NoSelfMirror

  
  
