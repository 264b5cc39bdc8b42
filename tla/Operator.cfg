SPECIFICATION MCSpec
CONSTANTS
  None = None
  Self = a
  Other = b
  Domain = {d1, d2}
  Order <- DomainOrder
  Specs <- DomainSpecs
  Primary = "primary"
  Old = "i0"
  MaxChanges = 1
  MaxFaults = 1
  a = a
  b = b
  m1 = m1
  m2 = m2
  f1 = f1
  f2 = f2
  f3 = f3
  d1 = d1
  d2 = d2
INVARIANTS
  
  LimitsAreKept
PROPERTIES
  DemandSettles
  
  PlacementSettles
  
  
  DomainsSettle
CHECK_DEADLOCK FALSE
