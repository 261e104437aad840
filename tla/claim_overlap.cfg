\* Late cycles overlap the next ones, or one fault happens.
SPECIFICATION Spec
CONSTANTS
  i1 = i1
  i2 = i2
  a1 = a1
  a2 = a2
  s1 = s1
  s2 = s2
  Instance = {i1, i2}
  App = {a1, a2}
  Slot = {s1, s2}
  None = None
  LeaseTtl = 2
  StartsAtOnce = TRUE
  Disturbance = {"stop", "crash", "error", "disconnect", "apps", "late"}
  MaxDisturbances = 1
SYMMETRY Symmetry
INVARIANTS
  
  ProcessesOnlyClaims
PROPERTY LeaseSpec
