\* Two instances share two applications; every cycle ends in time.
SPECIFICATION Spec
CONSTANTS
  i1 = i1
  i2 = i2
  a1 = a1
  a2 = a2
  s1 = s1
  Instance = {i1, i2}
  App = {a1, a2}
  Slot = {s1}
  None = None
  LeaseTtl = 2
  StartsAtOnce = TRUE
  Disturbance = {"stop", "crash", "lose", "apps"}
  MaxDisturbances = 2
SYMMETRY Symmetry
INVARIANTS
  TypeOK
  ClaimsAreBacked
  OverlapOnlyWhileEnding
