\* The ingestor's handlers, one application, and intervals that are too short.
SPECIFICATION Spec
CONSTANTS
  i1 = i1
  i2 = i2
  a1 = a1
  s1 = s1
  s2 = s2
  Instance = {i1, i2}
  App = {a1}
  Slot = {s1, s2}
  None = None
  LeaseTtl = 2
  StartsAtOnce = FALSE
  Disturbance = {"late"}
  MaxDisturbances = 3
SYMMETRY Symmetry
INVARIANT ProcessesOnlyClaims
