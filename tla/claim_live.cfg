\* What must happen in the end, after any one fault.
SPECIFICATION FairSpec
CONSTANTS
  i1 = i1
  i2 = i2
  a1 = a1
  a2 = a2
  s1 = s1
  Instance = {i1, i2}
  App = {a1, a2}
  Slot = {s1}
  None = None
  LeaseTtl = 2
  StartsAtOnce = TRUE
  Disturbance = {"crash", "error"}
  MaxDisturbances = 1
PROPERTIES
  StaleClaimNoticed
  ApplicationsAreHeld
