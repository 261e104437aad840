\* The admin rebalance.  It finds an excess only from four applications on.
SPECIFICATION FairSpec
CONSTANTS
  i1 = i1
  i2 = i2
  a1 = a1
  a2 = a2
  a3 = a3
  a4 = a4
  s1 = s1
  Instance = {i1, i2}
  App = {a1, a2, a3, a4}
  Slot = {s1}
  None = None
  LeaseTtl = 2
  StartsAtOnce = TRUE
  Disturbance = {"admin"}
  MaxDisturbances = 1
PROPERTIES
  LeaseSpec
  RevocationNoticed
  RevokedIsHeldAgain
