\* Two instances hand an application's messages over to each other.
SPECIFICATION Spec
CONSTANTS
  i1 = i1
  i2 = i2
  Instance = {i1, i2}
  Slot = {1}
  None = None
  MaxMessage = 2
  MinIdle = 2
  MaxDeliveryCount = 1
  MaxRetries = 0
  Batch = 2
  MaxRecovery = 2
  CacheTtl = 1
  MaxLen = 1
  MaxChanges = 0
  Disturbance = {"stop", "crash", "error", "disconnect", "sweep"}
  MaxDisturbances = 2
SYMMETRY Symmetry
INVARIANTS
  TypeOK
  
  DeliveredIsLogged
PROPERTIES
  DeliverySpec
