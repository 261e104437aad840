\* One instance, which may stop and start; its subscription is paused, resumed or deleted.
SPECIFICATION FairSpec
CONSTANTS
  i1 = i1
  Instance = {i1}
  Slot = {1, 2}
  None = None
  MaxMessage = 1
  MinIdle = 2
  MaxDeliveryCount = 2
  MaxRetries = 1
  Batch = 1
  MaxRecovery = 1
  CacheTtl = 1
  MaxLen = 1
  MaxChanges = 1
  Disturbance = {"stop", "crash", "error", "malformed", "old", "deaf"}
  MaxDisturbances = 1
INVARIANTS
  DeadLettersWereTried
  StaleUseIsBounded
PROPERTIES
  MessagesSettle
