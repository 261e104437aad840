\* One instance, two applications, and what can happen to their claims and pollers.
SPECIFICATION FairSpec
CONSTANTS
  i1 = i1
  a1 = a1
  a2 = a2
  Instance = {i1}
  App = {a1, a2}
  Slot = {1, 2}
  None = None
  MaxBlock = 3
  Silent = {2}
  Batch = 1
  MaxChanges = 1
  Disturbance = {"rpc", "redis", "drop", "lose", "crash", "full"}
  MaxDisturbances = 1
\* The run is over when all blocks are mined and processed.
CHECK_DEADLOCK FALSE
INVARIANTS
  TypeOK
  
  OnlyThePollerInTheMapRuns
PROPERTIES
  StoppedPollersEnd
  PollersReachTheHead
