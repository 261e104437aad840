\* One instance and one application; the chain's row changes once.
SPECIFICATION Spec
CONSTANTS
  i1 = i1
  a1 = a1
  Instance = {i1}
  App = {a1}
  Slot = {1, 2}
  None = None
  MaxBlock = 4
  Silent = {}
  Batch = 1
  MaxChanges = 1
  Disturbance = {}
  MaxDisturbances = 0
\* The run is over when all blocks are mined and processed.
CHECK_DEADLOCK FALSE
INVARIANT NothingLeapt
