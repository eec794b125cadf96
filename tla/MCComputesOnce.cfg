SPECIFICATION Spec
CONSTANTS
  a = a
  b = b
  None = None
  Operations <- OneOperation
  Mixes <- Singles
  Timed <- Commands
  Restarts = 1
  MaxPending = 2
INVARIANTS
  ComputesOnce
CHECK_DEADLOCK FALSE
