SPECIFICATION FairSpec
CONSTANTS
  e1 = e1
  e2 = e2
  e3 = e3
  c1 = c1
  c2 = c2
  k1 = k1
  k2 = k2
  External <- ThreeInputs
  Calls <- TwoCalls
  Checks <- None
  AfterTools <- Steering
  Offered <- Stops
  Inherited <- Resulted3
  NoRecovery = FALSE
  Verifies = FALSE
  MaxVerifications = 3
  AutoCompacts = FALSE
  Reminds = FALSE
  CompactedNotes = FALSE
  MaxTurns = 0
  MaxCompactions = 0
  Deadline = FALSE
  Reports = FALSE
  LimitsToolWait = TRUE
  NotesChange = TRUE
  Runs = 1
  Faults = 0
  HeartbeatLimit = 0
INVARIANTS
  TypeOK
  OnlyPromptsInterrupt
PROPERTIES
  ArrivalOrder
  HardStopEnds
  SteeringGoesOut
CHECK_DEADLOCK FALSE
