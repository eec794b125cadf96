SPECIFICATION Spec
CONSTANTS
  e1 = e1
  e2 = e2
  e3 = e3
  c1 = c1
  c2 = c2
  k1 = k1
  k2 = k2
  External <- OneInput
  Calls <- None
  Checks <- None
  AfterTools <- None
  Offered <- Idle
  Inherited <- NotForked
  NoRecovery = FALSE
  Verifies = FALSE
  MaxVerifications = 3
  AutoCompacts = FALSE
  Reminds = FALSE
  CompactedNotes = FALSE
  MaxTurns = 0
  MaxCompactions = 0
  Deadline = FALSE
  Reports = FALSE
  LimitsToolWait = FALSE
  NotesChange = FALSE
  Runs = 1
  Faults = 1
  HeartbeatLimit = 0
INVARIANTS
  EmptyAskedAgain
CHECK_DEADLOCK FALSE
