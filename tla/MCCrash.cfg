SPECIFICATION FairSpec
CONSTANTS
  e1 = e1
  e2 = e2
  e3 = e3
  c1 = c1
  c2 = c2
  k1 = k1
  k2 = k2
  External <- TwoInputs
  Calls <- TwoCalls
  Checks <- TwoChecks
  AfterTools <- None
  Offered <- Idle
  Inherited <- Forked
  NoRecovery = FALSE
  Verifies = TRUE
  MaxVerifications = 1
  AutoCompacts = FALSE
  Reminds = FALSE
  CompactedNotes = FALSE
  MaxTurns = 0
  MaxCompactions = 0
  Deadline = FALSE
  Reports = FALSE
  LimitsToolWait = FALSE
  NotesChange = FALSE
  Runs = 2
  Faults = 0
  HeartbeatLimit = 0
INVARIANTS
  WriteAhead
  RecordedOnce
  IdleLeavesNothing
  ForkStartsClean
  VerificationsBounded
PROPERTIES
  ImplementsLifecycle
  RecordedIsRead
CHECK_DEADLOCK FALSE
