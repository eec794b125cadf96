SPECIFICATION FairSpec
CONSTANTS
  e1 = e1
  e2 = e2
  e3 = e3
  c1 = c1
  c2 = c2
  k1 = k1
  k2 = k2
  External <- TwoInputs
  Calls <- OneCall
  Checks <- None
  AfterTools <- None
  Offered <- Idle
  Inherited <- Resulted2
  NoRecovery = FALSE
  Verifies = FALSE
  MaxVerifications = 3
  AutoCompacts = FALSE
  Reminds = TRUE
  CompactedNotes = TRUE
  MaxTurns = 2
  MaxCompactions = 1
  Deadline = TRUE
  Reports = TRUE
  LimitsToolWait = FALSE
  NotesChange = FALSE
  Runs = 1
  Faults = 1
  HeartbeatLimit = 0
INVARIANTS
  IdleAfterAnswer
  ResponsesAnswerLatestTurn
PROPERTIES
  BudgetEnds
CHECK_DEADLOCK FALSE
