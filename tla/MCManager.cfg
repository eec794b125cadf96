SPECIFICATION FairSpec
CONSTANTS
  a = a
  b = b
  None = None
  Operations <- TwoOperations
  Mixes <- SinglesAndPairs
  Timed <- Commands
  Restarts = 1
  MaxPending = 2
INVARIANTS
  ActiveIsOutstanding
  CommandsAreGone
PROPERTIES
  NotBegunAgain
  SavedGoesForward
  EverythingEnds
  ImplementsLifecycle
CHECK_DEADLOCK FALSE
