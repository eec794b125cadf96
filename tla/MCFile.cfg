SPECIFICATION Spec
CONSTANTS
  p1 = p1
  p2 = p2
  s1 = s1
  t1 = t1
  t2 = t2
  o1 = o1
  i1 = i1
  i2 = i2
  None = None
  Saved = Saved
  Prompts <- TwoPrompts
  Settings <- NoSettings
  Turns <- TwoTurns
  Ops <- OneOp
  Histories <- Recorded
  Inodes <- TwoInodes
  Previews = FALSE
  Watches = FALSE
  MaxRecords = 9
  Runs = 2
  Failures = 1
  Rewinds = 0
  Branches = 1
SYMMETRY Symmetry
INVARIANTS
  ResumeIsReplay
  ReadsAreOfTheFile
PROPERTIES
  BranchEndsWithTheTurn
  ImplementsLog
CHECK_DEADLOCK FALSE
