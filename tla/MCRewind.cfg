SPECIFICATION Spec
CONSTANTS
  p1 = p1
  p2 = p2
  s1 = s1
  t1 = t1
  t2 = t2
  o1 = o1
  i1 = i1
  i2 = i2
  None = None
  Saved = Saved
  Prompts <- TwoPrompts
  Settings <- OneSettings
  Turns <- OneTurn
  Ops <- OneOp
  Histories <- Rewindable
  Inodes <- TwoInodes
  Previews = TRUE
  Watches = TRUE
  MaxRecords = 7
  Runs = 1
  Failures = 1
  Rewinds = 2
  Branches = 0
SYMMETRY Symmetry
INVARIANTS
  WriteStateIsFile
  TranscriptIsOfTheFile
PROPERTIES
  RewindGoesBack
  RewindKeepsOutcomes
CHECK_DEADLOCK FALSE
