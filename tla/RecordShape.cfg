SPECIFICATION MCSpec
CONSTANTS
  None = None
  RawProfiles <- MCRawProfiles
  Paddings <- MCPaddings
  Hints <- MCHints
  Commits = {0, 1}
  Draws <- MCDraws
  SeqModulus = 12
  Tracked = 20
  Bodies <- MCBodies
  Jitters = {0, 50, 100}
  Words = 2
  SaltLen = 2
  BlockLens = {3, 4}
  MaxRounds = 2
  NoDraw = NoDraw
INVARIANTS Fits Restored OnesExact SaltSurvives
PROPERTIES TargetEnds
CHECK_DEADLOCK FALSE
