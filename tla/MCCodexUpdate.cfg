SPECIFICATION FairUpdateSpec
CONSTANTS
  Legacy = {homecode, homesrc}
  Default = {homecode, homesrc, worktrees}
  Choices = {{homecode, homesrc}, {homecode, homesrc, worktrees}, {homecode, work}}
  Exports = {{homesrc, work}}
  Bumps = {3}
  MaxVersion = 3
  MaxMishaps = 3
  None = None
INVARIANTS
  RootsKept
  DoneIsWhole
PROPERTIES
  CatchesUp
CHECK_DEADLOCK FALSE
