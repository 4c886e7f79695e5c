SPECIFICATION FairSpec
CONSTANTS
  Task = {"git", "gh"}
  Mentions = 2
  MaxCancels = 2
INVARIANTS
  CancelKept
  NothingRunsOn
PROPERTIES
  GatherEnds
