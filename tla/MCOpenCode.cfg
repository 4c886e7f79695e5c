SPECIFICATION FairSpec
CONSTANTS
  Conn = {c1, c2}
  Pruner = {p1}
  Keep = 1
  MaxSessions = 2
  MaxCancels = 1
  MaxRebuilds = 1
INVARIANTS
  Audited
  PruneSpares
  AnswerKept
PROPERTIES
  StartsConfigured
  RunEnds
CHECK_DEADLOCK FALSE
