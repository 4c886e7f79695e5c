SPECIFICATION Spec
CONSTANTS
  Pid = {p1}
  MaxCancels = 2
INVARIANTS
  CancelWins
CHECK_DEADLOCK FALSE
