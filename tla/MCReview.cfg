SPECIFICATION ReviewSpec
CONSTANTS
  Task = {"target"}
  Unknown = Unknown
  MaxEdits = 1
  MaxPushes = 1
  MaxCheckouts = 1
  MaxCancels = 1
INVARIANTS
  NoFalseEmpty
  SilenceHolds
