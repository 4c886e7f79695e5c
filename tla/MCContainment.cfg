SPECIFICATION FairSpec
CONSTANTS
  Pid = {p1, p2}
  MaxCancels = 3
INVARIANTS
  NoGroupLeft
  GroupDiesWithParent
  NoStrangerKilled
  EscapeesDie
PROPERTIES
  TeardownEnds
CHECK_DEADLOCK FALSE
