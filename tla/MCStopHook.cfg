SPECIFICATION HFairSpec
CONSTANTS
  Job = {j1}
  Caller = {c1, c2}
  NoJob = NoJob
  TTL = 2
  Interval = 2
  DrainTimeout = 0
INVARIANTS
  NothingLeftBehind
PROPERTIES
  StopsBlocking
