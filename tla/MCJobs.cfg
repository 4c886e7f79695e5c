SPECIFICATION FairSpec
CONSTANTS
  Job = {j1, j2}
  Caller = {c1, c2}
  NoJob = NoJob
  TTL = 1
  Interval = 1
  DrainTimeout = 1
INVARIANTS
  EntryLifetime
  RetainedForTTL
  ExpiredIsHonest
PROPERTIES
  ImplementsContract
  AwaitResolves
  WorkEnds
