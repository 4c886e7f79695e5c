SPECIFICATION FairSpec
CONSTANTS
  Request = {r1, r2}
  Helper = {h1, h2}
  NoHelper = NoHelper
  MaxInflight = 1
  MaxFailures = 1
PROPERTIES
  ImplementsContract
  MarkedRunStops
  SpoolDrains
