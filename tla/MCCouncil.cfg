SPECIFICATION FairSpec
CONSTANTS
  s1 = s1
  s2 = s2
  s3 = s3
  Seat <- ThreeSeats
  Position <- InOrder
  Stance = {skeptic, architect, neutral}
  Rounds = 4
  Rotate = TRUE
  Terse = TRUE
INVARIANTS
  TagsTruthful
  RotationDeals
PROPERTIES
  ImplementsContract
  Ends
CHECK_DEADLOCK FALSE
