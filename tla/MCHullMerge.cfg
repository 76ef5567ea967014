CONSTANTS
  Child = {c1, c2}
  Noise = noise
  HullId <- MCHullId
  Shape <- MCShape
  Epsilon = 5
  MinPoints = 5
SPECIFICATION FairSpec
INVARIANTS
  TypeOK
  EachHullHeldOnce
  LoneHullTouchesNoEarlier
  SentIsComplete
PROPERTIES
  ListIsSent
