CONSTANTS
  w1 = w1
  w2 = w2
  w3 = w3
  c = c
  fe = fe
  Worker = {w1, w2}
  Comm = {}
  Root = fe
  Parent <- FlatParent
  Burst <- FlatBurst
  Home <- FlatHome
  Layouts <- FlatLayouts
  Arrives <- FlatArrives
  MinPoints = 3
  Rounds = 2
  Failures = {}
  SkipUnexpected = TRUE
SPECIFICATION Spec
INVARIANTS
  PreviousDeleted
CHECK_DEADLOCK FALSE
