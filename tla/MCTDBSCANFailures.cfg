CONSTANTS
  w1 = w1
  w2 = w2
  w3 = w3
  c = c
  fe = fe
  Worker = {w1, w2}
  Comm = {}
  Root = fe
  Parent <- FlatParent
  Burst <- FlatBurst
  Home <- FlatHome
  Layouts <- FlatLayouts
  Arrives <- FlatArrives
  MinPoints = 3
  Rounds = 1
  Failures = {"extract", "cluster", "classify", "scripts", "process"}
  SkipUnexpected = TRUE
SPECIFICATION Spec
INVARIANTS
  ReportsComplete
CHECK_DEADLOCK FALSE
