CONSTANTS
  w1 = w1
  w2 = w2
  w3 = w3
  c = c
  fe = fe
  Worker = {w1, w2, w3}
  Comm = {c}
  Root = fe
  Parent <- DeepParent
  Burst <- DeepBurst
  Home <- DeepHome
  Layouts <- DeepLayouts
  Arrives <- DeepArrives
  MinPoints = 4
  Rounds = 2
  Failures = {}
  SkipUnexpected = TRUE
SPECIFICATION FairSpec
INVARIANTS
  TypeOK
  EveryBurstAccounted
  ClassifiedAlike
  SupportExact
PROPERTIES
  ResetLosesNothing
  ImplementsGlobalClustering
  EveryRoundEnds

