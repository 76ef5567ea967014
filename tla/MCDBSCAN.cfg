CONSTANTS
  N = 5
  MinPoints = 4
  SizeLimit = 256
  InitialNoise = {0, 7}
SPECIFICATION FairSpec
INVARIANTS
  TypeOK
  NoOverrun
  ModelsPartitionData
  EveryPointMeasured
  NoiseCounted
PROPERTIES
  CorePointsStay
  ImplementsDensityClustering
  Terminates
