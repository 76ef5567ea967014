CONSTANTS
  Threads = 2
  Inputs <- OneThread
  Parameters <- Timed
  RangeMax = 7
  DurationFilter = 0
  Id = {0, 1}
SPECIFICATION Spec
INVARIANT EveryRunningStateIsABurst
