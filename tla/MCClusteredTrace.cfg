CONSTANTS
  Threads = 2
  Inputs <- Layouts
  Parameters <- Counted
  RangeMax = 7
  DurationFilter = 2
  Id = {0, 1}
SPECIFICATION Spec
INVARIANTS TypeOK BurstsAreRunningStates EveryStateAccounted CountersAreOwn
  RegionsAreBursts MissingOnlyAfterUnmarked
