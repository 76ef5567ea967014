CONSTANTS
  N = 8
  Steps = 3
  One = 1680
  Task <- TwoTasks
  Duration <- Durations
  Inputs <- AllLayouts
SPECIFICATION Spec
INVARIANTS TypeOK LeavesPartitionBursts LeafIdsUnique FirstLevelKept
  WholeOrDivided
PROPERTY OnlySplits
