CONSTANTS
  N = 7
  Steps = 3
  Task <- TwoTasks
  Duration <- Durations
  Inputs <- AllLayouts
SPECIFICATION Spec
INVARIANTS TypeOK LeavesPartitionBursts PartitionMatchesTree IdIsLineage PerfectStaysWhole
PROPERTIES NoIdRevived MergeAgreesWithTree
