CONSTANTS
  N = 8
  Steps = 3
  One = 1680
  Task <- TwoTasks
  Duration <- Durations
  Inputs <- Clustered
SPECIFICATION Spec
INVARIANT RunReturns
