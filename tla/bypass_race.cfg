CONSTANTS
  Callers <- TwoCallers
  MaxRuns = 1
  MaxFrames = 1
  MaxBurst = 1
  QueueCapacity = 1
  RefreshEvery = 2
  Faults <- SpawnAndSlowReady
SPECIFICATION FairSpec
INVARIANTS
  HandlesHaveOneOwner
  FailureIsVisible
PROPERTY FailureTearsDown
