CONSTANTS
  MaxRuns = 1
  MaxFrames <- OneEach
  MaxBurst = 1
  MaxMarks = 0
  QueueCapacity = 1
  Offsets <- RenderFirst
  Jumps <- Regular
  Tolerance = 1
  RecoveryFrames = 2
  MaxMisses = 3
  MaxAecFailures = 2
  RefreshEvery = 3
  Faults = {"mic"}
SPECIFICATION Spec
INVARIANT FailedRunIsFailed
