CONSTANTS
  MaxRuns = 2
  MaxFrames <- OneEach
  MaxBurst = 1
  MaxMarks = 0
  QueueCapacity = 1
  Offsets <- RenderFirst
  Jumps <- Regular
  Tolerance = 1
  RecoveryFrames = 2
  MaxMisses = 2
  MaxAecFailures = 2
  RefreshEvery = 2
  Faults <- WorkerFaults
SPECIFICATION FairSpec
INVARIANTS
  QuietRunningIsServed
  StoppedIsQuiet
PROPERTIES
  CommandsReturn
  FailureTearsDown
  MicFrameCompletes
