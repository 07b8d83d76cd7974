CONSTANTS
  Callers <- OneCaller
  MaxRuns = 2
  MaxFrames = 2
  MaxBurst = 2
  QueueCapacity = 1
  RefreshEvery = 2
  Faults <- Spawn
SPECIFICATION FairSpec
INVARIANTS
  TypeOK
  CaptureOrder
  FrameConservation
  NoOrphanWorkers
  RunningIsServed
  CleanStopAccounting
PROPERTIES
  FirstErrorSticks
  NoStalePcm
  ImplementsLifecycle
  CommandsReturn
