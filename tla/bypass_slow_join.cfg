CONSTANTS
  Callers <- OneCaller
  MaxRuns = 2
  MaxFrames = 2
  MaxBurst = 1
  QueueCapacity = 2
  RefreshEvery = 2
  Faults <- SlowJoin
SPECIFICATION Spec
PROPERTIES
  NoStalePcm
