CONSTANTS
  MaxRuns = 1
  MaxFrames <- MicLonger
  MaxBurst = 1
  MaxMarks = 1
  QueueCapacity = 2
  Offsets <- StartApart
  Jumps <- Regress
  Tolerance = 1
  RecoveryFrames = 2
  MaxMisses = 2
  MaxAecFailures = 2
  RefreshEvery = 2
  Faults <- StreamFaults
SPECIFICATION Spec
INVARIANTS
  TypeOK
  OneOutputPerMicFrame
  RunningIsHonest
PROPERTIES
  PairsAdvance
  EchoSeesOneEpoch
  RecoveryNeedsStreak
