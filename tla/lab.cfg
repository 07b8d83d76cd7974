SPECIFICATION FairSpec
CONSTANTS
  ChannelCapacity = 1
  SampleRate = 3
  TicksPerSecond = 7
  FrameSamples = 2
  Starts = {0, 8}
  Gap = 5
  WrongStamps = {4}
  MaxPackets = 2
  MaxPacket = 1
  CaptureFaults = {"spawn", "device", "panic", "disk"}
  MaxEventGap = 2
  Window = 2
  MinWindowDuration = 2
  MinWindowObservations = 3
  MinGateDuration = 7
  MinLongestSegment = 3
  CoveragePercent = 80
  MinNumericalPpm = 1
  AlignmentTolerance = 40
  TrendNoise = 1
  TrendTolerance = 8
  Plans <- LabPlans
  Profiles <- LabProfiles
  Trends <- LabTrends
  Operators <- LabOperators
  EngineErrors = {"sync", "other"}
  MaxLate = 2
  MaxDisturbances = 1
  Scripts <- LabScripts
INVARIANTS
  TypeOK
  ManifestIsFaithful
  ReferenceInPhase
  ReportedIffConcluded
  WindowsAreContinuous
  AcceptedIsEarned
  DriftIsSymmetric
PROPERTY CaptureReturns
CHECK_DEADLOCK FALSE
