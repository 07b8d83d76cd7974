CONSTANTS
  FrameSize = 2
  BufferSizes <- AllSizes
  MaxSessions = 2
  MaxFrames = 4
SPECIFICATION FairSpec
INVARIANTS
  SilentStreamHasSpace
PROPERTIES
  GaplessOutput
  WritesReturn
  ImplementsContract
