SPECIFICATION Spec
CONSTANTS
  NumStreams = 2
  StreamType <- MCStreamType
  SampleSize <- MCSampleSize
  Options <- OnlyLegacy
  Packets <- SmallPackets
  SideChunks <- NoSideChunks
  Field2Offs <- NoField2Offs
  DwMax = 100000
  TwoGiB = 8000
  UsPerSec = 1000
  UsPerFrame = 1000
  MaxChunks = 130
  MaxTrailers = 2
  Disciplined = TRUE
INVARIANT BelowTwoGiB
