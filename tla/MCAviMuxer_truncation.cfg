SPECIFICATION Spec
CONSTANTS
  NumStreams = 2
  StreamType <- MCStreamType
  SampleSize <- MCSampleSize
  Options <- OnlyCompact
  Packets <- MCPackets
  SideChunks <- MCSideChunks
  Field2Offs <- MCField2Offs
  DwMax = 4700
  TwoGiB = 6000
  UsPerSec = 1000
  UsPerFrame = 1000
  MaxChunks = 4
  MaxTrailers = 2
  Disciplined = TRUE
INVARIANT TruncationReported
