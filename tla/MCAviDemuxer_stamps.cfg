SPECIFICATION Spec
CONSTANTS
  NumStreams = 2
  Divisor <- MCDivisor
  Files <- OnlyStdFile
  Targets <- MCTargets
  MaxSeeks = 1
INVARIANT StampsResume
CHECK_DEADLOCK FALSE
