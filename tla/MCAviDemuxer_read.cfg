SPECIFICATION FairSpec
CONSTANTS
  NumStreams = 2
  Divisor <- MCDivisor
  Files <- MCFiles
  Targets <- MCTargets
  MaxSeeks = 2
INVARIANTS
  TypeOK
  KeyFlagsExact
  LandsOnBest
  StampsAgree
  SidebandOnce
  PalettesInForce
PROPERTIES
  ImplementsSource
  ReadsToEnd
CHECK_DEADLOCK FALSE
