SPECIFICATION Spec
CONSTANTS
  Callers <- CompandedCallers
  Foreign <- Nobody
  MaxGeneration = 4
  MaxU32 = 63
  PeekBytes = 64
  ConfigSpelled <- MCConfigs
  FrameSpelled <- MCFrames
CHECK_DEADLOCK FALSE
INVARIANT TicksAreBlocks
