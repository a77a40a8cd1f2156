SPECIFICATION Spec
CONSTANTS
  Callers <- Nobody
  Foreign <- ForeignCompressed
  MaxGeneration = 4
  MaxU32 = 63
  PeekBytes = 64
  ConfigSpelled <- MCConfigs
  FrameSpelled <- MCFrames
CHECK_DEADLOCK FALSE
INVARIANT CompressedIsVariable
