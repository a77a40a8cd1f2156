SPECIFICATION Spec
CONSTANTS
  Callers <- MCCallers
  Foreign <- MCForeign
  MaxGeneration = 4
  MaxU32 = 63
  PeekBytes = 64
  ConfigSpelled <- MCConfigs
  FrameSpelled <- MCFrames
INVARIANTS
  TypeOK
  ParamsSurvive
  PacketsSurvive
  CopyIsStable
  CopiesOpen
CHECK_DEADLOCK FALSE
