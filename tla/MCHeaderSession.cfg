SPECIFICATION Spec
CONSTANTS
  Inputs <- MCInputs
  Groups <- MCGroups
  MaxTurns = 2
  Packets <- MCPackets
  MaxPackets = 2
INVARIANTS
  TypeOK
  AvihReadsBack
  StreamsReadBack
  FormatsReadBack
  OpenDmlReadsBack
  TextsReadBack
  OwnFilesOpen
  ListsNest
  MetadataAgrees
PROPERTIES
  PatchesStayInField
CHECK_DEADLOCK FALSE
