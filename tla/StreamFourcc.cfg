SPECIFICATION Spec
CONSTANT NumStreams = 12
INVARIANT ReadAsWritten
CHECK_DEADLOCK FALSE
