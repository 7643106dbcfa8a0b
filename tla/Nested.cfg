SPECIFICATION FairSpec
CONSTANTS
  AddressBytes = 1
  DataBytes = 2
  MaxEdges = 2
  MaxEdgesFast = 1
  MaxNested = 3
INVARIANTS
  ReturnsToInterrupted
  InterruptsRestored
  BoundedNesting
PROPERTY
  Finishes
CHECK_DEADLOCK FALSE
