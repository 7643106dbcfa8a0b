SPECIFICATION FairSpec
CONSTANTS
  Leds = 2
  MaxEdges = 2
INVARIANTS
  ReportedOnce
PROPERTY
  Served
