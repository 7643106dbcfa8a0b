SPECIFICATION FairSpec
CONSTANTS
  COUNT_SIZE = 3
  PRE_COUNT_SIZE = 3
  Mod = {2, 4}
  Prescaler = {0, 2}
INVARIANTS
  ShadowAgrees
PROPERTIES
  ImplementsIntervalTimer
  Expires
