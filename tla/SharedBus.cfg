CONSTANTS
  NUM_REQS = 2
  FetchFrom = {"imem"}
  Access <- MCAccess
  Misaligned <- MCMisaligned
SPECIFICATION FairSpec
INVARIANTS
  TypeOK
  CountsExact
PROPERTIES
  AnswersInOrder
  I2cWritesWhatWasAsked
  AccessesEnd
  FetchesGranted
