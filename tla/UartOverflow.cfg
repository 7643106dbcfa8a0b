CONSTANTS
  MainCall <- PollsAndControls
  TxCallback <- NoCall
  RxCallback <- NoCall
  PROMPT = FALSE
  MaxCalls = 1
  MaxBytes = 3
SPECIFICATION Spec
PROPERTY
  OverflowFlagged
