CONSTANTS
  MainCall <- PollsAndControls
  TxCallback <- NoCall
  RxCallback <- NoCall
  PROMPT = FALSE
  MaxCalls = 3
  MaxBytes = 3
SPECIFICATION Spec
INVARIANT
  ReceivedOnce
