CONSTANTS
  MainCall <- Transfers
  TxCallback <- Sends
  RxCallback <- ReceivesIT
  PROMPT = TRUE
  MaxCalls = 3
  MaxBytes = 3
SPECIFICATION FairSpec
INVARIANTS
  ReceivedInOrder
  SentInOrder
  SentWhenDone
PROPERTIES
  CallsReturn
  TransmissionEnds
  ReceptionEnds
