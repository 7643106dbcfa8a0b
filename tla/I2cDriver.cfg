CONSTANTS
  BOOT_WRITEBACK = FALSE
  Byte <- MCByte
  Devices = {2}
  Sizes = {1, 2}
  MaxCalls = 3
  MaxRefusals = 2
SPECIFICATION FairSpec
INVARIANTS
  ResultIsFinal
  TransmitDelivers
  ReceiveDelivers
  BusReleased
PROPERTIES
  CallsReturn
  TransfersEnd
