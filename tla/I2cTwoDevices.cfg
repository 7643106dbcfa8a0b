CONSTANTS
  BOOT_WRITEBACK = FALSE
  Byte <- MCByte
  Devices = {2, 4}
  Sizes = {1}
  MaxCalls = 3
  MaxRefusals = 0
SPECIFICATION Spec
INVARIANT
  ReachesDevice
