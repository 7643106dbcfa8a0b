CONSTANTS
  BOOT_WRITEBACK = TRUE
  Byte <- MCByte
  Devices = {6}
  Sizes = {2, 4}
  MaxCalls = 3
  MaxRefusals = 0
  Radix = 8
  PageBytes = 4
  EepromBytes = 16
  EEPROM_ADDR_PLUS_W_BIT = 6
  EEPROM_ADDR_PLUS_R_BIT = 7
  EepromInit <- MCEeprom
  MaxPresses = 2
SPECIFICATION FpFairSpec
INVARIANT
  ReadsBack
PROPERTY
  TestPasses
