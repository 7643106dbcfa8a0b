CONSTANTS
  BOOT_WRITEBACK = FALSE
  Radix = 16
  PageBytes = 8
  EepromBytes = 32
  EEPROM_ADDR_PLUS_W_BIT = 10
  EEPROM_ADDR_PLUS_R_BIT = 11
  EEPROM_READ_ADDR = 0
  EEPROM_WRITE_ADDR = 16
  IMEM_SIZE = 8
  DMEM_SIZE = 8
  IMEM_BASE_ADDR = 128
  DMEM_BASE_ADDR = 144
  MaxResets = 1
  Byte <- MCByte
  EepromInit <- MCEepromInit
  SramInit <- MCSramInit
SPECIFICATION FairSpec
INVARIANTS
  CoreStartsWithImage
  PollOutlastsCommand
  BusFreeWhenReleased
PROPERTIES
  Boots
