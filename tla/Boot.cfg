SPECIFICATION BootSpec
CONSTANTS
  FwWords = 3
  AppWords = 4
  FwSector = 2
  FwFiles = {"good", "odd", "big"}
  McsFiles <- McsSet
  NoFile = NoFile
  FlashSize = 12
  FLASH_PAGE_SIZE = 2
  FLASH_SECTOR_SIZE = 4
  MaxCuts = 3
  MaxCopies = 3
  MaxFaults = 1
INVARIANTS ImagesKept GoodFileInstalled
CHECK_DEADLOCK FALSE
