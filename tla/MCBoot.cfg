SPECIFICATION FairSpec
CONSTANTS
  SECTOR_WORDS = 2
  Sectors = 12
  MEM = 44
  BOOT_SECTORS = 2
  POLLS = 2
  WarmUp <- MCWarmUp
  CLEARED = 1
  TestArea <- MCTestArea
  LIB_SD = 16
  LIB_SIZE = 8
  LIBCSO_LOAD_ADDR = 26
  ELF_SD = 48
  ELF_SIZE = 10
  ELF_LOAD_ADDR = 6
  Headers <- MCHeaders
  TBL_SIZE = 2
  LongNames <- MCLongNames
  Cards <- MCCards
INVARIANTS CopiedExact LibraryImage ProgramImage StaysInside
PROPERTY BootFinishes
