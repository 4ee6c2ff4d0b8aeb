SPECIFICATION FairSpec
CONSTANTS
  SECTOR = 6
  PART = 2
  PT_CELL = 1
  U32 = 16
  Disks <- MCDisks
  Calls <- MCCalls
INVARIANTS BlockReadExact ReadRight FileFound
PROPERTY EveryReadReturns
