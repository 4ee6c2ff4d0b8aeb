SPECIFICATION Spec
CONSTANTS
  ITERATIONS = 2
  Params <- MCParams
INVARIANTS KnownResults Restored NothingLost SortRight ScanRight
