SPECIFICATION FairSpec
CONSTANTS
  NULL = NULL
  MaxCalls = 3
  MaxStray = 1
  MaxNaks = 1
  MaxInts = 1
CHECK_DEADLOCK FALSE
INVARIANTS TypeOK CallsMatch InStep EndNoticed WriteDone
PROPERTY CallReturns
