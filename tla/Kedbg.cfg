SPECIFICATION FairSpec
CONSTANTS
  NULL = NULL
  Size = 6
  CapSets <- AllServers
  MaxBp = 3
  MaxTrace = 1
CHECK_DEADLOCK FALSE
INVARIANTS TypeOK Armed SavedIsCode PcAtInstruction Progress
PROPERTIES ResumesInPlace InterruptReturns
