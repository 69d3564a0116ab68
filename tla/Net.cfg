SPECIFICATION FairSpec
CONSTANTS
  a1 = a1
  a2 = a2
  p1 = p1
  Local = Local
  NULL = NULL
  Addrs = {a1, a2}
  Peers = {p1}
  Pos <- Chains
  MAX_CLIENTS = 2
  Earlier = {0, 2}
  Ports = 1
  MaxConn = 2
  MaxPieces = 2
  MaxDump = 1
CHECK_DEADLOCK FALSE
INVARIANTS TypeOK LinesWhole NoSleepOnWork SoleClientServed EntriesMatch
PROPERTY ClientsServed
