SPECIFICATION Spec
CONSTANTS
  Nodes = {"s", "a", "d"}
  Ids <- AllPairs
  INADDR_ANY = any
  Addr <- PerNode
  InitConn <- Line
  MayConnect <- ChurnPairs
  NConns = 3
  SendTo <- StoD_PerNode
  MaxSends = 2
  MaxDisconnects = 1
  MaxSplits = 1
  MaxExpiries = 0
  FreedReads = {"garbage", "kept"}
INVARIANTS TypeOK LinkTables SingleCopy NeighboursAgree
CHECK_DEADLOCK FALSE
