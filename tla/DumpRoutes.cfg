SPECIFICATION FairSpec
CONSTANTS
  Nodes = {"s", "a", "b", "d"}
  Ids <- AllPairs
  INADDR_ANY = any
  Addr <- PerLink
  InitConn <- Lollipop
  MayConnect <- NoPair
  NConns = 4
  SendTo <- StoD_PerLink
  MaxSends = 1
  MaxDisconnects = 0
  MaxSplits = 0
  MaxExpiries = 2
  FreedReads = {"garbage"}
INVARIANTS RouteSound LoopFree
PROPERTY AllDelivered
CHECK_DEADLOCK FALSE
