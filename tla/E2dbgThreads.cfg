CONSTANTS
  Threads = {main, t1, t2, t3}
  Initial = main
  Breaker = t1
  Unborn = {t1}
  NULL = NULL
  Instr <- ApartInstr
  Succ <- ApartSucc
  Start <- ApartStart
  BpAddrs <- Spaced
  Commands = {"break", "delete", "continue"}
SPECIFICATION FairSpec
INVARIANTS StartRegistered NoLostBreakpoint MutexNotLeaked
PROPERTIES ThreadsResume Rearmed
