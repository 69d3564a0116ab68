CONSTANTS
  Threads = {main, t1, t2}
  Initial = main
  Breaker = t1
  Unborn = {t1, t2}
  NULL = NULL
  Instr <- ApartInstr
  Succ <- ApartSucc
  Start <- ApartStart
  BpAddrs <- Spaced
  Commands = {"continue"}
SPECIFICATION Spec
INVARIANTS StartRegistered
