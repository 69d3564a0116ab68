CONSTANTS
  Threads = {main, t1}
  Initial = main
  Breaker = main
  Unborn = {t1}
  NULL = NULL
  Instr <- ApartInstr
  Succ <- ApartSucc
  Start <- ApartStart
  BpAddrs <- Adjacent
  Commands = {"delete", "continue", "step", "itrace"}
SPECIFICATION Spec
INVARIANTS TypeOK PcAtInstruction SavedIsOriginal OnlyInitialCrashes
CHECK_DEADLOCK FALSE
