---------------------------- MODULE E2dbg_proofs ----------------------------
(***************************************************************************)
(* Theorems about the breakpoint machinery of E2dbg, for every program,    *)
(* every set of breakpoints and every set of threads.                      *)
(***************************************************************************)
EXTENDS E2dbg, FiniteSetTheorems, TLAPS

(* Once a handler has passed StopOthers there is a stopped thread. *)
StoppedSet ==
  ~killed =>
    \A t \in Threads :
      at[t] \in {"process", "hit", "stepping", "finish", "return"}
        => stoppedthread \in Threads

\* The inductive invariant for TypeOK.
TypeInv == TypeOK /\ StoppedSet

-----------------------------------------------------------------------------
(* The operators on thread structures keep their type. *)

(* e2dbg_thread_contall changes the state field only. *)
LEMMA ContallType ==
  ASSUME NEW ths \in [Threads -> E2dbgThread]
  PROVE  /\ contall(ths) \in [Threads -> E2dbgThread]
         /\ \A u \in Threads : contall(ths)[u].past = ths[u].past
BY DEF contall, E2dbgThread, States

(* One field of a thread structure changes. *)
LEMMA FieldType ==
  ASSUME NEW r \in E2dbgThread
  PROVE  /\ \A b \in BOOLEAN : /\ [r EXCEPT !.step = b] \in E2dbgThread
                               /\ [r EXCEPT !.was_step = b] \in E2dbgThread
                               /\ [r EXCEPT !.trace = b] \in E2dbgThread
         /\ \A n \in 0 .. BREAK_MAX + 1 : [r EXCEPT !.count = n] \in E2dbgThread
         /\ \A a \in Instr \cup {0} : [r EXCEPT !.past = a] \in E2dbgThread
         /\ \A q \in States : [r EXCEPT !.state = q] \in E2dbgThread
BY DEF E2dbgThread

(* The values count takes. *)
LEMMA CountType == {NONE, HIT, EXEC, FINISHED} \subseteq 0 .. BREAK_MAX + 1
BY DEF NONE, HIT, EXEC, FINISHED, BREAK_MAX

(* What e2dbg_step leaves when it turns stepping off. *)
LEMMA StepOffType ==
  ASSUME NEW ths \in [Threads -> E2dbgThread], NEW s \in Threads
  PROVE  /\ StepOff(ths, s) \in [Threads -> E2dbgThread]
         /\ \A u \in Threads : StepOff(ths, s)[u].past = ths[u].past
<1> DEFINE r1 == [ths[s] EXCEPT !.step = FALSE]
           r2 == [r1 EXCEPT !.count = NONE]
           r3 == [r2 EXCEPT !.was_step = TRUE]
<1>1. r1 \in E2dbgThread
  BY FieldType
<1>2. r2 \in E2dbgThread
  <2> HIDE DEF r1
  <2> QED
    BY <1>1, FieldType, CountType
<1>3. r3 \in E2dbgThread
  <2> HIDE DEF r2
  <2> QED
    BY <1>2, FieldType
<1>4. StepOff(ths, s) = [ths EXCEPT ![s] = r3]
  BY DEF StepOff
<1>5. r3.past = ths[s].past
  BY DEF E2dbgThread
<1> HIDE DEF r3
<1> QED
  BY <1>3, <1>4, <1>5

(* e2dbg_breakpoint_reinstall keeps the type of everything it writes. *)
LEMMA ReinstallType ==
  ASSUME TypeOK,
         NEW ths \in [Threads -> E2dbgThread], NEW s \in Threads,
         e2dbg_breakpoint_reinstall(ths, s)
  PROVE  /\ threads' \in [Threads -> E2dbgThread]
         /\ saved' \in [Instr -> {"orig", "int3"}]
         /\ mem' \in [Instr -> {"orig", "int3"}]
<1>1. bp \subseteq Instr
  BY E2dbgAssumption DEF TypeOK
<1>2. [ths EXCEPT ![s].past = 0] \in [Threads -> E2dbgThread]
  BY DEF E2dbgThread
<1> QED
  BY <1>1, <1>2 DEF e2dbg_breakpoint_reinstall, e2dbg_setbreak, TypeOK

-----------------------------------------------------------------------------
(* Type correctness, for every set of threads. *)

\* It holds at the start.
LEMMA TypeInit == Init => TypeInv
<1> SUFFICES ASSUME Init PROVE TypeInv
  OBVIOUS
<1> USE E2dbgAssumption
<1>1. threads \in [Threads -> E2dbgThread]
  BY DEF Init, E2dbgThread, States, NONE, BREAK_MAX
<1>n. threadnbr \in Nat
  <2>1. IsFiniteSet(Threads \ Unborn)
    BY FS_Difference
  <2> QED
    BY <2>1, FS_CardinalityType DEF Init
<1>2. TypeOK
  BY <1>1, <1>n DEF Init, TypeOK, LOCKED, UNLOCKED, Points, Usr2Points
<1>3. StoppedSet
  BY DEF Init, StoppedSet
<1> QED
  BY <1>2, <1>3 DEF TypeInv

(* A command that ends the prompt, given the structures it leaves. *)
LEMMA LeavePromptType ==
  ASSUME TypeInv, NEW t \in Threads, Prompt(t),
         NEW ths \in [Threads -> E2dbgThread], LeavePrompt(t, ths),
         tf' \in [Threads -> BOOLEAN]
  PROVE  TypeInv'
<1>1. stoppedthread \in Threads
  BY DEF TypeInv, StoppedSet, Prompt
<1>2. /\ threads' \in [Threads -> E2dbgThread]
      /\ saved' \in [Instr -> {"orig", "int3"}]
      /\ mem' \in [Instr -> {"orig", "int3"}]
  BY <1>1, ReinstallType DEF LeavePrompt, TypeInv, TypeOK
<1>3. TypeOK'
  BY <1>2 DEF LeavePrompt, TypeInv, TypeOK, Points
<1>4. StoppedSet'
  BY <1>1 DEF LeavePrompt, StoppedSet
<1> QED
  BY <1>3, <1>4 DEF TypeInv

\* Every step keeps it.
LEMMA TypeNext == TypeInv /\ [Next]_vars => TypeInv'
<1> SUFFICES ASSUME TypeInv, [Next]_vars PROVE TypeInv'
  OBVIOUS
<1> USE E2dbgAssumption
<1>t. threads \in [Threads -> E2dbgThread]
  BY DEF TypeInv, TypeOK
<1>a. CASE UNCHANGED vars
  BY <1>a DEF TypeInv, TypeOK, StoppedSet, vars, world, code, cpu, sig
<1>b. CASE Next
  <2> PICK t \in Threads : Execute(t) \/ Handler(t) \/ Usr2(t) \/ Hook(t)
                              \/ CreateLock(t) \/ User(t)
    BY <1>b DEF Next
  <2>1. CASE Execute(t)
    <3>1. pc' \in [Threads -> Instr \cup {a + 1 : a \in Instr}]
      <4>1. pc[t] \in Instr /\ pc \in [Threads -> Instr \cup {a + 1 : a \in Instr}]
        BY <2>1 DEF Execute, TypeInv, TypeOK
      <4>2. CASE pc' = [pc EXCEPT ![t] = @ + 1]
        BY <4>1, <4>2
      <4>3. CASE \E a \in Succ[pc[t]] : pc' = [pc EXCEPT ![t] = a]
        <5>1. Succ[pc[t]] \subseteq Instr
          BY <4>1
        <5> QED
          BY <4>1, <4>3, <5>1
      <4> QED
        BY <2>1, <4>2, <4>3 DEF Execute
    <3>2. at' \in [Threads -> Points] /\ killed' \in BOOLEAN
      BY <2>1 DEF Execute, Trap, TypeInv, TypeOK, Points
    <3>3. TypeOK'
      BY <2>1, <3>1, <3>2 DEF Execute, world, code, TypeInv, TypeOK
    <3>4. StoppedSet'
      BY <2>1 DEF Execute, Trap, world, TypeInv, TypeOK, StoppedSet
    <3> QED
      BY <3>3, <3>4 DEF TypeInv
  <2>2. CASE EnterHandler(t) \/ LockHandler(t)
    <3>1. /\ UNCHANGED <<world, code, cpu, usr2, sig>> /\ dbgbp' \in {dbgbp, LOCKED}
          /\ \E q \in {"set", "break"} : at' = [at EXCEPT ![t] = q]
      BY <2>2 DEF EnterHandler, LockHandler, MutexSet
    <3>2. TypeOK'
      BY <3>1 DEF world, code, cpu, sig, TypeInv, TypeOK, Points
    <3>3. StoppedSet'
      BY <3>1 DEF world, sig, TypeInv, TypeOK, StoppedSet
    <3> QED
      BY <3>2, <3>3 DEF TypeInv
  <2>3. CASE StopOthers(t)
    <3>1. threads' \in [Threads -> E2dbgThread]
      <4>1. [threads[t] EXCEPT !.state = "BREAKING"] \in E2dbgThread
        BY <1>t, FieldType DEF States
      <4>2. threads' = [threads EXCEPT ![t] = [threads[t] EXCEPT !.state = "BREAKING"]]
        BY <2>3 DEF StopOthers
      <4> QED
        BY <1>t, <4>1, <4>2
    <3>2. StopTargets(threads', t) \subseteq Threads
      BY DEF StopTargets, TypeInv, TypeOK
    <3>3. TypeOK'
      BY <2>3, <3>1, <3>2 DEF StopOthers, code, cpu, TypeInv, TypeOK, Points
    <3>4. StoppedSet'
      BY <2>3 DEF StopOthers, StoppedSet
    <3> QED
      BY <3>3, <3>4 DEF TypeInv
  <2>4. CASE ProcessHit(t)
    <3> DEFINE s == stoppedthread
    <3>1. s \in Threads
      BY <2>4 DEF ProcessHit, TypeInv, StoppedSet
    <3>2. pc[s] - 1 \in Instr
      BY <2>4 DEF ProcessHit, NewlyHit, TypeInv, TypeOK
    <3>3. threads' \in [Threads -> E2dbgThread]
      <4> DEFINE r1 == [threads[s] EXCEPT !.past = pc[s] - 1]
                 r2 == [r1 EXCEPT !.count = HIT]
      <4>1. r1 \in E2dbgThread
        BY <1>t, <3>1, <3>2, FieldType
      <4>2. r2 \in E2dbgThread
        <5> HIDE DEF r1
        <5> QED
          BY <4>1, FieldType, CountType
      <4>3. threads' = [threads EXCEPT ![s] = r2]
        BY <2>4 DEF ProcessHit, Rewind
      <4> HIDE DEF r2
      <4> QED
        BY <1>t, <3>1, <4>2, <4>3
    <3>4. pc' \in [Threads -> Instr \cup {a + 1 : a \in Instr}]
      BY <2>4, <3>1, <3>2 DEF ProcessHit, Rewind, TypeInv, TypeOK
    <3>5. mem' \in [Instr -> {"orig", "int3"}]
      BY <2>4, <3>2 DEF ProcessHit, TypeInv, TypeOK
    <3>6. tf' \in [Threads -> BOOLEAN]
      BY <2>4 DEF ProcessHit, TypeInv, TypeOK
    <3>7. TypeOK'
      BY <2>4, <3>1, <3>3, <3>4, <3>5, <3>6 DEF ProcessHit, TypeInv, TypeOK, Points
    <3>8. StoppedSet'
      BY <2>4, <3>1 DEF ProcessHit, StoppedSet
    <3> QED
      BY <3>7, <3>8 DEF TypeInv
  <2>5. CASE ProcessStep(t)
    <3> DEFINE s == stoppedthread
    <3>1. s \in Threads
      BY <2>5 DEF ProcessStep, TypeInv, StoppedSet
    <3>2. /\ threads' \in [Threads -> E2dbgThread]
          /\ saved' \in [Instr -> {"orig", "int3"}]
          /\ mem' \in [Instr -> {"orig", "int3"}]
          /\ tf' \in [Threads -> BOOLEAN]
      <4>1. CASE ~threads[s].trace
        BY <2>5, <4>1 DEF ProcessStep, TypeInv, TypeOK
      <4>2. CASE threads[s].trace
        <5>1. PICK found \in BOOLEAN :
                /\ tf' = [tf EXCEPT ![s] = @ /\ ~found]
                /\ e2dbg_breakpoint_reinstall(
                     IF found THEN [StepOff(threads, s) EXCEPT ![s].trace = FALSE]
                              ELSE threads, s)
          BY <2>5, <4>2 DEF ProcessStep
        <5>2. [StepOff(threads, s) EXCEPT ![s].trace = FALSE] \in [Threads -> E2dbgThread]
          <6>1. StepOff(threads, s) \in [Threads -> E2dbgThread]
            BY <1>t, <3>1, StepOffType
          <6>2. [StepOff(threads, s)[s] EXCEPT !.trace = FALSE] \in E2dbgThread
            BY <3>1, <6>1, FieldType
          <6> QED
            BY <3>1, <6>1, <6>2
        <5>3. tf' \in [Threads -> BOOLEAN]
          BY <5>1 DEF TypeInv, TypeOK
        <5> QED
          BY <1>t, <3>1, <5>1, <5>2, <5>3, ReinstallType DEF TypeInv
      <4> QED
        BY <4>1, <4>2
    <3>3. at' \in [Threads -> Points] /\ handled' \in BOOLEAN /\ pending' \subseteq Threads
      BY <2>5 DEF ProcessStep, TypeInv, TypeOK, Points
    <3>4. TypeOK'
      BY <2>5, <3>2, <3>3 DEF ProcessStep, TypeInv, TypeOK
    <3>5. StoppedSet'
      BY <2>5, <3>1 DEF ProcessStep, StoppedSet
    <3> QED
      BY <3>4, <3>5 DEF TypeInv
  <2>6. CASE ProcessCount(t)
    <3> DEFINE s == stoppedthread
               n == threads[s].count + 1
               counted == [threads EXCEPT ![s].count = n]
    <3>1. s \in Threads
      BY <2>6 DEF ProcessCount, TypeInv, StoppedSet
    <3>2. counted \in [Threads -> E2dbgThread]
      <4>1. threads[s].count \in 0 .. BREAK_MAX + 1
        BY <1>t, <3>1 DEF E2dbgThread
      <4>2. n \in 0 .. BREAK_MAX + 1
        BY <2>6, <4>1 DEF ProcessCount, BREAK_MAX
      <4> HIDE DEF n
      <4>3. [threads[s] EXCEPT !.count = n] \in E2dbgThread
        BY <1>t, <3>1, <4>2, FieldType
      <4> QED
        BY <1>t, <3>1, <4>3
    <3>3. /\ threads' \in [Threads -> E2dbgThread]
          /\ saved' \in [Instr -> {"orig", "int3"}]
          /\ mem' \in [Instr -> {"orig", "int3"}]
          /\ tf' \in [Threads -> BOOLEAN]
      <4>1. CASE n = EXEC \/ n > BREAK_MAX
        BY <2>6, <3>2, <4>1 DEF ProcessCount, TypeInv, TypeOK
      <4>2. CASE ~(n = EXEC \/ n > BREAK_MAX)
        <5>1. e2dbg_breakpoint_reinstall(counted, s) /\ tf' = [tf EXCEPT ![s] = FALSE]
          BY <2>6, <4>2 DEF ProcessCount
        <5> HIDE DEF counted
        <5>2. tf' \in [Threads -> BOOLEAN]
          BY <5>1 DEF TypeInv, TypeOK
        <5> QED
          BY <3>1, <3>2, <5>1, <5>2, ReinstallType DEF TypeInv
      <4> QED
        BY <4>1, <4>2
    <3>4. TypeOK'
      BY <2>6, <3>3 DEF ProcessCount, sig, TypeInv, TypeOK, Points
    <3>5. StoppedSet'
      BY <2>6, <3>1 DEF ProcessCount, StoppedSet
    <3> QED
      BY <3>4, <3>5 DEF TypeInv
  <2>7. CASE FinishHandler(t)
    <3> DEFINE s == stoppedthread
               c == contall(threads)
               ths == [c EXCEPT ![s].was_step = FALSE, ![s].count = NONE]
    <3>1. s \in Threads
      BY <2>7 DEF FinishHandler, TypeInv, StoppedSet
    <3>2. c \in [Threads -> E2dbgThread]
      BY <1>t, ContallType
    <3>3. ths \in [Threads -> E2dbgThread]
      <4> HIDE DEF c
      <4> DEFINE r1 == [c[s] EXCEPT !.was_step = FALSE]
                 r2 == [r1 EXCEPT !.count = NONE]
      <4>1. r1 \in E2dbgThread
        BY <3>1, <3>2, FieldType
      <4>2. r2 \in E2dbgThread
        <5> HIDE DEF r1
        <5> QED
          BY <4>1, FieldType, CountType
      <4>3. ths = [c EXCEPT ![s] = r2]
        OBVIOUS
      <4> HIDE DEF r2
      <4> QED
        BY <1>t, <3>1, <3>2, <4>2, <4>3
    <3>4. threads' \in {ths, threads}
      BY <2>7 DEF FinishHandler
    <3> HIDE DEF ths
    <3>5. threads' \in [Threads -> E2dbgThread]
      BY <1>t, <3>3, <3>4
    <3>6. TypeOK'
      BY <2>7, <3>5 DEF FinishHandler, e2dbg_mutex_unlock, UNLOCKED, code, cpu, sig,
                        TypeInv, TypeOK, Points
    <3>7. StoppedSet'
      BY <2>7, <3>1 DEF FinishHandler, StoppedSet
    <3> QED
      BY <3>6, <3>7 DEF TypeInv
  <2>17. CASE ReturnHandler(t)
    <3>1. stoppedthread \in Threads
      BY <2>17 DEF ReturnHandler, TypeInv, StoppedSet
    <3>2. threads' \in [Threads -> E2dbgThread]
      <4>1. [threads[stoppedthread] EXCEPT !.state = "RUNNING"] \in E2dbgThread
        BY <1>t, <3>1, FieldType DEF States
      <4>2. threads' = [threads EXCEPT ![stoppedthread] =
                          [threads[stoppedthread] EXCEPT !.state = "RUNNING"]]
        BY <2>17 DEF ReturnHandler
      <4> QED
        BY <1>t, <3>1, <4>1, <4>2
    <3>3. TypeOK'
      BY <2>17, <3>2 DEF ReturnHandler, code, cpu, TypeInv, TypeOK, Points
    <3>4. StoppedSet'
      BY <2>17, <3>1 DEF ReturnHandler, StoppedSet
    <3> QED
      BY <3>3, <3>4 DEF TypeInv
  <2>18. CASE StopNoEntry(t)
    BY <2>18 DEF StopNoEntry, code, cpu, TypeInv, TypeOK, StoppedSet
  <2>8. CASE cmd_cont(t)
    <3> DEFINE s == stoppedthread
               ths == IF threads[s].step
                      THEN [threads EXCEPT ![s].step = FALSE, ![s].count = FINISHED]
                      ELSE threads
               out == IF ths[s].count = FINISHED THEN contall(ths) ELSE ths
    <3>1. s \in Threads
      BY <2>8 DEF cmd_cont, Prompt, TypeInv, StoppedSet
    <3>2. ths \in [Threads -> E2dbgThread]
      <4> DEFINE r1 == [threads[s] EXCEPT !.step = FALSE]
                 r2 == [r1 EXCEPT !.count = FINISHED]
      <4>1. r1 \in E2dbgThread
        BY <1>t, <3>1, FieldType
      <4>2. r2 \in E2dbgThread
        <5> HIDE DEF r1
        <5> QED
          BY <4>1, FieldType, CountType
      <4>3. [threads EXCEPT ![s].step = FALSE, ![s].count = FINISHED]
              = [threads EXCEPT ![s] = r2]
        OBVIOUS
      <4> HIDE DEF r2
      <4> QED
        BY <1>t, <3>1, <4>2, <4>3
    <3>3. /\ Prompt(t)
          /\ tf' = [tf EXCEPT ![s] = @ /\ ~threads[s].step]
          /\ LeavePrompt(t, out)
      BY <2>8 DEF cmd_cont
    <3>4. tf' \in [Threads -> BOOLEAN]
      BY <3>3 DEF TypeInv, TypeOK
    <3> HIDE DEF ths
    <3>5. out \in [Threads -> E2dbgThread]
      BY <3>2, ContallType
    <3> HIDE DEF out
    <3> QED
      BY <3>3, <3>4, <3>5, LeavePromptType
  <2>9. CASE cmd_next(t)
    <3> DEFINE s == stoppedthread
               ths == [threads EXCEPT ![s].step = TRUE]
    <3>1. s \in Threads
      BY <2>9 DEF cmd_next, Prompt, TypeInv, StoppedSet
    <3>2. ths \in [Threads -> E2dbgThread]
      BY <1>t, <3>1, FieldType
    <3>3. Prompt(t) /\ LeavePrompt(t, contall(ths))
      BY <2>9 DEF cmd_next
    <3>4. tf' \in [Threads -> BOOLEAN]
      BY <2>9 DEF cmd_next, TypeInv, TypeOK
    <3> HIDE DEF ths
    <3>5. contall(ths) \in [Threads -> E2dbgThread]
      BY <3>2, ContallType
    <3> QED
      BY <3>3, <3>4, <3>5, LeavePromptType
  <2>10. CASE cmd_itrace(t)
    <3> DEFINE s == stoppedthread
               toggled == [threads EXCEPT ![s].trace = ~@]
               ths == [toggled EXCEPT ![s].step = TRUE]
    <3>1. s \in Threads
      BY <2>10 DEF cmd_itrace, Prompt, TypeInv, StoppedSet
    <3>2. toggled \in [Threads -> E2dbgThread]
      <4>1. (~threads[s].trace) \in BOOLEAN
        OBVIOUS
      <4>2. [threads[s] EXCEPT !.trace = ~threads[s].trace] \in E2dbgThread
        BY <1>t, <3>1, <4>1, FieldType
      <4> QED
        BY <1>t, <3>1, <4>2
    <3>3. CASE ~threads[s].step
      <4>1. Prompt(t) /\ tf' = [tf EXCEPT ![s] = TRUE] /\ LeavePrompt(t, contall(ths))
        BY <2>10, <3>3 DEF cmd_itrace
      <4>2. ths \in [Threads -> E2dbgThread]
        <5> HIDE DEF toggled
        <5> QED
          BY <3>1, <3>2, FieldType
      <4> HIDE DEF ths
      <4>3. contall(ths) \in [Threads -> E2dbgThread]
        BY <4>2, ContallType
      <4>4. tf' \in [Threads -> BOOLEAN]
        BY <4>1 DEF TypeInv, TypeOK
      <4> QED
        BY <4>1, <4>3, <4>4, LeavePromptType
    <3>4. CASE threads[s].step
      <4>1. /\ tf' = [tf EXCEPT ![s] = FALSE]
            /\ threads' = StepOff(toggled, s)
            /\ UNCHANGED <<dbgbp, curbp, stoppedthread, known, threadnbr, code, pc, at, usr2, sig>>
        BY <2>10, <3>4 DEF cmd_itrace
      <4> HIDE DEF toggled
      <4>2. threads' \in [Threads -> E2dbgThread]
        BY <3>1, <3>2, <4>1, StepOffType
      <4>3. TypeOK'
        BY <4>1, <4>2 DEF code, sig, TypeInv, TypeOK
      <4> QED
        BY <3>1, <4>1, <4>3 DEF TypeInv, StoppedSet
    <3> QED
      BY <3>3, <3>4
  <2>11. CASE \E a \in BpAddrs : cmd_bp(t, a) \/ cmd_delete(t, a)
    <3>1. PICK a \in BpAddrs : cmd_bp(t, a) \/ cmd_delete(t, a)
      BY <2>11
    <3>2. a \in Instr
      OBVIOUS
    <3>3. CASE cmd_bp(t, a)
      <4>1. saved' \in [Instr -> {"orig", "int3"}] /\ mem' \in [Instr -> {"orig", "int3"}]
        BY <3>2, <3>3 DEF cmd_bp, e2dbg_setbreak, TypeInv, TypeOK
      <4> QED
        BY <3>3, <4>1 DEF cmd_bp, world, cpu, sig, TypeInv, TypeOK, StoppedSet
    <3>4. CASE cmd_delete(t, a)
      <4>1. mem' \in [Instr -> {"orig", "int3"}]
        BY <3>2, <3>4 DEF cmd_delete, TypeInv, TypeOK
      <4> QED
        BY <3>4, <4>1 DEF cmd_delete, world, cpu, sig, TypeInv, TypeOK, StoppedSet
    <3> QED
      BY <3>1, <3>3, <3>4
  <2>12. CASE Usr2Enter(t) \/ Usr2Leave(t)
    <3>1. threads' = [threads EXCEPT ![t] = [threads[t] EXCEPT !.state = "SIGUSR2"]]
          \/ threads' = [threads EXCEPT ![t] = [threads[t] EXCEPT !.state = "RUNNING"]]
      BY <2>12 DEF Usr2Enter, Usr2Leave
    <3>2. threads' \in [Threads -> E2dbgThread]
      <4>1. [threads[t] EXCEPT !.state = "SIGUSR2"] \in E2dbgThread
        BY <1>t, FieldType DEF States
      <4>2. [threads[t] EXCEPT !.state = "RUNNING"] \in E2dbgThread
        BY <1>t, FieldType DEF States
      <4> QED
        BY <1>t, <3>1, <4>1, <4>2
    <3>3. TypeOK'
      BY <2>12, <3>2 DEF Usr2Enter, Usr2Leave, code, cpu, sig, TypeInv, TypeOK, Usr2Points
    <3>4. StoppedSet'
      BY <2>12 DEF Usr2Enter, Usr2Leave, TypeInv, StoppedSet
    <3> QED
      BY <3>3, <3>4 DEF TypeInv
  <2>13. CASE Usr2Lock(t) \/ Usr2Set(t) \/ Usr2Unlock(t)
    <3>1. dbgbp' \in {LOCKED, UNLOCKED}
      BY <2>13 DEF Usr2Lock, Usr2Set, Usr2Unlock, MutexSet, e2dbg_mutex_unlock, TypeInv,
                   TypeOK
    <3>2. usr2' \in [Threads -> Usr2Points]
      BY <2>13 DEF Usr2Lock, Usr2Set, Usr2Unlock, TypeInv, TypeOK, Usr2Points
    <3>3. UNCHANGED <<world, code, cpu, at, sig>>
      BY <2>13 DEF Usr2Lock, Usr2Set, Usr2Unlock
    <3> QED
      BY <3>1, <3>2, <3>3 DEF world, code, cpu, sig, TypeInv, TypeOK, StoppedSet
  <2>14. CASE CreateLock(t) \/ CreateSet(t) \/ CreateAdd(t)
              \/ \E u \in Unborn : CreateMake(t, u)
    <3>1. /\ dbgbp' \in {LOCKED, UNLOCKED}
          /\ known' \subseteq Threads
          /\ UNCHANGED <<curbp, stoppedthread, threads, threadnbr, code, cpu, usr2, sig>>
      BY <2>14 DEF CreateLock, CreateSet, CreateAdd, CreateMake, MutexSet,
                   e2dbg_mutex_unlock, world, TypeInv, TypeOK
    <3>2. /\ at' \in [Threads -> Points]
          /\ \A u \in Threads : at'[u] \in {"process", "hit", "stepping", "finish", "return"}
                                 => at'[u] = at[u]
      BY <2>14 DEF CreateLock, CreateSet, CreateAdd, CreateMake, TypeInv, TypeOK, Points
    <3> QED
      BY <3>1, <3>2 DEF code, cpu, sig, TypeInv, TypeOK, StoppedSet
  <2>15. CASE StartSetsig(t) \/ StartLock(t) \/ StartSet(t)
    BY <2>15, ZenonT(60) DEF StartSetsig, StartLock, StartSet, MutexSet, LOCKED, world, code, cpu,
                 sig, TypeInv, TypeOK, StoppedSet, Points
  <2>16. CASE StartBody(t)
    <3>1. threads' \in [Threads -> E2dbgThread]
      <4>1. [threads[t] EXCEPT !.state = "STARTED"] \in E2dbgThread
        BY <1>t, FieldType DEF States
      <4>2. threads' = threads
              \/ threads' = [threads EXCEPT ![t] = [threads[t] EXCEPT !.state = "STARTED"]]
        BY <2>16 DEF StartBody
      <4> QED
        BY <1>t, <4>1, <4>2
    <3>2. TypeOK'
      BY <2>16, <3>1 DEF StartBody, e2dbg_mutex_unlock, UNLOCKED, code, cpu, TypeInv,
                         TypeOK, Points
    <3>3. StoppedSet'
      BY <2>16 DEF StartBody, TypeInv, TypeOK, StoppedSet
    <3> QED
      BY <3>2, <3>3 DEF TypeInv
  <2> QED
    BY <2>1, <2>2, <2>3, <2>4, <2>5, <2>6, <2>7, <2>8, <2>9, <2>10, <2>11, <2>12,
       <2>13, <2>14, <2>15, <2>16, <2>17, <2>18 DEF Handler, Usr2, Hook, User, Resume
<1> QED
  BY <1>a, <1>b

(* The debugger's structures, the saved bytes and the handlers' positions have
   their types whatever the threads, the program and the user do. *)
THEOREM TypeCorrect == Spec => []TypeOK
<1>1. Init => TypeInv
  BY TypeInit
<1>2. TypeInv /\ [Next]_vars => TypeInv'
  BY TypeNext
<1>3. TypeInv => TypeOK
  BY DEF TypeInv
<1> QED
  BY <1>1, <1>2, <1>3, PTL DEF Spec

-----------------------------------------------------------------------------
(* The bytes of the program, for every set of threads, as long as the user sets
   no breakpoint at the prompt. *)

\* The user adds no breakpoint at the prompt.
NoBreakCommand == "break" \notin Commands

(* The breakpoint that a thread has to write again is out of memory: the byte
   that e2dbg_setbreak will save is the program's. *)
PastRestored ==
  \A t \in Threads : threads[t].past \in bp => mem[threads[t].past] = "orig"

(* No two threads have to write the same breakpoint again: the second one would
   save the trap byte the first one has written. *)
PastUnique ==
  \A t, u \in Threads :
    threads[t].past \in bp /\ threads[t].past = threads[u].past => t = u

\* The inductive invariant for SavedIsOriginal.
ByteInv == TypeInv /\ SavedIsOriginal /\ PastRestored /\ PastUnique

(* Thread structures that differ from those of the state, but not in past. *)
SamePast(ths) ==
  /\ ths \in [Threads -> E2dbgThread]
  /\ \A u \in Threads : ths[u].past = threads[u].past

(* Steps that write neither memory nor a past field. *)
LEMMA ByteFrame ==
  ASSUME ByteInv, TypeInv', UNCHANGED code,
         \A u \in Threads : threads'[u].past = threads[u].past
  PROVE  ByteInv'
BY DEF ByteInv, SavedIsOriginal, PastRestored, PastUnique, code

(* e2dbg_breakpoint_reinstall saves the byte of the program. *)
LEMMA ByteReinstall ==
  ASSUME ByteInv, TypeInv', bp' = bp,
         NEW ths, SamePast(ths), NEW s \in Threads,
         e2dbg_breakpoint_reinstall(ths, s)
  PROVE  ByteInv'
<1> USE E2dbgAssumption
<1> DEFINE p == threads[s].past
<1>1. bp \subseteq Instr /\ 0 \notin Instr
  BY DEF ByteInv, TypeInv, TypeOK
<1>2. CASE p \in bp
  <2>1. mem[p] = "orig"
    BY <1>2 DEF ByteInv, PastRestored
  <2>2. /\ saved' = [saved EXCEPT ![p] = "orig"]
        /\ mem' = [mem EXCEPT ![p] = "int3"]
        /\ threads' = [ths EXCEPT ![s].past = 0]
    BY <1>2, <2>1 DEF e2dbg_breakpoint_reinstall, e2dbg_setbreak, SamePast
  <2>3. SavedIsOriginal'
    BY <1>1, <1>2, <2>2 DEF ByteInv, TypeInv, TypeOK, SavedIsOriginal
  <2>4. /\ threads'[s].past = 0
        /\ \A u \in Threads \ {s} : threads'[u].past = threads[u].past
    BY <2>2 DEF SamePast, E2dbgThread
  <2>5. \A u \in Threads \ {s} : threads[u].past # p
    BY <1>2 DEF ByteInv, PastUnique
  <2> HIDE DEF p
  <2>6. PastRestored'
    BY <1>1, <1>2, <2>2, <2>4, <2>5 DEF ByteInv, TypeInv, TypeOK, PastRestored
  <2>7. PastUnique'
    BY <1>1, <2>4 DEF ByteInv, PastUnique
  <2> QED
    BY <2>3, <2>6, <2>7 DEF ByteInv
<1>3. CASE p \notin bp
  <2>1. threads' = ths /\ saved' = saved /\ mem' = mem
    BY <1>3 DEF e2dbg_breakpoint_reinstall, SamePast
  <2> QED
    BY <2>1, ByteFrame DEF SamePast, code
<1> QED
  BY <1>2, <1>3

(* A command that ends the prompt keeps the past fields. *)
LEMMA ByteLeavePrompt ==
  ASSUME ByteInv, TypeInv', NEW t \in Threads, Prompt(t),
         NEW ths, SamePast(ths), LeavePrompt(t, ths)
  PROVE  ByteInv'
<1>1. stoppedthread \in Threads
  BY DEF ByteInv, TypeInv, StoppedSet, Prompt
<1>2. bp' = bp
  BY DEF LeavePrompt
<1>3. CASE at[t] = "stepping"
  BY <1>1, <1>2, <1>3, ByteReinstall DEF LeavePrompt
<1>4. CASE at[t] # "stepping"
  BY <1>2, <1>4, ByteFrame DEF LeavePrompt, SamePast, code
<1> QED
  BY <1>3, <1>4

(* The updates of one thread structure the handlers and commands make. *)
LEMMA SetFields ==
  ASSUME NEW ths, SamePast(ths), NEW s \in Threads
  PROVE  /\ \A b \in BOOLEAN : /\ SamePast([ths EXCEPT ![s].step = b])
                               /\ SamePast([ths EXCEPT ![s].was_step = b])
                               /\ SamePast([ths EXCEPT ![s].trace = b])
         /\ \A n \in 0 .. BREAK_MAX + 1 : SamePast([ths EXCEPT ![s].count = n])
         /\ \A q \in States : SamePast([ths EXCEPT ![s].state = q])
         /\ SamePast(contall(ths))
         /\ SamePast(StepOff(ths, s))
<1>0. ths \in [Threads -> E2dbgThread]
  BY DEF SamePast
<1>1. ASSUME NEW r \in E2dbgThread, r.past = ths[s].past
      PROVE  SamePast([ths EXCEPT ![s] = r])
  BY <1>0, <1>1 DEF SamePast
<1>2. ASSUME NEW b \in BOOLEAN
      PROVE  /\ SamePast([ths EXCEPT ![s].step = b])
             /\ SamePast([ths EXCEPT ![s].was_step = b])
             /\ SamePast([ths EXCEPT ![s].trace = b])
  <2>1. /\ [ths[s] EXCEPT !.step = b].past = ths[s].past
        /\ [ths[s] EXCEPT !.was_step = b].past = ths[s].past
        /\ [ths[s] EXCEPT !.trace = b].past = ths[s].past
    BY <1>0 DEF E2dbgThread
  <2> QED
    BY <1>0, <1>1, <2>1, FieldType
<1>3. ASSUME NEW n \in 0 .. BREAK_MAX + 1
      PROVE  SamePast([ths EXCEPT ![s].count = n])
  <2>1. [ths[s] EXCEPT !.count = n].past = ths[s].past
    BY <1>0 DEF E2dbgThread
  <2> QED
    BY <1>0, <1>1, <2>1, FieldType
<1>4. ASSUME NEW q \in States
      PROVE  SamePast([ths EXCEPT ![s].state = q])
  <2>1. [ths[s] EXCEPT !.state = q].past = ths[s].past
    BY <1>0 DEF E2dbgThread
  <2> QED
    BY <1>0, <1>1, <2>1, FieldType
<1>5. SamePast(contall(ths))
  BY <1>0, ContallType DEF SamePast
<1>6. SamePast(StepOff(ths, s))
  BY <1>0, StepOffType DEF SamePast
<1> QED
  BY <1>2, <1>3, <1>4, <1>5, <1>6

\* It holds at the start.
LEMMA ByteInit == Init => ByteInv
<1> SUFFICES ASSUME Init PROVE ByteInv
  OBVIOUS
<1> USE E2dbgAssumption
<1>1. SavedIsOriginal
  BY DEF Init, SavedIsOriginal
<1>2. (\A t \in Threads : threads[t].past = 0) /\ 0 \notin bp
  BY DEF Init
<1>3. PastRestored /\ PastUnique
  BY <1>2 DEF PastRestored, PastUnique
<1> QED
  BY <1>1, <1>3, TypeInit DEF ByteInv

\* Every step keeps it.
LEMMA ByteNext ==
  ASSUME NoBreakCommand PROVE ByteInv /\ [Next]_vars => ByteInv'
<1> SUFFICES ASSUME ByteInv, [Next]_vars PROVE ByteInv'
  OBVIOUS
<1> USE E2dbgAssumption
<1>t. TypeInv'
  BY TypeNext DEF ByteInv
<1>s. SamePast(threads) /\ threads \in [Threads -> E2dbgThread] /\ bp \subseteq Instr
  BY DEF ByteInv, TypeInv, TypeOK, SamePast
<1>a. CASE UNCHANGED vars
  BY <1>a, <1>t, ByteFrame DEF vars, world
<1>b. CASE Next
  <2> PICK t \in Threads :
        Execute(t) \/ Handler(t) \/ Usr2(t) \/ Hook(t) \/ CreateLock(t) \/ User(t)
    BY <1>b DEF Next
  <2> DEFINE s == stoppedthread
  <2>1. CASE Execute(t) \/ EnterHandler(t) \/ LockHandler(t)
    BY <1>t, <2>1, ByteFrame DEF Execute, EnterHandler, LockHandler, world
  <2>2. CASE StopOthers(t)
    <3>1. SamePast(threads')
      <4>1. "BREAKING" \in States
        BY DEF States
      <4> QED
        BY <1>s, <2>2, <4>1, SetFields DEF StopOthers
    <3> QED
      BY <1>t, <2>2, <3>1, ByteFrame DEF StopOthers, SamePast
  <2>3. CASE ProcessHit(t)
    <3> DEFINE a == pc[s] - 1
    <3>1. s \in Threads
      BY <2>3 DEF ProcessHit, ByteInv, TypeInv, StoppedSet
    <3>2. a \in bp /\ saved[a] = "orig" /\ mem[a] # "orig"
      BY <2>3, <3>1 DEF ProcessHit, NewlyHit, ByteInv, SavedIsOriginal
    <3>3. mem' = [mem EXCEPT ![a] = "orig"] /\ bp' = bp /\ saved' = saved
      BY <2>3, <3>2 DEF ProcessHit
    <3>4. /\ threads'[s].past = a
          /\ \A u \in Threads \ {s} : threads'[u].past = threads[u].past
      BY <1>s, <2>3, <3>1 DEF ProcessHit, Rewind, E2dbgThread
    <3>5. \A u \in Threads : threads[u].past # a
      BY <3>2 DEF ByteInv, PastRestored
    <3> HIDE DEF a
    <3>6. SavedIsOriginal'
      BY <3>3 DEF ByteInv, TypeInv, TypeOK, SavedIsOriginal
    <3>7. PastRestored'
      BY <1>s, <3>2, <3>3, <3>4 DEF ByteInv, TypeInv, TypeOK, PastRestored
    <3>8. PastUnique'
      BY <3>3, <3>4, <3>5 DEF ByteInv, PastUnique
    <3> QED
      BY <1>t, <3>6, <3>7, <3>8 DEF ByteInv
  <2>4. CASE ProcessStep(t)
    <3>1. s \in Threads /\ bp' = bp
      BY <2>4 DEF ProcessStep, ByteInv, TypeInv, StoppedSet
    <3> DEFINE off == StepOff(threads, s)
               ths == [off EXCEPT ![s].trace = FALSE]
    <3>2. SamePast(off)
      BY <1>s, <3>1, SetFields
    <3>3. SamePast(ths)
      <4> HIDE DEF off
      <4> QED
        BY <3>1, <3>2, SetFields
    <3>4. \/ UNCHANGED <<threads, saved, mem>>
          \/ e2dbg_breakpoint_reinstall(ths, s)
          \/ e2dbg_breakpoint_reinstall(threads, s)
      BY <2>4 DEF ProcessStep
    <3> HIDE DEF ths
    <3> QED
      BY <1>t, <1>s, <3>1, <3>3, <3>4, ByteFrame, ByteReinstall DEF code
  <2>5. CASE ProcessCount(t)
    <3>1. s \in Threads /\ bp' = bp
      BY <2>5 DEF ProcessCount, ByteInv, TypeInv, StoppedSet
    <3> DEFINE n == threads[s].count + 1
               counted == [threads EXCEPT ![s].count = n]
    <3>2. n \in 0 .. BREAK_MAX + 1
      <4>1. threads[s].count \in 0 .. BREAK_MAX + 1
        BY <1>s, <3>1 DEF E2dbgThread
      <4> QED
        BY <2>5, <4>1 DEF ProcessCount, BREAK_MAX
    <3>3. SamePast(counted)
      <4> HIDE DEF n
      <4> QED
        BY <1>s, <3>1, <3>2, SetFields
    <3>4. \/ threads' = counted /\ saved' = saved /\ mem' = mem
          \/ e2dbg_breakpoint_reinstall(counted, s)
      BY <2>5 DEF ProcessCount
    <3> HIDE DEF counted
    <3> QED
      BY <1>t, <3>1, <3>3, <3>4, ByteFrame, ByteReinstall DEF code, SamePast
  <2>6. CASE FinishHandler(t)
    <3>1. s \in Threads /\ UNCHANGED code
      BY <2>6 DEF FinishHandler, ByteInv, TypeInv, StoppedSet
    <3> DEFINE c == contall(threads)
               c1 == [c EXCEPT ![s].was_step = FALSE]
               c2 == [c1 EXCEPT ![s].count = NONE]
    <3>2. SamePast(c)
      BY <1>s, <3>1, SetFields
    <3>3. SamePast(c1)
      <4> HIDE DEF c
      <4> QED
        BY <3>1, <3>2, SetFields
    <3>4. SamePast(c2)
      <4> HIDE DEF c1
      <4> QED
        BY <3>1, <3>3, SetFields, CountType
    <3>5. c2 = [c EXCEPT ![s].was_step = FALSE, ![s].count = NONE]
      OBVIOUS
    <3>6. threads' \in {c2, threads}
      BY <2>6, <3>5 DEF FinishHandler
    <3> HIDE DEF c2
    <3>7. SamePast(threads')
      BY <1>s, <3>4, <3>6
    <3> QED
      BY <1>t, <3>1, <3>7, ByteFrame DEF SamePast
  <2>12. CASE ReturnHandler(t) \/ StopNoEntry(t)
    <3>1. UNCHANGED code
      BY <2>12 DEF ReturnHandler, StopNoEntry
    <3>2. SamePast(threads')
      <4>1. CASE StopNoEntry(t)
        BY <1>s, <4>1 DEF StopNoEntry
      <4>2. CASE ReturnHandler(t)
        <5>1. s \in Threads /\ "RUNNING" \in States
          BY <4>2 DEF ReturnHandler, ByteInv, TypeInv, StoppedSet, States
        <5>2. SamePast([threads EXCEPT ![s].state = "RUNNING"])
          BY <1>s, <5>1, SetFields
        <5> QED
          BY <4>2, <5>2 DEF ReturnHandler
      <4> QED
        BY <2>12, <4>1, <4>2
    <3> QED
      BY <1>t, <3>1, <3>2, ByteFrame DEF SamePast
  <2>7. CASE cmd_cont(t) \/ cmd_next(t)
    <3>1. s \in Threads /\ Prompt(t)
      BY <2>7 DEF cmd_cont, cmd_next, Prompt, ByteInv, TypeInv, StoppedSet
    <3> DEFINE r1 == [threads EXCEPT ![s].step = FALSE]
               stopped == [r1 EXCEPT ![s].count = FINISHED]
               stepped == [threads EXCEPT ![s].step = TRUE]
    <3>2. SamePast(r1) /\ SamePast(stepped)
      BY <1>s, <3>1, SetFields
    <3>3. SamePast(stopped)
      <4> HIDE DEF r1
      <4> QED
        BY <3>1, <3>2, SetFields, CountType
    <3>4. stopped = [threads EXCEPT ![s].step = FALSE, ![s].count = FINISHED]
      OBVIOUS
    <3>5. \E ths \in {stopped, stepped, threads} :
             LeavePrompt(t, ths) \/ LeavePrompt(t, contall(ths))
      BY <2>7, <3>4 DEF cmd_cont, cmd_next
    <3> HIDE DEF stopped, stepped
    <3>6. PICK ths : /\ SamePast(ths)
                     /\ LeavePrompt(t, ths) \/ LeavePrompt(t, contall(ths))
      BY <1>s, <3>2, <3>3, <3>5
    <3>7. SamePast(contall(ths))
      BY <3>1, <3>6, SetFields
    <3> QED
      BY <1>t, <3>1, <3>6, <3>7, ByteLeavePrompt
  <2>8. CASE cmd_itrace(t)
    <3>1. s \in Threads /\ Prompt(t)
      BY <2>8 DEF cmd_itrace, Prompt, ByteInv, TypeInv, StoppedSet
    <3> DEFINE toggled == [threads EXCEPT ![s].trace = ~@]
               ths == [toggled EXCEPT ![s].step = TRUE]
    <3>2. SamePast(toggled)
      <4>1. (~threads[s].trace) \in BOOLEAN
        OBVIOUS
      <4> QED
        BY <1>s, <3>1, <4>1, SetFields
    <3>3. CASE ~threads[s].step
      <4>1. LeavePrompt(t, contall(ths))
        BY <2>8, <3>3 DEF cmd_itrace
      <4>2. SamePast(ths)
        <5> HIDE DEF toggled
        <5> QED
          BY <3>1, <3>2, SetFields
      <4> HIDE DEF ths
      <4>3. SamePast(contall(ths))
        BY <3>1, <4>2, SetFields
      <4> QED
        BY <1>t, <3>1, <4>1, <4>3, ByteLeavePrompt
    <3>4. CASE threads[s].step
      <4>1. threads' = StepOff(toggled, s) /\ UNCHANGED code
        BY <2>8, <3>4 DEF cmd_itrace
      <4> HIDE DEF toggled
      <4>2. SamePast(threads')
        BY <3>1, <3>2, <4>1, SetFields
      <4> QED
        BY <1>t, <4>1, <4>2, ByteFrame DEF SamePast
    <3> QED
      BY <3>3, <3>4
  <2>9. CASE \E a \in BpAddrs : cmd_bp(t, a) \/ cmd_delete(t, a)
    <3>1. PICK a \in BpAddrs : cmd_delete(t, a)
      BY <2>9 DEF cmd_bp, NoBreakCommand
    <3>2. /\ a \in bp /\ saved[a] = "orig" /\ bp' = bp \ {a} /\ saved' = saved
          /\ mem' = [mem EXCEPT ![a] = "orig"] /\ threads' = threads
      BY <3>1 DEF cmd_delete, world, ByteInv, SavedIsOriginal
    <3>3. SavedIsOriginal'
      BY <3>2 DEF ByteInv, TypeInv, TypeOK, SavedIsOriginal
    <3>4. PastRestored' /\ PastUnique'
      BY <1>s, <3>2 DEF ByteInv, TypeInv, TypeOK, PastRestored, PastUnique
    <3> QED
      BY <1>t, <3>3, <3>4 DEF ByteInv
  <2>10. CASE Usr2(t)
    <3>1. UNCHANGED code
      BY <2>10 DEF Usr2, Usr2Enter, Usr2Lock, Usr2Set, Usr2Unlock, Usr2Leave
    <3>2. \A u \in Threads : threads'[u].past = threads[u].past
      <4>1. \/ threads' = threads
            \/ threads' = [threads EXCEPT ![t].state = "SIGUSR2"]
            \/ threads' = [threads EXCEPT ![t].state = "RUNNING"]
        BY <2>10 DEF Usr2, Usr2Enter, Usr2Lock, Usr2Set, Usr2Unlock, Usr2Leave, world
      <4> QED
        BY <1>s, <4>1 DEF E2dbgThread
    <3> QED
      BY <1>t, <3>1, <3>2, ByteFrame
  <2>11. CASE Hook(t) \/ CreateLock(t)
    <3>1. UNCHANGED code
      BY <2>11 DEF Hook, CreateLock, CreateSet, CreateAdd, CreateMake, StartSetsig,
                   StartLock, StartSet, StartBody
    <3>2. \A u \in Threads : threads'[u].past = threads[u].past
      <4>1. \/ threads' = threads
            \/ threads' = [threads EXCEPT ![t].state = "STARTED"]
        BY <2>11 DEF Hook, CreateLock, CreateSet, CreateAdd, CreateMake,
               StartSetsig, StartLock, StartSet, StartBody, world
      <4> QED
        BY <1>s, <4>1 DEF E2dbgThread
    <3> QED
      BY <1>t, <3>1, <3>2, ByteFrame
  <2> QED
    BY <2>1, <2>2, <2>3, <2>4, <2>5, <2>6, <2>7, <2>8, <2>9, <2>10, <2>11, <2>12
       DEF Handler, User, Resume
<1> QED
  BY <1>a, <1>b

(* For every set of threads, every program and every set of breakpoints, with a
   mutex that two threads may hold at once, and whatever the user continues,
   steps, traces and deletes: what the debugger writes back over a breakpoint is
   the program's own byte (bp->savedinstr), and memory without a breakpoint is
   the program. *)
THEOREM SavedIsOriginalInvariant ==
  ASSUME NoBreakCommand PROVE Spec => []SavedIsOriginal
<1>1. ByteInv => SavedIsOriginal
  BY DEF ByteInv
<1> QED
  BY <1>1, ByteInit, ByteNext, PTL DEF Spec

-----------------------------------------------------------------------------
(* The entry of a new thread, when the initial thread makes the only other one. *)

\* The debuggee has the initial thread, which makes thread u.
OneChild(u) == Threads = {Initial, u} /\ Unborn = {u}

(* Until u has its entry it waits for the mutex, which its creator holds, and
   nobody sends it a signal: stopall goes through the entries. *)
Unregistered(u) ==
  /\ at[u] \in {"none", "s_setsig", "s_lock"}
  /\ usr2[u] = "no" /\ u \notin pending
  /\ at[u] # "none" => at[Initial] = "c_add"
  /\ at[Initial] \in {"c_make", "c_add"} => dbgbp = LOCKED

\* The inductive invariant for StartRegistered.
ChildInv(u) ==
  /\ TypeInv
  /\ Initial \in known /\ Initial \notin pending /\ usr2[Initial] = "no"
  /\ u \notin known => Unregistered(u)

\* It holds at the start.
LEMMA ChildInit ==
  ASSUME NEW u, OneChild(u), Init PROVE ChildInv(u)
<1>1. Initial \in known /\ Initial \notin pending /\ usr2[Initial] = "no"
  BY E2dbgAssumption DEF Init
<1>2. Unregistered(u)
  BY E2dbgAssumption DEF Init, Unregistered, OneChild
<1> QED
  BY <1>1, <1>2, TypeInit DEF ChildInv

\* Every step keeps it.
LEMMA ChildNext ==
  ASSUME NEW u, OneChild(u), ChildInv(u), [Next]_vars PROVE ChildInv(u)'
<1> USE E2dbgAssumption
<1>t. TypeInv'
  BY TypeNext DEF ChildInv
<1>u. u \in Threads /\ u # Initial /\ Initial \in Threads
  BY DEF OneChild
<1>s. /\ at \in [Threads -> Points] /\ usr2 \in [Threads -> Usr2Points]
      /\ Initial \in known /\ Initial \notin pending /\ usr2[Initial] = "no"
  BY DEF ChildInv, TypeInv, TypeOK
<1> SUFFICES /\ Initial \in known' /\ Initial \notin pending' /\ usr2'[Initial] = "no"
             /\ u \notin known' => Unregistered(u)'
  BY <1>t DEF ChildInv

\* A step that leaves the mutex, the entries and the signals alone.
<1>k. ASSUME UNCHANGED <<dbgbp, known, usr2>>, pending' \subseteq pending,
             u \notin known => at'[u] = at[u],
             u \notin known => at'[Initial] = at[Initial]
                               \/ (at[u] = "none" /\ at'[Initial] \notin {"c_make", "c_add"})
      PROVE  /\ Initial \in known' /\ Initial \notin pending' /\ usr2'[Initial] = "no"
             /\ u \notin known' => Unregistered(u)'
  BY <1>s, <1>k DEF ChildInv, Unregistered
<1>a. CASE UNCHANGED vars
  BY <1>a, <1>k DEF vars, world, sig
<1>b. CASE Next
  <2> PICK t \in Threads : Execute(t) \/ Handler(t) \/ Usr2(t) \/ Hook(t)
                              \/ CreateLock(t) \/ User(t)
    BY <1>b DEF Next
  <2>0. t = Initial \/ t = u
    BY DEF OneChild
  \* A thread with no entry does none of these, and its creator is not in one.
  <2>n. ASSUME u \notin known, at[t] \notin {"none", "s_setsig", "s_lock", "c_add"}
        PROVE  t = Initial /\ at[u] = "none"
    BY <2>0, <2>n DEF ChildInv, Unregistered
  <2>1. CASE Execute(t) \/ EnterHandler(t) \/ CreateLock(t)
    <3>1. /\ at[t] \in {"user", "trap"}
          /\ UNCHANGED <<dbgbp, known, usr2, pending>>
          /\ \E q \in {"user", "trap", "set", "break", "c_set"} :
               at' = at \/ at' = [at EXCEPT ![t] = q]
      BY <2>1 DEF Execute, Trap, EnterHandler, CreateLock, world, sig
    <3> QED
      BY <1>k, <1>s, <1>u, <2>n, <3>1
  <2>2. CASE LockHandler(t) \/ FinishHandler(t) \/ ReturnHandler(t)
    <3>1. /\ at[t] \in {"set", "finish", "return"}
          /\ UNCHANGED <<known, usr2, pending>>
          /\ \E q \in {"user", "break", "return"} : at' = [at EXCEPT ![t] = q]
      BY <2>2 DEF LockHandler, FinishHandler, ReturnHandler, world, sig
    <3> QED
      BY <1>s, <1>u, <2>n, <3>1 DEF ChildInv, Unregistered
  <2>13. CASE StopNoEntry(t)
    BY <1>k, <2>13 DEF StopNoEntry
  <2>3. CASE StopOthers(t)
    <3>1. /\ at[t] = "break" /\ at' = [at EXCEPT ![t] = "process"]
          /\ UNCHANGED <<dbgbp, known, usr2>>
          /\ pending' \subseteq pending \cup (known \ {Initial})
      BY <2>3 DEF StopOthers, StopTargets
    <3> QED
      BY <1>s, <1>u, <2>n, <3>1 DEF ChildInv, Unregistered
  <2>4. CASE ProcessHit(t) \/ ProcessStep(t) \/ ProcessCount(t)
    <3>1. /\ at[t] = "process"
          /\ UNCHANGED <<dbgbp, known, usr2>> /\ pending' \in {pending, {}}
          /\ \E q \in {"hit", "stepping", "finish"} : at' = [at EXCEPT ![t] = q]
      BY <2>4 DEF ProcessHit, ProcessStep, ProcessCount, sig
    <3> QED
      BY <1>k, <1>s, <1>u, <2>n, <3>1
  <2>5. CASE User(t)
    <3>1. /\ at[t] \in {"hit", "stepping"}
          /\ UNCHANGED <<dbgbp, known, usr2, pending>>
          /\ at' = at \/ at' = [at EXCEPT ![t] = "finish"]
      BY <2>5 DEF User, Resume, cmd_cont, cmd_next, cmd_itrace, cmd_bp, cmd_delete,
                  LeavePrompt, Prompt, world, sig
    <3> QED
      BY <1>k, <1>s, <1>u, <2>n, <3>1
  <2>6. CASE Usr2(t)
    <3>1. CASE t = Initial
      BY <1>s, <2>6, <3>1 DEF Usr2, Usr2Enter, Usr2Lock, Usr2Set, Usr2Unlock, Usr2Leave
    <3>2. CASE t = u
      <4>1. u \in known
        BY <2>6, <3>2 DEF Usr2, Usr2Enter, Usr2Lock, Usr2Set, Usr2Unlock, Usr2Leave,
                          ChildInv, Unregistered
      <4>2. known' = known /\ pending' \subseteq pending
            /\ \E q \in Usr2Points : usr2' = [usr2 EXCEPT ![u] = q]
        BY <2>6, <3>2 DEF Usr2, Usr2Enter, Usr2Lock, Usr2Set, Usr2Unlock, Usr2Leave,
                          world, sig, Usr2Points
      <4> QED
        BY <1>s, <1>u, <4>1, <4>2
    <3> QED
      BY <2>0, <3>1, <3>2
  <2>7. CASE CreateSet(t)
    BY <1>s, <1>u, <2>7, <2>n DEF CreateSet, MutexSet, world, sig, ChildInv, Unregistered
  <2>8. CASE \E v \in Unborn : CreateMake(t, v)
    <3>1. /\ at[t] = "c_make" /\ at[u] = "none"
          /\ at' = [at EXCEPT ![t] = "c_add", ![u] = "s_setsig"]
          /\ UNCHANGED <<dbgbp, known, usr2, pending>>
      BY <2>8 DEF CreateMake, OneChild, world, sig
    <3>2. t = Initial
      BY <2>0, <3>1
    <3> QED
      BY <1>s, <1>u, <3>1, <3>2 DEF ChildInv, Unregistered
  <2>9. CASE CreateAdd(t)
    BY <1>s, <1>u, <2>9 DEF CreateAdd, OneChild, sig
  <2>10. CASE StartSetsig(t)
    <3>1. /\ at[t] = "s_setsig" /\ at' = [at EXCEPT ![t] = "s_lock"]
          /\ UNCHANGED <<dbgbp, known, usr2, pending>>
      BY <2>10 DEF StartSetsig, world
    <3> QED
      BY <1>s, <1>u, <2>0, <3>1 DEF ChildInv, Unregistered
  <2>11. CASE StartLock(t)
    <3>1. /\ at[t] = "s_lock" /\ at' = [at EXCEPT ![t] = "s_set"] /\ dbgbp # LOCKED
          /\ UNCHANGED <<dbgbp, known, usr2, pending>>
      BY <2>11 DEF StartLock, MutexTest, LOCKED, UNLOCKED, world, sig
    <3> QED
      BY <1>s, <1>u, <2>0, <3>1 DEF ChildInv, Unregistered
  <2>12. CASE StartSet(t) \/ StartBody(t)
    <3>1. /\ at[t] \in {"s_set", "s_body"} /\ UNCHANGED <<known, usr2, pending>>
          /\ at' = at \/ \E q \in {"s_body", "user"} : at' = [at EXCEPT ![t] = q]
      BY <2>12 DEF StartSet, StartBody, world, sig
    <3>2. at' = at => dbgbp' = dbgbp
      BY <1>s, <2>12 DEF StartSet, StartBody
    <3> QED
      BY <1>s, <1>u, <2>n, <3>1, <3>2 DEF ChildInv, Unregistered
  <2> QED
    BY <2>1, <2>2, <2>3, <2>4, <2>5, <2>6, <2>7, <2>8, <2>9, <2>10, <2>11, <2>12, <2>13
       DEF Handler, Hook
<1> QED
  BY <1>a, <1>b

(* In a process whose initial thread makes one other thread, for every program,
   every set of breakpoints and every use of the commands, e2dbg_thread_start finds
   the entry of its thread: the creator holds the mutex until it has added it,
   although the mutex tests and sets in two steps and both threads break. *)
THEOREM StartRegisteredChild ==
  ASSUME NEW u, OneChild(u) PROVE Spec => []StartRegistered
<1>1. Init => ChildInv(u)
  BY ChildInit
<1>2. ChildInv(u) /\ [Next]_vars => ChildInv(u)'
  BY ChildNext
<1>3. ChildInv(u) => StartRegistered
  BY DEF ChildInv, Unregistered, StartRegistered, OneChild
<1> QED
  BY <1>1, <1>2, <1>3, PTL DEF Spec

-----------------------------------------------------------------------------
(* A process in which breakpoints stop one of the threads. *)

(* Thread b is the only one that reaches breakpoints: the others start in a part R
   of the program that has none and that they do not leave. *)
OneBreaker(b, R) ==
  /\ b \in Threads
  /\ R \subseteq Instr \ BpAddrs
  /\ \A a \in R : Succ[a] \subseteq R
  /\ \A t \in Threads \ {b} : Start[t] \in R

\* Where a thread is when no trap of it is processed, and before it is.
Aside == {"none", "user", "c_set", "c_make", "c_add", "s_setsig", "s_lock", "s_set", "s_body"}
Trapping == {"trap", "set", "break", "process"}

(* The other threads stay in R and never trap, so that the handlers and the
   signals are those of b. *)
Lone(b, R) ==
  /\ \A t \in Threads \ {b} : at[t] \in Aside /\ ~tf[t] /\ pc[t] \in R
  /\ curbp \in {NULL, b} /\ stoppedthread \in {NULL, b}
  /\ b \notin pending /\ usr2[b] = "no"

(* Thread b owns the current breakpoint and will trap again for it. *)
March(b) ==
  /\ curbp = b /\ tf[b] /\ threads[b].count \in {HIT, EXEC}
  /\ ~threads[b].step /\ ~threads[b].was_step

\* The trap of b comes from a breakpoint.
Struck(b) == pc[b] - 1 \in bp /\ mem[pc[b] - 1] = "int3"

(* Why b traps, and what the handler will release: a thread whose trap flag is set
   is stepped or marches over a breakpoint. *)
Phase(b) ==
  LET th == threads[b]
      off == th.was_step /\ ~tf[b]
  IN /\ at[b] \in Aside \cup {"return"}
           => ~th.was_step /\ (tf[b] => th.step \/ March(b))
     /\ at[b] \in Trapping => ~th.was_step /\ (th.step \/ March(b) \/ Struck(b))
     /\ at[b] = "hit" => th.step \/ off \/ March(b)
     /\ at[b] = "stepping" => th.step \/ off
     /\ at[b] = "finish" => (Released(th) /\ (tf[b] => th.step)) \/ March(b)

(* Who has to release the mutex. *)
Owner(b) ==
  dbgbp = LOCKED => \/ \E t \in Threads : usr2[t] = "unlock" \/ at[t] \in Creating
                    \/ at[b] \in Handling
                    \/ March(b)

(* Until the trap is processed, the pc of b is at an instruction or one byte behind
   a breakpoint that is in memory; afterwards it is at an instruction. *)
BreakerPc(b) == pc[b] \in Instr \/ (at[b] \in Trapping /\ Struck(b))

\* The part of the inductive invariants that does not depend on the commands.
LoneInv(b, R) == TypeInv /\ Lone(b, R) /\ Phase(b) /\ Owner(b) /\ BreakerPc(b)

(* What the handlers and commands read of the structure of b is unchanged. *)
SameFields(b) ==
  /\ threads'[b].count = threads[b].count /\ threads'[b].past = threads[b].past
  /\ threads'[b].step = threads[b].step /\ threads'[b].was_step = threads[b].was_step
  /\ threads'[b].trace = threads[b].trace

(* A step that is not of the handlers, the prompt or the program of b. *)
Quiet(b) ==
  /\ UNCHANGED <<curbp, stoppedthread, code, tf>> /\ pc'[b] = pc[b] /\ SameFields(b)
  /\ \/ at'[b] = at[b]
     \/ at[b] \in Aside /\ at'[b] \in Aside /\ ~(at[b] = "user" /\ tf[b])

(* A step of the handlers, the prompt or the program of b. *)
Own(b) ==
  Execute(b) \/ Handler(b) \/ User(b)

-----------------------------------------------------------------------------
(* Every step is quiet or of b itself. *)

LEMMA OthersQuiet ==
  ASSUME NEW b, NEW R, OneBreaker(b, R), TypeInv, SavedIsOriginal, Lone(b, R),
         NEW t \in Threads, t # b, Execute(t)
  PROVE  /\ UNCHANGED <<dbgbp, world, code, tf, at, usr2, pending>>
         /\ pc'[b] = pc[b]
         /\ \A u \in Threads \ {b} : pc'[u] \in R
<1> USE E2dbgAssumption
<1>1. /\ pc[t] \in R /\ pc[t] \in Instr /\ ~tf[t]
      /\ pc \in [Threads -> Instr \cup {a + 1 : a \in Instr}]
  BY DEF Lone, OneBreaker, TypeInv, TypeOK
<1>2. mem[pc[t]] # "int3"
  BY <1>1 DEF OneBreaker, SavedIsOriginal, TypeInv, TypeOK
<1>3. PICK a \in Succ[pc[t]] : pc' = [pc EXCEPT ![t] = a]
  BY <1>2 DEF Execute
<1>4. a \in R
  BY <1>1, <1>3 DEF OneBreaker
<1>5. UNCHANGED <<dbgbp, world, code, tf, at, usr2, pending>>
  BY <1>1, <1>2 DEF Execute
<1>6. \A u \in Threads \ {b} : pc'[u] \in R
  BY <1>1, <1>3, <1>4 DEF Lone
<1>7. pc'[b] = pc[b]
  BY <1>1, <1>3 DEF OneBreaker
<1> QED
  BY <1>5, <1>6, <1>7

LEMMA QuietSteps ==
  ASSUME NEW b, NEW R, OneBreaker(b, R), LoneInv(b, R), SavedIsOriginal,
         NEW t \in Threads,
         (t # b /\ Execute(t)) \/ Usr2(t) \/ Hook(t) \/ CreateLock(t)
  PROVE  Quiet(b) /\ Lone(b, R)' /\ Owner(b)'
<1> USE E2dbgAssumption
<1>b. b \in Threads
  BY DEF OneBreaker
<1>s. /\ at \in [Threads -> Points] /\ usr2 \in [Threads -> Usr2Points]
      /\ threads \in [Threads -> E2dbgThread]
  BY DEF LoneInv, TypeInv, TypeOK
<1>1. CASE t # b /\ Execute(t)
  <2>1. /\ UNCHANGED <<dbgbp, world, code, tf, at, usr2, pending>>
        /\ pc'[b] = pc[b]
        /\ \A u \in Threads \ {b} : pc'[u] \in R
    BY <1>1, OthersQuiet DEF LoneInv
  <2>2. Quiet(b)
    BY <2>1 DEF Quiet, SameFields, world
  <2>3. Lone(b, R)'
    BY <2>1 DEF Lone, LoneInv, world
  <2>4. Owner(b)'
    BY <2>1 DEF Owner, March, LoneInv, world
  <2> QED
    BY <2>2, <2>3, <2>4
<1>2. CASE Usr2(t)
  <2>1. t # b
    BY <1>2 DEF Usr2, Usr2Enter, Usr2Lock, Usr2Set, Usr2Unlock, Usr2Leave, LoneInv, Lone
  <2>2. UNCHANGED <<curbp, stoppedthread, known, code, cpu, at>> /\ pending' \subseteq pending
        /\ \E q \in Usr2Points : usr2' = [usr2 EXCEPT ![t] = q]
    BY <1>2 DEF Usr2, Usr2Enter, Usr2Lock, Usr2Set, Usr2Unlock, Usr2Leave, world, sig,
                Usr2Points
  <2>3. threads'[b] = threads[b]
    BY <1>2, <1>s, <1>b, <2>1 DEF Usr2, Usr2Enter, Usr2Lock, Usr2Set, Usr2Unlock,
                                  Usr2Leave, world
  <2>4. dbgbp' = LOCKED =>
          \/ usr2'[t] = "unlock"
          \/ dbgbp = LOCKED /\ usr2[t] # "unlock"
    BY <1>2, <1>s DEF Usr2, Usr2Enter, Usr2Lock, Usr2Set, Usr2Unlock, Usr2Leave, MutexSet,
                      e2dbg_mutex_unlock, LOCKED, UNLOCKED
  <2>5. Quiet(b)
    BY <2>2, <2>3 DEF Quiet, SameFields, cpu
  <2>6. Lone(b, R)'
    BY <1>b, <1>s, <2>1, <2>2 DEF Lone, LoneInv, cpu
  <2>7. Owner(b)'
    BY <1>s, <2>2, <2>3, <2>4 DEF Owner, March, LoneInv, cpu
  <2> QED
    BY <2>5, <2>6, <2>7
<1>3. CASE Hook(t) \/ CreateLock(t)
  <2>1. UNCHANGED <<curbp, stoppedthread, code, cpu, usr2, pending>>
    BY <1>3 DEF Hook, CreateLock, CreateSet, CreateAdd, CreateMake, StartSetsig,
                StartLock, StartSet, StartBody, world, sig
  <2>2. SameFields(b)
    BY <1>b, <1>s, <1>3 DEF Hook, CreateLock, CreateSet, CreateAdd, CreateMake, StartSetsig,
                StartLock, StartSet, StartBody, world, SameFields, E2dbgThread
  <2>3. \A u \in Threads : \/ at'[u] = at[u]
                           \/ /\ at[u] \in Aside /\ at'[u] \in Aside
                              /\ ~(at[u] = "user" /\ tf[u])
    BY <1>s, <1>3 DEF Hook, CreateLock, CreateSet, CreateAdd, CreateMake, StartSetsig,
                StartLock, StartSet, StartBody, Aside
  <2>4. dbgbp' = LOCKED =>
          \/ at'[t] \in Creating
          \/ dbgbp = LOCKED /\ \A u \in Threads : at[u] \in Creating => at'[u] \in Creating
    BY <1>s, <1>3 DEF Hook, CreateLock, CreateSet, CreateAdd, CreateMake, StartSetsig,
                StartLock, StartSet, StartBody, MutexSet, e2dbg_mutex_unlock, LOCKED,
                UNLOCKED, Creating
  <2>5. Quiet(b)
    BY <1>b, <2>1, <2>2, <2>3 DEF Quiet, cpu
  <2>6. Lone(b, R)'
    BY <2>1, <2>3 DEF Lone, LoneInv, cpu
  <2>7. Owner(b)'
    <3>1. at[b] \in Handling => at'[b] \in Handling
      BY <1>b, <2>3 DEF Handling, Aside
    <3>2. March(b) => March(b)'
      BY <2>1, <2>2 DEF March, SameFields, cpu
    <3> QED
      BY <2>1, <2>4, <3>1, <3>2 DEF Owner, LoneInv
  <2> QED
    BY <2>5, <2>6, <2>7
<1> QED
  BY <1>1, <1>2, <1>3

LEMMA QuietPhase ==
  ASSUME NEW b, Quiet(b), Phase(b) PROVE Phase(b)'
<1>1. March(b) => March(b)'
  BY DEF Quiet, SameFields, March
<1>2. Struck(b) => Struck(b)'
  BY DEF Quiet, Struck, code
<1>3. Released(threads[b]) => Released(threads[b])'
  BY DEF Quiet, SameFields, Released
<1> QED
  BY <1>1, <1>2, <1>3 DEF Quiet, SameFields, Phase, Aside, Trapping

-----------------------------------------------------------------------------
(* The steps of b. *)

(* From StopOthers on, b is the stopped thread. *)
LEMMA OwnStopped ==
  ASSUME NEW b, NEW R, OneBreaker(b, R), LoneInv(b, R),
         at[b] \in {"process", "hit", "stepping", "finish", "return"}, ~killed
  PROVE  stoppedthread = b
BY E2dbgAssumption DEF OneBreaker, LoneInv, TypeInv, StoppedSet, Lone

(* Only b is in a handler, and it keeps the others away. *)
LEMMA OwnLone ==
  ASSUME NEW b, NEW R, OneBreaker(b, R), LoneInv(b, R), Own(b)
  PROVE  Lone(b, R)'
<1> USE E2dbgAssumption
<1>b. b \in Threads
  BY DEF OneBreaker
<1>s. /\ at \in [Threads -> Points] /\ usr2 \in [Threads -> Usr2Points]
      /\ pc \in [Threads -> Instr \cup {a + 1 : a \in Instr}]
      /\ tf \in [Threads -> BOOLEAN]
  BY DEF LoneInv, TypeInv, TypeOK
<1> SUFFICES /\ usr2' = usr2 /\ b \notin pending'
             /\ curbp' \in {NULL, b} /\ stoppedthread' \in {NULL, b}
             /\ \A t \in Threads \ {b} : at'[t] = at[t] /\ tf'[t] = tf[t] /\ pc'[t] = pc[t]
  BY DEF Lone, LoneInv
<1>l. curbp \in {NULL, b} /\ stoppedthread \in {NULL, b} /\ b \notin pending
  BY DEF Lone, LoneInv
<1>1. CASE Execute(b)
  BY <1>1, <1>b, <1>s, <1>l DEF Execute, Trap, world
<1>2. CASE EnterHandler(b) \/ LockHandler(b)
  BY <1>2, <1>b, <1>s, <1>l DEF EnterHandler, LockHandler, world, cpu, sig
<1>3. CASE StopOthers(b)
  <2>1. b \notin StopTargets(threads', b)
    BY DEF StopTargets
  <2> QED
    BY <1>3, <1>b, <1>s, <1>l, <2>1 DEF StopOthers, cpu
<1>4. CASE ProcessHit(b)
  <2>1. stoppedthread = b
    BY <1>4, OwnStopped DEF ProcessHit
  <2> QED
    BY <1>4, <1>b, <1>s, <1>l, <2>1 DEF ProcessHit
<1>5. CASE ProcessStep(b)
  <2>1. stoppedthread = b
    BY <1>5, OwnStopped DEF ProcessStep
  <2>2. usr2' = usr2 /\ pending' \in {pending, {}} /\ UNCHANGED <<curbp, stoppedthread, pc>>
        /\ \E q \in {"stepping", "finish"} : at' = [at EXCEPT ![b] = q]
    BY <1>5 DEF ProcessStep
  <2>3. tf' = tf \/ \E v : tf' = [tf EXCEPT ![b] = v]
    BY <1>5, <2>1 DEF ProcessStep
  <2> QED
    BY <1>b, <1>s, <1>l, <2>1, <2>2, <2>3
<1>6. CASE ProcessCount(b)
  <2>1. stoppedthread = b
    BY <1>6, OwnStopped DEF ProcessCount
  <2>2. UNCHANGED <<curbp, stoppedthread, pc, usr2, sig>> /\ at' = [at EXCEPT ![b] = "finish"]
    BY <1>6 DEF ProcessCount
  <2>3. tf' = tf \/ tf' = [tf EXCEPT ![b] = FALSE]
    BY <1>6, <2>1 DEF ProcessCount
  <2> QED
    BY <1>b, <1>s, <1>l, <2>1, <2>2, <2>3 DEF sig
<1>7. CASE FinishHandler(b)
  <2>1. /\ UNCHANGED <<stoppedthread, cpu, usr2, pending>> /\ curbp' \in {curbp, NULL}
        /\ at' = [at EXCEPT ![b] = "return"]
    BY <1>7 DEF FinishHandler, sig
  <2> QED
    BY <1>b, <1>s, <1>l, <2>1 DEF cpu
<1>8. CASE User(b)
  <2>1. stoppedthread = b
    BY <1>8, OwnStopped DEF User, Resume, cmd_cont, cmd_next, cmd_itrace, cmd_bp,
                            cmd_delete, Prompt
  <2>2. /\ UNCHANGED <<curbp, stoppedthread, pc, usr2, pending>>
        /\ at' = at \/ at' = [at EXCEPT ![b] = "finish"]
    BY <1>8 DEF User, Resume, cmd_cont, cmd_next, cmd_itrace, cmd_bp, cmd_delete,
                LeavePrompt, world, cpu, sig
  <2>3. tf' = tf \/ \E v : tf' = [tf EXCEPT ![b] = v]
    BY <1>8, <2>1 DEF User, Resume, cmd_cont, cmd_next, cmd_itrace, cmd_bp, cmd_delete, cpu
  <2> QED
    BY <1>b, <1>s, <1>l, <2>1, <2>2, <2>3
<1>9. CASE ReturnHandler(b)
  BY <1>9, <1>b, <1>s, <1>l DEF ReturnHandler, cpu
<1>10. CASE StopNoEntry(b)
  BY <1>10, <1>b, <1>s, <1>l DEF StopNoEntry, cpu
<1> QED
  BY <1>1, <1>2, <1>3, <1>4, <1>5, <1>6, <1>7, <1>8, <1>9, <1>10 DEF Own, Handler

(* The structure of b after e2dbg_breakpoint_reinstall. *)
LEMMA ReinstallFields ==
  ASSUME NEW b \in Threads, NEW ths \in [Threads -> E2dbgThread],
         e2dbg_breakpoint_reinstall(ths, b)
  PROVE  /\ threads'[b].count = ths[b].count /\ threads'[b].step = ths[b].step
         /\ threads'[b].was_step = ths[b].was_step /\ threads'[b].trace = ths[b].trace
BY DEF e2dbg_breakpoint_reinstall, E2dbgThread

(* The structures when the count of b changes. *)
Counted(b, n) == [threads EXCEPT ![b].count = n]

LEMMA CountedFields ==
  ASSUME NEW b \in Threads, NEW n \in 0 .. BREAK_MAX + 1,
         threads \in [Threads -> E2dbgThread]
  PROVE  /\ Counted(b, n) \in [Threads -> E2dbgThread] /\ Counted(b, n)[b].count = n
         /\ Counted(b, n)[b].step = threads[b].step
         /\ Counted(b, n)[b].was_step = threads[b].was_step
         /\ Counted(b, n)[b].trace = threads[b].trace
         /\ Counted(b, n)[b].past = threads[b].past
<1> DEFINE r == [threads[b] EXCEPT !.count = n]
<1>1. r \in E2dbgThread
  BY FieldType
<1>2. /\ r.count = n /\ r.step = threads[b].step /\ r.was_step = threads[b].was_step
      /\ r.trace = threads[b].trace /\ r.past = threads[b].past
  BY DEF E2dbgThread
<1>3. Counted(b, n) = [threads EXCEPT ![b] = r]
  BY DEF Counted
<1> HIDE DEF r
<1> QED
  BY <1>1, <1>2, <1>3

(* contall leaves the structure of the stopped thread alone. *)
LEMMA ContallStopped ==
  ASSUME NEW ths, stoppedthread \in Threads
  PROVE  contall(ths)[stoppedthread] = ths[stoppedthread]
BY DEF contall

(* The end of the prompt in b. *)
LEMMA LeavePromptFields ==
  ASSUME NEW b \in Threads, stoppedthread = b, TypeInv,
         NEW ths \in [Threads -> E2dbgThread], LeavePrompt(b, ths)
  PROVE  /\ threads'[b].count = ths[b].count /\ threads'[b].step = ths[b].step
         /\ threads'[b].was_step = ths[b].was_step /\ threads'[b].trace = ths[b].trace
         /\ at'[b] = "finish" /\ UNCHANGED <<dbgbp, curbp, stoppedthread, bp, pc>>
<1>1. at'[b] = "finish" /\ UNCHANGED <<dbgbp, curbp, stoppedthread, bp, pc>>
  BY DEF LeavePrompt, TypeInv, TypeOK
<1>2. CASE at[b] = "stepping"
  BY <1>1, <1>2, ReinstallFields DEF LeavePrompt
<1>3. CASE at[b] # "stepping"
  BY <1>1, <1>3 DEF LeavePrompt
<1> QED
  BY <1>2, <1>3

(* Leaving the prompt: continue goes on with the march or ends stepping. *)
LEMMA ContFields ==
  ASSUME NEW b \in Threads, stoppedthread = b, TypeInv, cmd_cont(b)
  PROVE  /\ at'[b] = "finish" /\ UNCHANGED <<dbgbp, curbp, stoppedthread, bp, pc>>
         /\ ~threads'[b].step
         /\ threads'[b].was_step = threads[b].was_step
         /\ threads'[b].trace = threads[b].trace
         /\ tf'[b] = (tf[b] /\ ~threads[b].step)
         /\ threads'[b].count = IF threads[b].step THEN FINISHED ELSE threads[b].count
<1> DEFINE ths == IF threads[b].step
                  THEN [threads EXCEPT ![b].step = FALSE, ![b].count = FINISHED]
                  ELSE threads
           out == IF ths[b].count = FINISHED THEN contall(ths) ELSE ths
<1>0. threads \in [Threads -> E2dbgThread] /\ tf \in [Threads -> BOOLEAN]
  BY DEF TypeInv, TypeOK
<1>1. LeavePrompt(b, out) /\ tf' = [tf EXCEPT ![b] = @ /\ ~threads[b].step]
  BY DEF cmd_cont
<1>2. /\ ths \in [Threads -> E2dbgThread]
      /\ ~ths[b].step
      /\ ths[b].count = IF threads[b].step THEN FINISHED ELSE threads[b].count
      /\ ths[b].was_step = threads[b].was_step /\ ths[b].trace = threads[b].trace
  <2>1. CASE threads[b].step
    <3> DEFINE r1 == [threads[b] EXCEPT !.step = FALSE]
               r == [r1 EXCEPT !.count = FINISHED]
    <3>1. ths = [threads EXCEPT ![b] = r]
      BY <2>1
    <3>2. r1 \in E2dbgThread /\ ~r1.step
          /\ r1.was_step = threads[b].was_step /\ r1.trace = threads[b].trace
      BY <1>0 DEF E2dbgThread
    <3> HIDE DEF r1
    <3>3. r \in E2dbgThread /\ r.count = FINISHED /\ r.step = r1.step
          /\ r.was_step = r1.was_step /\ r.trace = r1.trace
      BY <3>2, FieldType, CountType DEF E2dbgThread
    <3> HIDE DEF r, ths
    <3> QED
      BY <1>0, <2>1, <3>1, <3>2, <3>3
  <2>2. CASE ~threads[b].step
    BY <1>0, <2>2
  <2> QED
    BY <2>1, <2>2
<1> HIDE DEF ths
<1>3. out \in [Threads -> E2dbgThread] /\ out[b] = ths[b]
  BY <1>2, ContallType, ContallStopped
<1> HIDE DEF out
<1>4. tf'[b] = (tf[b] /\ ~threads[b].step)
  BY <1>0, <1>1
<1> QED
  BY <1>1, <1>2, <1>3, <1>4, LeavePromptFields

(* step, and itrace when stepping is off: stepping is turned on. *)
LEMMA StepOnFields ==
  ASSUME NEW b \in Threads, stoppedthread = b, TypeInv,
         cmd_next(b) \/ (cmd_itrace(b) /\ ~threads[b].step)
  PROVE  /\ at'[b] = "finish" /\ UNCHANGED <<dbgbp, curbp, stoppedthread, bp, pc>>
         /\ threads'[b].step
<1>0. threads \in [Threads -> E2dbgThread]
  BY DEF TypeInv, TypeOK
<1>1. CASE cmd_next(b)
  <2> DEFINE ths == [threads EXCEPT ![b].step = TRUE]
  <2>1. LeavePrompt(b, contall(ths))
    BY <1>1 DEF cmd_next
  <2>2. ths \in [Threads -> E2dbgThread] /\ ths[b].step
    BY <1>0 DEF E2dbgThread
  <2> HIDE DEF ths
  <2>3. contall(ths) \in [Threads -> E2dbgThread] /\ contall(ths)[b] = ths[b]
    BY <2>2, ContallType, ContallStopped
  <2> QED
    BY <2>1, <2>2, <2>3, LeavePromptFields
<1>2. CASE cmd_itrace(b) /\ ~threads[b].step
  <2> DEFINE toggled == [threads EXCEPT ![b].trace = ~@]
             ths == [toggled EXCEPT ![b].step = TRUE]
  <2>1. LeavePrompt(b, contall(ths))
    BY <1>2 DEF cmd_itrace
  <2>2. toggled \in [Threads -> E2dbgThread]
    BY <1>0 DEF E2dbgThread
  <2> HIDE DEF toggled
  <2>3. ths \in [Threads -> E2dbgThread] /\ ths[b].step
    BY <2>2 DEF E2dbgThread
  <2> HIDE DEF ths
  <2>4. contall(ths) \in [Threads -> E2dbgThread] /\ contall(ths)[b] = ths[b]
    BY <2>3, ContallType, ContallStopped
  <2> QED
    BY <2>1, <2>3, <2>4, LeavePromptFields
<1> QED
  BY <1>1, <1>2

(* itrace when stepping is on: it is turned off and the prompt stays. *)
LEMMA StepOffFields ==
  ASSUME NEW b \in Threads, stoppedthread = b, TypeInv, cmd_itrace(b), threads[b].step
  PROVE  /\ threads'[b].was_step /\ ~tf'[b]
         /\ UNCHANGED <<dbgbp, curbp, stoppedthread, code, pc, at>>
<1>0. threads \in [Threads -> E2dbgThread] /\ tf \in [Threads -> BOOLEAN]
  BY DEF TypeInv, TypeOK
<1>1. /\ threads' = StepOff([threads EXCEPT ![b].trace = ~@], b)
      /\ tf' = [tf EXCEPT ![b] = FALSE]
      /\ UNCHANGED <<dbgbp, curbp, stoppedthread, code, pc, at>>
  BY DEF cmd_itrace
<1>2. threads'[b].was_step
  BY <1>0, <1>1 DEF StepOff, E2dbgThread
<1> QED
  BY <1>0, <1>1, <1>2

(* What a step of b does to the reason for which it traps and to the mutex. *)
LEMMA OwnPhase ==
  ASSUME NEW b, NEW R, OneBreaker(b, R), LoneInv(b, R), SavedIsOriginal, Own(b)
  PROVE  Phase(b)' /\ Owner(b)'
<1> USE E2dbgAssumption
<1>b. b \in Threads
  BY DEF OneBreaker
<1>s. /\ at \in [Threads -> Points] /\ tf \in [Threads -> BOOLEAN]
      /\ threads \in [Threads -> E2dbgThread]
      /\ pc \in [Threads -> Instr \cup {a + 1 : a \in Instr}]
      /\ TypeInv /\ Phase(b) /\ Owner(b) /\ bp \subseteq Instr
  BY DEF LoneInv, TypeInv, TypeOK
\* The mutex is not an obligation of b alone.
<1>o. ASSUME at'[b] \in Handling \/ March(b)' \/ dbgbp' # LOCKED PROVE Owner(b)'
  BY <1>o DEF Owner
<1>1. CASE Execute(b)
  <2>1. /\ UNCHANGED <<dbgbp, world, code, tf, usr2>> /\ pc[b] \in Instr /\ at[b] = "user"
        /\ at' = at \/ at' = [at EXCEPT ![b] = "trap"]
    BY <1>1 DEF Execute, Trap
  <2>2. March(b)' = March(b)
    BY <2>1 DEF March, world
  <2>3. Owner(b)'
    <3>1. \A t \in Threads : at[t] \in Creating => at'[t] \in Creating
      BY <1>s, <2>1 DEF Creating
    <3>2. at[b] \notin Handling
      BY <2>1 DEF Handling
    <3> QED
      BY <1>s, <2>1, <2>2, <3>1, <3>2 DEF Owner
  <2>4. CASE mem[pc[b]] = "int3"
    <3>1. at'[b] = "trap" /\ pc'[b] = pc[b] + 1
      BY <1>1, <1>b, <1>s, <2>4 DEF Execute, Trap
    <3>2. pc'[b] - 1 = pc[b]
      <4>1. pc[b] \in Nat
        BY <2>1
      <4> QED
        BY <3>1, <4>1
    <3>3. Struck(b)'
      BY <2>1, <2>4, <3>2 DEF Struck, SavedIsOriginal, code
    <3> QED
      BY <1>s, <2>1, <2>3, <3>1, <3>3 DEF Phase, Aside, Trapping, world
  <2>5. CASE mem[pc[b]] # "int3"
    <3>1. IF tf[b] THEN at'[b] = "trap" ELSE at'[b] = "user"
      BY <1>1, <1>b, <1>s, <2>5 DEF Execute, Trap
    <3> QED
      BY <1>s, <2>1, <2>2, <2>3, <3>1 DEF Phase, Aside, Trapping, world
  <2> QED
    BY <2>4, <2>5
<1>2. CASE EnterHandler(b)
  <2>1. /\ UNCHANGED <<dbgbp, world, code, cpu, usr2>> /\ at[b] = "trap"
        /\ \E q \in {"break", "set"} : at' = [at EXCEPT ![b] = q]
    BY <1>2 DEF EnterHandler
  <2>2. March(b)' = March(b) /\ Struck(b)' = Struck(b)
    BY <2>1 DEF March, Struck, world, cpu, code
  <2>3. Owner(b)'
    <3>1. \A t \in Threads : at[t] \in Creating => at'[t] \in Creating
      BY <1>s, <2>1 DEF Creating
    <3>2. at[b] \notin Handling
      BY <2>1 DEF Handling
    <3> QED
      BY <1>s, <2>1, <2>2, <3>1, <3>2 DEF Owner
  <2> QED
    BY <1>b, <1>s, <2>1, <2>2, <2>3 DEF Phase, Aside, Trapping, world
<1>3. CASE LockHandler(b)
  <2>1. UNCHANGED <<world, code, cpu>> /\ at[b] = "set" /\ at'[b] = "break"
    BY <1>3, <1>b, <1>s DEF LockHandler
  <2>2. March(b)' = March(b) /\ Struck(b)' = Struck(b)
    BY <2>1 DEF March, Struck, world, cpu, code
  <2> QED
    BY <1>o, <1>s, <2>1, <2>2 DEF Phase, Aside, Trapping, Handling, world
<1>4. CASE StopOthers(b)
  <2>1. UNCHANGED <<curbp, code, cpu>> /\ at[b] = "break" /\ at'[b] = "process"
    BY <1>4, <1>b, <1>s DEF StopOthers
  <2>2. SameFields(b)
    BY <1>4, <1>b, <1>s DEF StopOthers, SameFields, E2dbgThread
  <2>3. March(b)' = March(b) /\ Struck(b)' = Struck(b)
    BY <2>1, <2>2 DEF March, Struck, SameFields, cpu, code
  <2> QED
    BY <1>o, <1>s, <2>1, <2>2, <2>3 DEF Phase, Aside, Trapping, Handling, SameFields
<1>5. CASE ProcessHit(b)
  <2>1. stoppedthread = b
    BY <1>5, OwnStopped DEF ProcessHit
  <2>2. at[b] = "process" /\ at'[b] = "hit" /\ curbp' = b /\ tf'[b]
    BY <1>5, <1>b, <1>s, <2>1 DEF ProcessHit
  <2>3. /\ threads'[b].count = HIT /\ threads'[b].step = threads[b].step
        /\ threads'[b].was_step = threads[b].was_step
    BY <1>5, <1>b, <1>s, <2>1 DEF ProcessHit, E2dbgThread
  <2>4. ~threads[b].was_step
    BY <1>s, <2>2 DEF Phase, Trapping
  <2>5. threads'[b].step \/ March(b)'
    BY <2>2, <2>3, <2>4 DEF March
  <2> QED
    BY <1>o, <2>2, <2>5 DEF Phase, Aside, Trapping, Handling
<1>6. CASE ProcessStep(b)
  <2>1. stoppedthread = b
    BY <1>6, OwnStopped DEF ProcessStep
  <2>2. at[b] = "process" /\ threads[b].step
    BY <1>6, <2>1 DEF ProcessStep
  <2>3. CASE ~threads[b].trace
    <3>1. at'[b] = "stepping" /\ threads' = threads
      BY <1>6, <1>b, <1>s, <2>1, <2>3 DEF ProcessStep
    <3> QED
      BY <1>o, <2>2, <3>1 DEF Phase, Aside, Trapping, Handling
  <2>4. CASE threads[b].trace
    <3>1. at'[b] = "finish"
      BY <1>6, <1>b, <1>s, <2>1, <2>4 DEF ProcessStep
    <3>2. PICK found \in BOOLEAN :
                /\ tf' = [tf EXCEPT ![b] = @ /\ ~found]
                /\ e2dbg_breakpoint_reinstall(
                     IF found THEN [StepOff(threads, b) EXCEPT ![b].trace = FALSE]
                              ELSE threads, b)
      BY <1>6, <2>1, <2>4 DEF ProcessStep
    <3>3. CASE found
      <4> DEFINE off == StepOff(threads, b)
                 ths == [off EXCEPT ![b].trace = FALSE]
      <4>1. off \in [Threads -> E2dbgThread]
        BY <1>b, <1>s, StepOffType
      <4>2. off[b].was_step
        BY <1>b, <1>s DEF StepOff, E2dbgThread
      <4>3. e2dbg_breakpoint_reinstall(ths, b) /\ ~tf'[b]
        BY <1>b, <1>s, <3>2, <3>3
      <4> HIDE DEF off
      <4>4. ths \in [Threads -> E2dbgThread] /\ ths[b].was_step
        BY <1>b, <4>1, <4>2 DEF E2dbgThread
      <4> HIDE DEF ths
      <4>5. threads'[b].was_step
        BY <1>b, <4>3, <4>4, ReinstallFields
      <4> QED
        BY <1>o, <3>1, <4>3, <4>5 DEF Phase, Aside, Trapping, Handling, Released
    <3>4. CASE ~found
      <4>1. threads'[b].step
        BY <1>b, <1>s, <2>2, <3>2, <3>4, ReinstallFields
      <4> QED
        BY <1>o, <3>1, <4>1 DEF Phase, Aside, Trapping, Handling, Released
    <3> QED
      BY <3>3, <3>4
  <2> QED
    BY <2>3, <2>4
<1>7. CASE ProcessCount(b)
  <2>1. stoppedthread = b
    BY <1>7, OwnStopped DEF ProcessCount
  <2>2. at[b] = "process" /\ ~threads[b].step /\ ~NewlyHit(pc[b] - 1) /\ at'[b] = "finish"
    BY <1>7, <1>b, <1>s, <2>1 DEF ProcessCount
  <2>3. March(b)
    BY <1>s, <2>2 DEF Phase, Trapping, Struck, NewlyHit, SavedIsOriginal
  <2> DEFINE n == threads[b].count + 1
             counted == Counted(b, n)
  <2>4. n \in {EXEC, FINISHED} /\ n \in 0 .. BREAK_MAX + 1
    BY <2>3 DEF March, HIT, EXEC, FINISHED, BREAK_MAX
  <2>5. IF n = EXEC THEN threads' = counted /\ tf' = tf /\ curbp' = curbp
                    ELSE e2dbg_breakpoint_reinstall(counted, b) /\ tf' = [tf EXCEPT ![b] = FALSE]
    BY <1>7, <2>1, <2>4 DEF ProcessCount, Counted, EXEC, FINISHED, BREAK_MAX
  <2> HIDE DEF n
  <2>6. /\ counted \in [Threads -> E2dbgThread] /\ counted[b].count = n
        /\ counted[b].step = threads[b].step /\ counted[b].was_step = threads[b].was_step
    BY <1>b, <1>s, <2>4, CountedFields
  <2> HIDE DEF counted
  <2>7. CASE n = EXEC
    <3>1. March(b)'
      BY <2>3, <2>5, <2>6, <2>7 DEF March
    <3> QED
      BY <1>o, <2>2, <3>1 DEF Phase, Aside, Trapping, Handling
  <2>8. CASE n = FINISHED
    <3>1. threads'[b].count = FINISHED /\ ~tf'[b]
      <4>1. n # EXEC
        BY <2>8 DEF EXEC, FINISHED
      <4>2. threads'[b].count = counted[b].count
        BY <1>b, <2>5, <2>6, <4>1, ReinstallFields
      <4> QED
        BY <1>b, <1>s, <2>5, <2>6, <2>8, <4>1, <4>2
    <3> QED
      BY <1>o, <2>2, <3>1 DEF Phase, Aside, Trapping, Handling, Released
  <2> QED
    BY <2>4, <2>7, <2>8
<1>8. CASE FinishHandler(b)
  <2>1. stoppedthread = b
    BY <1>8, OwnStopped DEF FinishHandler
  <2>2. at[b] = "finish" /\ at'[b] = "return" /\ UNCHANGED cpu
    BY <1>8, <1>b, <1>s, <2>1 DEF FinishHandler
  <2>3. CASE Released(threads[b])
    <3> DEFINE c == contall(threads)
               ths == [c EXCEPT ![b].was_step = FALSE, ![b].count = NONE]
    <3>1. threads' = ths /\ dbgbp' # LOCKED
      BY <1>8, <2>1, <2>3 DEF FinishHandler, e2dbg_mutex_unlock, LOCKED, UNLOCKED
    <3>2. c \in [Threads -> E2dbgThread] /\ c[b] = threads[b]
      BY <1>b, <1>s, <2>1, ContallType, ContallStopped
    <3> HIDE DEF c
    <3>3. ~threads'[b].was_step /\ threads'[b].step = threads[b].step
      BY <1>b, <3>1, <3>2 DEF E2dbgThread
    <3>4. tf[b] => threads[b].step
      BY <1>s, <2>2, <2>3 DEF Phase, March, Released, HIT, EXEC, FINISHED
    <3> QED
      BY <1>o, <2>2, <3>1, <3>3, <3>4 DEF Phase, Aside, Trapping, cpu
  <2>4. CASE ~Released(threads[b])
    <3>1. threads' = threads /\ curbp' = curbp
      BY <1>8, <2>1, <2>4 DEF FinishHandler
    <3>2. March(b)
      BY <1>s, <2>2, <2>4 DEF Phase
    <3>4. March(b)' /\ ~threads'[b].was_step
      BY <2>2, <3>1, <3>2 DEF March, cpu
    <3> QED
      BY <1>o, <2>2, <3>4 DEF Phase, Aside, Trapping
  <2> QED
    BY <2>3, <2>4
<1>9. CASE cmd_cont(b)
  <2>1. stoppedthread = b /\ at[b] \in {"hit", "stepping"}
    BY <1>9, OwnStopped DEF cmd_cont, Prompt
  <2>2. /\ at'[b] = "finish" /\ curbp' = curbp
        /\ ~threads'[b].step
        /\ threads'[b].was_step = threads[b].was_step
        /\ tf'[b] = (tf[b] /\ ~threads[b].step)
        /\ threads'[b].count = IF threads[b].step THEN FINISHED ELSE threads[b].count
    BY <1>9, <1>b, <1>s, <2>1, ContFields
  <2>3. threads[b].step \/ (threads[b].was_step /\ ~tf[b]) \/ March(b)
    BY <1>s, <2>1 DEF Phase
  <2>4. (Released(threads'[b]) /\ ~tf'[b]) \/ March(b)'
    BY <2>2, <2>3 DEF Released, March
  <2> QED
    BY <1>o, <2>2, <2>4 DEF Phase, Aside, Trapping, Handling
<1>10. CASE cmd_next(b) \/ (cmd_itrace(b) /\ ~threads[b].step)
  <2>1. stoppedthread = b
    BY <1>10, OwnStopped DEF cmd_next, cmd_itrace, Prompt
  <2>2. at'[b] = "finish" /\ threads'[b].step
    BY <1>10, <1>b, <1>s, <2>1, StepOnFields
  <2> QED
    BY <1>o, <2>2 DEF Phase, Aside, Trapping, Handling, Released
<1>11. CASE cmd_itrace(b) /\ threads[b].step
  <2>1. stoppedthread = b /\ at[b] \in {"hit", "stepping"}
    BY <1>11, OwnStopped DEF cmd_itrace, Prompt
  <2>2. threads'[b].was_step /\ ~tf'[b] /\ at' = at
    BY <1>11, <1>b, <1>s, <2>1, StepOffFields
  <2> QED
    BY <1>o, <2>1, <2>2 DEF Phase, Aside, Trapping, Handling
<1>12. CASE \E a \in BpAddrs : cmd_bp(b, a) \/ cmd_delete(b, a)
  <2>1. at[b] \in {"hit", "stepping"} /\ UNCHANGED <<dbgbp, world, cpu, at, usr2>>
    BY <1>12 DEF cmd_bp, cmd_delete, Prompt
  <2>2. March(b)' = March(b)
    BY <2>1 DEF March, world, cpu
  <2> QED
    BY <1>o, <1>s, <2>1, <2>2 DEF Phase, Aside, Trapping, Handling, world, cpu
<1>13. CASE ReturnHandler(b)
  <2>1. stoppedthread = b
    BY <1>13, OwnStopped DEF ReturnHandler
  <2>2. at[b] = "return" /\ at'[b] = "user" /\ UNCHANGED <<dbgbp, curbp, cpu, usr2>>
    BY <1>13, <1>b, <1>s DEF ReturnHandler
  <2>3. SameFields(b)
    BY <1>13, <1>b, <1>s, <2>1 DEF ReturnHandler, SameFields, E2dbgThread
  <2>4. March(b)' = March(b)
    BY <2>2, <2>3 DEF March, SameFields, cpu
  <2>5. Phase(b)'
    BY <1>s, <2>2, <2>3, <2>4 DEF Phase, SameFields, Aside, Trapping, cpu
  <2>6. at' = [at EXCEPT ![b] = "user"] /\ Owner(b)
    BY <1>13 DEF ReturnHandler, LoneInv
  <2>7. Owner(b)'
    BY <1>b, <1>s, <2>2, <2>4, <2>6 DEF Owner, Handling, Creating
  <2> QED
    BY <2>5, <2>7
<1>14. CASE StopNoEntry(b)
  <2>1. at[b] = "break" /\ UNCHANGED <<dbgbp, curbp, threads, code, cpu, at, usr2>>
    BY <1>14 DEF StopNoEntry
  <2>2. March(b)' = March(b) /\ Struck(b)' = Struck(b)
    BY <2>1 DEF March, Struck, code, cpu
  <2>3. Phase(b)'
    BY <1>s, <2>1, <2>2 DEF Phase, Aside, Trapping, cpu
  <2> QED
    BY <1>o, <2>1, <2>3 DEF Handling
<1> QED
  BY <1>1, <1>2, <1>3, <1>4, <1>5, <1>6, <1>7, <1>8, <1>9, <1>10, <1>11, <1>12, <1>13,
     <1>14 DEF Own, Handler, User, Resume

(* The pc of b. *)
LEMMA BreakerPcNext ==
  ASSUME NEW b, NEW R, OneBreaker(b, R), LoneInv(b, R), SavedIsOriginal,
         Own(b) \/ Quiet(b)
  PROVE  BreakerPc(b)'
<1> USE E2dbgAssumption
<1>s. /\ b \in Threads /\ BreakerPc(b) /\ bp \subseteq Instr
      /\ at \in [Threads -> Points]
      /\ pc \in [Threads -> Instr \cup {a + 1 : a \in Instr}]
  BY DEF LoneInv, TypeInv, TypeOK, OneBreaker
<1>k. ASSUME pc[b] \in Instr, pc' = pc PROVE BreakerPc(b)'
  BY <1>k DEF BreakerPc
<1>1. CASE Quiet(b)
  BY <1>s, <1>1 DEF Quiet, BreakerPc, Struck, code, Aside, Trapping
<1>2. CASE Execute(b)
  <2>1. pc[b] \in Instr /\ pc[b] \in Nat /\ mem' = mem /\ bp' = bp
    BY <1>2 DEF Execute, code
  <2>2. CASE mem[pc[b]] = "int3"
    <3>1. at'[b] = "trap" /\ pc'[b] = pc[b] + 1
      BY <1>2, <1>s, <2>2 DEF Execute, Trap
    <3>2. pc'[b] - 1 = pc[b]
      BY <2>1, <3>1
    <3> QED
      BY <2>1, <2>2, <3>1, <3>2 DEF BreakerPc, Struck, Trapping, SavedIsOriginal
  <2>3. CASE mem[pc[b]] # "int3"
    <3>1. PICK a \in Succ[pc[b]] : pc' = [pc EXCEPT ![b] = a]
      BY <1>2, <2>3 DEF Execute
    <3>2. pc'[b] \in Instr
      BY <1>s, <2>1, <3>1
    <3> QED
      BY <3>2 DEF BreakerPc
  <2> QED
    BY <2>2, <2>3
<1>3. CASE EnterHandler(b) \/ LockHandler(b) \/ StopOthers(b) \/ StopNoEntry(b)
  BY <1>s, <1>3 DEF EnterHandler, LockHandler, StopOthers, StopNoEntry, code, cpu, BreakerPc,
                    Struck, Trapping
<1>4. CASE ProcessHit(b)
  <2>1. stoppedthread = b
    BY <1>4, OwnStopped DEF ProcessHit
  <2>2. pc[b] - 1 \in bp /\ pc'[b] = pc[b] - 1
    BY <1>s, <1>4, <2>1 DEF ProcessHit, NewlyHit, Rewind
  <2> QED
    BY <1>s, <2>2 DEF BreakerPc
\* No new hit: a trap byte before the pc would be one.
<1>5. CASE ProcessStep(b) \/ ProcessCount(b)
  <2>1. stoppedthread = b
    BY <1>5, OwnStopped DEF ProcessStep, ProcessCount
  <2>2. ~NewlyHit(pc[b] - 1)
    BY <1>5, <2>1 DEF ProcessStep, ProcessCount
  <2>3. pc[b] \in Instr
    BY <1>s, <2>2 DEF NewlyHit, SavedIsOriginal, BreakerPc, Struck
  <2> QED
    BY <1>k, <1>5, <2>3 DEF ProcessStep, ProcessCount
<1>6. CASE FinishHandler(b) \/ ReturnHandler(b)
  BY <1>k, <1>s, <1>6 DEF FinishHandler, ReturnHandler, cpu, BreakerPc, Trapping
<1>7. CASE User(b)
  <2>1. at[b] \notin Trapping /\ pc' = pc
    BY <1>7 DEF User, Resume, cmd_cont, cmd_next, cmd_itrace, cmd_bp, cmd_delete,
                LeavePrompt, Prompt, cpu, Trapping
  <2> QED
    BY <1>k, <1>s, <2>1 DEF BreakerPc
<1> QED
  BY <1>1, <1>2, <1>3, <1>4, <1>5, <1>6, <1>7 DEF Own, Handler

-----------------------------------------------------------------------------
(* What holds for every use of the commands, as long as the saved bytes are those of
   the program. *)

\* It holds at the start.
LEMMA LoneInit ==
  ASSUME NEW b, NEW R, OneBreaker(b, R), Init PROVE LoneInv(b, R)
<1> USE E2dbgAssumption
<1>1. Lone(b, R)
  BY DEF Init, Lone, OneBreaker, Aside
<1>2. Phase(b)
  <2>1. at[b] \in {"none", "user"} /\ ~threads[b].was_step /\ ~tf[b]
    BY DEF Init, OneBreaker
  <2> QED
    BY <2>1 DEF Phase, Aside, Trapping
<1>3. Owner(b)
  BY DEF Init, Owner, LOCKED, UNLOCKED
<1>4. BreakerPc(b)
  BY DEF Init, BreakerPc, OneBreaker
<1> QED
  BY <1>1, <1>2, <1>3, <1>4, TypeInit DEF LoneInv

(* Every step is quiet or of b. *)
LEMMA StepOfBreaker ==
  ASSUME NEW b, NEW R, OneBreaker(b, R), LoneInv(b, R), [Next]_vars
  PROVE  \/ UNCHANGED vars
         \/ Own(b)
         \/ \E t \in Threads : (t # b /\ Execute(t)) \/ Usr2(t) \/ Hook(t) \/ CreateLock(t)
<1>1. CASE UNCHANGED vars
  BY <1>1
<1>2. CASE Next
  <2>1. PICK t \in Threads : Execute(t) \/ Handler(t) \/ Usr2(t) \/ Hook(t)
                                \/ CreateLock(t) \/ User(t)
    BY <1>2 DEF Next
  <2>2. ASSUME Handler(t) \/ User(t) PROVE t = b
    <3>1. at[t] \notin Aside
      BY <2>2 DEF Handler, EnterHandler, LockHandler, StopOthers, ProcessHit, ProcessStep,
                  ProcessCount, FinishHandler, ReturnHandler, StopNoEntry, User, Resume,
                  cmd_cont, cmd_next, cmd_itrace, cmd_bp, cmd_delete, Prompt, Aside
    <3> QED
      BY <3>1 DEF LoneInv, Lone
  <2> QED
    BY <2>1, <2>2 DEF Own
<1> QED
  BY <1>1, <1>2

\* Every step keeps it.
LEMMA LoneNext ==
  ASSUME NEW b, NEW R, OneBreaker(b, R), LoneInv(b, R), SavedIsOriginal, [Next]_vars
  PROVE  /\ LoneInv(b, R)'
         /\ Quiet(b) \/ Own(b)
<1>t. TypeInv'
  BY TypeNext DEF LoneInv
<1>1. CASE UNCHANGED vars
  <2>1. Lone(b, R)'
    BY <1>1 DEF LoneInv, Lone, vars, world, cpu, sig
  <2>2. Quiet(b)
    BY <1>1 DEF Quiet, SameFields, vars, world, cpu
  <2>3. Owner(b)'
    BY <1>1 DEF LoneInv, Owner, March, vars, world, cpu
  <2> QED
    BY <1>t, <2>1, <2>2, <2>3, QuietPhase, BreakerPcNext DEF LoneInv
<1>2. CASE Own(b)
  BY <1>t, <1>2, OwnLone, OwnPhase, BreakerPcNext DEF LoneInv
<1>3. CASE \E t \in Threads : (t # b /\ Execute(t)) \/ Usr2(t) \/ Hook(t) \/ CreateLock(t)
  <2>1. Quiet(b) /\ Lone(b, R)' /\ Owner(b)'
    BY <1>3, QuietSteps
  <2> QED
    BY <1>t, <2>1, QuietPhase, BreakerPcNext DEF LoneInv
<1> QED
  BY <1>1, <1>2, <1>3, StepOfBreaker

(* In such a state the mutex has an owner and the threads run instructions. *)
LEMMA LoneSafe ==
  ASSUME NEW b, NEW R, OneBreaker(b, R), LoneInv(b, R)
  PROVE  /\ e2dbg_self(b) = b => MutexNotLeaked
         /\ PcAtInstruction
<1> USE E2dbgAssumption
<1>b. b \in Threads /\ b # NULL
  BY DEF OneBreaker
<1>1. e2dbg_self(b) = b => MutexNotLeaked
  BY <1>b DEF LoneInv, Owner, March, MutexNotLeaked, Creating, Handling
<1>2. PcAtInstruction
  BY DEF LoneInv, Lone, OneBreaker, BreakerPc, Trapping, PcAtInstruction
<1> QED
  BY <1>1, <1>2

-----------------------------------------------------------------------------
(* The same process when the user sets breakpoints at the prompt as well, and does
   not step. *)

\* The user neither steps nor traces.
NoStepCommand == "step" \notin Commands /\ "itrace" \notin Commands

\* Thread b is never stepped.
Still(b) ==
  /\ ~threads[b].step /\ ~threads[b].was_step /\ ~threads[b].trace
  /\ at[b] # "stepping"

\* The prompt is that of the breakpoint b stands on.
AtHit(b) ==
  at[b] = "hit" => March(b) /\ threads[b].count = HIT /\ pc[b] = threads[b].past

(* A breakpoint that was deleted and set again at the prompt is in memory while b
   still has to write it back: b runs into it before it counts to FINISHED. *)
SetAgain(b) ==
  threads[b].past \in bp /\ mem[threads[b].past] = "int3" =>
    \/ /\ at[b] \in {"hit", "finish", "return", "user"} /\ pc[b] = threads[b].past
       /\ March(b) /\ threads[b].count = HIT
    \/ at[b] \in Trapping /\ pc[b] = threads[b].past + 1

\* The inductive invariant for SavedIsOriginal.
StillInv(b, R) ==
  LoneInv(b, R) /\ SavedIsOriginal /\ Still(b) /\ AtHit(b) /\ SetAgain(b)

\* It holds at the start.
LEMMA StillInit ==
  ASSUME NEW b, NEW R, OneBreaker(b, R), Init PROVE StillInv(b, R)
<1> USE E2dbgAssumption
<1>1. LoneInv(b, R) /\ SavedIsOriginal
  BY LoneInit, ByteInit DEF ByteInv
<1>2. /\ threads[b].past = 0 /\ at[b] \in {"none", "user"}
      /\ ~threads[b].step /\ ~threads[b].was_step /\ ~threads[b].trace
  BY DEF Init, OneBreaker
<1>3. 0 \notin bp
  BY DEF Init
<1> QED
  BY <1>1, <1>2, <1>3 DEF StillInv, Still, AtHit, SetAgain

(* What the steps of b do when it is not stepped: the prompt is left with continue
   only, and the march ends with a breakpoint written again. *)
LEMMA StillCont ==
  ASSUME NEW b, NEW R, OneBreaker(b, R), StillInv(b, R), cmd_cont(b)
  PROVE  /\ at[b] = "hit" /\ at'[b] = "finish" /\ tf'[b] = tf[b] /\ SameFields(b)
         /\ UNCHANGED <<curbp, code, pc>>
<1>b. b \in Threads /\ TypeInv /\ ~threads[b].step
  BY DEF OneBreaker, StillInv, LoneInv, Still
<1>1. at[b] = "hit" /\ stoppedthread = b
  BY OwnStopped DEF cmd_cont, Prompt, StillInv, Still
<1>2. /\ at'[b] = "finish" /\ UNCHANGED <<curbp, bp, pc>>
      /\ ~threads'[b].step /\ threads'[b].was_step = threads[b].was_step
      /\ threads'[b].trace = threads[b].trace
      /\ tf'[b] = (tf[b] /\ ~threads[b].step)
      /\ threads'[b].count = threads[b].count
  BY <1>b, <1>1, ContFields
<1>3. threads[b].count # FINISHED
  BY <1>1 DEF StillInv, AtHit, HIT, FINISHED
<1>4. LeavePrompt(b, threads)
  BY <1>b, <1>1, <1>3 DEF cmd_cont
<1>5. threads' = threads /\ UNCHANGED <<saved, mem>>
  BY <1>1, <1>4 DEF LeavePrompt
<1>6. tf'[b] = tf[b]
  BY <1>b, <1>2 DEF TypeInv, TypeOK
<1> QED
  BY <1>1, <1>2, <1>5, <1>6 DEF SameFields, code

LEMMA StillHit ==
  ASSUME NEW b, NEW R, OneBreaker(b, R), StillInv(b, R), ProcessHit(b)
  PROVE  /\ pc[b] - 1 \in bp /\ saved[pc[b] - 1] = "orig"
         /\ pc'[b] = pc[b] - 1 /\ threads'[b].past = pc'[b]
         /\ mem' = [mem EXCEPT ![pc'[b]] = "orig"] /\ UNCHANGED <<bp, saved>>
         /\ at[b] = "process" /\ at'[b] = "hit"
         /\ March(b)' /\ threads'[b].count = HIT
         /\ ~threads'[b].step /\ ~threads'[b].was_step /\ ~threads'[b].trace
<1>b. b \in Threads /\ TypeInv
  BY DEF OneBreaker, StillInv, LoneInv
<1>s. /\ at \in [Threads -> Points] /\ tf \in [Threads -> BOOLEAN]
      /\ threads \in [Threads -> E2dbgThread]
      /\ pc \in [Threads -> Instr \cup {a + 1 : a \in Instr}]
  BY <1>b DEF TypeInv, TypeOK
<1>1. stoppedthread = b
  BY OwnStopped DEF ProcessHit, StillInv
<1>2. pc[b] - 1 \in bp /\ saved[pc[b] - 1] = "orig"
  BY <1>1 DEF ProcessHit, NewlyHit, StillInv, SavedIsOriginal
<1>3. /\ pc'[b] = pc[b] - 1 /\ at[b] = "process" /\ at'[b] = "hit" /\ UNCHANGED <<bp, saved>>
      /\ curbp' = b /\ tf'[b]
  BY <1>b, <1>s, <1>1 DEF ProcessHit, Rewind
<1>4. mem' = [mem EXCEPT ![pc'[b]] = "orig"]
  BY <1>1, <1>2, <1>3 DEF ProcessHit
<1>5. /\ threads'[b].past = pc[b] - 1 /\ threads'[b].count = HIT
      /\ threads'[b].step = threads[b].step /\ threads'[b].was_step = threads[b].was_step
      /\ threads'[b].trace = threads[b].trace
  BY <1>b, <1>s, <1>1 DEF ProcessHit, Rewind, E2dbgThread
<1>6. ~threads[b].step /\ ~threads[b].was_step /\ ~threads[b].trace
  BY DEF StillInv, Still
<1> QED
  BY <1>2, <1>3, <1>4, <1>5, <1>6 DEF March

(* A count: the march goes on, or the breakpoint is written again. *)
LEMMA StillCount ==
  ASSUME NEW b, NEW R, OneBreaker(b, R), StillInv(b, R), ProcessCount(b)
  PROVE  /\ March(b) /\ pc[b] \in Instr /\ UNCHANGED <<bp, pc>>
         /\ at[b] = "process" /\ at'[b] = "finish"
         /\ ~threads'[b].step /\ ~threads'[b].was_step /\ ~threads'[b].trace
         /\ threads[b].past \in bp => mem[threads[b].past] = "orig"
         /\ \/ /\ threads[b].count = HIT /\ threads'[b].count = EXEC /\ March(b)'
               /\ threads'[b].past = threads[b].past /\ UNCHANGED <<saved, mem>>
            \/ /\ threads[b].past \in bp /\ threads'[b].past = 0
               /\ e2dbg_setbreak(threads[b].past)
            \/ /\ threads[b].past \notin bp /\ threads'[b].past = threads[b].past
               /\ UNCHANGED <<saved, mem>>
<1> USE E2dbgAssumption
<1>b. b \in Threads /\ TypeInv
  BY DEF OneBreaker, StillInv, LoneInv
<1>s. /\ at \in [Threads -> Points] /\ tf \in [Threads -> BOOLEAN]
      /\ threads \in [Threads -> E2dbgThread] /\ mem \in [Instr -> {"orig", "int3"}]
      /\ pc \in [Threads -> Instr \cup {a + 1 : a \in Instr}] /\ bp \subseteq Instr
  BY <1>b DEF TypeInv, TypeOK
<1>1. stoppedthread = b
  BY OwnStopped DEF ProcessCount, StillInv
<1>2. /\ at[b] = "process" /\ ~NewlyHit(pc[b] - 1) /\ at'[b] = "finish"
      /\ UNCHANGED <<bp, pc, curbp>> /\ ~threads[b].step
  BY <1>b, <1>s, <1>1 DEF ProcessCount
<1>3. ~Struck(b)
  BY <1>2 DEF Struck, NewlyHit, StillInv, SavedIsOriginal
<1>4. March(b) /\ pc[b] \in Instr
  BY <1>2, <1>3 DEF StillInv, LoneInv, Phase, BreakerPc, Trapping
<1>5. threads[b].past \in bp => mem[threads[b].past] = "orig"
  <2> SUFFICES ASSUME threads[b].past \in bp, mem[threads[b].past] = "int3" PROVE FALSE
    BY <1>s
  <2>1. pc[b] = threads[b].past + 1
    BY <1>2 DEF StillInv, SetAgain
  <2>2. threads[b].past \in Nat
    BY <1>s
  <2>3. pc[b] - 1 = threads[b].past
    BY <2>1, <2>2
  <2> QED
    BY <1>3, <2>3 DEF Struck
<1> DEFINE n == threads[b].count + 1
           counted == Counted(b, n)
<1>6. n \in {EXEC, FINISHED} /\ n \in 0 .. BREAK_MAX + 1 /\ (n = EXEC => threads[b].count = HIT)
  BY <1>4 DEF March, HIT, EXEC, FINISHED, BREAK_MAX
<1>7. IF n = EXEC THEN threads' = counted /\ UNCHANGED <<saved, mem, tf>>
                  ELSE e2dbg_breakpoint_reinstall(counted, b)
  BY <1>1, <1>6 DEF ProcessCount, Counted, EXEC, FINISHED, BREAK_MAX
<1> HIDE DEF n
<1>8. /\ counted \in [Threads -> E2dbgThread] /\ counted[b].count = n
      /\ counted[b].step = threads[b].step /\ counted[b].was_step = threads[b].was_step
      /\ counted[b].trace = threads[b].trace /\ counted[b].past = threads[b].past
  BY <1>b, <1>s, <1>6, CountedFields
<1> HIDE DEF counted
<1>9. ~threads[b].step /\ ~threads[b].was_step /\ ~threads[b].trace
  BY DEF StillInv, Still
<1>10. CASE n = EXEC
  <2>1. March(b)'
    BY <1>2, <1>4, <1>7, <1>8, <1>10 DEF March
  <2> QED
    BY <1>2, <1>4, <1>5, <1>6, <1>7, <1>8, <1>9, <1>10, <2>1
<1>11. CASE n # EXEC
  <2>1. ~threads'[b].step /\ ~threads'[b].was_step /\ ~threads'[b].trace
    BY <1>b, <1>7, <1>8, <1>9, <1>11, ReinstallFields
  <2>2. CASE threads[b].past \in bp
    <3>1. threads' = [counted EXCEPT ![b].past = 0] /\ e2dbg_setbreak(threads[b].past)
      BY <1>7, <1>8, <1>11, <2>2 DEF e2dbg_breakpoint_reinstall
    <3>2. threads'[b].past = 0
      BY <1>b, <1>8, <3>1 DEF E2dbgThread
    <3> QED
      BY <1>2, <1>4, <1>5, <2>1, <2>2, <3>1, <3>2
  <2>3. CASE threads[b].past \notin bp
    BY <1>2, <1>4, <1>5, <1>7, <1>8, <1>11, <2>1, <2>3 DEF e2dbg_breakpoint_reinstall
  <2> QED
    BY <2>2, <2>3
<1> QED
  BY <1>10, <1>11

(* The end of the handler keeps the march, or ends it. *)
LEMMA StillFinish ==
  ASSUME NEW b, NEW R, OneBreaker(b, R), StillInv(b, R), FinishHandler(b)
  PROVE  /\ at[b] = "finish" /\ at'[b] = "return" /\ UNCHANGED <<code, cpu>>
         /\ threads'[b].past = threads[b].past
         /\ ~threads'[b].step /\ ~threads'[b].was_step /\ ~threads'[b].trace
         /\ March(b) => March(b)' /\ threads'[b].count = threads[b].count
<1>b. b \in Threads /\ TypeInv
  BY DEF OneBreaker, StillInv, LoneInv
<1>s. at \in [Threads -> Points] /\ threads \in [Threads -> E2dbgThread]
  BY <1>b DEF TypeInv, TypeOK
<1>1. stoppedthread = b
  BY OwnStopped DEF FinishHandler, StillInv
<1>2. at[b] = "finish" /\ at'[b] = "return" /\ UNCHANGED <<code, cpu>>
  BY <1>b, <1>s DEF FinishHandler
<1>3. ~threads[b].step /\ ~threads[b].was_step /\ ~threads[b].trace
  BY DEF StillInv, Still
<1>4. CASE Released(threads[b])
  <2> DEFINE c == contall(threads)
             ths == [c EXCEPT ![b].was_step = FALSE, ![b].count = NONE]
  <2>1. threads' = ths
    BY <1>1, <1>4 DEF FinishHandler
  <2>2. c \in [Threads -> E2dbgThread] /\ c[b] = threads[b]
    BY <1>b, <1>s, <1>1, ContallType, ContallStopped
  <2> HIDE DEF c
  <2>3. /\ ~threads'[b].was_step /\ threads'[b].step = threads[b].step
        /\ threads'[b].trace = threads[b].trace /\ threads'[b].past = threads[b].past
    BY <1>b, <2>1, <2>2 DEF E2dbgThread
  <2>4. ~March(b)
    BY <1>4 DEF March, Released, HIT, EXEC, FINISHED
  <2> QED
    BY <1>2, <1>3, <2>3, <2>4
<1>5. CASE ~Released(threads[b])
  <2>1. threads' = threads /\ curbp' = curbp
    BY <1>1, <1>5 DEF FinishHandler
  <2>2. SameFields(b)
    BY <1>b, <1>s, <2>1 DEF SameFields, E2dbgThread
  <2>3. March(b) => March(b)'
    BY <1>2, <2>1, <2>2 DEF March, SameFields, cpu
  <2> QED
    BY <1>2, <1>3, <2>2, <2>3 DEF SameFields
<1> QED
  BY <1>4, <1>5

(* The return of the handler. *)
LEMMA StillReturn ==
  ASSUME NEW b, NEW R, OneBreaker(b, R), StillInv(b, R), ReturnHandler(b)
  PROVE  /\ at[b] = "return" /\ at'[b] = "user" /\ UNCHANGED <<curbp, code, cpu>>
         /\ SameFields(b)
<1>b. b \in Threads /\ TypeInv
  BY DEF OneBreaker, StillInv, LoneInv
<1>s. at \in [Threads -> Points] /\ threads \in [Threads -> E2dbgThread]
  BY <1>b DEF TypeInv, TypeOK
<1>1. stoppedthread = b
  BY OwnStopped DEF ReturnHandler, StillInv
<1>2. at[b] = "return" /\ at'[b] = "user" /\ UNCHANGED <<curbp, code, cpu>>
  BY <1>b, <1>s DEF ReturnHandler
<1>3. SameFields(b)
  BY <1>b, <1>s, <1>1 DEF ReturnHandler, SameFields, E2dbgThread
<1> QED
  BY <1>2, <1>3

(* Up to the processing of the trap. *)
LEMMA StillEnter ==
  ASSUME NEW b, NEW R, OneBreaker(b, R), StillInv(b, R),
         EnterHandler(b) \/ LockHandler(b) \/ StopOthers(b) \/ StopNoEntry(b)
  PROVE  /\ at[b] \in Trapping /\ at'[b] \in Trapping /\ UNCHANGED <<curbp, code, cpu>>
         /\ SameFields(b)
<1>b. b \in Threads /\ TypeInv
  BY DEF OneBreaker, StillInv, LoneInv
<1>s. at \in [Threads -> Points] /\ threads \in [Threads -> E2dbgThread]
  BY <1>b DEF TypeInv, TypeOK
<1>1. at[b] \in Trapping /\ at'[b] \in Trapping /\ UNCHANGED <<curbp, code, cpu>>
  BY <1>b, <1>s DEF EnterHandler, LockHandler, StopOthers, StopNoEntry, Trapping, world
<1>2. SameFields(b)
  BY <1>b, <1>s DEF EnterHandler, LockHandler, StopOthers, StopNoEntry, SameFields, world,
                    E2dbgThread
<1> QED
  BY <1>1, <1>2

(* A command that sets or deletes a breakpoint. *)
LEMMA StillBreakpoints ==
  ASSUME NEW b, NEW R, OneBreaker(b, R), StillInv(b, R),
         NEW a \in BpAddrs, cmd_bp(b, a) \/ cmd_delete(b, a)
  PROVE  /\ at[b] = "hit" /\ UNCHANGED <<world, cpu, at>>
         /\ \/ /\ a \notin bp /\ bp' = bp \cup {a} /\ saved' = [saved EXCEPT ![a] = "orig"]
               /\ mem' = [mem EXCEPT ![a] = "int3"]
            \/ /\ a \in bp /\ bp' = bp \ {a} /\ saved' = saved
               /\ mem' = [mem EXCEPT ![a] = "orig"]
<1> USE E2dbgAssumption
<1>1. at[b] = "hit" /\ UNCHANGED <<world, cpu, at>>
  BY DEF cmd_bp, cmd_delete, Prompt, StillInv, Still
<1>2. CASE cmd_bp(b, a)
  <2>1. a \notin bp /\ mem[a] = "orig"
    BY <1>2 DEF cmd_bp, StillInv, SavedIsOriginal
  <2> QED
    BY <1>1, <1>2, <2>1 DEF cmd_bp, e2dbg_setbreak
<1>3. CASE cmd_delete(b, a)
  <2>1. a \in bp /\ saved[a] = "orig"
    BY <1>3 DEF cmd_delete, StillInv, SavedIsOriginal
  <2> QED
    BY <1>1, <1>3, <2>1 DEF cmd_delete
<1> QED
  BY <1>2, <1>3

(* Without step and itrace, a step of b is one of these. *)
LEMMA StillOwn ==
  ASSUME NEW b, NEW R, OneBreaker(b, R), StillInv(b, R), NoStepCommand, Own(b)
  PROVE  \/ Execute(b)
         \/ EnterHandler(b) \/ LockHandler(b) \/ StopOthers(b) \/ StopNoEntry(b)
         \/ ProcessHit(b) \/ ProcessCount(b) \/ FinishHandler(b) \/ ReturnHandler(b)
         \/ cmd_cont(b)
         \/ \E a \in BpAddrs : cmd_bp(b, a) \/ cmd_delete(b, a)
<1>1. ASSUME ProcessStep(b) PROVE FALSE
  <2>1. stoppedthread = b
    BY <1>1, OwnStopped DEF ProcessStep, StillInv
  <2> QED
    BY <1>1, <2>1 DEF ProcessStep, StillInv, Still
<1>2. ~cmd_next(b) /\ ~cmd_itrace(b)
  BY DEF cmd_next, cmd_itrace, NoStepCommand
<1> QED
  BY <1>1, <1>2 DEF Own, Handler, User, Resume

(* b executes the trap byte, or an instruction. *)
LEMMA StillExecute ==
  ASSUME NEW b, NEW R, OneBreaker(b, R), StillInv(b, R), Execute(b)
  PROVE  /\ at[b] = "user" /\ UNCHANGED <<world, code, tf>> /\ pc[b] \in Instr
         /\ \/ /\ pc[b] \in bp /\ mem[pc[b]] = "int3" /\ pc'[b] = pc[b] + 1
               /\ at'[b] = "trap"
            \/ /\ mem[pc[b]] # "int3" /\ pc'[b] \in Succ[pc[b]]
               /\ at'[b] = IF tf[b] THEN "trap" ELSE "user"
<1> USE E2dbgAssumption
<1>s. /\ b \in Threads /\ at \in [Threads -> Points]
      /\ pc \in [Threads -> Instr \cup {a + 1 : a \in Instr}]
  BY DEF OneBreaker, StillInv, LoneInv, TypeInv, TypeOK
<1>1. at[b] = "user" /\ UNCHANGED <<world, code, tf>> /\ pc[b] \in Instr
  BY DEF Execute
<1>2. CASE mem[pc[b]] = "int3"
  <2>1. pc[b] \in bp
    BY <1>1, <1>2 DEF StillInv, SavedIsOriginal
  <2> QED
    BY <1>s, <1>1, <1>2, <2>1 DEF Execute, Trap
<1>3. CASE mem[pc[b]] # "int3"
  BY <1>s, <1>1, <1>3 DEF Execute, Trap
<1> QED
  BY <1>2, <1>3

(* The bytes of the program, step by step of b. *)
LEMMA StillBytes ==
  ASSUME NEW b, NEW R, OneBreaker(b, R), StillInv(b, R), NoStepCommand, Own(b) \/ Quiet(b)
  PROVE  SavedIsOriginal'
<1> USE E2dbgAssumption
<1>s. /\ saved \in [Instr -> {"orig", "int3"}] /\ mem \in [Instr -> {"orig", "int3"}]
      /\ bp \subseteq Instr /\ BpAddrs \subseteq Instr /\ SavedIsOriginal
  BY DEF StillInv, LoneInv, TypeInv, TypeOK
<1>k. ASSUME UNCHANGED code PROVE SavedIsOriginal'
  BY <1>k, <1>s DEF SavedIsOriginal, code
<1>1. CASE Quiet(b)
  BY <1>k, <1>1 DEF Quiet
<1>2. CASE Execute(b) \/ FinishHandler(b) \/ ReturnHandler(b) \/ cmd_cont(b)
           \/ EnterHandler(b) \/ LockHandler(b) \/ StopOthers(b) \/ StopNoEntry(b)
  BY <1>k, <1>2, StillExecute, StillFinish, StillReturn, StillCont, StillEnter
<1>3. CASE ProcessHit(b)
  <2>1. PICK p \in bp : mem' = [mem EXCEPT ![p] = "orig"] /\ UNCHANGED <<bp, saved>>
    BY <1>3, StillHit
  <2> QED
    BY <1>s, <2>1 DEF SavedIsOriginal
<1>4. CASE ProcessCount(b)
  <2>1. /\ bp' = bp /\ (threads[b].past \in bp => mem[threads[b].past] = "orig")
        /\ \/ UNCHANGED <<saved, mem>>
           \/ threads[b].past \in bp /\ e2dbg_setbreak(threads[b].past)
    BY <1>4, StillCount
  <2>2. CASE UNCHANGED <<saved, mem>>
    BY <1>k, <2>1, <2>2 DEF code
  <2>3. CASE threads[b].past \in bp /\ e2dbg_setbreak(threads[b].past)
    <3>1. PICK p \in bp : saved' = [saved EXCEPT ![p] = "orig"]
                         /\ mem' = [mem EXCEPT ![p] = "int3"]
      BY <2>1, <2>3 DEF e2dbg_setbreak
    <3> QED
      BY <1>s, <2>1, <3>1 DEF SavedIsOriginal
  <2> QED
    BY <2>1, <2>2, <2>3
<1>5. CASE \E a \in BpAddrs : cmd_bp(b, a) \/ cmd_delete(b, a)
  <2>1. PICK a \in BpAddrs :
           \/ /\ a \notin bp /\ bp' = bp \cup {a} /\ saved' = [saved EXCEPT ![a] = "orig"]
              /\ mem' = [mem EXCEPT ![a] = "int3"]
           \/ /\ a \in bp /\ bp' = bp \ {a} /\ saved' = saved
              /\ mem' = [mem EXCEPT ![a] = "orig"]
    BY <1>5, StillBreakpoints
  <2>2. a \in Instr
    BY <1>s
  <2>3. CASE /\ bp' = bp \cup {a} /\ saved' = [saved EXCEPT ![a] = "orig"]
             /\ mem' = [mem EXCEPT ![a] = "int3"]
    <3>1. \A x \in bp' : saved'[x] = "orig"
      BY <1>s, <2>2, <2>3 DEF SavedIsOriginal
    <3>2. \A x \in Instr \ bp' : mem'[x] = "orig"
      BY <1>s, <2>2, <2>3 DEF SavedIsOriginal
    <3> QED
      BY <3>1, <3>2 DEF SavedIsOriginal
  <2>4. CASE bp' = bp \ {a} /\ saved' = saved /\ mem' = [mem EXCEPT ![a] = "orig"]
    BY <1>s, <2>2, <2>4 DEF SavedIsOriginal
  <2> QED
    BY <2>1, <2>3, <2>4
<1> QED
  BY <1>1, <1>2, <1>3, <1>4, <1>5, StillOwn

(* The march when nothing of it changes. *)
LEMMA MarchFrame ==
  ASSUME NEW b, curbp' = curbp, tf'[b] = tf[b], SameFields(b) PROVE March(b)' = March(b)
BY DEF March, SameFields

(* The march of b over the breakpoint. *)
LEMMA StillMarch ==
  ASSUME NEW b, NEW R, OneBreaker(b, R), StillInv(b, R), NoStepCommand, Own(b) \/ Quiet(b)
  PROVE  Still(b)' /\ AtHit(b)' /\ SetAgain(b)'
<1> USE E2dbgAssumption
<1>s. /\ saved \in [Instr -> {"orig", "int3"}] /\ mem \in [Instr -> {"orig", "int3"}]
      /\ bp \subseteq Instr /\ BpAddrs \subseteq Instr /\ 0 \notin Instr
      /\ Still(b) /\ AtHit(b) /\ SetAgain(b)
  BY DEF StillInv, LoneInv, TypeInv, TypeOK
<1>1. CASE Quiet(b)
  <2>1. March(b)' = March(b)
    BY <1>1, MarchFrame DEF Quiet
  <2> QED
    BY <1>s, <1>1, <2>1 DEF Quiet, SameFields, Still, AtHit, SetAgain, March, Aside,
                            Trapping, code
<1>2. CASE Execute(b)
  <2>1. /\ at[b] = "user" /\ UNCHANGED <<world, code, tf>> /\ pc[b] \in Instr
        /\ \/ /\ pc[b] \in bp /\ mem[pc[b]] = "int3" /\ pc'[b] = pc[b] + 1
              /\ at'[b] = "trap"
           \/ /\ mem[pc[b]] # "int3" /\ pc'[b] \in Succ[pc[b]]
              /\ at'[b] = IF tf[b] THEN "trap" ELSE "user"
    BY <1>2, StillExecute
  <2> QED
    BY <1>s, <2>1 DEF Still, AtHit, SetAgain, Trapping, world, code
<1>3. CASE EnterHandler(b) \/ LockHandler(b) \/ StopOthers(b) \/ StopNoEntry(b)
  <2>1. /\ at[b] \in Trapping /\ at'[b] \in Trapping /\ UNCHANGED <<curbp, code, cpu>>
        /\ SameFields(b)
    BY <1>3, StillEnter
  <2> QED
    BY <1>s, <2>1 DEF SameFields, Still, AtHit, SetAgain, Trapping, code, cpu
<1>4. CASE ProcessHit(b)
  <2>1. /\ pc[b] - 1 \in bp /\ pc'[b] = pc[b] - 1 /\ threads'[b].past = pc'[b]
        /\ mem' = [mem EXCEPT ![pc'[b]] = "orig"]
        /\ at'[b] = "hit" /\ March(b)' /\ threads'[b].count = HIT
        /\ ~threads'[b].step /\ ~threads'[b].was_step /\ ~threads'[b].trace
    BY <1>4, StillHit
  <2>2. mem'[threads'[b].past] = "orig"
    BY <1>s, <2>1
  <2> QED
    BY <2>1, <2>2 DEF Still, AtHit, SetAgain
<1>5. CASE ProcessCount(b)
  <2>1. /\ at'[b] = "finish" /\ bp' = bp
        /\ ~threads'[b].step /\ ~threads'[b].was_step /\ ~threads'[b].trace
        /\ threads[b].past \in bp => mem[threads[b].past] = "orig"
        /\ \/ threads'[b].past = threads[b].past /\ UNCHANGED <<saved, mem>>
           \/ threads'[b].past = 0
    BY <1>5, StillCount
  <2>2. ~(threads'[b].past \in bp' /\ mem'[threads'[b].past] = "int3")
    BY <1>s, <2>1
  <2> QED
    BY <2>1, <2>2 DEF Still, AtHit, SetAgain
<1>6. CASE FinishHandler(b)
  <2>1. /\ at[b] = "finish" /\ at'[b] = "return" /\ UNCHANGED <<code, cpu>>
        /\ threads'[b].past = threads[b].past
        /\ ~threads'[b].step /\ ~threads'[b].was_step /\ ~threads'[b].trace
        /\ March(b) => March(b)' /\ threads'[b].count = threads[b].count
    BY <1>6, StillFinish
  <2> QED
    BY <1>s, <2>1 DEF Still, AtHit, SetAgain, Trapping, code, cpu
<1>7. CASE cmd_cont(b)
  <2>1. /\ at[b] = "hit" /\ at'[b] = "finish" /\ tf'[b] = tf[b] /\ SameFields(b)
        /\ UNCHANGED <<curbp, code, pc>>
    BY <1>7, StillCont
  <2>2. March(b)' = March(b)
    BY <2>1, MarchFrame
  <2> QED
    BY <1>s, <2>1, <2>2 DEF SameFields, Still, AtHit, SetAgain, Trapping, code
<1>8. CASE \E a \in BpAddrs : cmd_bp(b, a) \/ cmd_delete(b, a)
  <2>1. /\ at[b] = "hit" /\ UNCHANGED <<world, cpu, at>>
        /\ \E a \in BpAddrs :
              \/ bp' = bp \cup {a} /\ mem' = [mem EXCEPT ![a] = "int3"]
              \/ bp' = bp \ {a} /\ mem' = [mem EXCEPT ![a] = "orig"]
    BY <1>8, StillBreakpoints
  <2>2. March(b)' = March(b)
    BY <2>1 DEF March, world, cpu
  <2>3. /\ March(b) /\ threads[b].count = HIT /\ pc[b] = threads[b].past
    BY <1>s, <2>1 DEF AtHit
  <2> QED
    BY <1>s, <2>1, <2>2, <2>3 DEF Still, AtHit, SetAgain, world, cpu
<1>9. CASE ReturnHandler(b)
  <2>1. /\ at[b] = "return" /\ at'[b] = "user" /\ UNCHANGED <<curbp, code, cpu>>
        /\ SameFields(b)
    BY <1>9, StillReturn
  <2>2. March(b)' = March(b)
    BY <2>1, MarchFrame DEF cpu
  <2> QED
    BY <1>s, <2>1, <2>2 DEF SameFields, Still, AtHit, SetAgain, Trapping, code, cpu
<1> QED
  BY <1>1, <1>2, <1>3, <1>4, <1>5, <1>6, <1>7, <1>8, <1>9, StillOwn

\* Every step keeps it.
LEMMA StillNext ==
  ASSUME NEW b, NEW R, OneBreaker(b, R), NoStepCommand, StillInv(b, R), [Next]_vars
  PROVE  StillInv(b, R)' /\ (Quiet(b) \/ Own(b))
<1>1. LoneInv(b, R)' /\ (Quiet(b) \/ Own(b))
  BY LoneNext DEF StillInv
<1> QED
  BY <1>1, StillBytes, StillMarch DEF StillInv

-----------------------------------------------------------------------------
(* What a process with one breaking thread guarantees. *)

\* The commands for which the saved bytes are shown to be those of the program.
BreakOrStep == NoBreakCommand \/ NoStepCommand

\* The invariant of a process with one breaking thread.
LEMMA LoneAlways ==
  ASSUME NEW b, NEW R, OneBreaker(b, R), BreakOrStep
  PROVE  Spec => [](LoneInv(b, R) /\ SavedIsOriginal)
<1>1. ASSUME NoBreakCommand PROVE Spec => [](LoneInv(b, R) /\ SavedIsOriginal)
  <2> DEFINE Inv == ByteInv /\ LoneInv(b, R)
  <2>1. Init => Inv
    BY ByteInit, LoneInit
  <2>2. Inv /\ [Next]_vars => Inv'
    BY <1>1, ByteNext, LoneNext DEF ByteInv
  <2>3. Inv => LoneInv(b, R) /\ SavedIsOriginal
    BY DEF ByteInv
  <2> QED
    BY <2>1, <2>2, <2>3, PTL DEF Spec
<1>2. ASSUME NoStepCommand PROVE Spec => [](LoneInv(b, R) /\ SavedIsOriginal)
  <2>1. Init => StillInv(b, R)
    BY StillInit
  <2>2. StillInv(b, R) /\ [Next]_vars => StillInv(b, R)'
    BY <1>2, StillNext
  <2>3. StillInv(b, R) => LoneInv(b, R) /\ SavedIsOriginal
    BY DEF StillInv
  <2> QED
    BY <2>1, <2>2, <2>3, PTL DEF Spec
<1> QED
  BY <1>1, <1>2 DEF BreakOrStep

(* When breakpoints stop one thread only and the user does not step, breakpoints may
   also be set at the prompt, even the one that was just hit after deleting it: the
   debugger never saves a trap byte as a byte of the program. *)
THEOREM SavedIsOriginalBreaker ==
  ASSUME NEW b, NEW R, OneBreaker(b, R), NoStepCommand
  PROVE  Spec => []SavedIsOriginal
<1>1. BreakOrStep
  BY DEF BreakOrStep
<1>2. Spec => [](LoneInv(b, R) /\ SavedIsOriginal)
  BY <1>1, LoneAlways
<1> QED
  BY <1>2, PTL

(* The breaking thread is a created one, or the only one. *)
OwnName(b) == b = Initial => Threads = {Initial}

(* While the initial thread is the only one, e2dbg_self() names it. *)
Single == threadnbr = 1 /\ at[Initial] \notin {"s_setsig", "s_lock", "s_set", "s_body"}

LEMMA SingleInit == ASSUME Threads = {Initial}, Init PROVE Single
<1>1. Threads \ Unborn = {Initial} /\ at[Initial] = "user"
  BY E2dbgAssumption DEF Init
<1>2. Cardinality({Initial}) = 1
  BY FS_Singleton
<1> QED
  BY <1>1, <1>2 DEF Init, Single

LEMMA SingleNext ==
  ASSUME Threads = {Initial}, TypeInv, Single, [Next]_vars PROVE Single'
<1> USE E2dbgAssumption
<1>s. at \in [Threads -> Points]
  BY DEF TypeInv, TypeOK
<1>1. CASE UNCHANGED vars
  BY <1>1 DEF Single, vars, world
<1>2. CASE Next
  <2>1. PICK t \in Threads : Execute(t) \/ Handler(t) \/ Usr2(t) \/ Hook(t)
                                \/ CreateLock(t) \/ User(t)
    BY <1>2 DEF Next
  <2>2. t = Initial /\ Unborn = {}
    OBVIOUS
  <2>3. CASE Execute(t)
    BY <1>s, <2>2, <2>3 DEF Execute, Trap, world, Single
  <2>4. CASE Handler(t)
    <3>1. /\ threadnbr' = threadnbr
          /\ at' = at \/ \E q \in {"set", "break", "process", "hit", "stepping", "finish",
                                   "return", "user"} : at' = [at EXCEPT ![t] = q]
      BY <2>4 DEF Handler, EnterHandler, LockHandler, StopOthers, StopNoEntry, ProcessHit,
                  ProcessStep, ProcessCount, FinishHandler, ReturnHandler, world
    <3> QED
      BY <1>s, <2>2, <3>1 DEF Single
  <2>5. CASE Usr2(t)
    BY <2>5 DEF Usr2, Usr2Enter, Usr2Lock, Usr2Set, Usr2Unlock, Usr2Leave, world, Single
  <2>6. CASE Hook(t) \/ CreateLock(t)
    <3>1. /\ threadnbr' = threadnbr
          /\ \E q \in {"c_set", "c_make", "user"} : at' = [at EXCEPT ![t] = q]
      BY <2>2, <2>6 DEF Hook, CreateLock, CreateSet, CreateAdd, StartSetsig, StartLock,
                        StartSet, StartBody, world, Single
    <3> QED
      BY <1>s, <2>2, <3>1 DEF Single
  <2>7. CASE User(t)
    <3>1. threadnbr' = threadnbr /\ (at' = at \/ at' = [at EXCEPT ![t] = "finish"])
      BY <2>7 DEF User, Resume, cmd_cont, cmd_next, cmd_itrace, cmd_bp, cmd_delete,
                  LeavePrompt, world
    <3> QED
      BY <1>s, <2>2, <3>1 DEF Single
  <2> QED
    BY <2>1, <2>3, <2>4, <2>5, <2>6, <2>7
<1> QED
  BY <1>1, <1>2

(* When breakpoints stop one thread only, a created one or the only one, whatever the
   other threads run, make and wait for, and for every program: a mutex that is held
   when all threads run belongs to a thread that will trap again for its breakpoint,
   that e2dbg_generic_breakpoint will know as the owner, and that will release it.  The
   user continues and deletes breakpoints at will, and either sets new ones or steps
   and traces. *)
THEOREM MutexNotLeakedBreaker ==
  ASSUME NEW b, NEW R, OneBreaker(b, R), OwnName(b), BreakOrStep
  PROVE  Spec => []MutexNotLeaked
<1>1. Spec => [](LoneInv(b, R) /\ SavedIsOriginal)
  BY LoneAlways
<1>2. ASSUME b # Initial PROVE Spec => []MutexNotLeaked
  <2>1. LoneInv(b, R) => MutexNotLeaked
    BY <1>2, LoneSafe DEF e2dbg_self
  <2> QED
    BY <1>1, <2>1, PTL
<1>3. ASSUME b = Initial PROVE Spec => []MutexNotLeaked
  <2>0. Threads = {Initial}
    BY <1>3 DEF OwnName
  <2>1. Init => TypeInv /\ Single
    BY <2>0, TypeInit, SingleInit
  <2>2. TypeInv /\ Single /\ [Next]_vars => (TypeInv /\ Single)'
    BY <2>0, TypeNext, SingleNext
  <2>3. LoneInv(b, R) /\ Single => MutexNotLeaked
    BY LoneSafe DEF e2dbg_self, Single
  <2> QED
    BY <1>1, <2>1, <2>2, <2>3, PTL DEF Spec
<1> QED
  BY <1>2, <1>3

(* Likewise no thread goes on in the middle of an instruction whose first byte was
   replaced: e2dbg_breakpoint_process takes bpsz off the pc.  Breakpoints may be on
   neighbouring instructions and on instructions of one byte. *)
THEOREM PcAtInstructionBreaker ==
  ASSUME NEW b, NEW R, OneBreaker(b, R), BreakOrStep
  PROVE  Spec => []PcAtInstruction
<1>1. Spec => [](LoneInv(b, R) /\ SavedIsOriginal)
  BY LoneAlways
<1>2. LoneInv(b, R) => PcAtInstruction
  BY LoneSafe
<1> QED
  BY <1>1, <1>2, PTL

-----------------------------------------------------------------------------
(* No breakpoint is lost. *)

(* Control does not go from a breakpoint straight to another one, and the
   instructions under breakpoints have more than one byte. *)
Apart ==
  /\ \A a \in BpAddrs : Succ[a] \cap BpAddrs = {}
  /\ \A a \in BpAddrs : a + 1 \notin Instr

(* A breakpoint that is out of memory is the one b marches over: b stands on it,
   or has executed its instruction and traps. *)
OutOfMemory(b) ==
  \A a \in bp : mem[a] = "orig" =>
    /\ threads[b].past = a /\ March(b)
    /\ \/ /\ at[b] \in {"hit", "finish", "return", "user"}
          /\ threads[b].count = HIT => pc[b] = a
          /\ threads[b].count = EXEC => pc[b] \in Instr \ BpAddrs
       \/ /\ at[b] \in Trapping /\ pc[b] \in Instr
          /\ threads[b].count = HIT => pc[b] \notin BpAddrs

\* The inductive invariant for NoLostBreakpoint.
OutInv(b, R) == StillInv(b, R) /\ OutOfMemory(b)

\* It holds at the start.
LEMMA OutInit ==
  ASSUME NEW b, NEW R, OneBreaker(b, R), Init PROVE OutInv(b, R)
<1>1. OutOfMemory(b)
  BY E2dbgAssumption DEF Init, OutOfMemory
<1> QED
  BY <1>1, StillInit DEF OutInv

\* Every step keeps it.
LEMMA OutNext ==
  ASSUME NEW b, NEW R, OneBreaker(b, R), NoStepCommand, Apart, OutInv(b, R), [Next]_vars
  PROVE  OutInv(b, R)'
<1> USE E2dbgAssumption
<1>0. StillInv(b, R) /\ StillInv(b, R)' /\ (Quiet(b) \/ Own(b))
  BY StillNext DEF OutInv
<1>s. /\ mem \in [Instr -> {"orig", "int3"}]
      /\ bp \subseteq BpAddrs /\ BpAddrs \subseteq Instr /\ 0 \notin Instr
      /\ OutOfMemory(b)
  BY DEF OutInv, StillInv, LoneInv, TypeInv, TypeOK
<1> SUFFICES OutOfMemory(b)'
  BY <1>0 DEF OutInv
<1>1. CASE Quiet(b)
  <2>1. March(b)' = March(b)
    BY <1>1, MarchFrame DEF Quiet
  <2> QED
    BY <1>s, <1>1, <2>1 DEF Quiet, SameFields, OutOfMemory, March, Aside, Trapping, code
<1>2. CASE Execute(b)
  <2>1. /\ at[b] = "user" /\ UNCHANGED <<world, code, tf>> /\ pc[b] \in Instr
        /\ \/ /\ pc[b] \in bp /\ mem[pc[b]] = "int3"
           \/ /\ mem[pc[b]] # "int3" /\ pc'[b] \in Succ[pc[b]]
              /\ at'[b] = IF tf[b] THEN "trap" ELSE "user"
    BY <1>0, <1>2, StillExecute
  <2>2. March(b)' = March(b)
    BY <2>1 DEF March, world
  <2> SUFFICES ASSUME NEW a \in bp, mem[a] = "orig"
               PROVE  /\ threads[b].past = a /\ March(b) /\ at'[b] = "trap"
                      /\ pc'[b] \in Instr
                      /\ threads[b].count = HIT => pc'[b] \notin BpAddrs
    BY <2>1, <2>2 DEF OutOfMemory, Trapping, world, code
  <2>3. /\ threads[b].past = a /\ March(b) /\ tf[b]
        /\ threads[b].count = HIT => pc[b] = a
        /\ threads[b].count = EXEC => pc[b] \in Instr \ BpAddrs
    BY <1>s, <2>1 DEF OutOfMemory, Trapping, March
  <2>4. mem[pc[b]] # "int3" /\ pc'[b] \in Succ[pc[b]] /\ at'[b] = "trap"
    BY <1>s, <2>1, <2>3 DEF March
  <2>5. pc'[b] \in Instr
    BY <2>1, <2>4
  <2> QED
    BY <1>s, <2>3, <2>4, <2>5 DEF Apart
<1>3. CASE EnterHandler(b) \/ LockHandler(b) \/ StopOthers(b) \/ StopNoEntry(b)
  <2>1. /\ at[b] \in Trapping /\ at'[b] \in Trapping /\ UNCHANGED <<curbp, code, cpu>>
        /\ SameFields(b)
    BY <1>0, <1>3, StillEnter
  <2>2. March(b)' = March(b)
    BY <2>1, MarchFrame DEF cpu
  <2> QED
    BY <1>s, <2>1, <2>2 DEF SameFields, OutOfMemory, Trapping, code, cpu
<1>4. CASE ProcessHit(b)
  <2>1. /\ pc[b] - 1 \in bp /\ pc'[b] = pc[b] - 1 /\ threads'[b].past = pc'[b]
        /\ mem' = [mem EXCEPT ![pc'[b]] = "orig"] /\ bp' = bp
        /\ at[b] = "process" /\ at'[b] = "hit" /\ March(b)' /\ threads'[b].count = HIT
    BY <1>0, <1>4, StillHit
  \* The thread is behind a breakpoint, so that no other one is out of memory.
  <2>2. pc[b] \notin Instr
    <3>1. PICK p \in bp : p = pc[b] - 1
      BY <2>1
    <3>2. pc[b] \in Nat
      <4>1. pc[b] \in Instr \cup {x + 1 : x \in Instr}
        BY <1>0 DEF OneBreaker, StillInv, LoneInv, TypeInv, TypeOK
      <4>2. PICK x \in Instr : pc[b] = x \/ pc[b] = x + 1
        BY <4>1
      <4>3. x \in Nat
        OBVIOUS
      <4> QED
        BY <4>2, <4>3
    <3>3. pc[b] = p + 1
      BY <3>1, <3>2
    <3> QED
      BY <1>s, <3>1, <3>3 DEF Apart
  <2>3. \A a \in bp : mem[a] # "orig"
    BY <1>s, <2>1, <2>2 DEF OutOfMemory, Trapping
  <2>4. \A a \in bp : mem'[a] = "orig" => a = pc'[b]
    BY <1>s, <2>1, <2>3
  <2> QED
    BY <2>1, <2>4 DEF OutOfMemory, HIT, EXEC
<1>5. CASE ProcessCount(b)
  <2>1. /\ March(b) /\ pc[b] \in Instr /\ UNCHANGED <<bp, pc>>
        /\ at[b] = "process" /\ at'[b] = "finish"
        /\ \/ /\ threads[b].count = HIT /\ threads'[b].count = EXEC /\ March(b)'
              /\ threads'[b].past = threads[b].past /\ UNCHANGED <<saved, mem>>
           \/ /\ threads[b].past \in bp /\ threads'[b].past = 0
              /\ e2dbg_setbreak(threads[b].past)
           \/ /\ threads[b].past \notin bp /\ threads'[b].past = threads[b].past
              /\ UNCHANGED <<saved, mem>>
    BY <1>0, <1>5, StillCount
  <2>2. CASE /\ threads[b].count = HIT /\ threads'[b].count = EXEC /\ March(b)'
             /\ threads'[b].past = threads[b].past /\ UNCHANGED <<saved, mem>>
    BY <1>s, <2>1, <2>2 DEF OutOfMemory, Trapping, HIT, EXEC
  <2>3. CASE threads[b].past \in bp /\ e2dbg_setbreak(threads[b].past)
    <3>1. \A a \in bp : mem'[a] # "orig"
      BY <1>s, <2>3 DEF OutOfMemory, e2dbg_setbreak
    <3> QED
      BY <2>1, <3>1 DEF OutOfMemory
  <2>4. CASE threads[b].past \notin bp /\ UNCHANGED <<saved, mem>>
    <3>1. \A a \in bp : mem'[a] # "orig"
      BY <1>s, <2>4 DEF OutOfMemory
    <3> QED
      BY <2>1, <3>1 DEF OutOfMemory
  <2> QED
    BY <2>1, <2>2, <2>3, <2>4
<1>6. CASE FinishHandler(b)
  <2>1. /\ at[b] = "finish" /\ at'[b] = "return" /\ UNCHANGED <<code, cpu>>
        /\ threads'[b].past = threads[b].past
        /\ March(b) => March(b)' /\ threads'[b].count = threads[b].count
    BY <1>0, <1>6, StillFinish
  <2> QED
    BY <1>s, <2>1 DEF OutOfMemory, Trapping, code, cpu
<1>7. CASE cmd_cont(b)
  <2>1. /\ at[b] = "hit" /\ at'[b] = "finish" /\ tf'[b] = tf[b] /\ SameFields(b)
        /\ UNCHANGED <<curbp, code, pc>>
    BY <1>0, <1>7, StillCont
  <2>2. March(b)' = March(b)
    BY <2>1, MarchFrame
  <2> QED
    BY <1>s, <2>1, <2>2 DEF SameFields, OutOfMemory, Trapping, code
<1>8. CASE \E a \in BpAddrs : cmd_bp(b, a) \/ cmd_delete(b, a)
  <2>1. /\ at[b] = "hit" /\ UNCHANGED <<world, cpu, at>>
        /\ \E a \in BpAddrs :
              \/ bp' = bp \cup {a} /\ mem' = [mem EXCEPT ![a] = "int3"]
              \/ bp' = bp \ {a} /\ mem' = [mem EXCEPT ![a] = "orig"]
    BY <1>0, <1>8, StillBreakpoints
  <2>2. March(b)' = March(b)
    BY <2>1 DEF March, world, cpu
  <2>3. \A a \in bp' : mem'[a] = "orig" => a \in bp /\ mem[a] = "orig"
    <3>1. PICK a \in BpAddrs : \/ bp' = bp \cup {a} /\ mem' = [mem EXCEPT ![a] = "int3"]
                               \/ bp' = bp \ {a} /\ mem' = [mem EXCEPT ![a] = "orig"]
      BY <2>1
    <3>2. CASE bp' = bp \cup {a} /\ mem' = [mem EXCEPT ![a] = "int3"]
      BY <1>s, <3>2
    <3>3. CASE bp' = bp \ {a} /\ mem' = [mem EXCEPT ![a] = "orig"]
      BY <1>s, <3>3
    <3> QED
      BY <3>1, <3>2, <3>3
  <2> QED
    BY <1>s, <2>1, <2>2, <2>3 DEF OutOfMemory, world, cpu
<1>9. CASE ReturnHandler(b)
  <2>1. /\ at[b] = "return" /\ at'[b] = "user" /\ UNCHANGED <<curbp, code, cpu>>
        /\ SameFields(b)
    BY <1>0, <1>9, StillReturn
  <2>2. March(b)' = March(b)
    BY <2>1, MarchFrame DEF cpu
  <2> QED
    BY <1>s, <2>1, <2>2 DEF SameFields, OutOfMemory, Trapping, code, cpu
<1> QED
  BY <1>0, <1>1, <1>2, <1>3, <1>4, <1>5, <1>6, <1>7, <1>8, <1>9, StillOwn

(* When breakpoints stop one thread only, the user does not step and no breakpoint is
   in the way of another one (see Apart), a registered breakpoint that is not in memory
   is the one b remembers in past, and b will trap and write it again
   (e2dbg_breakpoint_reinstall); breakpoints are set and deleted at will. *)
THEOREM NoLostBreakpointBreaker ==
  ASSUME NEW b, NEW R, OneBreaker(b, R), NoStepCommand, Apart
  PROVE  Spec => []NoLostBreakpoint
<1>1. Init => OutInv(b, R)
  BY OutInit
<1>2. OutInv(b, R) /\ [Next]_vars => OutInv(b, R)'
  BY OutNext
<1>3. OutInv(b, R) => NoLostBreakpoint
  BY DEF OutInv, OutOfMemory, NoLostBreakpoint, March, OneBreaker
<1> QED
  BY <1>1, <1>2, <1>3, PTL DEF Spec
=============================================================================
