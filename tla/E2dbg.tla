------------------------------- MODULE E2dbg -------------------------------
(***************************************************************************)
(* The user land breakpoint machinery of libe2dbg, which lives inside the  *)
(* process it debugs: the SIGTRAP handler and its per thread state machine *)
(* (user/signal.c), the SIGUSR2 handler that parks the other threads, the  *)
(* hooks on thread creation (user/threads.c), the home made mutex          *)
(* (common/mutex.c) and the commands of the prompt (user/step.c,           *)
(* user/continue.c, common/breakpoints.c, common/delete.c).                *)
(*                                                                         *)
(* A breakpoint is the byte 0xCC written over the first byte of an         *)
(* instruction.  A thread that runs into it traps with its pc one byte     *)
(* further (bpsz = 1).  The handler puts the saved byte back, single steps *)
(* the thread twice (count: HIT, EXEC, FINISHED) and writes 0xCC again.    *)
(*                                                                         *)
(* A handler is cut into steps where it waits: at the test and at the      *)
(* store of the mutex, which are two separate accesses, at the usleep that *)
(* follows stopall, at the prompt, and where the mutex has been released   *)
(* but the handler still writes through e2dbgworld.stoppedthread.  The     *)
(* `threads' command is not modelled, so e2dbgworld.curthread is always    *)
(* e2dbgworld.stoppedthread; neither is pthread_exit.                      *)
(*                                                                         *)
(* When the debugger follows a NULL thread pointer, its SIGSEGV handler    *)
(* opens one more prompt with SIGSEGV ignored, on the same NULL thread:    *)
(* the model counts the process as killed there and goes no further.       *)
(***************************************************************************)
EXTENDS Integers, FiniteSets

CONSTANTS Threads,   \* threads of the debuggee
          Initial,   \* the thread that runs main (->initial = 1)
          Unborn,    \* threads that pthread_create has not made yet
          NULL,      \* the null pointer
          Instr,     \* addresses of the first bytes of the instructions
          Succ,      \* Succ[a]: where control may go after instruction a
          Start,     \* Start[t]: the address at which thread t starts
          BpAddrs,   \* addresses at which the user puts breakpoints
          Commands   \* commands the user types at the prompt

ASSUME E2dbgAssumption ==
  /\ IsFiniteSet(Threads)
  /\ Initial \in Threads
  /\ Unborn \subseteq Threads \ {Initial}
  /\ NULL \notin Threads
  /\ Instr \subseteq Nat \ {0}
  /\ Succ \in [Instr -> SUBSET Instr]
  /\ Start \in [Threads -> Instr]
  /\ BpAddrs \subseteq Instr
  /\ Commands \subseteq {"break", "delete", "continue", "step", "itrace"}

VARIABLES
  dbgbp,          \* e2dbgworld.dbgbp, the mutex
  curbp,          \* e2dbgworld.curbp->tid, or NULL when curbp is
  stoppedthread,  \* e2dbgworld.stoppedthread
  threads,        \* the structures of e2dbgworld.threads
  known,          \* threads that have an entry in e2dbgworld.threads
  threadnbr,      \* e2dbgworld.threadnbr: threads that have started
  bp,             \* addresses with an entry in e2dbgworld.bp
  saved,          \* bp->savedinstr[0]
  mem,            \* the first byte of each instruction
  pc, tf,         \* program counter and trap flag of each thread
  at,             \* where each thread is in its SIGTRAP handler or hook
  usr2,           \* where each thread is in its SIGUSR2 handler
  pending,        \* threads to which a SIGUSR2 was sent
  handled,        \* SETSIG (TRUE) or CLRSIG (FALSE) was executed last
  killed          \* the kernel terminated the process

world == <<curbp, stoppedthread, threads, known, threadnbr>>
code  == <<bp, saved, mem>>
cpu   == <<pc, tf>>
sig   == <<pending, handled, killed>>
vars  == <<dbgbp, world, code, cpu, at, usr2, sig>>

LOCKED   == "locked"
UNLOCKED == "unlocked"

\* count, the state of a thread's breakpoint
NONE     == 0
HIT      == 1
EXEC     == 2
FINISHED == 3
BREAK_MAX == 3

States == {"INIT", "STARTED", "BREAKING", "SIGUSR2", "RUNNING"}

\* The fields of e2dbgthread_t that drive the handlers; past is 0 or the
\* address of the breakpoint that has to be written again.
E2dbgThread == [state : States, count : 0 .. BREAK_MAX + 1,
                past : Instr \cup {0}, step : BOOLEAN, was_step : BOOLEAN,
                trace : BOOLEAN]

Points == {"none", "user",                                \* not made; running
           "trap", "set", "break", "process", "hit", "stepping", "finish", "return",
           "c_set", "c_make", "c_add",                    \* pthread_create
           "s_setsig", "s_lock", "s_set", "s_body"}  \* e2dbg_thread_start

Usr2Points == {"no", "lock", "set", "unlock", "leave"}

\* Where a thread has obtained the mutex and not given it back by itself.
Handling == {"break", "process", "hit", "stepping", "finish"}
Creating == {"c_make", "c_add", "s_body"}

-----------------------------------------------------------------------------
(* The mutex: the loop leaves when it reads UNLOCKED, the store follows.   *)

MutexTest == dbgbp = UNLOCKED

MutexSet == dbgbp' = LOCKED

\* Unlocking what is unlocked reports an error and changes nothing.
e2dbg_mutex_unlock == dbgbp' = UNLOCKED

-----------------------------------------------------------------------------
(* Stopping and continuing the other threads.                              *)

\* Threads to which e2dbg_thread_stopall(SIGUSR2) sends the signal when t
\* is the stopped thread.
StopTargets(ths, t) ==
  {u \in known \ {Initial, t} : ths[u].state \notin {"INIT", "BREAKING", "SIGUSR2"}}

\* e2dbg_thread_contall: what it leaves of the thread structures (SIGCONT
\* itself has no effect, the threads are not stopped by the kernel).
contall(ths) ==
  [u \in Threads |->
     IF /\ u \in known \ {Initial, stoppedthread}
        /\ ths[u].state \notin {"INIT", "SIGUSR2", "BREAKING"}
     THEN [ths[u] EXCEPT !.state = "RUNNING"]
     ELSE ths[u]]

-----------------------------------------------------------------------------
(* The debuggee.  A SIGTRAP that is raised while it is ignored kills the   *)
(* process.                                                                *)

Trap(t) ==
  /\ at' = [at EXCEPT ![t] = "trap"]
  /\ killed' = ~handled

\* Thread t executes 0xCC, or one instruction.
Execute(t) ==
  /\ at[t] = "user" /\ usr2[t] = "no" /\ ~killed
  /\ pc[t] \in Instr
  /\ IF mem[pc[t]] = "int3"
     THEN /\ pc' = [pc EXCEPT ![t] = @ + 1]
          /\ Trap(t)
     ELSE /\ \E a \in Succ[pc[t]] : pc' = [pc EXCEPT ![t] = a]
          /\ IF tf[t] THEN Trap(t) ELSE UNCHANGED <<at, killed>>
  /\ UNCHANGED <<dbgbp, world, code, tf, usr2, pending, handled>>

-----------------------------------------------------------------------------
(* e2dbg_generic_breakpoint, the SIGTRAP handler.                          *)

\* The thread whose entry has the tid that e2dbg_self() returns in thread t,
\* or NULL.  It is getpid() while one thread has started, pthread_self()
\* afterwards; the entry of the initial thread has the former for ever, those
\* of created threads, which are counted before they run, the latter.
e2dbg_self(t) == IF t = Initial /\ threadnbr # 1 THEN NULL ELSE t

\* The thread that owns the current breakpoint has the mutex already.
EnterHandler(t) ==
  /\ at[t] = "trap" /\ usr2[t] = "no" /\ ~killed
  /\ \/ /\ curbp # NULL /\ curbp = e2dbg_self(t)
        /\ at' = [at EXCEPT ![t] = "break"]
     \/ /\ curbp = NULL \/ curbp # e2dbg_self(t)
        /\ MutexTest
        /\ at' = [at EXCEPT ![t] = "set"]
  /\ UNCHANGED <<dbgbp, world, code, cpu, usr2, sig>>

LockHandler(t) ==
  /\ at[t] = "set" /\ usr2[t] = "no" /\ ~killed
  /\ MutexSet
  /\ at' = [at EXCEPT ![t] = "break"]
  /\ UNCHANGED <<world, code, cpu, usr2, sig>>

\* The handler becomes the stopped thread; on a new breakpoint it sends
\* SIGUSR2 to the others.
StopOthers(t) ==
  /\ at[t] = "break" /\ usr2[t] = "no" /\ ~killed
  /\ e2dbg_self(t) # NULL
  /\ stoppedthread' = t
  /\ threads' = [threads EXCEPT ![t].state = "BREAKING"]
  /\ pending' = IF threads[t].count = NONE
                THEN pending \cup StopTargets(threads', t)
                ELSE pending
  /\ at' = [at EXCEPT ![t] = "process"]
  /\ UNCHANGED <<dbgbp, curbp, known, threadnbr, code, cpu, usr2, handled, killed>>

\* The initial thread, once another one has started, finds no entry.
StopNoEntry(t) ==
  /\ at[t] = "break" /\ usr2[t] = "no" /\ ~killed
  /\ e2dbg_self(t) = NULL
  /\ stoppedthread' = NULL
  /\ killed' = TRUE
  /\ UNCHANGED <<dbgbp, curbp, threads, known, threadnbr, code, cpu, at, usr2, pending, handled>>

\* What e2dbg_setbreak makes of the saved byte and of the memory.
e2dbg_setbreak(a) ==
  /\ saved' = [saved EXCEPT ![a] = mem[a]]
  /\ mem' = [mem EXCEPT ![a] = "int3"]

\* Mutant: past is not reset.
KeepPast(ths, s) ==
  /\ threads' = ths
  /\ IF ths[s].past \in bp THEN e2dbg_setbreak(ths[s].past) ELSE UNCHANGED <<saved, mem>>

\* Mutant: past is reset, nothing is written.
NoWriteBack(ths, s) ==
  /\ threads' = [ths EXCEPT ![s].past = 0]
  /\ UNCHANGED <<saved, mem>>

\* ths is what the caller has already made of the thread structures.
e2dbg_breakpoint_reinstall(ths, s) ==
  \/ /\ ths[s].past \in bp
     /\ e2dbg_setbreak(ths[s].past)
     /\ threads' = [ths EXCEPT ![s].past = 0]
  \/ /\ ths[s].past \notin bp
     /\ threads' = ths
     /\ UNCHANGED <<saved, mem>>

\* e2dbg_step when stepping is on: the trap flag is cleared.
StepOff(ths, s) ==
  [ths EXCEPT ![s].step = FALSE, ![s].count = NONE, ![s].was_step = TRUE]

\* Mutant: the pc stays behind the breakpoint.
NoRewind(p) == p

\* *pc -= bpsz
Rewind(p) == p - 1

\* A breakpoint is newly hit when the byte before the pc belongs to one and
\* is not the saved byte.
NewlyHit(a) == a \in bp /\ saved[a] # mem[a]

\* Newly hit: the saved byte and the pc are restored, the trap flag is set
\* and the prompt opens (CLRSIG: pending signals are lost).
ProcessHit(t) ==
  LET s == stoppedthread
      a == pc[s] - 1
  IN /\ at[t] = "process" /\ usr2[t] = "no" /\ ~killed
     /\ NewlyHit(a)
     /\ pc' = [pc EXCEPT ![s] = Rewind(@)]
     /\ mem' = [mem EXCEPT ![a] = saved[a]]
     /\ tf' = [tf EXCEPT ![s] = TRUE]
     /\ threads' = [threads EXCEPT ![s].past = Rewind(pc[s]), ![s].count = HIT]
     /\ curbp' = s
     /\ at' = [at EXCEPT ![t] = "hit"]
     /\ handled' = FALSE /\ pending' = {}
     /\ UNCHANGED <<dbgbp, stoppedthread, known, threadnbr, bp, saved, usr2, killed>>

\* Single stepping: the prompt opens, or, when tracing, e2dbg_watch looks
\* for a traced value in the registers and ends stepping when it finds one.
ProcessStep(t) ==
  LET s == stoppedthread
  IN /\ at[t] = "process" /\ usr2[t] = "no" /\ ~killed
     /\ ~NewlyHit(pc[s] - 1)
     /\ threads[s].step
     /\ \/ /\ ~threads[s].trace
           /\ at' = [at EXCEPT ![t] = "stepping"]
           /\ handled' = FALSE /\ pending' = {}
           /\ UNCHANGED <<threads, saved, mem, tf>>
        \/ /\ threads[s].trace
           /\ \E found \in BOOLEAN :
                /\ tf' = [tf EXCEPT ![s] = @ /\ ~found]
                /\ e2dbg_breakpoint_reinstall(
                     IF found
                     THEN [StepOff(threads, s) EXCEPT ![s].trace = FALSE]
                     ELSE threads, s)
           /\ at' = [at EXCEPT ![t] = "finish"]
           /\ UNCHANGED <<handled, pending>>
     /\ UNCHANGED <<dbgbp, curbp, stoppedthread, known, threadnbr, bp, pc, usr2, killed>>

\* Neither: the thread has executed the restored instruction (EXEC), or one
\* more (FINISHED), or the trap is not ours.
ProcessCount(t) ==
  LET s == stoppedthread
      n == threads[s].count + 1
      counted == [threads EXCEPT ![s].count = n]
  IN /\ at[t] = "process" /\ usr2[t] = "no" /\ ~killed
     /\ ~NewlyHit(pc[s] - 1)
     /\ ~threads[s].step
     /\ n <= BREAK_MAX + 1
     /\ IF n = EXEC \/ n > BREAK_MAX
        THEN threads' = counted /\ UNCHANGED <<saved, mem, tf>>
        ELSE /\ e2dbg_breakpoint_reinstall(counted, s)
             /\ tf' = [tf EXCEPT ![s] = FALSE]
     /\ at' = [at EXCEPT ![t] = "finish"]
     /\ UNCHANGED <<dbgbp, curbp, stoppedthread, known, threadnbr, bp, pc, usr2, sig>>

\* Mutant: only stepping releases the mutex.
ReleasedByStep(th) == th.step \/ th.was_step

\* The mutex is released when the breakpoint is finished or the thread is
\* stepped.
Released(th) == th.count = FINISHED \/ th.step \/ th.was_step

FinishHandler(t) ==
  LET s == stoppedthread
  IN /\ at[t] = "finish" /\ usr2[t] = "no" /\ ~killed
     /\ \/ /\ Released(threads[s])
           /\ threads' = [contall(threads) EXCEPT ![s].was_step = FALSE, ![s].count = NONE]
           /\ curbp' = NULL /\ e2dbg_mutex_unlock
        \/ /\ ~Released(threads[s])
           /\ UNCHANGED <<curbp, dbgbp, threads>>
     /\ at' = [at EXCEPT ![t] = "return"]
     /\ UNCHANGED <<stoppedthread, known, threadnbr, code, cpu, usr2, sig>>

\* The end of the handler: another thread may have become the stopped thread
\* since the mutex was released.
ReturnHandler(t) ==
  /\ at[t] = "return" /\ usr2[t] = "no" /\ ~killed
  /\ threads' = [threads EXCEPT ![stoppedthread].state = "RUNNING"]
  /\ handled' = TRUE
  /\ at' = [at EXCEPT ![t] = "user"]
  /\ UNCHANGED <<dbgbp, curbp, stoppedthread, known, threadnbr, code, cpu, usr2, pending, killed>>

-----------------------------------------------------------------------------
(* The prompt that e2dbg_entry opens in the handler of thread t.           *)

Prompt(t) == at[t] \in {"hit", "stepping"} /\ usr2[t] = "no" /\ ~killed

\* A command that ends the prompt: SETSIG, then the handler goes on, which
\* in the stepping case writes the breakpoint again.
LeavePrompt(t, ths) ==
  /\ handled' = TRUE
  /\ at' = [at EXCEPT ![t] = "finish"]
  /\ IF at[t] = "stepping"
     THEN e2dbg_breakpoint_reinstall(ths, stoppedthread)
     ELSE threads' = ths /\ UNCHANGED <<saved, mem>>
  /\ UNCHANGED <<dbgbp, curbp, stoppedthread, known, threadnbr, bp, pc, usr2, pending, killed>>

cmd_bp(t, a) ==
  /\ Prompt(t) /\ "break" \in Commands
  /\ a \notin bp
  /\ e2dbg_setbreak(a)
  /\ bp' = bp \cup {a}
  /\ UNCHANGED <<dbgbp, world, cpu, at, usr2, sig>>

\* e2dbg_breakpoint_delete: the saved byte is written back whether or not
\* the breakpoint is in memory.
cmd_delete(t, a) ==
  /\ Prompt(t) /\ "delete" \in Commands
  /\ a \in bp
  /\ mem' = [mem EXCEPT ![a] = saved[a]]
  /\ bp' = bp \ {a}
  /\ UNCHANGED <<dbgbp, world, saved, cpu, at, usr2, sig>>

cmd_cont(t) ==
  LET s == stoppedthread
      ths == IF threads[s].step
             THEN [threads EXCEPT ![s].step = FALSE, ![s].count = FINISHED]
             ELSE threads
  IN /\ Prompt(t) /\ "continue" \in Commands
     /\ tf' = [tf EXCEPT ![s] = @ /\ ~threads[s].step]
     /\ LeavePrompt(t, IF ths[s].count = FINISHED THEN contall(ths) ELSE ths)

\* step, next: e2dbg_step turns stepping on unless it is on already.
cmd_next(t) ==
  LET s == stoppedthread
  IN /\ Prompt(t) /\ "step" \in Commands
     /\ tf' = [tf EXCEPT ![s] = @ \/ ~threads[s].step]
     /\ LeavePrompt(t, contall([threads EXCEPT ![s].step = TRUE]))

\* itrace toggles tracing and stepping; turning stepping off ends with an
\* error, so the prompt stays.
cmd_itrace(t) ==
  LET s == stoppedthread
      toggled == [threads EXCEPT ![s].trace = ~@]
  IN /\ Prompt(t) /\ "itrace" \in Commands
     /\ \/ /\ ~threads[s].step
           /\ tf' = [tf EXCEPT ![s] = TRUE]
           /\ LeavePrompt(t, contall([toggled EXCEPT ![s].step = TRUE]))
        \/ /\ threads[s].step
           /\ tf' = [tf EXCEPT ![s] = FALSE]
           /\ threads' = StepOff(toggled, s)
           /\ UNCHANGED <<dbgbp, curbp, stoppedthread, known, threadnbr, code, pc, at,
                          usr2, sig>>

-----------------------------------------------------------------------------
(* e2dbg_thread_sigusr2, on top of whatever the thread is doing.           *)

Usr2Enter(t) ==
  /\ t \in pending /\ handled /\ usr2[t] = "no" /\ ~killed
  /\ pending' = pending \ {t}
  /\ threads' = [threads EXCEPT ![t].state = "SIGUSR2"]
  /\ usr2' = [usr2 EXCEPT ![t] = "lock"]
  /\ UNCHANGED <<dbgbp, curbp, stoppedthread, known, threadnbr, code, cpu, at, handled, killed>>

Usr2Lock(t) ==
  /\ usr2[t] = "lock" /\ ~killed
  /\ MutexTest
  /\ usr2' = [usr2 EXCEPT ![t] = "set"]
  /\ UNCHANGED <<dbgbp, world, code, cpu, at, sig>>

Usr2Set(t) ==
  /\ usr2[t] = "set" /\ ~killed
  /\ MutexSet
  /\ usr2' = [usr2 EXCEPT ![t] = "unlock"]
  /\ UNCHANGED <<world, code, cpu, at, sig>>

Usr2Unlock(t) ==
  /\ usr2[t] = "unlock" /\ ~killed
  /\ e2dbg_mutex_unlock
  /\ usr2' = [usr2 EXCEPT ![t] = "leave"]
  /\ UNCHANGED <<world, code, cpu, at, sig>>

Usr2Leave(t) ==
  /\ usr2[t] = "leave" /\ ~killed
  /\ threads' = [threads EXCEPT ![t].state = "RUNNING"]
  /\ usr2' = [usr2 EXCEPT ![t] = "no"]
  /\ UNCHANGED <<dbgbp, curbp, stoppedthread, known, threadnbr, code, cpu, at, sig>>

-----------------------------------------------------------------------------
(* The hook on pthread_create, in thread t, and e2dbg_thread_start, in the *)
(* thread u it makes.                                                      *)

\* Bound: the threads of Unborn, each made once.
ThreadsLeft ==
  Cardinality({t \in Threads : at[t] \in {"c_set", "c_make"}})
    < Cardinality({u \in Unborn : at[u] = "none"})

CreateLock(t) ==
  /\ at[t] = "user" /\ usr2[t] = "no" /\ ~tf[t] /\ ~killed
  /\ ThreadsLeft
  /\ MutexTest
  /\ at' = [at EXCEPT ![t] = "c_set"]
  /\ UNCHANGED <<dbgbp, world, code, cpu, usr2, sig>>

\* Mutant: the creator does not take the mutex.
CreateUnlocked(t) ==
  /\ at[t] = "c_set" /\ usr2[t] = "no" /\ ~killed
  /\ at' = [at EXCEPT ![t] = "c_make"]
  /\ UNCHANGED <<dbgbp, world, code, cpu, usr2, sig>>

CreateSet(t) ==
  /\ at[t] = "c_set" /\ usr2[t] = "no" /\ ~killed
  /\ MutexSet
  /\ at' = [at EXCEPT ![t] = "c_make"]
  /\ UNCHANGED <<world, code, cpu, usr2, sig>>

\* The thread runs before it has an entry.
CreateMake(t, u) ==
  /\ at[t] = "c_make" /\ usr2[t] = "no" /\ ~killed
  /\ at[u] = "none"
  /\ at' = [at EXCEPT ![t] = "c_add", ![u] = "s_setsig"]
  /\ UNCHANGED <<dbgbp, world, code, cpu, usr2, sig>>

CreateAdd(t) ==
  /\ at[t] = "c_add" /\ usr2[t] = "no" /\ ~killed
  /\ \E u \in Unborn \ known :
       /\ at[u] # "none"
       /\ known' = known \cup {u}
  /\ e2dbg_mutex_unlock
  /\ at' = [at EXCEPT ![t] = "user"]
  /\ UNCHANGED <<curbp, stoppedthread, threads, threadnbr, code, cpu, usr2, sig>>

StartSetsig(t) ==
  /\ at[t] = "s_setsig" /\ ~killed
  /\ handled' = TRUE
  /\ at' = [at EXCEPT ![t] = "s_lock"]
  /\ UNCHANGED <<dbgbp, world, code, cpu, usr2, pending, killed>>

StartLock(t) ==
  /\ at[t] = "s_lock" /\ ~killed
  /\ MutexTest
  /\ at' = [at EXCEPT ![t] = "s_set"]
  /\ UNCHANGED <<dbgbp, world, code, cpu, usr2, sig>>

StartSet(t) ==
  /\ at[t] = "s_set" /\ ~killed
  /\ MutexSet
  /\ at' = [at EXCEPT ![t] = "s_body"]
  /\ UNCHANGED <<world, code, cpu, usr2, sig>>

\* Without an entry, cur is NULL and the thread crashes on it.
StartBody(t) ==
  /\ at[t] = "s_body" /\ ~killed
  /\ threadnbr' = threadnbr + 1
  /\ killed' = (t \notin known)
  /\ IF t \in known
     THEN /\ threads' = [threads EXCEPT ![t].state = "STARTED"]
          /\ e2dbg_mutex_unlock
          /\ at' = [at EXCEPT ![t] = "user"]
     ELSE UNCHANGED <<threads, dbgbp, at>>
  /\ UNCHANGED <<curbp, stoppedthread, known, code, cpu, usr2, pending, handled>>

-----------------------------------------------------------------------------
\* The process after `start': the breakpoints are in memory.
Init ==
  /\ dbgbp = UNLOCKED /\ curbp = NULL /\ stoppedthread = NULL
  /\ threads = [t \in Threads |->
       [state |-> IF t \in Unborn \cup {Initial} THEN "INIT" ELSE "STARTED",
        count |-> NONE, past |-> 0, step |-> FALSE, was_step |-> FALSE,
        trace |-> FALSE]]
  /\ known = Threads \ Unborn
  /\ threadnbr = Cardinality(Threads \ Unborn)
  /\ bp = BpAddrs
  /\ saved = [a \in Instr |-> "orig"]
  /\ mem = [a \in Instr |-> IF a \in BpAddrs THEN "int3" ELSE "orig"]
  /\ pc = Start
  /\ tf = [t \in Threads |-> FALSE]
  /\ at = [t \in Threads |-> IF t \in Unborn THEN "none" ELSE "user"]
  /\ usr2 = [t \in Threads |-> "no"]
  /\ pending = {} /\ handled = TRUE /\ killed = FALSE

Handler(t) ==
  \/ EnterHandler(t) \/ LockHandler(t) \/ StopOthers(t) \/ StopNoEntry(t)
  \/ ProcessHit(t) \/ ProcessStep(t) \/ ProcessCount(t)
  \/ FinishHandler(t) \/ ReturnHandler(t)

Usr2(t) ==
  \/ Usr2Enter(t) \/ Usr2Lock(t) \/ Usr2Set(t) \/ Usr2Unlock(t) \/ Usr2Leave(t)

Hook(t) ==
  \/ CreateSet(t) \/ CreateAdd(t) \/ (\E u \in Unborn : CreateMake(t, u))
  \/ StartSetsig(t) \/ StartLock(t) \/ StartSet(t) \/ StartBody(t)

\* The commands that give control back to the debuggee.
Resume(t) == cmd_cont(t) \/ cmd_next(t)

User(t) ==
  \/ Resume(t) \/ cmd_itrace(t)
  \/ \E a \in BpAddrs : cmd_bp(t, a) \/ cmd_delete(t, a)

Next ==
  \E t \in Threads :
    Execute(t) \/ Handler(t) \/ Usr2(t) \/ Hook(t) \/ CreateLock(t) \/ User(t)

Spec == Init /\ [][Next]_vars

\* Every thread is scheduled, the kernel delivers signals, and a user who
\* is at the prompt resumes the debuggee in the end.
Fairness ==
  \A t \in Threads :
    /\ WF_vars(Execute(t)) /\ WF_vars(Handler(t))
    /\ WF_vars(Usr2(t)) /\ WF_vars(Hook(t)) /\ WF_vars(Resume(t))

FairSpec == Spec /\ Fairness

-----------------------------------------------------------------------------
\* Type invariant: the fields of e2dbgworld and of the thread structures hold what
\* libe2dbg.h declares, and the pc of a thread is at an instruction or just behind
\* the first byte of one.
TypeOK ==
  /\ dbgbp \in {LOCKED, UNLOCKED}
  /\ curbp \in Threads \cup {NULL}
  /\ stoppedthread \in Threads \cup {NULL}
  /\ threads \in [Threads -> E2dbgThread]
  /\ known \subseteq Threads
  /\ threadnbr \in Nat
  /\ bp \subseteq BpAddrs
  /\ saved \in [Instr -> {"orig", "int3"}]
  /\ mem \in [Instr -> {"orig", "int3"}]
  /\ pc \in [Threads -> Instr \cup {a + 1 : a \in Instr}]
  /\ tf \in [Threads -> BOOLEAN]
  /\ at \in [Threads -> Points]
  /\ usr2 \in [Threads -> Usr2Points]
  /\ pending \subseteq Threads
  /\ handled \in BOOLEAN
  /\ killed \in BOOLEAN

\* A thread that goes on after a trap goes on at an instruction, never in
\* the middle of the one whose first byte was replaced.
PcAtInstruction ==
  \A t \in Threads : at[t] = "user" => pc[t] \in Instr

\* The saved byte of a breakpoint is the byte of the program, and memory
\* without a breakpoint is the program: whatever is written back is right.
SavedIsOriginal ==
  /\ \A a \in bp : saved[a] = "orig"
  /\ \A a \in Instr \ bp : mem[a] = "orig"

\* A registered breakpoint that is not in memory will be written again: a
\* thread remembers it and will trap again, or is in its handler.
NoLostBreakpoint ==
  \A a \in bp : mem[a] = "orig" =>
    \E t \in Threads : threads[t].past = a /\ (tf[t] \/ at[t] = "finish")

\* When all threads run the debuggee, the mutex is held only for a thread
\* that will trap again, be known as the owner of the breakpoint and release
\* the mutex.
MutexNotLeaked ==
  (\A t \in Threads : at[t] \in {"user", "none"} /\ usr2[t] = "no") =>
    (dbgbp = LOCKED => /\ curbp # NULL /\ e2dbg_self(curbp) = curbp
                       /\ tf[curbp] /\ threads[curbp].count \in {HIT, EXEC})

\* A thread that runs the start routine has its entry: its creator held the
\* mutex until it was added.
StartRegistered == \A t \in Threads : at[t] = "s_body" => t \in known

\* The process is killed in one way only: the initial thread traps, or is in
\* the middle of a breakpoint, once another thread has started, and finds no
\* entry under its new identity.  No thread traps while the signals are
\* ignored, and every created thread finds its entry.
OnlyInitialCrashes == killed => at[Initial] = "break" /\ threadnbr > 1

\* e2dbg_thread_sigusr2: a thread that was stopped runs again once no
\* breakpoint is being processed any more.  It polls the mutex, so threads
\* that keep breaking may starve it.
ThreadsResume ==
  \A t \in Threads :
    <>[](\A u \in Threads : at[u] \notin Handling)
      => (usr2[t] = "lock" ~> usr2[t] = "no")

\* A breakpoint that was taken out of memory is written back, or deleted.
Rearmed ==
  \A a \in BpAddrs : (a \in bp /\ mem[a] = "orig") ~> (a \notin bp \/ mem[a] = "int3")
=============================================================================
