------------------------------- MODULE Kedbg -------------------------------
(***************************************************************************)
(* The remote debugger kedbg (kedbg/handlers.c, cmd.c, main.c) on top of   *)
(* libgdbwrap: breakpoints, continue, step, itrace, the register variables *)
(* and SIGINT, for a user land target.                                     *)
(*                                                                         *)
(* A call of libgdbwrap other than continue is part of one step of the     *)
(* model: the target is stopped, and GdbWrap shows that the call is        *)
(* executed once and returns its own reply.  That needs that no SIGINT     *)
(* comes during the call: SIGINT is modelled at the prompt, in continue    *)
(* and in itrace, not between the exchanges of one of the other commands.  *)
(* Which commands the server knows is found out by trying; the empty reply *)
(* says no.                                                                *)
(*                                                                         *)
(* The target and its server are external: a loop of two-byte instructions *)
(* at the even addresses; stop replies carry the pc; the server steps over *)
(* breakpoints of its own (Z0), and knows nothing of trap bytes that kedbg *)
(* writes (int3), after which the pc is one byte further.                  *)
(***************************************************************************)
EXTENDS Integers

CONSTANTS
  Size,     \* bytes of the target's code, two instructions or more
  CapSets,  \* sets of commands that servers may support
  MaxBp,    \* bound: breakpoints that are added
  MaxTrace, \* bound: itrace commands
  NULL

Addr   == 0..(Size - 1)
Starts == {a \in Addr : a % 2 = 0}
Cmds   == {"Z0", "X", "M", "P", "G"}
Bytes  == {"code", "int3", "zero"}

ASSUME KedbgAssumption ==
  /\ Size \in Nat /\ Size > 2 /\ Size % 2 = 0
  /\ CapSets \subseteq SUBSET Cmds
  /\ MaxBp \in Nat /\ MaxTrace \in Nat
  /\ NULL \notin Bytes

VARIABLES
  caps,        \* commands that the server supports
  mem,         \* addresses that hold a trap byte
  zbp,         \* addresses of the server's own breakpoints
  tpc,         \* the target's pc
  eip,         \* loc->reg32.eip
  var,         \* $pc
  bp,          \* bp[a]: savedinstr of the breakpoint in e2dbgworld.bp, or NULL
  choice,      \* static variable of kedbg_setbp
  first_time,  \* static variable of kedbg_setbp
  offset,      \* kedbgworld.offset
  nowrite,     \* gdbwrap_writemem has given up (its choice is 2)
  activated,   \* static variable of kedbg_shipallreg
  step,        \* e2dbgworld.curthread->step
  interrupted, \* kedbgworld.interrupted; here it is set when kedbg_sigint starts
  blocked,     \* the signal came in the recv that waits for the stop reply
  restart,     \* SIGINT restarts recv
  pc,          \* what kedbg and the target do
  trapped,     \* the target stopped at a trap, not because of SIGINT
  ran,         \* the target executed an instruction since it was resumed
  upset,       \* history: what may leave the pc inside an instruction
  added, traces

target   == <<mem, zbp, tpc>>
registry == <<bp, choice, first_time, offset, nowrite>>
regs     == <<eip, var>>
control  == <<step, interrupted, blocked, restart>>
bounds   == <<added, traces>>
vars     == <<caps, target, registry, regs, activated, control, pc, trapped, ran,
              upset, bounds>>

CanWrite   == caps \intersect {"X", "M"} # {}
CanSetRegs == caps \intersect {"P", "G"} # {}
Set        == {a \in Addr : bp[a] # NULL}

----------------------------------------------------------------------------
(* The target *)

Wrap(p) == IF p < Size THEN p ELSE 0
Succ(p) == IF p % 2 = 0 THEN Wrap(p + 2) ELSE Wrap(p + 1)

(* One instruction, or the trap byte that is in its place *)
Stepped(m, p) == IF p \in m THEN p + 1 ELSE Succ(p)

----------------------------------------------------------------------------
(* Breakpoints.  The operators take what the target holds and give what it
   holds after the call. *)

ByteAt(m, a) == IF a \in m THEN "int3" ELSE "code"

(* kedbg_setbpwint3: gdbwrap_readmem, then gdbwrap_writemem, which once it
   has given up sends nothing and leaves the reply of the read behind. *)
Int3(m, z, a) ==
  LET notsup == ~CanWrite /\ ~nowrite
  IN  [ok     |-> ~notsup \/ ~first_time,
       mem    |-> IF CanWrite THEN m \union {a} ELSE m,
       zbp    |-> z,
       saved  |-> ByteAt(m, a),
       choice |-> IF notsup /\ first_time THEN 2 ELSE 1,
       first  |-> notsup /\ first_time,
       offset |-> 1,
       nowrite |-> ~CanWrite]

(* kedbg_simplesetbp *)
Simple(m, z, a) ==
  [ok |-> TRUE, mem |-> m, zbp |-> z \union {a}, saved |-> "zero", choice |-> 0,
   first |-> FALSE, offset |-> 0, nowrite |-> nowrite]

kedbg_setbp(m, z, a) ==
  IF choice = 0 /\ "Z0" \in caps THEN Simple(m, z, a)
  ELSE IF choice = 1 \/ (choice = 0 /\ first_time) THEN Int3(m, z, a)
  ELSE [ok |-> choice = 0, mem |-> m, zbp |-> z, saved |-> "zero", choice |-> choice,
        first |-> first_time, offset |-> offset, nowrite |-> nowrite]

(* Mutant: the trap byte is not taken out. *)
DeleteEntry(m, z, a) == [mem |-> m, zbp |-> z \ {a}]

kedbg_delbp(m, z, a) ==
  IF offset = 0 THEN [mem |-> m, zbp |-> z \ {a}]
  ELSE IF ~CanWrite THEN [mem |-> m, zbp |-> z]
  ELSE [mem |-> IF bp[a] = "int3" THEN m \union {a} ELSE m \ {a}, zbp |-> z]

(* What kedbg_setbp leaves in the registry *)
Recorded(s) ==
  /\ choice' = s.choice /\ first_time' = s.first
  /\ offset' = s.offset /\ nowrite' = s.nowrite

(* bp *)
Bp(a) ==
  /\ pc = "prompt" /\ bp[a] = NULL /\ added < MaxBp
  /\ LET s == kedbg_setbp(mem, zbp, a)
     IN  /\ mem' = s.mem /\ zbp' = s.zbp
         /\ bp' = IF s.ok THEN [bp EXCEPT ![a] = s.saved] ELSE bp
         /\ Recorded(s)
  /\ added' = added + 1
  /\ UNCHANGED <<caps, tpc, regs, activated, control, pc, trapped, ran, upset, traces>>

(* delete *)
Delete(a) ==
  /\ pc = "prompt" /\ bp[a] # NULL
  /\ LET d == kedbg_delbp(mem, zbp, a) IN mem' = d.mem /\ zbp' = d.zbp
  /\ nowrite' = (nowrite \/ (offset = 1 /\ ~CanWrite))
  /\ bp' = [bp EXCEPT ![a] = NULL]
  /\ UNCHANGED <<caps, tpc, choice, first_time, offset, regs, activated, control,
                 pc, trapped, ran, upset, bounds>>

(* write, at an address without a breakpoint *)
Poke ==
  /\ pc = "prompt"
  /\ nowrite' = ~CanWrite
  /\ UNCHANGED <<caps, target, bp, choice, first_time, offset, regs, activated,
                 control, pc, trapped, ran, upset, bounds>>

----------------------------------------------------------------------------
(* continue *)

(* Mutant: the breakpoint is not set again. *)
StepOnly(a, t) ==
  LET d == kedbg_delbp(mem, zbp, a)
  IN  [mem |-> d.mem, zbp |-> d.zbp, tpc |-> Stepped(d.mem, t)]

(* The breakpoint at a is taken out, one instruction executed, the
   breakpoint set again. *)
StepOver(a, t) ==
  LET d == kedbg_delbp(mem, zbp, a)
      s == kedbg_setbp(d.mem, d.zbp, a)
  IN  [mem |-> s.mem, zbp |-> s.zbp, tpc |-> Stepped(d.mem, t)]

(* Mutant: the target is resumed on the breakpoint. *)
NoStepOver(a, t) == [mem |-> mem, zbp |-> zbp, tpc |-> t]

(* kedbg_step_over_bp; bp->savedinstr is the byte that was read again. *)
kedbg_step_over_bp(a, t) ==
  IF bp[a] # NULL THEN StepOver(a, t) ELSE [mem |-> mem, zbp |-> zbp, tpc |-> t]

Resaved(a) ==
  bp' = IF bp[a] # NULL /\ choice = 1
        THEN [bp EXCEPT ![a] = ByteAt(kedbg_delbp(mem, zbp, a).mem, a)] ELSE bp

(* Mutant: only reg32 is refreshed. *)
NoVariables(t) == eip' = t /\ UNCHANGED var

kedbg_get_regvars_ia32(t) == eip' = t /\ var' = t

(* kedbg_set_regvars_ia32 and kedbg_shipallreg: the target gets the values of
   the variables, reg32 those that the target had; a server without G ends
   the shipping. *)
Shipped  == IF activated /\ "G" \in caps THEN var ELSE tpc
LookedUp == IF activated THEN tpc ELSE var

cmd_kedbgcont ==
  /\ pc = "prompt"
  /\ activated' = (activated /\ "G" \in caps)
  /\ LET o == kedbg_step_over_bp(LookedUp, Shipped)
     IN  /\ mem' = o.mem /\ zbp' = o.zbp
         /\ Resaved(LookedUp)
         /\ \/ /\ ~step
               /\ tpc' = o.tpc /\ pc' = "running" /\ ran' = (o.tpc # Shipped)
               /\ eip' = tpc' /\ UNCHANGED <<var, upset>>
            \/ /\ step   \* kedbg_stepandprint
               /\ tpc' = Stepped(o.mem, o.tpc)
               /\ kedbg_get_regvars_ia32(tpc')
               /\ upset' = upset \union {"step"}
               /\ UNCHANGED <<pc, ran>>
  /\ UNCHANGED <<caps, choice, first_time, offset, nowrite, control, trapped, bounds>>

(* The target runs, until it reaches a breakpoint. *)
TargetRuns ==
  /\ pc \in {"running", "breaking"}
  /\ IF tpc \in mem \/ (ran /\ tpc \in zbp)
     THEN /\ tpc' = IF tpc \in mem THEN tpc + 1 ELSE tpc
          /\ pc' = "stopped" /\ trapped' = TRUE /\ UNCHANGED ran
     ELSE tpc' = Succ(tpc) /\ ran' = TRUE /\ UNCHANGED <<pc, trapped>>
  /\ UNCHANGED <<caps, mem, zbp, registry, regs, activated, control, upset, bounds>>

(* Mutant: the interrupt is not sent. *)
NotSent ==
  /\ pc \in {"running", "stopped"} /\ ~interrupted
  /\ interrupted' = TRUE /\ blocked' = TRUE
  /\ UNCHANGED <<caps, target, registry, regs, activated, step, restart, pc, trapped,
                 ran, upset, bounds>>

(* SIGINT.  kedbg_sigint sends the interrupt and reads a reply.  At the prompt
   the target is stopped, and the handler waits for a reply that does not
   come.  During a continue it finds kedbg blocked in recv or on the way to
   it or, when the target has stopped, back from it. *)
kedbg_sigint ==
  /\ ~interrupted
  /\ interrupted' = TRUE
  /\ \/ pc = "prompt" /\ pc' = "hung" /\ blocked' = FALSE
     \/ pc = "running" /\ pc' = "breaking" /\ blocked' \in BOOLEAN
     \/ pc = "stopped" /\ pc' = pc /\ blocked' \in BOOLEAN
  /\ UNCHANGED <<caps, target, registry, regs, activated, step, restart, trapped,
                 ran, upset, bounds>>

(* The interrupt reaches the running target. *)
TargetStops ==
  /\ pc = "breaking"
  /\ pc' = "stopped" /\ trapped' = FALSE
  /\ UNCHANGED <<caps, target, registry, regs, activated, control, ran, upset, bounds>>

(* Mutant: the pc is left behind the trap byte. *)
NoRewind == tpc

(* Mutant: the trap is taken for a two-byte instruction. *)
RewindTwo == IF offset = 1 /\ CanSetRegs THEN tpc - 2 ELSE tpc

(* kedbg_writereg, in the way that the server knows *)
Rewound == IF offset = 1 /\ CanSetRegs THEN tpc - 1 ELSE tpc

(* cmd_kedbgcont after gdbwrap_continue, with kedbg_get_regvars_ia32.  The
   handler has read the reply of an interrupted continue: the recv that the
   signal interrupted fails, but one that is restarted, or that is entered
   after the signal, waits for a reply that does not come.  A signal after
   recv has returned leaves the handler itself waiting. *)
ContReturns ==
  /\ pc = "stopped"
  /\ \/ /\ interrupted /\ (restart \/ ~blocked)
        /\ pc' = "hung" /\ UNCHANGED <<tpc, regs, interrupted, upset>>
     \/ /\ interrupted /\ ~restart /\ blocked
        /\ pc' = "prompt" /\ interrupted' = FALSE
        /\ kedbg_get_regvars_ia32(tpc) /\ UNCHANGED tpc
        /\ upset' = IF trapped THEN upset \union {"race"} ELSE upset
     \/ /\ ~interrupted
        /\ tpc' = Rewound /\ kedbg_get_regvars_ia32(tpc')
        /\ pc' = "prompt" /\ UNCHANGED <<interrupted, upset>>
  /\ UNCHANGED <<caps, mem, zbp, registry, activated, step, blocked, restart, trapped, ran,
                 bounds>>

(* The target exits: is_active is false and kedbg quits. *)
TargetExits ==
  /\ pc = "running"
  /\ pc' = "quit"
  /\ UNCHANGED <<caps, target, registry, regs, activated, control, trapped, ran,
                 upset, bounds>>

----------------------------------------------------------------------------
(* The other commands *)

cmd_kedbgstep ==
  /\ pc = "prompt"
  /\ step' = ~step
  /\ UNCHANGED <<caps, target, registry, regs, activated, interrupted, blocked, restart, pc,
                 trapped, ran, upset, bounds>>

cmd_kedbg_dump_regs ==
  /\ pc = "prompt"
  /\ kedbg_get_regvars_ia32(tpc)
  /\ UNCHANGED <<caps, target, registry, activated, control, pc, trapped, ran,
                 upset, bounds>>

cmd_kedbgquit ==
  /\ pc = "prompt"
  /\ pc' = "quit"
  /\ UNCHANGED <<caps, target, registry, regs, activated, control, trapped, ran,
                 upset, bounds>>

cmd_kedbgitrace ==
  /\ pc = "prompt" /\ traces < MaxTrace
  /\ pc' = "trace" /\ traces' = traces + 1
  /\ upset' = upset \union {"trace"}
  /\ UNCHANGED <<caps, target, registry, regs, activated, control, trapped, ran, added>>

(* An iteration of the loop: it ends at a breakpoint, over which the target
   steps, or because SIGINT has set trace to false.  signal() installs
   kedbg_sigint so that recv is restarted. *)
TraceStep(sigint) ==
  /\ pc = "trace"
  /\ LET t == Stepped(mem, tpc)
         o == kedbg_step_over_bp(t, t)
     IN  /\ mem' = o.mem /\ zbp' = o.zbp /\ tpc' = o.tpc /\ eip' = o.tpc
         /\ Resaved(t)
         /\ IF sigint \/ bp[t] # NULL
            THEN pc' = "prompt" /\ restart' = TRUE
            ELSE UNCHANGED <<pc, restart>>
  /\ UNCHANGED <<caps, choice, first_time, offset, nowrite, var, activated, step,
                 interrupted, blocked, trapped, ran, upset, bounds>>

----------------------------------------------------------------------------
(* After main: the first registers have been read. *)
Init ==
  /\ caps \in CapSets
  /\ mem = {} /\ zbp = {} /\ tpc = 0 /\ eip = 0 /\ var = 0
  /\ bp = [a \in Addr |-> NULL]
  /\ choice = 0 /\ first_time = TRUE /\ offset = 0 /\ nowrite = FALSE
  /\ activated = TRUE /\ step = FALSE
  /\ interrupted = FALSE /\ blocked = FALSE /\ restart = FALSE
  /\ pc = "prompt" /\ trapped = FALSE /\ ran = FALSE
  /\ upset = {} /\ added = 0 /\ traces = 0

User == \/ \E a \in Starts : Bp(a) \/ Delete(a)
        \/ Poke \/ cmd_kedbgcont \/ cmd_kedbgstep \/ cmd_kedbg_dump_regs
        \/ cmd_kedbgquit \/ cmd_kedbgitrace \/ kedbg_sigint

Machine == ContReturns \/ TargetStops \/ \E s \in BOOLEAN : TraceStep(s)

Next == User \/ Machine \/ TargetRuns \/ TargetExits

Spec == Init /\ [][Next]_vars

(* kedbg runs, and the server delivers an interrupt to a running target. *)
FairSpec == Spec /\ WF_vars(ContReturns) /\ WF_vars(TargetStops)

----------------------------------------------------------------------------
(* Variables hold values of their types; there is one way to break at a
   time, and kedbg_setbp has settled on it before a breakpoint exists. *)
TypeOK ==
  /\ caps \in CapSets
  /\ mem \subseteq Addr /\ zbp \subseteq Addr
  /\ tpc \in Addr /\ eip \in Addr /\ var \in Addr
  /\ bp \in [Addr -> Bytes \union {NULL}]
  /\ choice \in 0..2 /\ offset \in 0..1
  /\ first_time \in BOOLEAN /\ nowrite \in BOOLEAN /\ activated \in BOOLEAN
  /\ step \in BOOLEAN /\ interrupted \in BOOLEAN /\ blocked \in BOOLEAN
  /\ restart \in BOOLEAN /\ trapped \in BOOLEAN /\ ran \in BOOLEAN
  /\ pc \in {"prompt", "running", "breaking", "stopped", "trace", "hung", "quit"}
  /\ upset \subseteq {"race", "step", "trace"}
  /\ added \in 0..MaxBp /\ traces \in 0..MaxTrace
  /\ mem = {} \/ zbp = {}

(* If the server knows any way to break at all, the target holds a trap
   exactly where the registry has a breakpoint, whatever was tried, added,
   deleted and stepped over. *)
Armed == (CanWrite \/ "Z0" \in caps) => mem \union zbp = Set

(* A breakpoint that was written by kedbg has saved the target's own byte. *)
SavedIsCode == offset = 1 => \A a \in Set : bp[a] = "code"

(* At the prompt the target's pc is the address of an instruction: always
   with breakpoints of the server, and with trap bytes, if registers can be
   written, as long as the user did not step or trace, and no interrupt met
   a breakpoint that had just been hit. *)
PcAtInstruction ==
  (pc = "prompt" /\ (offset = 1 => upset = {} /\ CanSetRegs)) => tpc \in Starts

(* continue makes progress: the target executes an instruction before it
   stops at a breakpoint, the one that it stood on included, but after an
   itrace. *)
Progress == (pc = "stopped" /\ trapped /\ "trace" \notin upset) => ran

(* continue resumes the target where it is: the registers that it sends are
   those that the target had, but after an itrace. *)
ResumesInPlace ==
  [][(pc = "prompt" /\ pc' = "running" /\ "trace" \notin upset)
       => tpc' \in {tpc, Succ(tpc)}]_vars

(* SIGINT in the recv that waits for the stop reply brings the prompt back,
   whatever the target does meanwhile, as long as recv is not restarted. *)
InterruptReturns == (interrupted /\ blocked /\ ~restart) ~> (pc = "prompt")

----------------------------------------------------------------------------
(* "We want primitives to return EINTR, hence sa_flags = 0": SIGINT in recv
   brings the prompt back. *)
AlwaysReturns == (interrupted /\ blocked) ~> (pc = "prompt")
============================================================================
