---------------------------- MODULE Kedbg_proofs ----------------------------
(***************************************************************************)
(* Proofs about Kedbg, for every size of the target's code and every set   *)
(* of commands that servers may support.  The inductive invariant IInv     *)
(* says how far kedbg_setbp has got in finding out what the server knows   *)
(* (Way), and where the pc may be (Where).                                 *)
(***************************************************************************)
EXTENDS Kedbg, TLAPS

(* Nothing was tried yet, or Z0 works. *)
WayServer ==
  choice = 0 =>
    /\ offset = 0 /\ mem = {} /\ zbp = Set
    /\ first_time => Set = {}
    /\ ~first_time => "Z0" \in caps

(* Z0 is not supported, breakpoints are trap bytes. *)
WayInt3 ==
  choice = 1 =>
    /\ offset = 1 /\ zbp = {} /\ ~first_time
    /\ mem = IF CanWrite THEN Set ELSE {}
    /\ \A a \in Set : bp[a] = "code"

(* Nothing is supported. *)
WayNone ==
  choice = 2 => offset = 1 /\ mem = {} /\ zbp = {} /\ Set = {} /\ ~CanWrite

Way ==
  /\ Set \subseteq Starts
  /\ choice # 0 => "Z0" \notin caps
  /\ WayServer /\ WayInt3 /\ WayNone

(* What is pending *)
Pending ==
  /\ pc = "breaking" => interrupted
  /\ (pc = "stopped" /\ ~interrupted) => trapped
  /\ pc = "trace" => "trace" \in upset
  /\ (pc = "prompt" /\ "trace" \notin upset) => var = tpc

Sound == upset = {} /\ CanSetRegs

Where ==
  /\ offset = 0 => tpc \in Starts /\ var \in Starts
  /\ (offset = 1 /\ pc = "stopped" /\ trapped) => tpc % 2 = 1
  /\ (offset = 1 /\ Sound /\ (pc \in {"prompt", "running", "breaking"}
                                \/ (pc = "stopped" /\ ~trapped))) => tpc \in Starts

(* The target was not resumed on a trap byte. *)
Moving ==
  "trace" \notin upset =>
    /\ (pc \in {"running", "breaking"} /\ ~ran) => tpc \notin mem
    /\ (pc = "stopped" /\ trapped) => ran

IInv == TypeOK /\ Way /\ Pending /\ Where

-----------------------------------------------------------------------------
(* Addresses: code is a sequence of two-byte instructions. *)

(* The byte after the first one of an instruction is code, too. *)
LEMMA SecondByte ==
  ASSUME NEW p \in Starts
  PROVE  p \in Addr /\ p + 1 \in Addr /\ (p + 1) % 2 = 1
BY KedbgAssumption DEF Starts, Addr

(* The byte before the second one of an instruction is its first one. *)
LEMMA FirstByte ==
  ASSUME NEW p \in Addr, p % 2 = 1
  PROVE  p - 1 \in Starts
BY KedbgAssumption DEF Starts, Addr

(* From wherever the pc is, the next one is at an instruction. *)
LEMMA SuccStarts ==
  ASSUME NEW p \in Addr
  PROVE  Succ(p) \in Starts /\ Succ(p) \in Addr
<1>1. CASE p % 2 = 0
  <2>1. (p + 2) % 2 = 0 /\ p + 2 \in Nat
    BY <1>1, KedbgAssumption DEF Addr
  <2> QED
    BY <1>1, <2>1, KedbgAssumption DEF Succ, Wrap, Starts, Addr
<1>2. CASE p % 2 = 1
  <2>1. (p + 1) % 2 = 0 /\ p + 1 \in Nat
    BY <1>2, KedbgAssumption DEF Addr
  <2> QED
    BY <1>2, <2>1, KedbgAssumption DEF Succ, Wrap, Starts, Addr
<1> QED
  BY <1>1, <1>2, KedbgAssumption DEF Addr

(* No instruction jumps to itself. *)
LEMMA SuccMoves ==
  ASSUME NEW p \in Addr
  PROVE  Succ(p) # p
BY KedbgAssumption DEF Succ, Wrap, Addr

\* Executing an instruction leads to an address of the target.
LEMMA SteppedAddr ==
  ASSUME NEW m, m \subseteq Starts, NEW p \in Addr
  PROVE  Stepped(m, p) \in Addr
BY SecondByte, SuccStarts DEF Stepped

(* Every trap byte is the first one of an instruction. *)
LEMMA MemStarts ==
  ASSUME TypeOK, Way
  PROVE  mem \subseteq Starts /\ zbp \subseteq Starts
BY DEF TypeOK, Way, WayServer, WayInt3, WayNone

-----------------------------------------------------------------------------
(* kedbg_step_over_bp puts everything back: the trap, and the saved byte. *)
LEMMA StepOverRestores ==
  ASSUME TypeOK, Way, NEW a \in Addr, NEW t \in Addr
  PROVE  LET o == kedbg_step_over_bp(a, t)
         IN  /\ o.mem = mem /\ o.zbp = zbp
             /\ Resaved(a) => bp' = bp
             /\ o.tpc \in Addr
             /\ a = t => o.tpc = IF bp[a] = NULL THEN t ELSE Succ(t)
             /\ offset = 0 => o.tpc \in {t, Succ(t)}
<1>1. CASE bp[a] = NULL
  BY <1>1 DEF kedbg_step_over_bp, Resaved
<1>2. CASE bp[a] # NULL
  <2>1. a \in Set /\ Set # {} /\ choice \in 0..2
    BY <1>2 DEF Set, TypeOK
  <2>2. mem \subseteq Starts
    BY MemStarts
  <2>3. CASE choice = 0
    <3>1. /\ offset = 0 /\ mem = {} /\ zbp = Set /\ "Z0" \in caps
      BY <2>1, <2>3 DEF Way, WayServer
    <3>2. (zbp \ {a}) \union {a} = zbp
      BY <2>1, <3>1
    <3>3. kedbg_step_over_bp(a, t) = [mem |-> mem, zbp |-> zbp, tpc |-> Succ(t)]
      BY <1>2, <2>3, <3>1, <3>2
      DEF kedbg_step_over_bp, StepOver, kedbg_delbp, kedbg_setbp, Simple, Stepped
    <3> QED
      BY <1>2, <2>3, <3>3, SuccStarts DEF Resaved
  <2>4. CASE choice = 1
    <3>1. offset = 1 /\ zbp = {} /\ bp[a] = "code" /\ bp[a] # "int3"
      BY <2>1, <2>4 DEF Way, WayInt3
    <3>2. CASE CanWrite
      <4>1. a \in mem /\ (mem \ {a}) \union {a} = mem
        BY <2>1, <2>4, <3>2 DEF Way, WayInt3
      <4>2. kedbg_delbp(mem, zbp, a).mem = mem \ {a}
        BY <3>1, <3>2 DEF kedbg_delbp
      <4>3. kedbg_step_over_bp(a, t)
               = [mem |-> mem, zbp |-> zbp, tpc |-> Stepped(mem \ {a}, t)]
        BY <1>2, <2>4, <3>1, <3>2, <4>1
        DEF kedbg_step_over_bp, StepOver, kedbg_delbp, kedbg_setbp, Int3
      <4>4. Resaved(a) => bp' = bp
        <5>1. ByteAt(mem \ {a}, a) = bp[a]
          BY <3>1 DEF ByteAt
        <5>2. [bp EXCEPT ![a] = bp[a]] = bp
          BY DEF TypeOK
        <5> QED
          BY <1>2, <4>2, <5>1, <5>2 DEF Resaved
      <4>5. Stepped(mem \ {a}, t) \in Addr
        BY <2>2, SteppedAddr
      <4>6. a = t => Stepped(mem \ {a}, t) = Succ(t)
        BY DEF Stepped
      <4> QED
        BY <1>2, <3>1, <4>3, <4>4, <4>5, <4>6
    <3>3. CASE ~CanWrite
      <4>1. mem = {}
        BY <2>4, <3>3 DEF Way, WayInt3
      <4>2. kedbg_delbp(mem, zbp, a) = [mem |-> mem, zbp |-> zbp]
        BY <3>1, <3>3 DEF kedbg_delbp
      <4>3. kedbg_step_over_bp(a, t) = [mem |-> mem, zbp |-> zbp, tpc |-> Succ(t)]
        BY <1>2, <2>4, <3>1, <3>3, <4>1, <4>2
        DEF kedbg_step_over_bp, StepOver, kedbg_setbp, Int3, Stepped
      <4>4. Resaved(a) => bp' = bp
        <5>1. ByteAt(mem, a) = bp[a]
          BY <3>1, <4>1 DEF ByteAt
        <5>2. [bp EXCEPT ![a] = bp[a]] = bp
          BY DEF TypeOK
        <5> QED
          BY <1>2, <4>2, <5>1, <5>2 DEF Resaved
      <4> QED
        BY <1>2, <4>3, <4>4, SuccStarts
    <3> QED
      BY <3>2, <3>3
  <2>5. CASE choice = 2
    BY <2>1, <2>5 DEF Way, WayNone
  <2> QED
    BY <2>1, <2>3, <2>4, <2>5
<1> QED
  BY <1>1, <1>2

-----------------------------------------------------------------------------
(* IInv is inductive. *)

\* The invariant holds at the start.
LEMMA InitIInv == Init => IInv
<1> SUFFICES ASSUME Init PROVE IInv
  OBVIOUS
<1> USE KedbgAssumption
<1>1. 0 \in Addr /\ 0 \in Starts
  BY DEF Addr, Starts
<1>2. TypeOK
  <2>1. /\ first_time \in BOOLEAN /\ nowrite \in BOOLEAN /\ activated \in BOOLEAN
        /\ step \in BOOLEAN /\ interrupted \in BOOLEAN /\ blocked \in BOOLEAN
        /\ restart \in BOOLEAN
        /\ trapped \in BOOLEAN /\ ran \in BOOLEAN
    BY DEF Init
  <2>2. /\ caps \in CapSets /\ mem \subseteq Addr /\ zbp \subseteq Addr
        /\ bp \in [Addr -> Bytes \union {NULL}]
    BY DEF Init
  <2>3. /\ choice \in 0..2 /\ offset \in 0..1 /\ added \in 0..MaxBp /\ traces \in 0..MaxTrace
    BY DEF Init
  <2> QED
    BY <1>1, <2>1, <2>2, <2>3 DEF Init, TypeOK
<1>3. Set = {}
  BY DEF Init, Set
<1>4. Way
  BY <1>3 DEF Init, Way, WayServer, WayInt3, WayNone
<1>5. Pending /\ Where
  BY <1>1 DEF Init, Pending, Where
<1> QED
  BY <1>2, <1>4, <1>5 DEF IInv

(* bp: whatever the server knows, kedbg_setbp settles on a way to break. *)
LEMMA BpKeeps ==
  ASSUME IInv, NEW a \in Starts, Bp(a)
  PROVE  IInv'
<1> USE KedbgAssumption
<1> DEFINE s == kedbg_setbp(mem, zbp, a)
<1>0. TypeOK /\ Way /\ Pending /\ Where
  BY DEF IInv
<1>1. a \in Addr /\ a \notin Set /\ bp[a] = NULL /\ bp \in [Addr -> Bytes \union {NULL}]
  BY <1>0 DEF Starts, Set, Bp, TypeOK
<1>2. /\ mem' = s.mem /\ zbp' = s.zbp /\ choice' = s.choice /\ first_time' = s.first
      /\ offset' = s.offset /\ nowrite' = s.nowrite
      /\ bp' = IF s.ok THEN [bp EXCEPT ![a] = s.saved] ELSE bp
      /\ caps' = caps /\ tpc' = tpc /\ eip' = eip /\ var' = var /\ pc' = pc
      /\ trapped' = trapped /\ upset' = upset /\ interrupted' = interrupted
      /\ CanWrite' = CanWrite /\ CanSetRegs' = CanSetRegs
  BY DEF Bp, Recorded, regs, control, CanWrite, CanSetRegs
<1>3. /\ added' \in 0..MaxBp /\ traces' = traces /\ ran' = ran
      /\ activated' = activated /\ step' = step /\ restart' = restart /\ blocked' = blocked
  BY <1>0 DEF Bp, control, TypeOK
<1>4. /\ tpc \in Addr /\ eip \in Addr /\ var \in Addr /\ pc = "prompt"
      /\ first_time \in BOOLEAN /\ nowrite \in BOOLEAN
  BY <1>0 DEF TypeOK, Bp
<1> HIDE DEF s
<1>s. s.ok /\ s.saved # NULL => Set' = Set \union {a}
  BY <1>1, <1>2 DEF Set
<1>n. ~s.ok => Set' = Set
  BY <1>2 DEF Set
<1>5. CASE choice = 0 /\ "Z0" \in caps
  <2>1. s = Simple(mem, zbp, a)
    BY <1>5 DEF s, kedbg_setbp
  <2>2. Set' = Set \union {a} /\ bp' = [bp EXCEPT ![a] = "zero"]
    BY <1>2, <1>s, <2>1 DEF Simple, Bytes
  <2>3. /\ mem' = {} /\ zbp' = Set' /\ choice' = 0 /\ offset' = 0 /\ ~first_time'
        /\ nowrite' = nowrite
    BY <1>0, <1>2, <1>5, <2>1, <2>2 DEF Simple, Way, WayServer
  <2>4. bp' \in [Addr -> Bytes \union {NULL}]
    BY <1>1, <2>2 DEF Bytes
  <2>b. first_time' \in BOOLEAN /\ nowrite' \in BOOLEAN
    BY <1>2, <1>4, <2>1 DEF Simple
  <2>5. TypeOK'
    <3>1. Set' \subseteq Addr
      BY DEF Set
    <3> QED
      BY <1>0, <1>2, <1>3, <2>3, <2>4, <2>b, <3>1 DEF TypeOK
  <2>6. Way'
    BY <1>0, <1>1, <1>2, <1>5, <2>2, <2>3 DEF Way, WayServer, WayInt3, WayNone
  <2>7. Pending' /\ Where'
    BY <1>0, <1>2, <1>5, <2>3 DEF Pending, Where, Way, WayServer
  <2> QED
    BY <2>5, <2>6, <2>7 DEF IInv
<1>6. CASE ~(choice = 0 /\ "Z0" \in caps) /\ (choice = 1 \/ (choice = 0 /\ first_time))
  <2>1. s = Int3(mem, zbp, a)
    BY <1>6 DEF s, kedbg_setbp
  <2>2. "Z0" \notin caps /\ zbp = {} /\ a \notin mem
    BY <1>0, <1>1, <1>6 DEF Way, WayServer, WayInt3
  <2>3. s.saved = "code" /\ s.saved # NULL /\ s.offset = 1 /\ s.zbp = {}
    BY <2>1, <2>2 DEF Int3, ByteAt, Bytes
  <2>4. CASE ~CanWrite /\ ~nowrite /\ first_time
    <3>1. choice = 0 /\ Set = {} /\ mem = {}
      BY <1>0, <1>6, <2>4 DEF Way, WayServer, WayInt3
    <3>2. ~s.ok /\ s.choice = 2 /\ s.first = TRUE /\ s.mem = {} /\ s.nowrite = TRUE
      BY <2>1, <2>4, <3>1 DEF Int3
    <3>b. first_time' \in BOOLEAN /\ nowrite' \in BOOLEAN /\ bp' = bp
      BY <1>2, <3>2
    <3>3. TypeOK'
      BY <1>0, <1>2, <1>3, <2>3, <3>2, <3>b DEF TypeOK
    <3>4. Way'
      BY <1>2, <1>n, <2>2, <2>3, <2>4, <3>1, <3>2 DEF Way, WayServer, WayInt3, WayNone
    <3>5. Pending' /\ Where'
      BY <1>0, <1>2, <1>4, <2>3, <3>1 DEF Pending, Where, Sound, Way, WayServer
    <3> QED
      BY <3>3, <3>4, <3>5 DEF IInv
  <2>5. CASE ~(~CanWrite /\ ~nowrite /\ first_time)
    <3>1. s.ok /\ s.choice = 1 /\ s.first = FALSE /\ s.nowrite \in BOOLEAN
      BY <2>1, <2>5 DEF Int3
    <3>2. Set' = Set \union {a} /\ bp' = [bp EXCEPT ![a] = "code"]
      BY <1>2, <1>s, <2>3, <3>1
    <3>3. mem' = IF CanWrite THEN Set' ELSE {}
      BY <1>0, <1>2, <1>6, <2>1, <3>2 DEF Int3, Way, WayServer, WayInt3
    <3>4. bp' \in [Addr -> Bytes \union {NULL}] /\ Set' \subseteq Addr
      BY <1>1, <3>2 DEF Bytes, Set
    <3>b. first_time' \in BOOLEAN /\ nowrite' \in BOOLEAN
      BY <1>2, <3>1
    <3>5. TypeOK'
      BY <1>0, <1>2, <1>3, <2>3, <3>1, <3>3, <3>4, <3>b DEF TypeOK
    <3>6. \A b \in Set' : bp'[b] = "code"
      BY <1>0, <1>1, <1>6, <3>2 DEF Way, WayServer, WayInt3
    <3>7. Way'
      BY <1>0, <1>2, <2>2, <2>3, <3>1, <3>2, <3>3, <3>6
      DEF Way, WayServer, WayInt3, WayNone
    <3>8. Pending' /\ Where'
      BY <1>0, <1>2, <1>4, <1>6, <2>3 DEF Pending, Where, Sound, Way, WayServer, WayInt3
    <3> QED
      BY <3>5, <3>7, <3>8 DEF IInv
  <2> QED
    BY <2>4, <2>5
<1>7. CASE ~(choice = 0 /\ "Z0" \in caps) /\ ~(choice = 1 \/ (choice = 0 /\ first_time))
  <2>1. choice = 2 /\ (choice = 0) = FALSE
    BY <1>0, <1>7 DEF TypeOK, Way, WayServer
  <2>2. s = [ok |-> FALSE, mem |-> mem, zbp |-> zbp, saved |-> "zero", choice |-> choice,
             first |-> first_time, offset |-> offset, nowrite |-> nowrite]
    BY <1>7, <2>1 DEF s, kedbg_setbp
  <2>3. ~s.ok /\ bp' = bp /\ mem' = mem /\ zbp' = zbp /\ choice' = choice
        /\ first_time' = first_time /\ offset' = offset /\ nowrite' = nowrite
    BY <1>2, <2>2
  <2>4. TypeOK'
    BY <1>0, <1>2, <1>3, <2>3 DEF TypeOK
  <2>5. Way'
    BY <1>0, <1>2, <1>n, <2>1, <2>3 DEF Way, WayServer, WayInt3, WayNone
  <2>6. Pending' /\ Where'
    BY <1>0, <1>2, <2>3 DEF Pending, Where, Sound
  <2> QED
    BY <2>4, <2>5, <2>6 DEF IInv
<1> QED
  BY <1>5, <1>6, <1>7

(* delete takes the trap and the entry out together. *)
LEMMA DeleteKeeps ==
  ASSUME IInv, NEW a \in Starts, Delete(a)
  PROVE  IInv'
<1> USE KedbgAssumption
<1> DEFINE d == kedbg_delbp(mem, zbp, a)
<1>0. TypeOK /\ Way /\ Pending /\ Where
  BY DEF IInv
<1>1. a \in Addr /\ a \in Set
  BY DEF Starts, Set, Delete
<1>2. /\ mem' = d.mem /\ zbp' = d.zbp /\ bp' = [bp EXCEPT ![a] = NULL]
      /\ choice' = choice /\ offset' = offset
      /\ caps' = caps /\ tpc' = tpc /\ eip' = eip /\ var' = var /\ pc' = pc
      /\ trapped' = trapped /\ upset' = upset /\ interrupted' = interrupted
      /\ CanWrite' = CanWrite /\ CanSetRegs' = CanSetRegs
  BY DEF Delete, regs, control, CanWrite, CanSetRegs
<1>3. /\ added' = added /\ traces' = traces /\ ran' = ran /\ first_time' = first_time
      /\ activated' = activated /\ step' = step /\ restart' = restart /\ blocked' = blocked
  BY DEF Delete, control, bounds
<1>4. Set' = Set \ {a}
  BY <1>0, <1>1, <1>2 DEF Set, TypeOK
<1>5. \A b \in Set' : bp'[b] = bp[b]
  BY <1>0, <1>2, <1>4 DEF Set, TypeOK
<1>6. d.mem \subseteq mem /\ d.zbp \subseteq zbp /\ Way'
  <2>1. CASE choice = 0
    <3>1. offset = 0 /\ d = [mem |-> mem, zbp |-> zbp \ {a}]
      BY <1>0, <2>1 DEF Way, WayServer, kedbg_delbp
    <3>2. mem' = mem /\ zbp' = zbp \ {a}
      BY <1>2, <3>1
    <3>3. Way'
      BY <1>0, <1>1, <1>2, <1>3, <1>4, <2>1, <3>2 DEF Way, WayServer, WayInt3, WayNone
    <3> QED
      BY <3>1, <3>3
  <2>2. CASE choice = 1
    <3>1. offset = 1 /\ zbp = {} /\ bp[a] = "code" /\ bp[a] # "int3"
      BY <1>0, <1>1, <2>2 DEF Way, WayInt3
    <3>2. d.zbp = zbp /\ d.mem = IF CanWrite THEN mem \ {a} ELSE mem
      <4>1. CASE CanWrite
        <5>1. d = [mem |-> mem \ {a}, zbp |-> zbp]
          BY <3>1, <4>1 DEF kedbg_delbp
        <5> QED
          BY <4>1, <5>1
      <4>2. CASE ~CanWrite
        <5>1. d = [mem |-> mem, zbp |-> zbp]
          BY <3>1, <4>2 DEF kedbg_delbp
        <5> QED
          BY <4>2, <5>1
      <4> QED
        BY <4>1, <4>2
    <3> HIDE DEF d
    <3>3. mem' = d.mem /\ zbp' = {} /\ d.mem = IF CanWrite THEN mem \ {a} ELSE mem
      BY <1>2, <3>1, <3>2
    <3>4. mem' = IF CanWrite THEN Set' ELSE {}
      <4>1. mem = IF CanWrite THEN Set ELSE {}
        BY <1>0, <2>2 DEF Way, WayInt3
      <4> QED
        BY <1>4, <3>3, <4>1
    <3>5. Way'
      BY <1>0, <1>2, <1>3, <1>4, <1>5, <2>2, <3>3, <3>4
      DEF Way, WayServer, WayInt3, WayNone
    <3> QED
      BY <3>2, <3>5
  <2>3. CASE choice = 2
    BY <1>0, <1>1, <2>3 DEF Way, WayNone
  <2> QED
    BY <1>0, <2>1, <2>2, <2>3 DEF TypeOK
<1>7. TypeOK'
  <2>1. bp' \in [Addr -> Bytes \union {NULL}]
    BY <1>0, <1>2 DEF TypeOK
  <2>2. nowrite' \in BOOLEAN
    BY DEF Delete
  <2> HIDE DEF d
  <2> QED
    BY <1>0, <1>2, <1>3, <1>6, <2>1, <2>2 DEF TypeOK
<1>8. Pending' /\ Where'
  BY <1>0, <1>2 DEF Pending, Where, Sound
<1> QED
  BY <1>6, <1>7, <1>8 DEF IInv

(* Way is about the registry and the traps only. *)
LEMMA WayFrame ==
  ASSUME Way, UNCHANGED <<caps, mem, zbp, bp, choice, first_time, offset>>
  PROVE  Way'
<1>1. Set' = Set /\ CanWrite' = CanWrite
  BY DEF Set, CanWrite
<1> QED
  BY <1>1 DEF Way, WayServer, WayInt3, WayNone

(* continue *)
LEMMA ContKeeps ==
  ASSUME IInv, cmd_kedbgcont
  PROVE  /\ IInv'
         /\ "trace" \notin upset /\ pc' = "running" => tpc' \in {tpc, Succ(tpc)}
         /\ Moving'
<1> USE KedbgAssumption
<1> DEFINE o == kedbg_step_over_bp(LookedUp, Shipped)
<1>0. TypeOK /\ Way /\ Pending /\ Where /\ pc = "prompt"
  BY DEF IInv, cmd_kedbgcont
<1>1. LookedUp \in Addr /\ Shipped \in Addr
  BY <1>0 DEF TypeOK, LookedUp, Shipped
<1>2. "trace" \notin upset => LookedUp = tpc /\ Shipped = tpc
  BY <1>0 DEF Pending, LookedUp, Shipped
<1>3. /\ o.mem = mem /\ o.zbp = zbp /\ o.tpc \in Addr
      /\ LookedUp = Shipped => o.tpc = IF bp[Shipped] = NULL THEN Shipped ELSE Succ(Shipped)
      /\ offset = 0 => o.tpc \in {Shipped, Succ(Shipped)}
      /\ Resaved(LookedUp) => bp' = bp
  BY <1>0, <1>1, StepOverRestores
<1>4. /\ mem' = o.mem /\ zbp' = o.zbp /\ Resaved(LookedUp)
      /\ \/ /\ ~step
            /\ tpc' = o.tpc /\ pc' = "running" /\ ran' = (o.tpc # Shipped)
            /\ eip' = tpc' /\ var' = var /\ upset' = upset
         \/ /\ step
            /\ tpc' = Stepped(o.mem, o.tpc)
            /\ eip' = tpc' /\ var' = tpc'
            /\ upset' = upset \union {"step"}
            /\ pc' = pc /\ ran' = ran
  BY DEF cmd_kedbgcont, kedbg_get_regvars_ia32
<1>5. /\ caps' = caps /\ choice' = choice /\ first_time' = first_time /\ offset' = offset
      /\ nowrite' = nowrite /\ step' = step /\ interrupted' = interrupted
      /\ restart' = restart /\ blocked' = blocked /\ trapped' = trapped
      /\ added' = added /\ traces' = traces
      /\ CanSetRegs' = CanSetRegs
  BY DEF cmd_kedbgcont, control, bounds, CanSetRegs
<1> HIDE DEF o
<1>6. mem' = mem /\ zbp' = zbp /\ bp' = bp
  BY <1>3, <1>4
<1>7. Way'
  BY <1>0, <1>5, <1>6, WayFrame
<1>8. ran' \in BOOLEAN /\ activated' \in BOOLEAN
  <2>1. activated' \in BOOLEAN
    BY DEF cmd_kedbgcont
  <2>2. (o.tpc # Shipped) \in BOOLEAN
    OBVIOUS
  <2> QED
    BY <1>0, <1>4, <2>1, <2>2 DEF TypeOK
<1>9. Stepped(o.mem, o.tpc) \in Addr
  <2>1. o.mem \subseteq Starts
    BY <1>0, <1>3, MemStarts
  <2> QED
    BY <1>3, <2>1, SteppedAddr
<1>10. TypeOK'
  BY <1>0, <1>3, <1>4, <1>5, <1>6, <1>8, <1>9 DEF TypeOK
<1>11. Pending'
  BY <1>0, <1>4 DEF Pending
<1>12. offset = 0 => tpc' \in Starts /\ var' \in Starts
  <2> SUFFICES ASSUME offset = 0 PROVE tpc' \in Starts /\ var' \in Starts
    OBVIOUS
  <2>1. o.tpc \in Starts /\ var \in Starts
    BY <1>0, <1>1, <1>3, SuccStarts DEF Where, Shipped
  <2>2. o.mem = {}
    BY <1>0, <1>3 DEF TypeOK, Way, WayServer, WayInt3, WayNone
  <2>3. Stepped(o.mem, o.tpc) \in Starts
    BY <1>3, <2>2, SuccStarts DEF Stepped
  <2> QED
    BY <1>4, <2>1, <2>3
<1>13. "trace" \notin upset /\ pc' = "running" => tpc' \in {tpc, Succ(tpc)}
  BY <1>0, <1>2, <1>3, <1>4
<1>14. Where'
  <2>1. Sound' => pc' = "running" /\ Sound /\ "trace" \notin upset
    BY <1>4, <1>5 DEF Sound
  <2>2. offset = 1 /\ Sound' => tpc' \in Starts
    BY <1>0, <1>13, <2>1, SuccStarts DEF Where, TypeOK
  <2> QED
    BY <1>0, <1>4, <1>5, <1>12, <2>2 DEF Where
<1>15. Moving'
  <2> SUFFICES ASSUME "trace" \notin upset', pc' = "running", ~ran'
               PROVE  tpc' \notin mem'
    BY <1>0, <1>4 DEF Moving
  <2>1. "trace" \notin upset /\ o.tpc = Shipped /\ tpc' = o.tpc
    BY <1>0, <1>4
  <2>2. bp[tpc] = NULL /\ tpc' = tpc
    BY <1>0, <1>2, <1>3, <2>1, SuccMoves DEF TypeOK
  <2>3. mem \subseteq Set
    BY <1>0 DEF TypeOK, Way, WayServer, WayInt3, WayNone
  <2> QED
    BY <1>6, <2>2, <2>3 DEF Set
<1> QED
  BY <1>7, <1>10, <1>11, <1>13, <1>14, <1>15 DEF IInv

(* The target reaches a trap, or executes an instruction. *)
LEMMA RunsKeeps ==
  ASSUME IInv, TargetRuns
  PROVE  IInv'
<1> USE KedbgAssumption
<1>0. TypeOK /\ Way /\ Pending /\ Where /\ tpc \in Addr
  BY DEF IInv, TypeOK
<1>1. mem \subseteq Starts
  BY <1>0, MemStarts
<1>2. Way'
  BY <1>0, WayFrame DEF TargetRuns, registry
<1>3. Succ(tpc) \in Starts /\ Succ(tpc) \in Addr
  BY <1>0, SuccStarts
<1>4. tpc \in mem => tpc + 1 \in Addr /\ (tpc + 1) % 2 = 1
  BY <1>1, SecondByte
<1>5. TypeOK'
  BY <1>0, <1>3, <1>4, ZenonT(60) DEF TargetRuns, registry, regs, control, bounds, TypeOK
<1>6. Pending'
  BY <1>0 DEF TargetRuns, regs, control, Pending
<1>7. offset = 0 => mem = {}
  BY <1>0 DEF TypeOK, Way, WayServer, WayInt3, WayNone
<1>8. offset = 1 => zbp = {}
  BY <1>0 DEF TypeOK, Way, WayServer, WayInt3, WayNone
<1>9. Sound' = Sound
  BY DEF Sound, TargetRuns, CanSetRegs
<1>10. Where'
  <2>1. CASE tpc \in mem \/ (ran /\ tpc \in zbp)
    <3>1. /\ tpc' = (IF tpc \in mem THEN tpc + 1 ELSE tpc) /\ var' = var
          /\ pc' = "stopped" /\ trapped' = TRUE /\ offset' = offset
      BY <2>1 DEF TargetRuns, registry, regs
    <3> QED
      BY <1>0, <1>4, <1>7, <1>8, <2>1, <3>1 DEF Where
  <2>2. CASE ~(tpc \in mem \/ (ran /\ tpc \in zbp))
    <3>1. /\ tpc' = Succ(tpc) /\ var' = var /\ pc' = pc /\ pc # "stopped"
          /\ offset' = offset
      BY <2>2 DEF TargetRuns, registry, regs
    <3> QED
      BY <1>0, <1>3, <3>1 DEF Where
  <2> QED
    BY <2>1, <2>2
<1> QED
  BY <1>2, <1>5, <1>6, <1>10 DEF IInv

(* continue returns: the handler has read the reply, or the pc goes back to
   the trap byte. *)
LEMMA ReturnsKeeps ==
  ASSUME IInv, ContReturns
  PROVE  IInv'
<1> USE KedbgAssumption
<1>0. TypeOK /\ Way /\ Pending /\ Where /\ tpc \in Addr /\ pc = "stopped"
  BY DEF IInv, TypeOK, ContReturns
<1>1. Way'
  BY <1>0, WayFrame DEF ContReturns, registry
<1>2. /\ offset' = offset /\ trapped' = trapped /\ mem' = mem /\ zbp' = zbp
      /\ CanSetRegs' = CanSetRegs /\ bp' = bp /\ caps' = caps
      /\ choice' = choice /\ first_time' = first_time /\ nowrite' = nowrite
      /\ activated' = activated /\ step' = step /\ restart' = restart /\ blocked' = blocked /\ ran' = ran
      /\ added' = added /\ traces' = traces
  BY DEF ContReturns, registry, CanSetRegs, bounds
<1>3. CASE interrupted /\ (restart \/ ~blocked) /\ pc' = "hung" /\ UNCHANGED <<tpc, regs, interrupted, upset>>
  <2>1. TypeOK'
    BY <1>0, <1>2, <1>3 DEF TypeOK, regs
  <2>2. Pending' /\ Where'
    BY <1>0, <1>2, <1>3 DEF Pending, Where, Sound, regs
  <2> QED
    BY <1>1, <2>1, <2>2 DEF IInv
<1>4. CASE /\ interrupted /\ ~restart /\ blocked /\ pc' = "prompt" /\ interrupted' = FALSE
           /\ eip' = tpc /\ var' = tpc /\ tpc' = tpc
           /\ upset' = IF trapped THEN upset \union {"race"} ELSE upset
  <2>b. interrupted' \in BOOLEAN
    BY <1>4
  <2>1. TypeOK'
    BY <1>0, <1>2, <1>4, <2>b DEF TypeOK
  <2>2. Pending'
    BY <1>4 DEF Pending
  <2>3. Sound' => Sound /\ ~trapped
    BY <1>2, <1>4 DEF Sound
  <2>4. Where'
    BY <1>0, <1>2, <1>4, <2>3 DEF Where
  <2> QED
    BY <1>1, <2>1, <2>2, <2>4 DEF IInv
<1>5. CASE /\ ~interrupted /\ tpc' = Rewound /\ eip' = tpc' /\ var' = tpc'
           /\ pc' = "prompt" /\ interrupted' = interrupted /\ upset' = upset
  <2>1. trapped
    BY <1>0, <1>5 DEF Pending
  <2>2. offset = 1 => tpc - 1 \in Starts /\ tpc - 1 \in Addr
    BY <1>0, <2>1, FirstByte, SecondByte DEF Where
  <2>3. Rewound \in Addr
    BY <1>0, <2>2 DEF Rewound
  <2>4. TypeOK'
    BY <1>0, <1>2, <1>5, <2>3 DEF TypeOK
  <2>5. Pending'
    BY <1>5 DEF Pending
  <2>6. Sound' = Sound
    BY <1>2, <1>5 DEF Sound
  <2>7. offset = 0 => Rewound = tpc
    BY DEF Rewound
  <2>8. offset = 1 /\ Sound => Rewound \in Starts
    BY <2>2 DEF Rewound, Sound
  <2>9. Where'
    BY <1>0, <1>2, <1>5, <2>6, <2>7, <2>8 DEF Where
  <2> QED
    BY <1>1, <2>4, <2>5, <2>9 DEF IInv
<1> QED
  BY <1>3, <1>4, <1>5 DEF ContReturns, kedbg_get_regvars_ia32

(* An iteration of itrace *)
LEMMA TraceKeeps ==
  ASSUME IInv, NEW sig \in BOOLEAN, TraceStep(sig)
  PROVE  IInv'
<1> USE KedbgAssumption
<1> DEFINE t == Stepped(mem, tpc)
           o == kedbg_step_over_bp(t, t)
<1>0. TypeOK /\ Way /\ Pending /\ Where /\ tpc \in Addr /\ pc = "trace"
  BY DEF IInv, TypeOK, TraceStep
<1>1. mem \subseteq Starts
  BY <1>0, MemStarts
<1>2. t \in Addr
  BY <1>0, <1>1, SteppedAddr
<1>3. /\ mem' = o.mem /\ zbp' = o.zbp /\ tpc' = o.tpc /\ eip' = o.tpc
      /\ Resaved(t)
      /\ \/ pc' = "prompt" /\ restart' = TRUE
         \/ pc' = pc /\ restart' = restart
  BY DEF TraceStep
<1>4. /\ caps' = caps /\ choice' = choice /\ first_time' = first_time /\ offset' = offset
      /\ nowrite' = nowrite /\ var' = var /\ activated' = activated /\ step' = step
      /\ interrupted' = interrupted /\ blocked' = blocked /\ trapped' = trapped
      /\ ran' = ran /\ upset' = upset
      /\ added' = added /\ traces' = traces
  BY DEF TraceStep, bounds
<1>5. offset = 0 => t \in Starts
  <2>1. offset = 0 => mem = {}
    BY <1>0 DEF TypeOK, Way, WayServer, WayInt3, WayNone
  <2> QED
    BY <1>0, <2>1, SuccStarts DEF Stepped
<1> HIDE DEF t
<1>6. /\ o.mem = mem /\ o.zbp = zbp /\ o.tpc \in {t, Succ(t)}
      /\ Resaved(t) => bp' = bp
  BY <1>0, <1>2, StepOverRestores
<1> HIDE DEF o
<1>7. mem' = mem /\ zbp' = zbp /\ bp' = bp /\ tpc' \in Addr /\ eip' \in Addr
  BY <1>2, <1>3, <1>6, SuccStarts
<1>8. Way'
  BY <1>0, <1>4, <1>7, WayFrame
<1>9. restart' \in BOOLEAN
  BY <1>0, <1>3 DEF TypeOK
<1>10. TypeOK'
  BY <1>0, <1>3, <1>4, <1>7, <1>9 DEF TypeOK
<1>11. "trace" \in upset /\ upset # {}
  BY <1>0 DEF Pending
<1>12. Pending'
  BY <1>0, <1>3, <1>4, <1>11 DEF Pending
<1>13. offset = 0 => tpc' \in Starts /\ var' \in Starts
  BY <1>0, <1>2, <1>3, <1>4, <1>5, <1>6, SuccStarts DEF Where
<1>14. Where'
  BY <1>0, <1>3, <1>4, <1>11, <1>13 DEF Where, Sound
<1> QED
  BY <1>8, <1>10, <1>12, <1>14 DEF IInv

(* The actions that leave the traps and the pc alone *)
LEMMA OthersKeep ==
  ASSUME IInv,
         \/ Poke \/ cmd_kedbgstep \/ cmd_kedbg_dump_regs \/ cmd_kedbgquit
         \/ cmd_kedbgitrace \/ kedbg_sigint \/ TargetStops \/ TargetExits
         \/ UNCHANGED vars
  PROVE  IInv'
<1> USE KedbgAssumption
<1> USE DEF target, registry, regs, control, bounds
<1>0. TypeOK /\ Way /\ Pending /\ Where
  BY DEF IInv
<1>1. UNCHANGED <<caps, mem, zbp, bp, choice, first_time, offset>>
  BY DEF Poke, cmd_kedbgstep, cmd_kedbg_dump_regs, cmd_kedbgquit, cmd_kedbgitrace,
         kedbg_sigint, TargetStops, TargetExits, vars
<1>2. Way'
  BY <1>0, <1>1, WayFrame
<1>3. CanSetRegs' = CanSetRegs
  BY <1>1 DEF CanSetRegs
<1>4. CASE Poke
  <2>1. nowrite' \in BOOLEAN
    BY <1>4 DEF Poke
  <2>2. TypeOK'
    BY <1>0, <1>4, <2>1 DEF Poke, TypeOK
  <2>3. Pending' /\ Where'
    BY <1>0, <1>3, <1>4 DEF Poke, Pending, Where, Sound
  <2> QED
    BY <1>2, <2>2, <2>3 DEF IInv
<1>5. CASE cmd_kedbgstep
  <2>1. step' \in BOOLEAN
    BY <1>5 DEF cmd_kedbgstep
  <2>2. TypeOK'
    BY <1>0, <1>5, <2>1 DEF cmd_kedbgstep, TypeOK
  <2>3. Pending' /\ Where'
    BY <1>0, <1>3, <1>5 DEF cmd_kedbgstep, Pending, Where, Sound
  <2> QED
    BY <1>2, <2>2, <2>3 DEF IInv
<1>6. CASE cmd_kedbg_dump_regs
  <2>1. TypeOK'
    BY <1>0, <1>6 DEF cmd_kedbg_dump_regs, kedbg_get_regvars_ia32, TypeOK
  <2>2. Pending' /\ Where'
    BY <1>0, <1>3, <1>6
    DEF cmd_kedbg_dump_regs, kedbg_get_regvars_ia32, Pending, Where, Sound
  <2> QED
    BY <1>2, <2>1, <2>2 DEF IInv
<1>7. CASE cmd_kedbgquit \/ TargetExits
  <2>1. TypeOK'
    BY <1>0, <1>7, ZenonT(60) DEF cmd_kedbgquit, TargetExits, TypeOK
  <2>2. Pending' /\ Where'
    BY <1>0, <1>3, <1>7 DEF cmd_kedbgquit, TargetExits, Pending, Where, Sound
  <2> QED
    BY <1>2, <2>1, <2>2 DEF IInv
<1>8. CASE cmd_kedbgitrace
  <2>1. TypeOK'
    BY <1>0, <1>8 DEF cmd_kedbgitrace, TypeOK
  <2>2. Pending' /\ Where'
    BY <1>0, <1>8 DEF cmd_kedbgitrace, Pending, Where, Sound
  <2> QED
    BY <1>2, <2>1, <2>2 DEF IInv
<1>9. CASE kedbg_sigint
  <2>1. /\ interrupted' \in BOOLEAN /\ blocked' \in BOOLEAN
        /\ (pc = "prompt" /\ pc' = "hung") \/ (pc = "running" /\ pc' = "breaking")
             \/ (pc = "stopped" /\ pc' = "stopped")
    BY <1>9 DEF kedbg_sigint
  <2>2. TypeOK'
    BY <1>0, <1>9, <2>1 DEF kedbg_sigint, TypeOK
  <2>3. Pending' /\ Where'
    BY <1>0, <1>3, <1>9 DEF kedbg_sigint, Pending, Where, Sound
  <2> QED
    BY <1>2, <2>2, <2>3 DEF IInv
<1>10. CASE TargetStops
  <2>1. trapped' \in BOOLEAN
    BY <1>10 DEF TargetStops
  <2>2. TypeOK'
    BY <1>0, <1>10, <2>1 DEF TargetStops, TypeOK
  <2>3. Pending' /\ Where'
    BY <1>0, <1>3, <1>10 DEF TargetStops, Pending, Where, Sound
  <2> QED
    BY <1>2, <2>2, <2>3 DEF IInv
<1>11. CASE UNCHANGED vars
  <2>1. TypeOK'
    BY <1>0, <1>11 DEF vars, TypeOK
  <2>2. Pending' /\ Where'
    BY <1>0, <1>3, <1>11 DEF vars, Pending, Where, Sound
  <2> QED
    BY <1>2, <2>1, <2>2 DEF IInv
<1> QED
  BY <1>4, <1>5, <1>6, <1>7, <1>8, <1>9, <1>10, <1>11

\* Every step keeps it.
LEMMA NextIInv == IInv /\ [Next]_vars => IInv'
<1> SUFFICES ASSUME IInv, [Next]_vars PROVE IInv'
  OBVIOUS
<1>1. CASE \E a \in Starts : Bp(a) \/ Delete(a)
  BY <1>1, BpKeeps, DeleteKeeps
<1>2. CASE cmd_kedbgcont
  BY <1>2, ContKeeps
<1>3. CASE TargetRuns
  BY <1>3, RunsKeeps
<1>4. CASE ContReturns
  BY <1>4, ReturnsKeeps
<1>5. CASE \E s \in BOOLEAN : TraceStep(s)
  BY <1>5, TraceKeeps
<1>6. CASE \/ Poke \/ cmd_kedbgstep \/ cmd_kedbg_dump_regs \/ cmd_kedbgquit
           \/ cmd_kedbgitrace \/ kedbg_sigint \/ TargetStops \/ TargetExits
           \/ UNCHANGED vars
  BY <1>6, OthersKeep
<1> QED
  BY <1>1, <1>2, <1>3, <1>4, <1>5, <1>6 DEF Next, User, Machine

\* It is an invariant.
LEMMA InvariantIInv == Spec => []IInv
BY InitIInv, NextIInv, PTL DEF Spec

-----------------------------------------------------------------------------
(* The theorems *)

(* Every variable of kedbg holds a value of its type, and traps of the server
   and trap bytes are never mixed. *)
THEOREM TypeCorrect == Spec => []TypeOK
<1>1. IInv => TypeOK
  BY DEF IInv
<1> QED
  BY <1>1, InvariantIInv, PTL

(* Whatever the server supports, the target holds a trap exactly where
   e2dbgworld.bp has a breakpoint. *)
THEOREM ArmedInvariant == Spec => []Armed
<1>1. IInv => Armed
  <2> SUFFICES ASSUME IInv, CanWrite \/ "Z0" \in caps PROVE mem \union zbp = Set
    BY DEF Armed
  <2>1. TypeOK /\ Way
    BY DEF IInv
  <2>2. CASE choice = 0
    BY <2>1, <2>2 DEF Way, WayServer
  <2>3. CASE choice = 1
    <3>1. CanWrite /\ mem = Set /\ zbp = {}
      BY <2>1, <2>3 DEF Way, WayInt3
    <3> QED
      BY <3>1
  <2>4. CASE choice = 2
    BY <2>1, <2>4 DEF Way, WayNone
  <2> QED
    BY <2>1, <2>2, <2>3, <2>4 DEF TypeOK
<1> QED
  BY <1>1, InvariantIInv, PTL

(* The byte that kedbg_setbpwint3 and kedbg_step_over_bp save is never a trap
   byte. *)
THEOREM SavedIsCodeInvariant == Spec => []SavedIsCode
<1>1. IInv => SavedIsCode
  BY DEF IInv, TypeOK, Way, WayServer, WayInt3, WayNone, SavedIsCode
<1> QED
  BY <1>1, InvariantIInv, PTL

(* cmd_kedbgcont comes back to the prompt with the pc at an instruction. *)
THEOREM PcAtInstructionInvariant == Spec => []PcAtInstruction
<1>1. IInv => PcAtInstruction
  BY DEF IInv, TypeOK, Where, Sound, PcAtInstruction
<1> QED
  BY <1>1, InvariantIInv, PTL

\* Every step keeps what Progress needs.
LEMMA NextMoving == IInv /\ Moving /\ [Next]_vars => Moving'
<1> SUFFICES ASSUME IInv, Moving, [Next]_vars PROVE Moving'
  OBVIOUS
<1> USE DEF target, registry, regs, control, bounds
<1>1. CASE \E a \in Starts : Bp(a) \/ Delete(a)
  BY <1>1 DEF Bp, Delete, Moving
<1>2. CASE cmd_kedbgcont
  BY <1>2, ContKeeps
<1>3. CASE TargetRuns
  <2>1. ran \in BOOLEAN
    BY DEF IInv, TypeOK
  <2>2. CASE tpc \in mem \/ (ran /\ tpc \in zbp)
    BY <1>3, <2>1, <2>2 DEF TargetRuns, Moving
  <2>3. CASE ~(tpc \in mem \/ (ran /\ tpc \in zbp))
    BY <1>3, <2>3 DEF TargetRuns, Moving
  <2> QED
    BY <2>2, <2>3
<1>4. CASE ContReturns
  BY <1>4 DEF ContReturns, Moving
<1>5. CASE \E s \in BOOLEAN : TraceStep(s)
  <2>1. "trace" \in upset'
    BY <1>5 DEF TraceStep, IInv, Pending
  <2> QED
    BY <2>1 DEF Moving
<1>6. CASE Poke \/ cmd_kedbgstep \/ cmd_kedbg_dump_regs \/ cmd_kedbgquit \/ TargetExits
  BY <1>6 DEF Poke, cmd_kedbgstep, cmd_kedbg_dump_regs, cmd_kedbgquit, TargetExits, Moving
<1>7. CASE cmd_kedbgitrace
  BY <1>7 DEF cmd_kedbgitrace, Moving
<1>8. CASE kedbg_sigint \/ TargetStops
  BY <1>8 DEF kedbg_sigint, TargetStops, Moving
<1>9. CASE UNCHANGED vars
  BY <1>9 DEF vars, Moving
<1> QED
  BY <1>1, <1>2, <1>3, <1>4, <1>5, <1>6, <1>7, <1>8, <1>9 DEF Next, User, Machine

(* The target never stops at the breakpoint that it was resumed on. *)
THEOREM ProgressInvariant == Spec => []Progress
<1>1. Init => Moving
  BY DEF Init, Moving
<1>2. Moving => Progress
  BY DEF Moving, Progress
<1> QED
  BY <1>1, <1>2, InvariantIInv, NextMoving, PTL DEF Spec

(* continue resumes the target at its pc, or behind the instruction under the
   breakpoint there: the register variables are those of the target. *)
THEOREM ResumesInPlaceHolds == Spec => ResumesInPlace
<1>1. ASSUME IInv, [Next]_vars
      PROVE  [(pc = "prompt" /\ pc' = "running" /\ "trace" \notin upset)
                => tpc' \in {tpc, Succ(tpc)}]_vars
  <2> SUFFICES ASSUME Next, pc = "prompt", pc' = "running", "trace" \notin upset
               PROVE  tpc' \in {tpc, Succ(tpc)}
    BY <1>1
  <2>1. cmd_kedbgcont
    BY DEF Next, User, Machine, Bp, Delete, Poke, cmd_kedbgstep, cmd_kedbg_dump_regs,
           cmd_kedbgquit, cmd_kedbgitrace, kedbg_sigint, TargetStops, TargetRuns,
           TargetExits, ContReturns, TraceStep
  <2> QED
    BY <1>1, <2>1, ContKeeps
<1> QED
  BY <1>1, InvariantIInv, PTL DEF Spec, ResumesInPlace
=============================================================================
