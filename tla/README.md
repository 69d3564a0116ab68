# ERESI in TLA+

ERESI (the ERESI Reverse Engineering Software Interface) is a set of C
libraries and shells around one scripting language: an ELF editor (elfsh), a
debugger that lives inside the process it debugs (e2dbg), a tracer (etrace), a
program analyser (evarista) and kernel variants of these (kernsh, kedbg).
Several servers can be joined into a peer to peer network.

This directory holds a TLA+ specification of the parts of ERESI whose
correctness depends on the order in which things happen, the TLC models that
check them, and TLAPS proofs about them. `PROJECT.json` lists components, runs,
the mutated definitions that show a property can fail, the correspondence of
definitions to source lines, findings and hazards.

## 1. Inventory

| Component | State | Operations | Interacts with | What is hard |
|---|---|---|---|---|
| **libdump**: DUMP overlay network | `dump_world`: neighbours -> sockets (`ports`), sockets -> own ids (`myids`), two recently-seen tables, wait queue of packets | send, three packet handlers, connect, disconnect, cleaning | called from librevm's select loop; peers over TCP | flooding over cycles, replies that race, connections that come and go under packets in flight, expiry, exit in the middle of a flood |
| **librevm io**: server loop | `world.jobs`, receive buffers and flags of each client, `world.curjob` | accept, receive, choose the next job, take its command | libdump, interpreter, network clients, terminal | several input sources; keys that share inet_ntoa's buffer; lines in pieces; connections that end at any moment |
| **libe2dbg user**: debugger core | breakpoints and their saved bytes, per thread state machine (`count`, `past`, `step`), home-made mutex, signal dispositions | SIGTRAP and SIGUSR2 handlers, thread creation hooks, prompt commands | debuggee's threads and memory, kernel signals | everything runs in signal handlers of the debuggee's threads; the mutex is not atomic; code is modified while threads run |
| **libaspect libhash** | array of chains, element count, element type, shared key strings | add, set, del, merge, inter, unmerge, empty, register | used by every library; reached from the language through librevm/api and libstderesi | count and chains must agree; NULL means both "absent" and 0; key strings are shared between tables |
| libaspect lists, trees, vectors | linked structures | container operations | all libraries | ownership of elements |
| libaspect types, config, profiler | registries | registration at start, trace output | all libraries | none that is behavioural |
| librevm language | commands, labels, scopes, iterators | parse, execute, loop | all libraries | iteration over containers that the body changes |
| libstderesi | none of its own | the built-in commands | all libraries | thin wrappers |
| libelfsh | ELF objects: sections, symbols, relocations | load, insert, relocate, save | files, process memory | index shifts when sections are inserted |
| libmjollnir | control flow graph | disassemble, split and link blocks | libasm, libelfsh | blocks split while they are being linked |
| libasm | opcode tables | decode | - | size only |
| libedfmt | debug information | parse | libelfsh | size only |
| **libgdbwrap** | one connection to a GDB server, one packet buffer, session flags | query, acknowledgement, reply; SIGINT handler | GDB server; kedbg | refused queries, replies in pieces, a signal handler that shares socket and buffer with the call it interrupts, a server that dies |
| **kedbg**: remote debugger | breakpoint registry, the way to break that was found out, register variables, disposition of SIGINT | bp, delete, continue, step, itrace, Ctrl-C | libgdbwrap, libe2dbg's registry | what the server supports is learnt by trying; breakpoints are removed and set again around every continue; interrupts race breakpoints |
| libe2dbg kernel, libkernsh | page and interrupt tables, kernel memory | breakpoints, memory access | hardware | state in devices |
| libetrace, libui, front ends | - | - | - | input and output |
| liballocproxy, libregex | vendored | - | - | - |

What makes the parts in bold correct:

* **libdump** - the tables describe the open sockets; routes that were recorded
  can be followed back and forth; a message is never duplicated; on a network
  that stays up every message arrives.
* **libe2dbg** - a thread resumes at an instruction; what is written back over a
  breakpoint is the program's byte; a breakpoint that was hit is armed again;
  the mutex is released; parked threads resume; a new thread finds its entry.
* **libhash** - a table is a partial function from keys to data and each
  operation does to it what its name says; the count is right; a key has one
  entry.
* **librevm io** - a job belongs to one open connection; lines are executed
  whole, once, in order and in the job of the client that wrote them; the process
  does not sleep while a command waits; a connection that ended is removed.
* **libgdbwrap** - a query is executed once and the reply that a call returns is
  its own; the end of the session is noticed; every call returns.
* **kedbg** - the target holds traps exactly where the registry has breakpoints;
  saved bytes are code; continue resumes the target where it is and makes
  progress; Ctrl-C during continue brings the prompt back.

## 2. Modules

| Module | Contents |
|---|---|
| `DumpNet` | all nodes of a DUMP network and the TCP connections between them |
| `MCDumpNet` | network topologies |
| `DumpNet_proofs` | the link tables, and the agreement of neighbours, for every network |
| `DumpPackets_proofs` | types, loops, copies and routes of packets, for every network |
| `E2dbg` | the debugger inside a process with several threads |
| `MCE2dbg` | small programs: instructions, successors, breakpoints |
| `E2dbg_proofs` | type correctness and the bytes of the program for every set of threads; mutex, pc and breakpoints when one thread breaks; the entry of a new thread |
| `HashMap` | abstract: named partial functions and the operations on them |
| `HashTable` | the tables of libhash, shown to implement `HashMap` |
| `MCHashTable` | keys with and without collisions |
| `HashTable_proofs` | types, counts, single entries, the loops over tables and the refinement of `HashMap`, for all keys and sizes |
| `NetJobs` | the main loop of the interpreter as a server: clients, DUMP commands, terminal |
| `MCNetJobs` | the order of the chains of `world.jobs` |
| `NetJobs_proofs` | the five safety properties of the server loop, for every set of clients |
| `GdbWrap` | the GDB remote protocol client, its interrupt handler, and a server |
| `MCGdbWrap` | instance of GdbWrap |
| `GdbWrap_proofs` | the five safety properties of the protocol client, for every sequence of calls |
| `Kedbg` | the remote debugger on top of libgdbwrap, and a target |
| `MCKedbg` | all sets of commands that a server may support |
| `Kedbg_proofs` | type correctness and the five safety properties of kedbg, for every target and server |
| `Extrema` | least and greatest elements of sets of numbers, for the proofs |

`HashTable` instantiates `HashMap` with what `hash_get` answers as the map
(`Promise == INSTANCE HashMap WITH ...`). The other modules are independent.
`Kedbg` relies on `GdbWrap`: it takes a library call other than continue as one
step, which `CallsMatch` and `InStep` justify. `NetJobs` sees of `DumpNet` what
`dump_receive_cb` delivers (`dumpq`).
No module uses a RECURSIVE operator, so that all can be proved about.

### 2.1 DumpNet

One node is one process. `revm_select` serves one event at a time, so a handler
is one action: `dump_receive_cb` cleans the recently-seen tables, takes the
packet at the head of the socket and calls `dump_receive_RR`,
`dump_receive_Rr` or `dump_receive_DATA`. Other actions are `dump_send`,
`dump_connect_to`, `revm_dump_accept`, `dump_disconnect_host` and
`ReceiveFails` (dump_recv_pkt gives up, revm_net_recvd disconnects).

| Variable | Code |
|---|---|
| `ports`, `myids`, `RRseen`, `Rrseen`, `send_wq` | the fields of `dump_world` |
| `heap` | the packets the wait queue points to, and whether they are allocated |
| `conn`, `opened`, `backlog`, `chan` | the kernel's TCP: ends, open ends, accept queue, bytes in flight (external) |
| `fresh` | ids drawn so far: ids are unique in the model, 31-bit random numbers in the code |
| `up` | `exit()` was not called |
| `delivered` | what `dump_receive_DATA` gave to the caller of `dump_receive_cb` |

Details of the code that are kept: `dump_send` floods with one id per
neighbour and does not enter them in its own table;
`dump_lookup_Rr_recently_seen` searches the table of requests;
`dump_del_send_queue` is called with a pointer that XFREE has cleared; a packet
of which only a part has arrived ends the connection; a failed `send` exits the
process between two packets of a flood. Reading the destination of a freed
packet is a choice between its old value and garbage (`FreedReads`). A flood
that fails has been sent to any subset of the other neighbours, since the order
is that of a hash table. `accept` hands out the connections of a peer in the
order in which they were made.

### 2.2 E2dbg

Each thread has a program counter and a trap flag (`pc`, `tf`), a position in
its SIGTRAP handler or hook (`at`) and one in its SIGUSR2 handler (`usr2`),
which may run on top. `mem` and `saved` hold, for the first byte of every
instruction, whether it is the program's or 0xCC.

A handler is cut where another thread can act and the outcome depends on it:

| Steps | Code |
|---|---|
| `EnterHandler`, `LockHandler` | test and store of `e2dbg_mutex_lock` in `e2dbg_generic_breakpoint` |
| `StopOthers` | becoming `stoppedthread`, `e2dbg_thread_stopall` |
| `ProcessHit`, `ProcessStep`, `ProcessCount` | the three cases of `e2dbg_breakpoint_process` |
| `cmd_bp`, `cmd_delete`, `cmd_cont`, `cmd_next`, `cmd_itrace` | the prompt inside the handler |
| `StopNoEntry` | the same for the initial thread once another has started: no entry is found, the null pointer is read |
| `FinishHandler` | `e2dbg_thread_contall` and release of the mutex |
| `ReturnHandler` | after it: the state of `stoppedthread`, SETSIG |
| `Usr2Enter` .. `Usr2Leave` | `e2dbg_thread_sigusr2` |
| `CreateLock` .. `CreateAdd` | hook on `pthread_create` |
| `StartSetsig` .. `StartBody` | `e2dbg_thread_start` |

The prompt replaces the handlers of SIGTRAP and SIGUSR2 by SIG_IGN for the whole
process (CLRSIG): pending SIGUSR2 signals are lost and a trap raised meanwhile
kills the process (`killed`).

`e2dbg_self` names a thread by `getpid()` while `threadnbr` is 1 and by
`pthread_self()` afterwards; the entry of the initial thread keeps the first
name. Once a created thread has started, the initial thread is therefore not
recognised as the owner of the current breakpoint, and its next trap reads
through a missing entry (`StopNoEntry`). The runs about several threads let a
created thread meet the breakpoints; `e2dbg_main` is about the initial one.

Left out: the `threads` command (so curthread is always stoppedthread),
`pthread_exit`, single stepping into the `pthread_create` hook, watch points,
failures of mprotect, architectures other than ia32, process exit.

### 2.3 HashTable

A table is a record of its chains (a sequence of entries per index), `elmnbr`
and `type`. An entry points to a key string, and which string it is matters:
`hash_merge` copies pointers and `hash_destroy` frees the strings. The variable
`stale` holds the freed strings that are still referenced. What happens after a
read through such a pointer is undefined, therefore a behaviour ends when
`stale` becomes nonempty. `Merge`, `Inter` and `Unmerge` are taken for two
different tables: the loops of libhash walk the table they change when both
are the same.

`HashMap` says what users may rely on: union, intersection and subtraction of
maps. Two peculiarities of the code: a table set to itself ends up empty, which
`HashMap` records, and an intersection with an empty table changes nothing, which
it does not: that step stutters, `OperationsCorrect` speaks of tables that are
not empty, and `hash_inter` shows the disagreement.

### 2.4 NetJobs

The server is one process in the loop `revm_select`, `revm_input`,
`revm_execmd`; `pc` says where it is. Clients connect, write pieces of lines and
leave or reset between any two steps.

| Variable | Code |
|---|---|
| `ent`, `djob`, `buf` | `world.jobs`: the entry in the chain of each address, DUMP jobs, and the static buffer of `inet_ntoa`, which is the key of every client's entry |
| `sock` | `revmsock_t`: received pieces, `recvd_f`, `ready_f` |
| `curjob`, `count`, `fds` | `world.curjob`, `elfsh_net_client_count`, `sel_sockets` |
| `cmd` | the command taken by an input handler: by whose job, and what was written by whom |
| `knock`, `link`, `inq`, `dumpq` | backlog, connections and bytes in the kernel (external) |
| `done`, `seen` | histories: what was executed, which addresses were formatted |

`hash_get` compares the texts of keys, so a lookup by a key taken from the table
finds the entry in the chain of whatever address was formatted last (`ByKey`); when
there is none, the loops of `revm_prepare_select` and others dereference NULL
(`crashed`). This can happen once two different addresses were formatted, hence
the condition `OneAddress` of the properties that the shared buffer breaks. The
addresses of DUMP nodes count: libdump formats them when a node connects
(`revm_dump_accept`), while it handles packets of the routing (`Routed`) and in
commands that call it (`DumpCommand`).

`revm_socket_del` first takes the entry out of the table and then closes the
socket. On a connection that was reset `shutdown` fails, and descriptor and buffers
are lost: `link` becomes "leaked" where it is "shut" otherwise (`Closed`,
`Freed`), and `quit` of such a client goes on.
Addresses are assumed to lie in chains of their own, and `ws.active` of a client's
job to be set. A read error ends `revm_net_recvd` at once; a DUMP command for a
job that has not been served drops the packet and ends it too.

### 2.5 GdbWrap

Bytes know the reply they belong to, so that a call that returns a wrong reply
can be told. A reply is `$`, its data, `#` and two digits of checksum; recv hands
out any number of bytes. `gdbwrap_get_packet` goes on as long as three bytes
have come, the third last is not `#` and errno is not EINTR: a first piece of
one or two bytes, or an errno left from an earlier call, cuts a reply. `upset`
records such a cut, and a SIGINT that arrives outside of the recv that waits for a
reply; the properties of the exchange are stated as long as it is empty. The
handler `gdbwrap_ctrl_c` is two steps, sending the byte and reading, during which
the interrupted call does not move. SIGINT comes at any moment: `blocked` says
whether it interrupts a system call, which then fails with EINTR (`Resume`), or
comes between two of them. In the second case the handler takes the reply that
the call is about to wait for, or one that is already half read (`Over`), and the
call may wait for ever. A write to a connection that the server closed
provokes a reset; the next one kills the process.

### 2.6 Kedbg

The target is a loop of two-byte instructions of any length. `caps` is the set of
commands that the server supports; `kedbg_setbp` tries Z0 and then a trap byte,
`gdbwrap_writemem` X and then M, `gdbwrap_writereg` P and then G, each with a
static variable that remembers. `mem` holds the trap bytes, `zbp` the server's
breakpoints, `bp` the registry with the saved bytes. `cmd_kedbgcont` ships the
register variables, steps over a breakpoint at the pc and resumes
(`cmd_kedbgcont`), the target runs (`TargetRuns`), the reply is handled
(`ContReturns`), which moves the pc back over a trap byte. An interrupt may reach
the target before or after it hits a breakpoint, and kedbg in the recv that waits
for the stop reply (`blocked`), just before or after it, or at the prompt; in the
last three cases the handler or the recv waits for a reply that does not come
(`hung`). The other commands are one step each: an interrupt or a failure between
their exchanges, those of `StepOver` for instance, is not modelled. `upset` records the three ways
in which the pc may end up inside an instruction: an interrupt that met a
breakpoint which was just hit, step mode, and itrace.

## 3. Runs

Every passing run is exhaustive within its bounds.

| Run | Checks | Instance | Distinct states |
|---|---|---|---|
| `dump_routes` | `RouteSound`, `LoopFree`, `AllDelivered` | triangle with a tail, one address per link, one message, two cleanings that find expired entries | 378 361 |
| `dump_churn` | `TypeOK`, `LinkTables`, `SingleCopy`, `NeighboursAgree` | line of three, two messages, one `discon`, one split packet, one further connection, both readings of freed memory | about 729 000 |
| `e2dbg_main` | `TypeOK`, `PcAtInstruction`, `SavedIsOriginal`, `OnlyInitialCrashes` | main, which breaks, may create a second thread; loop of six instructions, breakpoints on neighbours; delete, continue, step, itrace | 21 065 |
| `e2dbg_threads` | `StartRegistered`, `NoLostBreakpoint`, `MutexNotLeaked`, `ThreadsResume`, `Rearmed` | main creates a thread, which breaks; two more threads run; breakpoints apart, deleted and added | 9 466 |
| `hash` | `TypeOK`, `CountMatches`, `KeyOnce`, `OperationsCorrect`, `RefinesMap` | two tables, three keys of which two collide, two data, two strings per key | 5 837 |
| `net` | `TypeOK`, `LinesWhole`, `NoSleepOnWork`, `SoleClientServed`, `EntriesMatch`, `ClientsServed` | two connections from one or two addresses, two pieces of lines, a DUMP command, room for two clients, none or all of it used up by earlier ones | 665 191 |
| `gdb` | `TypeOK`, `CallsMatch`, `InStep`, `EndNoticed`, `WriteDone`, `CallReturns` | three calls, one refused query, one interrupt, every support of X and M, death of the server | 888 344 |
| `kedbg` | `TypeOK`, `Armed`, `SavedIsCode`, `PcAtInstruction`, `Progress`, `ResumesInPlace`, `InterruptReturns` | three instructions, three breakpoints added, one itrace, all 32 servers | 2 174 176 |
| `e2dbg_create` | `StartRegistered` violated | main creates two threads | |
| `hash_inter` | `InterCorrect` violated | as `hash` | |
| `net_owner` | `OwnCommand` violated | as `net` | |
| `kedbg_restart` | `AlwaysReturns` violated | as `kedbg` | |

### Bounds

* DUMP. Requests that return to a node need a cycle; competing replies need two
  routes; the source passed a second time by its own request, and a node in a
  path twice after expiries, need the cycle before the destination: the triangle
  with a tail has all of them. A reply whose path repeats a node needs expiries at
  two nodes, hence `MaxExpiries` = 2 (with 1, TLC finds no such reply; with 2, it
  does). Connection changes are checked on a line of three
  so that a node in the middle forwards while its links change; two messages are
  needed for a reply to release two packets and for a second reply to find the
  leftovers of the first. `NConns`, `MaxSends`, `MaxDisconnects`, `MaxSplits` and
  `MaxExpiries` are the bounds on how often things happen; there is none on the
  length of queues or paths.
* E2DBG has no bounds of its own: programs are finite and loop. Instructions
  are two bytes long, so that the byte after a breakpoint is inside an
  instruction. Six instructions in the loop are enough to finish one breakpoint
  before the next, and neighbours to hit one before the previous is finished.
  Deadlock is checked, except in `e2dbg_main`, where the process may be killed.
* HASH. `MaxStr` bounds the strings of one text that are referenced at a time.
  Three keys on two chains give chains of length 2 and 1; the first, the last and
  the only entry of a chain can be deleted. `SYMMETRY` permutes the colliding
  keys and the data, of which the model uses nothing but equality. `VIEW`
  identifies states that differ in the names of key strings: what is observable
  is which tables share a string. No liveness is checked in that run.

* NET. `MaxConn` is 2: the second connection comes from the same address (refused
  while the first one is there, accepted after it) or from another one (the shared
  buffer changes). `MaxPieces` is 2: a line in two pieces, two lines in one read,
  a line behind one that waits. `count` starts with a value of `Earlier`, which
  stands for clients that came and left before, from one address. The terminal's chain lies between
  those of the two clients, so that loops that stop at it see one of them.
* GDB. Three calls: one that may be disturbed, one that takes what the first left,
  one more for the fallback of a write. `MaxStray` bounds the endless resending
  that follows a disturbance; `MaxNaks` and `MaxInts` the faults.
* KEDBG. Three instructions give a breakpoint at the pc, one at the next
  instruction and one apart; three additions allow one to be deleted and set again
  while others are there. `MaxTrace` bounds the itrace commands, not their steps.

`CHECK_DEADLOCK FALSE` is set for `e2dbg_main`, for NET, GDB and KEDBG, which stop when the
process has ended (quit, killed or crashed) or every bound is used up, for DUMP, whose networks are quiet when all
messages have arrived and every bound is used up, and for HASH, where
behaviours end at a stale key string.

### Fairness

* `dump_routes` assumes that packets are handled as long as a node can handle one
  (`Fairness`: again and again either no registered socket is readable or a packet
  is read, which says what weak fairness of `Receive` says): select reports a readable socket until
  it is read, and floods are finite. No connection fails in that run.
* `e2dbg_threads` assumes weak fairness for each thread's instructions, handlers
  and hooks (the kernel schedules every thread and delivers signals) and that a
  user at the prompt resumes the debuggee in the end. Creating threads, adding and
  deleting breakpoints are never assumed. `ThreadsResume` is conditional on
  handlers coming to an end, because a parked thread polls the mutex and threads
  that keep breaking can starve it.

* `net` assumes that the process takes every step of its loop that is possible
  (weak fairness of `Server`): select returns when a socket is readable. It is not
  assumed that anybody types at the terminal, writes, or connects as a DUMP node.
* `gdb` assumes that the client's process runs, and that a server that lives reads
  and answers every query but continue. `CallReturns` claims nothing after a cut or
  after a signal outside of the recv that waits for the reply, when the call may
  not return.
* `kedbg` assumes that kedbg runs and that the server delivers an interrupt to a
  running target; that the target reaches a breakpoint is not assumed.
  `InterruptReturns` is about a signal in the recv of continue.

## 4. Findings

1. `e2dbg_create`: the window between test and store of the mutex lets one
   starting thread release the lock held for another, which then dereferences a
   missing entry.
2. `hash_inter`: the intersection with an empty table leaves all elements in, where
   comment and help text speak of the intersection.
3. `net_owner`: with two clients, a command may be executed in, and answered to,
   the job of the other one, because the key of every client is one buffer and
   `revm_net_input` takes any client's line.
4. `kedbg_restart`: an itrace leaves SIGINT with a restarting disposition, so that
   the next interrupted continue never returns.

Further behaviours that the models show and that the conditions of properties
exclude: once a created thread has started, a trap of the initial thread ends the
process; a breakpoint deleted while another thread waits in its trap makes that
thread resume one byte into the instruction; DUMP traffic changes the keys of the
clients' jobs; the descriptor of a reset connection is never closed; a SIGINT just
before or after the recv of a reply, or at kedbg's prompt, takes a reply that is
then waited for in vain; a sent packet stays in the wait queue of libdump as a pointer to freed
memory (`recv.c:362`, `FreedReads`); after two nodes connected to each other at
once, `discon` leaves one connection open; of two user land breakpoints on
consecutive instructions the first is lost when the second is hit; an element of
a set whose value is 0 is added twice; a reply of the GDB server that is cut puts
the exchange out of step; Ctrl-C that meets a breakpoint, step mode and itrace
leave kedbg's target inside an instruction when breakpoints are trap bytes; a DUMP
source with several addresses may exit on a reply that arrives before its path is
rewritten (section 5, `RouteSound`).

Peculiarities that no document contradicts (a table set to itself is emptied,
registering under a new name makes an empty table, key strings die with the
first of the tables that share them) are described in the modules.

## 5. Proofs

Every invariant, action property and refinement of the passing runs but
`OnlyInitialCrashes` is stated by a theorem; liveness is not (see the end of this section). A theorem that needs a
hypothesis names it in its statement, and the table says what it is. "Every bound" means that the
constants which keep TLC's instances finite are arbitrary numbers.

| Module | Theorem | Property | For |
|---|---|---|---|
| `DumpNet_proofs` | `LinkTablesInvariant` | `LinkTables` | every network, every bound |
| | `Agreement` | `NeighboursAgree` | every network in which of two nodes at most one issues `connect` (`OneWay`) |
| `DumpPackets_proofs` | `Types` | `TypeOK` | every network, every bound |
| | `NoLoops` | `LoopFree` | the same |
| | `NoDuplicates` | `SingleCopy` | the same |
| | `Routing` | `RouteSound` | nodes with one address (`SingleHomed`), connections that stay and freed packets that are not taken for waiting ones (`Stable`), any number of expiries |
| `NetJobs_proofs` | `Types`, `Connections`, `WholeLines`, `Watchful`, `SoleClient` | `TypeOK`, `EntriesMatch`, `LinesWhole`, `NoSleepOnWork`, `SoleClientServed` | every set of clients, addresses, DUMP peers, every order of the chains, every bound |
| `GdbWrap_proofs` | `Types`, `EndSeen`, `Matching`, `Stepwise`, `Written` | `TypeOK`, `EndNoticed`, `CallsMatch`, `InStep`, `WriteDone` | every number of calls, refusals, interrupts and stray bytes |
| `E2dbg_proofs` | `TypeCorrect` | `TypeOK` | every set of threads, program and breakpoints |
| | `SavedIsOriginalInvariant` | `SavedIsOriginal` | the same, no `bp` command at the prompt |
| | `StartRegisteredChild` | `StartRegistered` | an initial thread that makes one other thread (`OneChild`), both of which may break; every program, breakpoints and commands |
| | `MutexNotLeakedBreaker`, `PcAtInstructionBreaker` | `MutexNotLeaked`, `PcAtInstruction` | any number of threads of which one reaches breakpoints (`OneBreaker`), every program; no `bp` at the prompt, or no stepping (`BreakOrStep`); for the mutex, a thread that is looked up under its own name (`OwnName`: not the initial thread of a process that makes others) |
| | `SavedIsOriginalBreaker` | `SavedIsOriginal` | the same threads, `bp` at the prompt, no stepping (`NoStepCommand`) |
| | `NoLostBreakpointBreaker` | `NoLostBreakpoint` | the same, and no breakpoint directly follows another, in control flow or in memory (`Apart`) |
| `HashTable_proofs` | `TypeCorrect`, `Counts` | `TypeOK`, `CountMatches` | every set of keys, data, names, every hash function and size of the tables |
| | `KeysOnce`, `Operations`, `Implements` | `KeyOnce`, `OperationsCorrect`, `RefinesMap` | the same, if nobody stores NULL; intersections with tables that are not empty |
| `Kedbg_proofs` | `TypeCorrect`, `ArmedInvariant`, `SavedIsCodeInvariant`, `PcAtInstructionInvariant`, `ProgressInvariant`, `ResumesInPlaceHolds` | `TypeOK`, `Armed`, `SavedIsCode`, `PcAtInstruction`, `Progress`, `ResumesInPlace` | every size of the target, every set of servers, every bound |

### Assumptions on constants

They are stated in the modules and evaluated by TLC on every run.

* `ConstantsAssumption` (DumpNet): an address belongs to one node; the first
  connections join different nodes, two nodes by at most one; nobody connects to
  itself; `INADDR_ANY` is no address.
* `NetJobsAssumption`: there is an address; addresses, peers, the terminal, NULL
  and the numbers of connections are different things; every key has a place of
  its own in the order in which the loops visit the chains, of which there are
  finitely many (a hash table has a fixed number of chains).
* `GdbWrapAssumption`, `NullAssumption`: bounds are numbers, NULL is no query or
  reply.
* `E2dbgAssumption`, `KedbgAssumption`: programs are made of instructions, the
  target has at least two of them.

### Arguments

**LinkTables.** An accepted connection takes over the entry of its peer, and a
node may exit while connections to it are queued. `LinkInv` adds to `LinkTables`
the types of the link state and `Backlog`: a connection in the accept queue
joins two different nodes, its acceptor, unless it has exited, holds its end open
and has not registered it. Without this, accepting could register a closed
socket. The packet handlers change links only by exiting, which one lemma shows
for all of them; exit, disconnect, connect and accept have a lemma each.

**Neighbours agree.** The connector registers a connection when `connect`
returns, the acceptor when it accepts, and each replaces what it had. `AgreeInv`
adds to `LinkInv` that the connector has one open connection to a peer, its
latest (`ConnectorSide`), that an acceptor with a connection that both hold open
has registered it and nothing newer of that peer waits (`AcceptorSide`), and that
connections are numbered as they are made. The proof needs that `accept` keeps
the order of connections: of two in the backlog, accepted in the other order,
the acceptor would keep the one that its peer has closed.

**Packets.** Every handler is first summarised by an effect lemma (`RREffect`,
`RrEffect`, `DATAEffect`, `RequestEffect`): a packet of the new channels was there
before, or is one of a named kind, written on a registered socket. Types, loops,
copies and routes are then each one invariant over these lemmas.

* `LoopFree`: `RouteInv` adds that a node which passed a request on, other than
  its source, has the request's id in its table (`Marked`), and that the ids of
  sockets are addresses of their node.
* `SingleCopy`: `CopyInv` says that every id of a message that is parked, in
  flight or delivered was drawn by `dump_send` before and is in one place. The
  walk of the wait queue may meet several entries that point to one freed slot;
  it sends what lives, once, in the order of the queue.
* `RouteSound`: `SoundInv` says of every packet that consecutive hops have
  sockets to each other (`Linked`), that the node it is handed to is on the path,
  and that the path begins and ends where it should. Without failing writes no
  process exits, so that sockets stay. The hypothesis of one address per node is
  needed: with one address per connection, a forwarder's entry in the path names
  its link towards the destination until the reply has passed it. When the source
  lies on a cycle and has a further neighbour, it floods a request that came home
  a second time, and gets the reply to it while `path[2]` is still the address of
  another link; it then takes the error exit of recv.c 342-348. TLC finds this in
  13 steps on the network s-a, a-b, b-s, s-x, x-d, x-y, y-d with `PerLink`
  addresses. `dump_routes` checks `RouteSound` with `PerLink` addresses on a
  triangle whose source has no further neighbour, with replies and DATA packets
  whose paths repeat nodes.

**NetJobs.** `LinkInv` relates connections, backlog and table: an entry is that of
a live connection from its address, a live connection waits in the backlog or has
its entry; a connection that was shut or leaked has none. `LineInv` follows the pieces of each line from the socket through the
buffer to the command, numbered without gaps, with a delimiter between two lines
wherever they meet: a socket whose buffer holds a complete line is not read.
`NameInv` says what the buffer of inet_ntoa can hold: it and the table know only
addresses that were formatted, so that with a single one every lookup succeeds and
finds the client that is meant.

**GdbWrap.** `BaseInv` (types, numbers of queries, bytes, `EndNoticed`) holds of
every behaviour. `PhaseInv` speaks of exchanges that were not upset: for every
place of the client it says what is on either wire, what the server does and how
often the query was executed (`Asked`, `Getting`, `Returned`); while a reply is
collected, buffer and wire together are the bytes of one reply, however recv cuts
it. `CallsMatch`, `InStep` and `WriteDone` are read off from the phases.

**TypeCorrect of E2dbg.** A handler past its first steps uses `stoppedthread` as an
index; `StoppedSet` (it is then a thread) makes `TypeOK` inductive.

**Bytes of the program.** `SavedIsOriginal` alone is not inductive: writing a
breakpoint again saves whatever is in memory. `ByteInv` adds `PastRestored` (a
breakpoint that has to be written again is out of memory) and `PastUnique` (no
two threads have to write the same one): a thread that hits a breakpoint finds
it in memory, so no other thread can be waiting to write it. The argument does
not use the mutex, which two threads may pass together. The condition is needed:
a user who single steps off a breakpoint, deletes it and sets it again makes
`e2dbg_breakpoint_reinstall` save the trap byte.

**One breaking thread.** With two threads that break, a breakpoint deleted while
the second waits in its trap refutes `PcAtInstruction`, and a mutex that two threads may pass together says little.
The theorems therefore take one thread b that reaches breakpoints, any number of
others that stay in a part R of the program without any, make threads, are parked
and poll the mutex (`OneBreaker`; `e2dbg_threads` and `e2dbg_main` are instances). When b is the
initial thread, the process ends at its first trap after another thread has
started, so that `MutexNotLeaked` needs `OwnName`. `Lone` says that handlers, prompt and `stoppedthread` are b's;
every step is then one of b, or is `Quiet`: it leaves to b what b reads. `Phase`
says why b traps at each place of its handler: it is stepped, it has run into a
trap byte (`Struck`), or it marches over a breakpoint (`March`: it is `curbp`,
its trap flag is set, `count` is HIT or EXEC). That is what `FinishHandler`
tests, so b releases the mutex or goes on marching; `Owner` names who has to
release it. `BreakerPc`: until a trap is processed, the pc is at an instruction
or one byte behind a breakpoint that is in memory. All of this uses that saved
bytes are the program's, from `ByteInv` or, when breakpoints are set at the
prompt, from `StillInv`, whose `SetAgain` deals with a breakpoint that is deleted
and set again while b has yet to write it: b runs into it before it counts to
FINISHED. Stepping would break this (see above), hence `BreakOrStep`.

`NoLostBreakpoint` needs `OutOfMemory`: a breakpoint that is not in memory is the
one b marches over, b stands on it with HIT, or has executed it and is not on
another one. `Apart` is needed because of two breakpoints on consecutive
instructions the first is lost.

**New threads.** `ChildInv` says that until u has its entry it is not past the
test of the mutex, that its creator is in the hook with the mutex held, and that
no SIGUSR2 is on the way to u, whose handler would release the mutex: stopall
goes through the entries. With a third thread this fails (`e2dbg_create`).

**HashTable.** The loops over a table are folds over a sequence of entries.
Induction over data is not available, therefore every fact about a loop is proved
with the least length at which it would fail (`LeastNat` of `Extrema`): that the
partial results exist (`FoldsExists`), that they stay well formed (`LoopWell`)
and that after n rounds a key answers according to the first n entries
(`LoopTracks`), from which `MergeAnswers`, `InterAnswers` and `UnmergeAnswers`
follow. `TypeInv` is enough for types and counts; `CountFollows` relates the
count to the lengths of the chains. `MapInv` adds that every entry is in the
chain of its key, that a key has one entry, that data are not NULL and that
tables without a name are empty. Each action is given its outcome in the terms
of `HashMap` (`Outcome`), which is at once `OperationsCorrect` and the step of the
refinement. The hypothesis is needed: `hash_add` asks `hash_get` whether the key
is there, and a NULL datum makes it add a second entry.

**kedbg.** None of the properties is inductive: whether a trap byte may be in
memory depends on what was tried before. `IInv` is `TypeOK` and three parts.
`Way` describes the three outcomes of the negotiation (`WayServer`: nothing was
tried, or Z0 works, and the server's breakpoints are the registry; `WayInt3`: Z0
does not work, the trap bytes are the registry, if memory can be written, and
each has saved code; `WayNone`: nothing works, there are no breakpoints).
`Pending` says what is outstanding: a stop that nobody interrupted is a trap, and
at the prompt $pc is the target's pc unless there was an itrace. `Where` says that
the pc is at an instruction, or one byte behind it after a trap byte. The lemmas
about `kedbg_setbp`, `kedbg_delbp` and `kedbg_step_over_bp` show that stepping
over a breakpoint leaves traps and saved bytes as they were, from which one lemma
per action follows. `Progress` needs `Moving` besides: the target is not resumed
on a trap byte.

### Only model-checked

* Liveness (`AllDelivered`, `ThreadsResume`, `Rearmed`, `ClientsServed`,
  `CallReturns`, `InterruptReturns`): fairness and ENABLED are out
  of the prover's reach.
* HashTable with data that are NULL: `KeyOnce`, `OperationsCorrect` and the
  refinement fail there (TLC, `Data = {d1, NULL}`).
* `OnlyInitialCrashes`, in a process whose initial thread breaks and makes one
  other thread.
* E2dbg when several threads break: `PcAtInstruction` (a breakpoint deleted under a
  waiting thread) and, with three threads, `StartRegistered` fail (`e2dbg_create`);
  nothing is claimed of `MutexNotLeaked` and `NoLostBreakpoint` there.
* `RouteSound` for nodes with several addresses, which depends on the network.

## 6. Not modelled

Parsers, decoders and printers (libasm, libedfmt, libelfsh's loaders) are pure
functions over large tables. Kernel parts keep their state in hardware.
liballocproxy and libregex are vendored. libetrace acts through a compiler. The
DUMP test client `dump_main.c` is not part of the server. Also outside the models:
packet id collisions, descriptors above 999, full socket buffers (two nodes that
write to each other could wait for each other), type identifiers above 127, a
table removed from itself.

Most of the repository's lines are of these kinds (instruction handlers and
tables, format readers, vendored code, hardware tables), therefore the
share of all lines that the models cover is small. Within the modelled parts: of
librevm io, the output functions, scripts, the FIFO of the embedded debugger and
builds without readline; of libgdbwrap, parsing of registers and calls that
differ from the modelled ones in their text only; of kedbg, real mode and the
interrupt vectors of virtual machines, the link map, running to the entry point,
assignments to register variables by the user, stop replies without registers,
signals other than SIGTRAP, a target that exits while an interrupt is on its
way, and interrupts or failures between the exchanges of a command other than
continue.

## 7. Plan

Done: DumpNet, E2dbg, HashTable and HashMap, NetJobs, GdbWrap, Kedbg, their runs,
and the theorems of section 5.

1. Theorems: for E2dbg with several breaking threads, what would hold if test and
   store of the mutex were one step.
2. NetJobs composed with DumpNet: `delivered` becomes a job's input.
3. Lists (libaspect/liblist.c), as another implementation of an abstract
   container, and iteration in the language over a container that changes.
4. Block splitting in libmjollnir and section insertion in libelfsh, as
   algorithms checked against reference definitions.
5. Extensions of E2dbg: the `threads` command, `pthread_exit`, one-byte
   instructions.
