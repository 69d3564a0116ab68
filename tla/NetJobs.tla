------------------------------ MODULE NetJobs ------------------------------
(***************************************************************************)
(* The network side of the interpreter's main loop: librevm/io/network.c,  *)
(* io/select.c, io/curjob.c, vm/loop.c and the commands of                 *)
(* libstderesi/cmd/net.c and cmd/quit.c, in interactive mode, with         *)
(* readline (reading the terminal does not block), after `net'.            *)
(*                                                                         *)
(* The server is one process that repeats revm_select (choose a job that   *)
(* has a command, or sleep in select(2) and handle what woke it up),       *)
(* revm_input (take the command) and revm_execmd.  Around it, clients      *)
(* connect, write pieces of lines and leave, and DUMP nodes connect and    *)
(* send packets.                                                           *)
(*                                                                         *)
(* world.jobs is the hash table of the jobs.  A client's entry is in the   *)
(* chain of its address, but its key is the pointer that inet_ntoa         *)
(* returned: one static buffer, shared by all clients and overwritten by   *)
(* every call.  Addresses are assumed to lie in chains of their own.       *)
(***************************************************************************)
EXTENDS Integers, Sequences, FiniteSets, Functions

CONSTANTS
  Addrs,       \* internet addresses of clients
  Peers,       \* internet addresses of DUMP nodes that send packets
  Local,       \* the job of the terminal, key "local"
  NULL,        \* the null pointer
  Pos,         \* rank of a chain in the order in which world.jobs is visited
  MAX_CLIENTS, \* REVM_MAX_CLIENTS
  Earlier,     \* how many clients may have come and left before, from one address
  Ports,       \* number of DUMP connections
  MaxConn,     \* bound: connections that clients attempt
  MaxPieces,   \* bound: pieces that clients write
  MaxDump      \* bound: commands that DUMP nodes send

Keys == Addrs \union Peers \union {Local}
Conn == 1..MaxConn

ASSUME NetJobsAssumption ==
  /\ Addrs # {} /\ Addrs \intersect Peers = {} /\ Local \notin Addrs \union Peers
  /\ NULL \notin Keys /\ Keys \intersect Int = {} /\ NULL \notin Int
  /\ IsFiniteSet(Keys) /\ Pos \in [Keys -> 1..Cardinality(Keys)]
  /\ \A k, l \in Keys : Pos[k] = Pos[l] => k = l
  /\ {MAX_CLIENTS, Ports, MaxConn, MaxPieces, MaxDump} \subseteq Nat
  /\ Earlier \subseteq 0..MAX_CLIENTS

VARIABLES
  made,     \* connections attempted so far
  knock,    \* connections in the backlog of the listening socket
  addr,     \* addr[c]: address the connection comes from
  link,     \* link[c]: the connection as the server's kernel sees it
  inq,      \* inq[c]: what the client wrote and the server has not read
  sent,     \* sent[c]: number of pieces written
  dumpq,    \* dumpq[i]: commands received on DUMP connection i
  dumped,   \* number of commands sent by DUMP nodes
  ent,      \* ent[a]: job in the chain of address a
  sock,     \* sock[c]: revmsock_t of the job of connection c
  djob,     \* djob[p]: job "DUMP_p"
  buf,      \* the static buffer of inet_ntoa
  count,    \* elfsh_net_client_count
  curjob,   \* world.curjob
  fds,      \* client sockets in sel_sockets, while revm_select waits
  pc,       \* where the main loop is
  cmd,      \* the command being executed
  done,     \* done[j]: last piece or DUMP packet of job j that was executed
  seen      \* history: addresses that inet_ntoa has left in the buffer

clients == <<made, addr, sent>>
dump    == <<dumpq, dumped>>
vars    == <<clients, knock, link, inq, dump, ent, sock, djob, buf, count,
             curjob, fds, pc, cmd, done, seen>>

Job   == Conn \union Peers \union {Local}
NoCmd == [by |-> NULL, from |-> NULL, text |-> <<>>]

(* Part number n of what a client writes; eol: it ends with a newline; sep:
   the newline was kept as a blank. *)
Piece == [n : Nat, eol : BOOLEAN, sep : BOOLEAN]

First(S) == CHOOSE k \in S : \A l \in S : Pos[k] <= Pos[l]
Last(S)  == CHOOSE k \in S : \A l \in S : Pos[l] <= Pos[k]

----------------------------------------------------------------------------
(* Lookups in world.jobs *)

InTable == {a \in Addrs : ent[a] # NULL}

(* hash_get on the key of any client's entry: the text is the buffer's. *)
ByKey(e, b) == IF b \in Addrs THEN e[b] ELSE NULL

(* hash_get on an address that the user typed *)
ByText(a) == IF buf = a THEN ent[a] ELSE NULL

(* A loop over hash_get_keys finds no job for the key of some entry that it
   visits before the entry `upto'. *)
NullJob(e, b, upto) ==
  \E a \in Addrs : e[a] # NULL /\ Pos[a] < upto /\ ByKey(e, b) = NULL

Beyond == 1 + Pos[Last(Keys)]

Pending(s, c) == s[c].recvd_f /\ s[c].ready_f

(* Mutant: DUMP jobs are not looked at. *)
ClientKeys(e, b, s, d) ==
  {a \in Addrs : e[a] # NULL /\ ByKey(e, b) # NULL /\ Pending(s, ByKey(e, b))}

(* The entries at which revm_socket_getnew stops *)
NewKeys(e, b, s, d) ==
  {a \in Addrs : e[a] # NULL /\ ByKey(e, b) # NULL /\ Pending(s, ByKey(e, b))}
    \union {p \in Peers : d[p].new}

revm_socket_getnew(e, b, s, d) ==
  LET K == NewKeys(e, b, s, d)
  IN  IF K = {} THEN NULL
      ELSE IF First(K) \in Addrs THEN ByKey(e, b) ELSE First(K)

----------------------------------------------------------------------------
(* Clients and DUMP nodes *)

Connect(a) ==
  /\ made < MaxConn
  /\ made' = made + 1
  /\ addr' = [addr EXCEPT ![made + 1] = a]
  /\ link' = [link EXCEPT ![made + 1] = "open"]
  /\ knock' = Append(knock, made + 1)
  /\ UNCHANGED <<inq, sent, dump, ent, sock, djob, buf, count, curjob, fds,
                 pc, cmd, done, seen>>

Write(c, eol) ==
  /\ link[c] = "open" /\ FoldFunction(+, 0, sent) < MaxPieces
  /\ sent' = [sent EXCEPT ![c] = @ + 1]
  /\ inq' = [inq EXCEPT ![c] = Append(@, [n |-> sent[c] + 1, eol |-> eol, sep |-> eol])]
  /\ UNCHANGED <<made, addr, knock, link, dump, ent, sock, djob, buf, count,
                 curjob, fds, pc, cmd, done, seen>>

(* The client closes the connection, or its host resets it, also after a close
   when the server still writes; a reset discards what was not read. *)
Leave(c, how) ==
  /\ link[c] = "open" \/ (link[c] = "eof" /\ how = "reset")
  /\ link' = [link EXCEPT ![c] = how]
  /\ inq' = [inq EXCEPT ![c] = IF how = "reset" THEN <<>> ELSE @]
  /\ UNCHANGED <<clients, knock, dump, ent, sock, djob, buf, count, curjob,
                 fds, pc, cmd, done, seen>>

DumpSend(i, p) ==
  /\ dumped < MaxDump
  /\ dumped' = dumped + 1
  /\ dumpq' = [dumpq EXCEPT ![i] = Append(@, [src |-> p, n |-> dumped + 1])]
  /\ UNCHANGED <<clients, knock, link, inq, ent, sock, djob, buf, count,
                 curjob, fds, pc, cmd, done, seen>>

----------------------------------------------------------------------------
(* revm_select *)

(* The beginning of revm_select: a job that has a command is chosen at once;
   otherwise revm_clean_jobs and revm_prepare_select go through the keys. *)
Select ==
  /\ pc = "select"
  /\ LET new == revm_socket_getnew(ent, buf, sock, djob)
     IN  \/ /\ new # NULL
            /\ curjob' = new /\ pc' = "input" /\ UNCHANGED fds
         \/ /\ new = NULL /\ NullJob(ent, buf, Beyond)
            /\ pc' = "crashed" /\ UNCHANGED <<curjob, fds>>
         \/ /\ new = NULL /\ ~NullJob(ent, buf, Beyond)
            /\ fds' = {ByKey(ent, buf) : a \in InTable}
            /\ pc' = "wait" /\ UNCHANGED curjob
  /\ UNCHANGED <<clients, knock, link, inq, dump, ent, sock, djob, buf, count,
                 cmd, done, seen>>

Readable(c) == inq[c] # <<>> \/ link[c] # "open"

(* The entries that revm_net_recvd handles: it gives up at a read error. *)
ReadSet == {a \in InTable : ent[a] \in fds /\ Readable(ent[a])}
Failed  == {a \in ReadSet : link[ent[a]] = "reset"}
Handled == {a \in ReadSet : \A f \in Failed : Pos[a] <= Pos[f]}

(* revm_update_recvd: read, and what it does at the end of the connection *)
Arrived == {a \in Handled : inq[ent[a]] # <<>>}
Closing == {a \in Handled \ Failed : inq[ent[a]] = <<>> /\ ~sock[ent[a]].recvd_f}
Named   == Closing \union {a \in Arrived : sock[ent[a]].recvd_f}

(* revm_socket_del on the job of c.  Its loop over the jobs with the same
   descriptors removes the entry.  shutdown fails if the connection was reset:
   the descriptor is not closed then, and the buffers are not freed. *)
Reset(c)  == link[c] \in {"reset", "dead"}
Closed(c) == IF Reset(c) THEN "leaked" ELSE "shut"
Freed(c)  == IF Reset(c) THEN sock[c] ELSE [sock[c] EXCEPT !.recvd = <<>>]

(* The newline that ends a buffer is cut off, those inside become blanks. *)
Chomp(q) == [q EXCEPT ![Len(q)].sep = FALSE]

(* Mutant: unread buffers are overwritten. *)
Overwrite(c) ==
  [recvd |-> Chomp(inq[c]), recvd_f |-> TRUE, ready_f |-> inq[c][Len(inq[c])].eol]

(* Mutant: ready_f is only set by the first buffer. *)
FirstBuffer(c) ==
  [recvd   |-> (IF sock[c].recvd_f THEN sock[c].recvd ELSE <<>>) \o Chomp(inq[c]),
   recvd_f |-> TRUE,
   ready_f |-> inq[c][Len(inq[c])].eol /\ ~sock[c].recvd_f]

revm_update_recvd(c) ==
  [recvd   |-> (IF sock[c].recvd_f THEN sock[c].recvd ELSE <<>>) \o Chomp(inq[c]),
   recvd_f |-> TRUE,
   ready_f |-> inq[c][Len(inq[c])].eol]

(* The second half of revm_net_recvd: one packet from every DUMP connection,
   until one comes from a node whose last command was not taken yet. *)
Waiting == {i \in 1..Ports : dumpq[i] # <<>>}
Source(i) == Head(dumpq[i]).src
Fatal   == {i \in Waiting : djob[Source(i)].new
                             \/ \E k \in Waiting : k < i /\ Source(k) = Source(i)}
Packets == IF Failed # {} THEN {} ELSE {i \in Waiting : \A k \in Fatal : i <= k}

DumpJob(p) ==
  LET I == {i \in Packets \ Fatal : Source(i) = p}
  IN  IF I = {} THEN djob[p]
      ELSE [new |-> TRUE, n |-> Head(dumpq[CHOOSE i \in I : TRUE]).n]

(* The address that inet_ntoa was last called with, when it was called for
   the clients in C and then for the commands in I. *)
Formatted(C, I) ==
  IF I # {} THEN Source(CHOOSE i \in I : \A k \in I : k <= i)
  ELSE IF C # {} THEN Last(C) ELSE buf

(* While it handles other packets (requests and replies of the routing,
   messages, data to forward), libdump formats addresses of nodes. *)
Routed == IF Failed # {} THEN {} ELSE Peers

(* select broken by a connection or an error: the current job j stays when
   no other has a command, and revm_select returns. *)
Broken(j, e, b, s, d) ==
  LET new == revm_socket_getnew(e, b, s, d) IN IF new # NULL THEN new ELSE j

(* select(2) returns, because of network events or of the terminal, and
   revm_check_net_select calls revm_net_recvd.  The kernel reports a reset
   once ("dead"), then the end of the file. *)
revm_net_recvd ==
  /\ pc = "wait"
  /\ ent' = [a \in Addrs |-> IF a \in Closing THEN NULL ELSE ent[a]]
  /\ sock' = [c \in Conn |-> IF \E a \in Arrived : ent[a] = c THEN revm_update_recvd(c)
                             ELSE IF \E a \in Closing : ent[a] = c THEN Freed(c) ELSE sock[c]]
  /\ inq' = [c \in Conn |-> IF \E a \in Handled : ent[a] = c THEN <<>> ELSE inq[c]]
  /\ link' = [c \in Conn |-> IF \E a \in Closing : ent[a] = c THEN Closed(c)
                             ELSE IF \E a \in Failed \intersect Handled : ent[a] = c
                                  THEN "dead" ELSE link[c]]
  /\ djob' = [p \in Peers |-> DumpJob(p)]
  /\ dumpq' = [i \in 1..Ports |-> IF i \in Packets THEN Tail(dumpq[i]) ELSE dumpq[i]]
  /\ \E x \in {Formatted(Named, Packets)} \union Routed :
        /\ buf' = x
        /\ seen' = seen \union Named \union {Source(i) : i \in Packets} \union ({x} \ {NULL})
  /\ IF Failed # {} \/ Packets \intersect Fatal # {}
     THEN pc' = "input" /\ curjob' = Broken(curjob, ent', buf', sock', djob')
     ELSE pc' = "check" /\ UNCHANGED curjob
  /\ fds' = {}
  /\ UNCHANGED <<clients, knock, dumped, count, cmd, done>>

NetworkWakes  == (ReadSet # {} \/ Waiting # {} \/ knock # <<>>) /\ revm_net_recvd
TerminalWakes == ~(ReadSet # {} \/ Waiting # {} \/ knock # <<>>) /\ revm_net_recvd

(* Mutant: off by one *)
OneMore == count <= MAX_CLIENTS

Room == count < MAX_CLIENTS

(* revm_net_accept: revm_socket_add formats the address unless the number of
   clients is reached, and makes the new job the current one. *)
revm_net_accept ==
  /\ pc = "check" /\ knock # <<>>
  /\ knock' = Tail(knock)
  /\ LET c == Head(knock)
     IN  /\ buf' = IF Room THEN addr[c] ELSE buf
         /\ seen' = IF Room THEN seen \union {addr[c]} ELSE seen
         /\ \/ /\ Room /\ ent[addr[c]] = NULL
               /\ ent' = [ent EXCEPT ![addr[c]] = c]
               /\ count' = count + 1
               /\ curjob' = Broken(c, ent', buf', sock, djob)
               /\ UNCHANGED <<link, inq>>
            \/ /\ ~Room \/ ent[addr[c]] # NULL
               /\ link' = [link EXCEPT ![c] = "shut"]
               /\ inq' = [inq EXCEPT ![c] = <<>>]
               /\ curjob' = Broken(curjob, ent, buf', sock, djob)
               /\ UNCHANGED <<ent, count>>
  /\ pc' = "input"
  /\ UNCHANGED <<clients, dump, sock, djob, fds, cmd, done>>

(* inet_ntoa formats the address x last; nothing is left if it is not called. *)
Formats(x) == /\ buf' = x
              /\ seen' = seen \union ({x} \ {NULL})

(* A DUMP node connects: dump_add_myid formats the address of the server, then
   dump_add_neighbor that of the node.  The end of revm_select is the same;
   nothing is formatted if accept fails. *)
revm_dump_accept ==
  /\ pc = "check" /\ knock = <<>>
  /\ pc' = "input"
  /\ \E x \in Peers \union {buf} : Formats(x)
  /\ curjob' = Broken(curjob, ent, buf', sock, djob)
  /\ UNCHANGED <<clients, knock, link, inq, dump, ent, sock, djob, count,
                 fds, cmd, done>>

(* Nobody connected: the terminal's job becomes the current one. *)
revm_localjob_get ==
  /\ pc = "check" /\ knock = <<>>
  /\ IF NullJob(ent, buf, Pos[Local])
     THEN pc' = "crashed" /\ UNCHANGED curjob
     ELSE pc' = "input" /\ curjob' = Local
  /\ UNCHANGED <<clients, knock, link, inq, dump, ent, sock, djob, buf, count,
                 fds, cmd, done, seen>>

----------------------------------------------------------------------------
(* revm_input: the input handler of the current job *)

ReadyEntries == {a \in InTable : Pending(sock, ent[a])}

(* The first complete line of any client, revm_socket_merge_recvd *)
TakeLine ==
  /\ IF ReadyEntries = {}
     THEN pc' = "select" /\ UNCHANGED <<sock, cmd, buf, seen>>
     ELSE LET a == First(ReadyEntries)
              c == ent[a]
          IN  /\ cmd' = [by |-> curjob, from |-> c, text |-> sock[c].recvd]
              /\ sock' = [sock EXCEPT ![c].recvd_f = FALSE]
              /\ buf' = a /\ seen' = seen \union {a}
              /\ pc' = "exec"
  /\ UNCHANGED <<clients, knock, link, inq, dump, ent, djob, count, curjob,
                 fds, done>>

(* Mutant: called in whatever job is the current one *)
InputOfAnyJob == pc = "input" /\ TakeLine

revm_net_input == pc = "input" /\ curjob \in Conn /\ TakeLine

(* revm_dump_input does not look at io.new. *)
revm_dump_input ==
  /\ pc = "input" /\ curjob \in Peers
  /\ cmd' = [by |-> curjob, from |-> curjob,
             text |-> <<[n |-> djob[curjob].n, eol |-> TRUE, sep |-> FALSE]>>]
  /\ djob' = [djob EXCEPT ![curjob].new = FALSE]
  /\ pc' = "exec"
  /\ UNCHANGED <<clients, knock, link, inq, dump, ent, sock, buf, count,
                 curjob, fds, done, seen>>

(* revm_stdinput: the user of the terminal typed a line, or not. *)
revm_stdinput ==
  /\ pc = "input" /\ curjob = Local
  /\ \/ pc' = "select" /\ UNCHANGED cmd
     \/ pc' = "exec" /\ cmd' = [by |-> Local, from |-> Local, text |-> <<>>]
  /\ UNCHANGED <<clients, knock, link, inq, dump, ent, sock, djob, buf, count,
                 curjob, fds, done, seen>>

----------------------------------------------------------------------------
(* revm_execmd: the commands that concern the jobs, and all others *)

Executed ==
  /\ cmd' = NoCmd
  /\ done' = IF cmd.from = Local THEN done
             ELSE [done EXCEPT ![cmd.from] = cmd.text[Len(cmd.text)].n]

Plain ==
  /\ pc = "exec" /\ pc' = "select" /\ Executed
  /\ UNCHANGED <<clients, knock, link, inq, dump, ent, sock, djob, buf, count,
                 curjob, fds, seen>>

(* A command that calls libdump (connect, disconnect, rcmd) or whose output
   revm_dump_output sends to a DUMP node: it formats addresses of nodes. *)
DumpCommand ==
  /\ pc = "exec" /\ pc' = "select" /\ Executed
  /\ \E x \in Peers : Formats(x)
  /\ UNCHANGED <<clients, knock, link, inq, dump, ent, sock, djob, count,
                 curjob, fds>>

(* cmd_netlist formats the address that is in the buffer already. *)
Netlist ==
  /\ pc = "exec" /\ Executed
  /\ pc' = IF NullJob(ent, buf, Beyond) THEN "crashed" ELSE "select"
  /\ UNCHANGED <<clients, knock, link, inq, dump, ent, sock, djob, buf, count,
                 curjob, fds, seen>>

(* Mutant: the socket is closed and the entry stays. *)
CloseOnly(a) ==
  /\ ent' = ent
  /\ link' = [link EXCEPT ![ent[a]] = Closed(ent[a])]
  /\ sock' = [sock EXCEPT ![ent[a]] = Freed(ent[a])]
  /\ inq' = [inq EXCEPT ![ent[a]] = <<>>]

(* revm_socket_del on the entry of address a *)
revm_socket_del(a) ==
  /\ ent' = [ent EXCEPT ![a] = NULL]
  /\ link' = [link EXCEPT ![ent[a]] = Closed(ent[a])]
  /\ sock' = [sock EXCEPT ![ent[a]] = Freed(ent[a])]
  /\ inq' = [inq EXCEPT ![ent[a]] = <<>>]

Netkill(a) ==
  /\ pc = "exec" /\ curjob \notin Conn /\ Executed
  /\ IF ByText(a) # NULL
     THEN /\ revm_socket_del(a)
          /\ buf' = a /\ seen' = seen \union {a}
     ELSE UNCHANGED <<ent, link, sock, inq, buf, seen>>
  /\ pc' = "select"
  /\ UNCHANGED <<clients, knock, dump, djob, count, curjob, fds>>

(* cmd_quit: in a client's job revm_socket_del comes first, and the process
   exits unless it failed: no such entry, or no connection to shut down. *)
Quit ==
  /\ pc = "exec" /\ Executed
  /\ IF curjob \in Conn
     THEN LET a == addr[curjob]
          IN  /\ buf' = a /\ seen' = seen \union {a}
              /\ IF ent[a] = NULL
                 THEN pc' = "select" /\ UNCHANGED <<ent, link, sock, inq>>
                 ELSE /\ revm_socket_del(a)
                      /\ pc' = IF Reset(ent[a]) THEN "select" ELSE "stopped"
     ELSE pc' = "stopped" /\ UNCHANGED <<ent, link, sock, inq, buf, seen>>
  /\ UNCHANGED <<clients, knock, dump, djob, count, curjob, fds>>

----------------------------------------------------------------------------
Init ==
  /\ made = 0 /\ knock = <<>>
  /\ addr = [c \in Conn |-> NULL]
  /\ link = [c \in Conn |-> "none"]
  /\ inq  = [c \in Conn |-> <<>>]
  /\ sent = [c \in Conn |-> 0]
  /\ dumpq = [i \in 1..Ports |-> <<>>]
  /\ dumped = 0
  /\ ent  = [a \in Addrs |-> NULL]
  /\ sock = [c \in Conn |-> [recvd |-> <<>>, recvd_f |-> FALSE, ready_f |-> FALSE]]
  /\ djob = [p \in Peers |-> [new |-> FALSE, n |-> 0]]
  /\ count \in Earlier
  /\ buf = IF count = 0 THEN NULL ELSE First(Addrs)
  /\ curjob = Local
  /\ fds = {}
  /\ pc = "select"
  /\ cmd = NoCmd
  /\ done = [j \in Conn \union Peers |-> 0]
  /\ seen = {buf} \ {NULL}

Client ==
  \/ \E a \in Addrs : Connect(a)
  \/ \E c \in Conn : \/ \E eol \in BOOLEAN : Write(c, eol)
                     \/ \E how \in {"eof", "reset"} : Leave(c, how)

DumpNode == \E i \in 1..Ports, p \in Peers : DumpSend(i, p)

Input == revm_net_input \/ revm_dump_input \/ revm_stdinput

Exec == Plain \/ DumpCommand \/ Netlist \/ Quit \/ \E a \in Addrs : Netkill(a)

Server == \/ Select \/ NetworkWakes \/ revm_net_accept
          \/ revm_localjob_get \/ Input \/ Exec

Next == Client \/ DumpNode \/ TerminalWakes \/ revm_dump_accept \/ Server

Spec == Init /\ [][Next]_vars

(* The process runs: every step of the main loop that is possible is taken.
   Nothing makes the user of the terminal type, a client write, or a DUMP
   node connect. *)
FairSpec == Spec /\ WF_vars(Server)

----------------------------------------------------------------------------
SockType == [recvd : Seq(Piece), recvd_f : BOOLEAN, ready_f : BOOLEAN]
DumpJobType == [new : BOOLEAN, n : Nat]

(* Variables hold values of their types; a client's entry holds the job of a
   connection made from the address whose chain it is in. *)
TypeOK ==
  /\ made \in 0..MaxConn
  /\ knock \in Seq(Conn)
  /\ addr \in [Conn -> Addrs \union {NULL}]
  /\ link \in [Conn -> {"none", "open", "eof", "reset", "dead", "shut", "leaked"}]
  /\ inq \in [Conn -> Seq(Piece)]
  /\ sent \in [Conn -> Nat]
  /\ dumpq \in [1..Ports -> Seq([src : Peers, n : Nat])]
  /\ dumped \in Nat
  /\ ent \in [Addrs -> Conn \union {NULL}]
  /\ sock \in [Conn -> SockType]
  /\ djob \in [Peers -> DumpJobType]
  /\ buf \in Addrs \union Peers \union {NULL}
  /\ count \in 0..MAX_CLIENTS
  /\ curjob \in Job
  /\ fds \subseteq Conn
  /\ pc \in {"select", "wait", "check", "input", "exec", "crashed", "stopped"}
  /\ cmd \in [by : Job \union {NULL}, from : Job \union {NULL}, text : Seq(Piece)]
  /\ done \in [Conn \union Peers -> Nat]
  /\ seen \subseteq Addrs \union Peers

Registered(c) == \E a \in Addrs : ent[a] = c
OneAddress == Cardinality(seen) <= 1

(* What is executed for a client is what it wrote: nothing is lost, repeated
   or reordered, the command is complete, and two lines are never glued
   together.  revm_socket_merge_recvd puts nothing between buffers, so this
   rests on revm_update_recvd never reading a socket whose buffers already
   hold a complete line. *)
LinesWhole ==
  cmd.from \in Conn =>
    LET t == cmd.text
    IN  /\ t # <<>> /\ t[1].n = done[cmd.from] + 1 /\ t[Len(t)].eol
        /\ \A i \in 1..(Len(t) - 1) : /\ t[i + 1].n = t[i].n + 1
                                      /\ t[i].eol => t[i].sep

(* The process never sleeps in select while a DUMP command waits in its job,
   nor, as long as inet_ntoa formatted a single address, while a client's
   complete line does or while a client's socket is left out of the set. *)
NoSleepOnWork ==
  pc = "wait" =>
    /\ \A p \in Peers : ~djob[p].new
    /\ OneAddress => \A a \in InTable : ent[a] \in fds /\ ~Pending(sock, ent[a])

(* As long as inet_ntoa formatted a single address, loops over the keys of
   world.jobs find a job for every key, and a client's command is executed
   in that client's own job. *)
SoleClientServed ==
  OneAddress => /\ pc # "crashed"
                /\ cmd.from \in Conn => cmd.by = cmd.from

(* Connections and entries agree: from the moment it is made, a connection
   waits in the backlog or has the entry of its address until revm_socket_del
   or a refusal ends it, and an entry never outlives its connection.  One that
   was reset ends with its descriptor still open ("leaked"). *)
EntriesMatch ==
  \A c \in Conn :
    link[c] \in {"open", "eof", "reset", "dead"} <=>
      \/ \E i \in 1..Len(knock) : knock[i] = c
      \/ addr[c] \in Addrs /\ ent[addr[c]] = c

Lines(c) == (IF sock[c].recvd_f THEN sock[c].recvd ELSE <<>>) \o inq[c]
Complete(q) == q # <<>> /\ q[Len(q)].eol
Excused(c) == ~Registered(c) \/ ~OneAddress \/ pc \in {"crashed", "stopped"}

(* When what a client wrote ends with a newline, and stays so, the server
   executes it, and a connection that ended, by a close or a reset, is removed
   from world.jobs, unless it ended in the middle of a line: as long as
   inet_ntoa formatted a single address. *)
ClientsServed ==
  \A c \in Conn :
    (Registered(c) /\ (Complete(Lines(c)) \/ link[c] # "open"))
      ~> \/ done[c] = sent[c] /\ link[c] = "open"
         \/ Lines(c) # <<>> /\ ~Complete(Lines(c))
         \/ Excused(c)

----------------------------------------------------------------------------
(* What the comments say and the code does not do *)

(* "Set IO to the choosen socket": a client's command is executed with that
   client's job as the current one. *)
OwnCommand == cmd.from \in Conn => cmd.by = cmd.from
============================================================================
