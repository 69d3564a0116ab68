--------------------------- MODULE NetJobs_proofs ---------------------------
(***************************************************************************)
(* Proofs about NetJobs, for any number of clients, addresses, DUMP nodes  *)
(* and connections.                                                        *)
(*                                                                         *)
(* Three inductive invariants, each built on the one before.  LinkInv      *)
(* relates connections, the backlog of listen and the table of jobs;       *)
(* LineInv follows the pieces of every line from the client that wrote     *)
(* them, through the socket and the buffer, to the command; NameInv says   *)
(* what the static buffer of inet_ntoa, through which the code looks up    *)
(* entries, can hold.                                                      *)
(***************************************************************************)
EXTENDS NetJobs, Extrema, FiniteSetTheorems, SequenceTheorems, TLAPS

(* Connections that have not been shut on the server's side *)
Live == {"open", "eof", "reset", "dead"}

Knocking == {knock[i] : i \in 1..Len(knock)}

(* A connection waits in the backlog once, and nothing was read from it. *)
Backlog ==
  /\ \A c \in Knocking : c <= made /\ link[c] \in {"open", "eof", "reset"} /\ ~sock[c].recvd_f
  /\ \A i, j \in 1..Len(knock) : knock[i] = knock[j] => i = j

(* An entry is that of a live connection from its address; a buffer that is
   flagged is not empty. *)
Entries ==
  \A a \in Addrs : ent[a] # NULL =>
    /\ addr[ent[a]] = a
    /\ link[ent[a]] \in Live
    /\ ent[a] \notin Knocking
    /\ sock[ent[a]].recvd_f => sock[ent[a]].recvd # <<>>

(* Connections not yet made are blank; a live one waits or has its entry. *)
Made ==
  \A c \in Conn :
    /\ c > made  => /\ addr[c] = NULL /\ link[c] = "none" /\ inq[c] = <<>>
                    /\ ~sock[c].recvd_f
    /\ c <= made => addr[c] \in Addrs /\ link[c] # "none"
    /\ link[c] \in Live => c \in Knocking \/ ent[addr[c]] = c

(* A command exists only while it is executed, and its connection lives. *)
Current ==
  /\ curjob \in Conn => addr[curjob] \in Addrs
  /\ pc # "exec" => cmd = NoCmd
  /\ pc = "exec" => cmd.from \in Job /\ (cmd.from # Local => cmd.text # <<>>)
  /\ cmd.from \in Conn => link[cmd.from] \in Live

LinkInv == TypeOK /\ Backlog /\ Entries /\ Made /\ Current

(* What a command and a buffer hold of a connection's pieces *)
TextOf(c) == IF cmd.from = c THEN cmd.text ELSE <<>>
BufOf(c)  == IF sock[c].recvd_f THEN sock[c].recvd ELSE <<>>

(* Pieces in the order of writing, those after number k; pieces whose lines
   are told apart; pieces as they were written, with their delimiters *)
Run(q, k) == \A i \in 1..Len(q) : q[i].n = k + i
Apart(q)  == \A i \in 1..(Len(q) - 1) : q[i].eol => q[i].sep
Raw(q)    == \A i \in 1..Len(q) : q[i].eol = q[i].sep

(* The pieces of a connection are, in order: executed, in the command, in
   the buffer, in the socket; none is lost or repeated. *)
Numbered(c) ==
  /\ Run(TextOf(c), done[c])
  /\ Run(BufOf(c), done[c] + Len(TextOf(c)))
  /\ Run(inq[c], done[c] + Len(TextOf(c)) + Len(BufOf(c)))
  /\ link[c] = "open" =>
       sent[c] = done[c] + Len(TextOf(c)) + Len(BufOf(c)) + Len(inq[c])

(* A command ends with a line; a buffer does when it is flagged ready. *)
Ended(c) ==
  /\ TextOf(c) # <<>> => TextOf(c)[Len(TextOf(c))].eol
  /\ BufOf(c) # <<>> => BufOf(c)[Len(BufOf(c))].eol = sock[c].ready_f
  /\ Apart(TextOf(c)) /\ Apart(BufOf(c)) /\ Raw(inq[c])

LineInv ==
  /\ \A c \in Conn : link[c] \in Live => Numbered(c) /\ Ended(c)
  /\ \A c \in Conn : link[c] = "none" => sent[c] = 0 /\ done[c] = 0
  /\ pc = "wait" => \A c \in fds : ~Pending(sock, c)

(* A single address has been formatted. *)
One == \A x, y \in seen : x = y

(* The buffer of inet_ntoa and the table know only formatted addresses. *)
Names ==
  /\ buf # NULL => buf \in seen
  /\ buf = NULL => seen = {}
  /\ InTable \subseteq seen

(* The process waits only with no DUMP command to execute and, with a single
   address, no complete line. *)
Awake ==
  pc = "wait" => /\ \A p \in Peers : ~djob[p].new
                 /\ One => \A a \in InTable : ent[a] \in fds /\ ~Pending(sock, ent[a])

(* With a single address lookups succeed and find the client that is meant. *)
Sole ==
  One => /\ pc # "crashed"
         /\ curjob \in Conn => \A a \in Addrs : ent[a] # NULL => ent[a] = curjob
         /\ cmd.from \in Conn => cmd.by = cmd.from

NameInv == Names /\ Awake /\ Sole
-----------------------------------------------------------------------------
(* Constants and choices *)

(* The kinds of values that a job, a key or a pointer can have are disjoint. *)
LEMMA Kinds ==
  /\ Conn \subseteq Int /\ NULL \notin Conn
  /\ NULL \notin Addrs /\ NULL \notin Peers /\ NULL # Local
  /\ \A c \in Conn : c \notin Addrs /\ c \notin Peers /\ c # Local
  /\ \A p \in Peers : p \notin Addrs /\ p # Local
  /\ \A a \in Addrs : a # Local
BY NetJobsAssumption DEF Conn, Keys

(* Every entry of the table has a place in the order of the keys. *)
LEMMA Ranks ==
  /\ Cardinality(Keys) \in Nat
  /\ \A k \in Keys : Pos[k] \in Nat /\ Pos[k] <= Cardinality(Keys)
BY NetJobsAssumption, FS_CardinalityType

(* First chooses the entry that is visited first. *)
LEMMA FirstIn ==
  ASSUME NEW S, S \subseteq Keys, S # {}
  PROVE  First(S) \in S /\ \A l \in S : Pos[First(S)] <= Pos[l]
<1> DEFINE T == {Pos[k] : k \in S}
<1>1. T \subseteq Nat /\ T # {}
  BY Ranks
<1>2. PICK t \in T : \A n \in T : t <= n
  <2> HIDE DEF T
  <2> QED
    BY <1>1, LeastNat
<1>3. \E k \in S : \A l \in S : Pos[k] <= Pos[l]
  BY <1>2
<1> QED
  BY <1>3 DEF First

(* Last chooses the entry that is visited last. *)
LEMMA LastIn ==
  ASSUME NEW S, S \subseteq Keys, S # {}
  PROVE  Last(S) \in S /\ \A l \in S : Pos[l] <= Pos[Last(S)]
<1> DEFINE T == {Pos[k] : k \in S}
<1>1. T \subseteq 0..Cardinality(Keys) /\ T # {}
  BY Ranks
<1>2. PICK t \in T : \A n \in T : n <= t
  <2> HIDE DEF T
  <2> QED
    BY <1>1, GreatestNat, Ranks
<1>3. \E k \in S : \A l \in S : Pos[l] <= Pos[k]
  BY <1>2
<1> QED
  BY <1>3 DEF Last

(* Loops over the whole table come to every entry. *)
LEMMA BeyondAll == \A k \in Keys : Pos[k] < Beyond
<1>1. Keys # {} /\ Last(Keys) \in Keys /\ \A l \in Keys : Pos[l] <= Pos[Last(Keys)]
  BY LastIn DEF Keys
<1> QED
  BY <1>1, Ranks DEF Beyond

(* What revm_socket_getnew chooses is a job. *)
LEMMA Chosen ==
  ASSUME NEW e \in [Addrs -> Conn \union {NULL}], NEW b, NEW s, NEW d
  PROVE  LET n == revm_socket_getnew(e, b, s, d)
         IN  /\ n \in Conn \union Peers \union {NULL}
             /\ n \in Conn => b \in Addrs /\ n = e[b]
             /\ n = NULL <=> NewKeys(e, b, s, d) = {}
<1> DEFINE K == NewKeys(e, b, s, d)
<1>1. K \subseteq Keys
  BY DEF NewKeys, Keys
<1>2. CASE K = {}
  BY <1>2, Kinds DEF revm_socket_getnew
<1>3. CASE K # {}
  <2>1. First(K) \in K
    <3> HIDE DEF K
    <3> QED
      BY <1>1, <1>3, FirstIn
  <2>2. CASE First(K) \in Addrs
    <3>1. ByKey(e, b) # NULL
      BY <2>1, <2>2, Kinds DEF NewKeys
    <3>2. b \in Addrs /\ ByKey(e, b) = e[b]
      BY <3>1 DEF ByKey
    <3> QED
      BY <1>3, <2>2, <3>1, <3>2 DEF revm_socket_getnew
  <2>3. CASE First(K) \notin Addrs
    <3>1. First(K) \in Peers
      BY <2>1, <2>3 DEF NewKeys
    <3> QED
      BY <1>3, <2>3, <3>1, Kinds DEF revm_socket_getnew
  <2> QED
    BY <2>2, <2>3
<1> QED
  BY <1>2, <1>3
-----------------------------------------------------------------------------
(* Connections and entries *)

(* revm_create_IO and the start of the server: no connection, an empty table. *)
LEMMA InitLink == Init => LinkInv
<1> SUFFICES ASSUME Init
             PROVE  LinkInv
  OBVIOUS
<1>1. buf \in Addrs \union {NULL}
  BY FirstIn, NetJobsAssumption DEF Init, Keys
<1>2. sock \in [Conn -> SockType]
  <2>1. [recvd |-> <<>>, recvd_f |-> FALSE, ready_f |-> FALSE] \in SockType
    BY EmptySeq DEF SockType
  <2> QED
    BY <2>1 DEF Init
<1>3. djob \in [Peers -> DumpJobType]
  BY DEF Init, DumpJobType
<1>4. cmd \in [by : Job \union {NULL}, from : Job \union {NULL}, text : Seq(Piece)]
  BY EmptySeq DEF Init, NoCmd
<1>5. /\ knock \in Seq(Conn) /\ inq \in [Conn -> Seq(Piece)]
      /\ dumpq \in [1..Ports -> Seq([src : Peers, n : Nat])]
  BY EmptySeq DEF Init
<1>6. /\ made \in 0..MaxConn
      /\ addr \in [Conn -> Addrs \union {NULL}]
      /\ link \in [Conn -> {"none", "open", "eof", "reset", "dead", "shut", "leaked"}]
      /\ sent \in [Conn -> Nat]
      /\ dumped \in Nat
      /\ ent \in [Addrs -> Conn \union {NULL}]
      /\ count \in 0..MAX_CLIENTS
  BY NetJobsAssumption DEF Init
<1>7. /\ curjob \in Job
      /\ fds \subseteq Conn
      /\ pc = "select"
      /\ done \in [Conn \union Peers -> Nat]
      /\ seen \subseteq Addrs \union Peers
  BY <1>1 DEF Init, Job
<1>8. TypeOK
  BY <1>1, <1>2, <1>3, <1>4, <1>5, <1>6, <1>7 DEF TypeOK
<1>9. Knocking = {}
  BY DEF Init, Knocking
<1>10. Backlog
  BY <1>9 DEF Backlog, Init
<1>11. Entries
  BY DEF Entries, Init
<1>12. Made
  BY DEF Made, Init, Conn, Live
<1>13. Current
  BY Kinds DEF Current, Init, NoCmd
<1> QED
  BY <1>8, <1>10, <1>11, <1>12, <1>13 DEF LinkInv

(* A client connects: its connection joins the backlog. *)
LEMMA ConnectLink ==
  ASSUME LinkInv, NEW a \in Addrs, Connect(a)
  PROVE  LinkInv'
<1> DEFINE c == made + 1
<1>1. made \in Nat /\ c \in Conn /\ knock \in Seq(Conn) /\ c <= MaxConn
  BY NetJobsAssumption DEF LinkInv, Connect, TypeOK, Conn
<1>2. knock' = Append(knock, c)
  BY DEF Connect
<1>3. /\ knock' \in Seq(Conn)
      /\ Len(knock) \in Nat
      /\ Len(knock') = Len(knock) + 1
      /\ \A i \in 1..Len(knock) : knock'[i] = knock[i]
      /\ knock'[Len(knock) + 1] = c
  BY <1>1, <1>2, AppendProperties, LenProperties
<1>4. /\ made' = c
      /\ addr' \in [Conn -> Addrs \union {NULL}]
      /\ addr'[c] = a /\ \A d \in Conn : d # c => addr'[d] = addr[d]
      /\ link' \in [Conn -> {"none", "open", "eof", "reset", "dead", "shut", "leaked"}]
      /\ link'[c] = "open" /\ \A d \in Conn : d # c => link'[d] = link[d]
  BY <1>1 DEF LinkInv, TypeOK, Connect
<1>5. TypeOK'
  <2>1. made' \in 0..MaxConn
    BY <1>1, <1>4
  <2> QED
    BY <2>1, <1>3, <1>4 DEF LinkInv, Connect, TypeOK, dump
<1>6. Knocking' = Knocking \union {c}
  BY <1>3 DEF Knocking
<1>7. Knocking \subseteq Conn /\ c \notin Knocking
  BY <1>1, ElementOfSeq DEF Knocking, LinkInv, Backlog
<1>8. \A d \in Conn : d <= made' <=> d <= made \/ d = c
  BY <1>1, <1>4 DEF Conn
<1>9. Backlog'
  <2>1. \A d \in Knocking' : /\ d <= made' /\ link'[d] \in {"open", "eof", "reset"}
                             /\ ~sock'[d].recvd_f
    <3> SUFFICES ASSUME NEW d \in Knocking'
                 PROVE  /\ d <= made' /\ link'[d] \in {"open", "eof", "reset"}
                        /\ ~sock'[d].recvd_f
      OBVIOUS
    <3>1. CASE d = c
      BY <3>1, <1>1, <1>4 DEF LinkInv, Made, Connect
    <3>2. CASE d # c
      <4>1. d \in Knocking /\ d \in Conn
        BY <3>2, <1>6, <1>7
      <4> QED
        BY <4>1, <3>2, <1>4, <1>8 DEF LinkInv, Backlog, Connect
    <3> QED
      BY <3>1, <3>2
  <2>2. \A i, j \in 1..Len(knock') : knock'[i] = knock'[j] => i = j
    <3>1. \A i \in 1..Len(knock') : i = Len(knock) + 1 \/ i \in 1..Len(knock)
      BY <1>3
    <3>2. \A i \in 1..Len(knock) : knock[i] # c
      BY <1>7 DEF Knocking
    <3> QED
      BY <1>3, <3>1, <3>2 DEF LinkInv, Backlog
  <2> QED
    BY <2>1, <2>2 DEF Backlog
<1>10. Entries'
  <2>1. \A b \in Addrs : ent[b] # NULL => ent[b] \in Conn /\ ent[b] # c
    <3> SUFFICES ASSUME NEW b \in Addrs, ent[b] # NULL
                 PROVE  ent[b] \in Conn /\ ent[b] # c
      OBVIOUS
    <3>1. ent[b] \in Conn /\ link[ent[b]] \in Live
      BY DEF LinkInv, TypeOK, Entries
    <3>2. link[c] = "none"
      BY <1>1 DEF LinkInv, Made
    <3> QED
      BY <3>1, <3>2 DEF Live
  <2> QED
    BY <2>1, <1>4, <1>6 DEF LinkInv, Entries, Connect
<1>11. Made'
  BY <1>1, <1>4, <1>6, <1>8 DEF LinkInv, Made, Connect, Conn
<1>12. Current'
  BY <1>4 DEF LinkInv, Current, Connect, Live
<1> QED
  BY <1>5, <1>9, <1>10, <1>11, <1>12 DEF LinkInv

(* A client writes a piece of a line. *)
LEMMA WriteLink ==
  ASSUME LinkInv, NEW c \in Conn, NEW eol \in BOOLEAN, Write(c, eol)
  PROVE  LinkInv'
<1>1. TypeOK'
  <2> DEFINE new == [n |-> sent[c] + 1, eol |-> eol, sep |-> eol]
  <2>1. sent[c] + 1 \in Nat /\ inq[c] \in Seq(Piece)
    BY DEF LinkInv, TypeOK
  <2>2. new \in Piece
    BY <2>1 DEF Piece
  <2>3. Append(inq[c], new) \in Seq(Piece)
    BY <2>1, <2>2, AppendProperties
  <2>4. inq' = [inq EXCEPT ![c] = Append(inq[c], new)]
    BY DEF Write
  <2>5. inq' \in [Conn -> Seq(Piece)]
    BY <2>3, <2>4 DEF LinkInv, TypeOK
  <2> QED
    BY <2>1, <2>5 DEF LinkInv, Write, TypeOK, dump
<1>2. /\ UNCHANGED <<made, addr, knock, link, ent, sock, curjob, pc, cmd>>
      /\ link[c] = "open" /\ \A d \in Conn : d # c => inq'[d] = inq[d]
  BY DEF LinkInv, TypeOK, Write
<1>3. Knocking' = Knocking
  BY <1>2 DEF Knocking
<1>4. Backlog' /\ Entries' /\ Current'
  BY <1>2, <1>3 DEF LinkInv, Backlog, Entries, Current
<1>5. Made'
  BY <1>2, <1>3 DEF LinkInv, Made
<1> QED
  BY <1>1, <1>4, <1>5 DEF LinkInv

(* A client closes or resets its connection. *)
LEMMA LeaveLink ==
  ASSUME LinkInv, NEW c \in Conn, NEW how \in {"eof", "reset"}, Leave(c, how)
  PROVE  LinkInv'
<1>1. inq' \in [Conn -> Seq(Piece)] /\ \A d \in Conn : inq[d] = <<>> => inq'[d] = <<>>
  BY EmptySeq DEF LinkInv, TypeOK, Leave
<1>2. /\ link' \in [Conn -> {"none", "open", "eof", "reset", "dead", "shut", "leaked"}]
      /\ link'[c] \in {"eof", "reset"} /\ link[c] \in {"open", "eof"}
      /\ \A d \in Conn : d # c => link'[d] = link[d]
  BY DEF LinkInv, TypeOK, Leave
<1>3. TypeOK'
  BY <1>1, <1>2 DEF LinkInv, Leave, TypeOK, dump, clients
<1>4. Knocking' = Knocking /\ Knocking \subseteq Conn
  BY ElementOfSeq, SMTT(60) DEF Knocking, Leave, LinkInv, TypeOK
<1>5. Backlog'
  BY <1>2, <1>4 DEF LinkInv, Backlog, Leave, clients
<1>6. Entries'
  BY <1>2, <1>4 DEF LinkInv, Entries, Leave, clients, TypeOK, Live
<1>7. Made'
  BY <1>1, <1>2, <1>4 DEF LinkInv, Leave, Made, clients, Live
<1>8. Current'
  BY <1>2 DEF LinkInv, Leave, Current, clients, Live
<1> QED
  BY <1>3, <1>5, <1>6, <1>7, <1>8 DEF LinkInv

(* A DUMP node sends a command. *)
LEMMA DumpSendLink ==
  ASSUME LinkInv, NEW i \in 1..Ports, NEW p \in Peers, DumpSend(i, p)
  PROVE  LinkInv'
<1> DEFINE P == [src : Peers, n : Nat]
           new == [src |-> p, n |-> dumped + 1]
<1>1. dumpq' = [dumpq EXCEPT ![i] = Append(dumpq[i], new)] /\ dumpq \in [1..Ports -> Seq(P)]
  BY DEF LinkInv, TypeOK, DumpSend
<1>2. dumped + 1 \in Nat /\ dumped' = dumped + 1
  BY DEF LinkInv, TypeOK, DumpSend
<1>3. new \in P
  BY <1>2
<1> HIDE DEF P, new
<1>4. dumpq[i] \in Seq(P)
  BY <1>1
<1>5. dumpq' \in [1..Ports -> Seq(P)]
  BY <1>1, <1>3, <1>4, AppendProperties
<1>6. TypeOK'
  BY <1>2, <1>5 DEF LinkInv, DumpSend, TypeOK, clients, P
<1>7. Backlog' /\ Entries' /\ Current' /\ Made'
  BY DEF LinkInv, DumpSend, Backlog, Entries, Current, Made, clients, Knocking
<1> QED
  BY <1>6, <1>7 DEF LinkInv
(* A step that leaves the connections, the backlog and the table alone keeps
   what is said of them. *)
LEMMA SameConnections ==
  ASSUME LinkInv, UNCHANGED <<made, addr, knock, link, inq, ent, sock>>
  PROVE  Backlog' /\ Entries' /\ Made'
<1>1. Knocking' = Knocking
  BY DEF Knocking
<1>2. Backlog'
  BY <1>1 DEF LinkInv, Backlog
<1>3. Entries'
  BY <1>1 DEF LinkInv, Entries
<1>4. Made'
  BY <1>1 DEF LinkInv, Made
<1> QED
  BY <1>2, <1>3, <1>4

(* The job that is current after a broken select is one that exists. *)
LEMMA BrokenJob ==
  ASSUME NEW e \in [Addrs -> Conn \union {NULL}], NEW b, NEW s, NEW d,
         NEW j \in Job, NEW A, j \in Conn => A[j] \in Addrs,
         \A a \in Addrs : e[a] # NULL => A[e[a]] \in Addrs
  PROVE  /\ Broken(j, e, b, s, d) \in Job
         /\ Broken(j, e, b, s, d) \in Conn => A[Broken(j, e, b, s, d)] \in Addrs
<1> DEFINE n == revm_socket_getnew(e, b, s, d)
<1>1. /\ n \in Conn \union Peers \union {NULL}
      /\ n \in Conn => b \in Addrs /\ n = e[b]
  BY Chosen
<1>2. Broken(j, e, b, s, d) = IF n # NULL THEN n ELSE j
  BY DEF Broken
<1> HIDE DEF n
<1>3. CASE n = NULL
  BY <1>2, <1>3
<1>4. CASE n # NULL
  BY <1>1, <1>2, <1>4, Kinds DEF Job
<1> QED
  BY <1>3, <1>4

(* When a loop over the keys finds a job for each, the buffer names an entry. *)
LEMMA NoNullJob ==
  ASSUME NEW e \in [Addrs -> Conn \union {NULL}], NEW b, ~NullJob(e, b, Beyond),
         NEW a \in Addrs, e[a] # NULL
  PROVE  b \in Addrs /\ e[b] # NULL /\ ByKey(e, b) = e[b]
BY BeyondAll DEF NullJob, ByKey, Keys

(* revm_prepare_select and revm_getmaxfd only read the table. *)
LEMMA SelectLink ==
  ASSUME LinkInv, Select
  PROVE  LinkInv'
<1> DEFINE new == revm_socket_getnew(ent, buf, sock, djob)
<1>1. ent \in [Addrs -> Conn \union {NULL}] /\ curjob \in Job /\ fds \subseteq Conn
  BY DEF LinkInv, TypeOK
<1>2. new \in Conn \union Peers \union {NULL} /\ (new \in Conn => buf \in Addrs /\ new = ent[buf])
  BY <1>1, Chosen
<1>3. new \in Conn => addr[new] \in Addrs
  BY <1>2, Kinds DEF LinkInv, Entries
<1>4. /\ pc = "select" /\ pc' \in {"input", "crashed", "wait"}
      /\ (curjob' = new /\ new # NULL) \/ curjob' = curjob
      /\ fds' = fds \/ (~NullJob(ent, buf, Beyond) /\ fds' = {ByKey(ent, buf) : a \in InTable})
      /\ UNCHANGED <<made, addr, knock, link, inq, ent, sock, cmd>>
  BY DEF Select, clients
<1>5. fds' \subseteq Conn
  <2>1. CASE fds' = fds
    BY <2>1, <1>1
  <2>2. CASE ~NullJob(ent, buf, Beyond) /\ fds' = {ByKey(ent, buf) : a \in InTable}
    <3> SUFFICES ASSUME NEW a \in InTable
                 PROVE  ByKey(ent, buf) \in Conn
      BY <2>2
    <3>1. a \in Addrs /\ ent[a] # NULL
      BY DEF InTable
    <3> QED
      BY <1>1, <2>2, <3>1, NoNullJob
  <2> QED
    BY <1>4, <2>1, <2>2
<1>6. curjob' \in Job
  BY <1>1, <1>2, <1>4 DEF Job
<1>7. TypeOK'
  <2>1. pc' \in {"select", "wait", "check", "input", "exec", "crashed", "stopped"}
    BY <1>4
  <2> QED
    BY <1>5, <1>6, <2>1 DEF LinkInv, TypeOK, Select, clients, dump
<1>8. Current'
  BY <1>3, <1>4 DEF LinkInv, Current
<1> QED
  BY <1>4, <1>7, <1>8, SameConnections DEF LinkInv

(* A new DUMP node is none of the clients, but its address is formatted. *)
LEMMA DumpAcceptLink ==
  ASSUME LinkInv, revm_dump_accept
  PROVE  LinkInv'
<1>1. ent \in [Addrs -> Conn \union {NULL}] /\ curjob \in Job
  BY DEF LinkInv, TypeOK
<1>2. \A a \in Addrs : ent[a] # NULL => addr[ent[a]] \in Addrs
  BY DEF LinkInv, Entries
<1>3. curjob \in Conn => addr[curjob] \in Addrs
  BY DEF LinkInv, Current
<1>4. curjob' = Broken(curjob, ent, buf', sock, djob) /\ pc' = "input" /\ pc = "check"
  BY DEF revm_dump_accept
<1>5. curjob' \in Job /\ (curjob' \in Conn => addr[curjob'] \in Addrs)
  BY <1>1, <1>2, <1>3, <1>4, BrokenJob
<1>0. buf' \in Addrs \union Peers \union {NULL} /\ seen' \subseteq Addrs \union Peers
  BY DEF LinkInv, TypeOK, revm_dump_accept, Formats
<1>6. TypeOK'
  BY <1>0, <1>4, <1>5 DEF LinkInv, TypeOK, revm_dump_accept, clients, dump
<1>7. UNCHANGED <<made, addr, knock, link, inq, ent, sock, cmd>>
  BY DEF revm_dump_accept, clients
<1>8. Current'
  BY <1>4, <1>5, <1>7 DEF LinkInv, Current
<1> QED
  BY <1>6, <1>7, <1>8, SameConnections DEF LinkInv

(* The local job becomes the current one. *)
LEMMA LocalJobLink ==
  ASSUME LinkInv, revm_localjob_get
  PROVE  LinkInv'
<1>1. /\ pc = "check" /\ pc' \in {"crashed", "input"}
      /\ curjob' \in {curjob, Local}
      /\ UNCHANGED <<made, addr, knock, link, inq, ent, sock, cmd>>
  BY DEF revm_localjob_get, clients
<1>2. curjob' \in Job
  BY <1>1 DEF LinkInv, TypeOK, Job
<1>3. TypeOK'
  BY <1>1, <1>2 DEF LinkInv, TypeOK, revm_localjob_get, clients, dump
<1>4. Current'
  BY <1>1, Kinds DEF LinkInv, Current
<1> QED
  BY <1>1, <1>3, <1>4, SameConnections DEF LinkInv

(* revm_net_input takes the buffer of an entry for a command. *)
LEMMA NetInputLink ==
  ASSUME LinkInv, revm_net_input
  PROVE  LinkInv'
<1> DEFINE a == First(ReadyEntries)
           c == ent[a]
<1>1. /\ pc = "input" /\ curjob \in Conn
      /\ UNCHANGED <<made, addr, knock, link, inq, ent, curjob>>
  BY DEF revm_net_input, TakeLine, clients
<1>2. CASE ReadyEntries = {}
  <2>1. pc' = "select" /\ UNCHANGED <<sock, cmd, buf, seen>>
    BY <1>2 DEF revm_net_input, TakeLine
  <2>2. TypeOK'
    BY <2>1 DEF revm_net_input, TakeLine, LinkInv, TypeOK, clients, dump
  <2>3. Current'
    BY <1>1, <2>1 DEF LinkInv, Current
  <2> QED
    BY <1>1, <2>1, <2>2, <2>3, SameConnections DEF LinkInv
<1>3. CASE ReadyEntries # {}
  <2>1. a \in ReadyEntries
    BY <1>3, FirstIn DEF ReadyEntries, InTable, Keys
  <2>2. /\ a \in Addrs /\ c \in Conn /\ Pending(sock, c)
        /\ c # NULL /\ sock \in [Conn -> SockType]
    BY <2>1 DEF ReadyEntries, InTable, LinkInv, TypeOK
  <2>3. /\ sock[c].recvd \in Seq(Piece) /\ sock[c].recvd # <<>>
        /\ link[c] \in Live /\ addr[c] = a
    BY <2>2 DEF LinkInv, Entries, SockType, Pending
  <2>4. /\ cmd' = [by |-> curjob, from |-> c, text |-> sock[c].recvd]
        /\ sock' = [sock EXCEPT ![c].recvd_f = FALSE]
        /\ buf' = a /\ seen' = seen \union {a} /\ pc' = "exec"
    BY <1>3 DEF revm_net_input, TakeLine
  <2> HIDE DEF a, c
  <2>5. /\ sock' \in [Conn -> SockType] /\ ~sock'[c].recvd_f
        /\ \A d \in Conn : d # c => sock'[d] = sock[d]
    BY <2>2, <2>4 DEF SockType
  <2>6. cmd' \in [by : Job \union {NULL}, from : Job \union {NULL}, text : Seq(Piece)]
    BY <1>1, <2>2, <2>3, <2>4 DEF Job
  <2>7. TypeOK'
    BY <2>2, <2>4, <2>5, <2>6 DEF revm_net_input, TakeLine, LinkInv, TypeOK, clients, dump
  <2>8. Knocking' = Knocking /\ Knocking \subseteq Conn
    BY <1>1, ElementOfSeq, SMTT(60) DEF Knocking, LinkInv, TypeOK
  <2>9. Backlog'
    BY <1>1, <2>5, <2>8 DEF LinkInv, Backlog
  <2>10. Entries'
    BY <1>1, <2>5, <2>8, ZenonT(60) DEF LinkInv, TypeOK, Entries
  <2>11. Made'
    BY <1>1, <2>5, <2>8 DEF LinkInv, Made
  <2>12. Current'
    BY <1>1, <2>2, <2>3, <2>4 DEF LinkInv, Current, Job
  <2> QED
    BY <2>7, <2>9, <2>10, <2>11, <2>12 DEF LinkInv
<1> QED
  BY <1>2, <1>3

(* revm_dump_input takes the command of a DUMP job. *)
LEMMA DumpInputLink ==
  ASSUME LinkInv, revm_dump_input
  PROVE  LinkInv'
<1> DEFINE x == [n |-> djob[curjob].n, eol |-> TRUE, sep |-> FALSE]
<1>1. /\ pc = "input" /\ pc' = "exec" /\ curjob \in Peers /\ curjob \in Job
      /\ djob \in [Peers -> DumpJobType]
      /\ cmd' = [by |-> curjob, from |-> curjob, text |-> <<x>>]
      /\ djob' = [djob EXCEPT ![curjob].new = FALSE]
      /\ UNCHANGED <<made, addr, knock, link, inq, ent, sock, curjob>>
  BY DEF revm_dump_input, clients, LinkInv, TypeOK, Job
<1>2. djob[curjob] \in DumpJobType /\ djob' \in [Peers -> DumpJobType]
  BY <1>1 DEF DumpJobType
<1>3. x \in Piece
  BY <1>2 DEF DumpJobType, Piece
<1> HIDE DEF x
<1>4. <<x>> \in Seq(Piece) /\ <<x>> # <<>>
  BY <1>3
<1>5. cmd' \in [by : Job \union {NULL}, from : Job \union {NULL}, text : Seq(Piece)]
  BY <1>1, <1>4
<1>6. TypeOK'
  BY <1>1, <1>2, <1>5 DEF revm_dump_input, LinkInv, TypeOK, clients, dump
<1>7. Current'
  BY <1>1, <1>4, Kinds DEF LinkInv, Current
<1> QED
  BY <1>1, <1>6, <1>7, SameConnections DEF LinkInv

(* A line of the terminal *)
LEMMA StdInputLink ==
  ASSUME LinkInv, revm_stdinput
  PROVE  LinkInv'
<1>1. /\ pc = "input" /\ curjob = Local
      /\ \/ pc' = "select" /\ cmd' = cmd
         \/ pc' = "exec" /\ cmd' = [by |-> Local, from |-> Local, text |-> <<>>]
      /\ UNCHANGED <<made, addr, knock, link, inq, ent, sock, curjob>>
  BY DEF revm_stdinput, clients
<1>2. cmd' \in [by : Job \union {NULL}, from : Job \union {NULL}, text : Seq(Piece)]
  <2>1. Local \in Job /\ <<>> \in Seq(Piece)
    BY EmptySeq DEF Job
  <2>2. CASE cmd' = cmd
    BY <2>2 DEF LinkInv, TypeOK
  <2>3. CASE cmd' = [by |-> Local, from |-> Local, text |-> <<>>]
    BY <2>1, <2>3
  <2> QED
    BY <1>1, <2>2, <2>3
<1>3. TypeOK'
  BY <1>1, <1>2 DEF revm_stdinput, LinkInv, TypeOK, clients, dump
<1>4. Current'
  <2>1. curjob' \notin Conn /\ Local \notin Conn /\ Local \in Job
    BY <1>1, Kinds DEF Job
  <2>2. CASE pc' = "select" /\ cmd' = cmd
    BY <1>1, <2>1, <2>2 DEF LinkInv, Current
  <2>3. CASE pc' = "exec" /\ cmd' = [by |-> Local, from |-> Local, text |-> <<>>]
    BY <2>1, <2>3 DEF Current
  <2> QED
    BY <1>1, <2>2, <2>3
<1> QED
  BY <1>1, <1>3, <1>4, SameConnections DEF LinkInv

(* The end of every command: the connection's count of executed pieces stays
   a number, and no command is left. *)
LEMMA ExecutedType ==
  ASSUME LinkInv, pc = "exec", Executed
  PROVE  /\ cmd' = NoCmd /\ done' \in [Conn \union Peers -> Nat]
         /\ cmd' \in [by : Job \union {NULL}, from : Job \union {NULL}, text : Seq(Piece)]
<1>1. cmd' = NoCmd
  BY DEF Executed
<1>2. cmd' \in [by : Job \union {NULL}, from : Job \union {NULL}, text : Seq(Piece)]
  BY <1>1, EmptySeq DEF NoCmd
<1>3. cmd.from \in Job /\ cmd.text \in Seq(Piece) /\ done \in [Conn \union Peers -> Nat]
  BY DEF LinkInv, TypeOK, Current
<1>4. CASE cmd.from = Local
  BY <1>1, <1>2, <1>3, <1>4 DEF Executed
<1>5. CASE cmd.from # Local
  <2>1. cmd.text # <<>>
    BY <1>5 DEF LinkInv, Current
  <2>2. Len(cmd.text) \in 1..Len(cmd.text)
    BY <2>1, <1>3, EmptySeq, LenProperties
  <2>3. cmd.text[Len(cmd.text)] \in Piece
    BY <1>3, <2>2, ElementOfSeq
  <2>4. cmd.text[Len(cmd.text)].n \in Nat
    BY <2>3 DEF Piece
  <2> QED
    BY <1>1, <1>2, <1>3, <1>5, <2>4 DEF Executed
<1> QED
  BY <1>4, <1>5

(* A command that does not touch the table *)
LEMMA PlainLink ==
  ASSUME LinkInv, Plain
  PROVE  LinkInv'
<1>1. /\ pc = "exec" /\ pc' = "select" /\ Executed
      /\ UNCHANGED <<made, addr, knock, link, inq, ent, sock, curjob>>
  BY DEF Plain, clients
<1>2. TypeOK'
  BY <1>1, ExecutedType DEF Plain, LinkInv, TypeOK, clients, dump
<1>3. Current'
  BY <1>1, ExecutedType, Kinds DEF LinkInv, Current, NoCmd
<1> QED
  BY <1>1, <1>2, <1>3, SameConnections DEF LinkInv

(* A command that formats the address of a node *)
LEMMA DumpCommandLink ==
  ASSUME LinkInv, DumpCommand
  PROVE  LinkInv'
<1>1. /\ pc = "exec" /\ pc' = "select" /\ Executed
      /\ UNCHANGED <<made, addr, knock, link, inq, ent, sock, curjob>>
  BY DEF DumpCommand, clients
<1>2. buf' \in Addrs \union Peers \union {NULL} /\ seen' \subseteq Addrs \union Peers
  BY DEF LinkInv, TypeOK, DumpCommand, Formats
<1>3. TypeOK'
  BY <1>1, <1>2, ExecutedType DEF DumpCommand, LinkInv, TypeOK, clients, dump
<1>4. Current'
  BY <1>1, ExecutedType, Kinds DEF LinkInv, Current, NoCmd
<1> QED
  BY <1>1, <1>3, <1>4, SameConnections DEF LinkInv

(* netlist formats an address for every entry and changes nothing else. *)
LEMMA NetlistLink ==
  ASSUME LinkInv, Netlist
  PROVE  LinkInv'
<1>1. /\ pc = "exec" /\ pc' \in {"select", "crashed"} /\ Executed
      /\ UNCHANGED <<made, addr, knock, link, inq, ent, sock, curjob>>
  BY DEF Netlist, clients
<1>2. TypeOK'
  BY <1>1, ExecutedType DEF Netlist, LinkInv, TypeOK, clients, dump
<1>3. Current'
  BY <1>1, ExecutedType, Kinds DEF LinkInv, Current, NoCmd
<1> QED
  BY <1>1, <1>2, <1>3, SameConnections DEF LinkInv

(* What revm_socket_del leaves of a connection *)
LEMMA ClosedLink ==
  ASSUME NEW c \in Conn, sock \in [Conn -> SockType]
  PROVE  Closed(c) \in {"shut", "leaked"} /\ Freed(c) \in SockType
BY EmptySeq DEF Closed, Freed, SockType

(* revm_socket_del ends the connection whose entry it removes. *)
LEMMA DelLink ==
  ASSUME LinkInv, NEW a \in Addrs, ent[a] # NULL, revm_socket_del(a),
         UNCHANGED <<made, addr, knock>>
  PROVE  /\ ent' \in [Addrs -> Conn \union {NULL}]
         /\ link' \in [Conn -> {"none", "open", "eof", "reset", "dead", "shut", "leaked"}]
         /\ sock' \in [Conn -> SockType]
         /\ inq' \in [Conn -> Seq(Piece)]
         /\ Backlog' /\ Entries' /\ Made'
<1> DEFINE c == ent[a]
<1>1. /\ ent \in [Addrs -> Conn \union {NULL}] /\ c \in Conn /\ sock \in [Conn -> SockType]
      /\ link \in [Conn -> {"none", "open", "eof", "reset", "dead", "shut", "leaked"}]
      /\ inq \in [Conn -> Seq(Piece)] /\ c # NULL
  BY DEF LinkInv, TypeOK
<1>2. /\ addr[c] = a /\ link[c] \in Live /\ c \notin Knocking
  BY DEF LinkInv, Entries
<1>3. /\ ent' = [ent EXCEPT ![a] = NULL]
      /\ link' = [link EXCEPT ![c] = Closed(c)]
      /\ sock' = [sock EXCEPT ![c] = Freed(c)]
      /\ inq' = [inq EXCEPT ![c] = <<>>]
  BY DEF revm_socket_del
<1> HIDE DEF c
<1>4. Freed(c) \in SockType /\ Closed(c) \in {"shut", "leaked"}
  BY <1>1, ClosedLink
<1>5. /\ ent' \in [Addrs -> Conn \union {NULL}]
      /\ ent'[a] = NULL /\ \A b \in Addrs : b # a => ent'[b] = ent[b]
  BY <1>1, <1>3
<1>6. /\ link' \in [Conn -> {"none", "open", "eof", "reset", "dead", "shut", "leaked"}]
      /\ link'[c] \in {"shut", "leaked"} /\ \A d \in Conn : d # c => link'[d] = link[d]
  BY <1>1, <1>3, <1>4
<1>7. /\ sock' \in [Conn -> SockType] /\ \A d \in Conn : d # c => sock'[d] = sock[d]
  BY <1>1, <1>3, <1>4
<1>8. /\ inq' \in [Conn -> Seq(Piece)]
      /\ inq'[c] = <<>> /\ \A d \in Conn : d # c => inq'[d] = inq[d]
  BY <1>1, <1>3, EmptySeq
<1>9. Knocking' = Knocking /\ Knocking \subseteq Conn
  BY ElementOfSeq, SMTT(60) DEF Knocking, LinkInv, TypeOK
<1>10. Backlog'
  BY <1>2, <1>6, <1>7, <1>9 DEF LinkInv, Backlog
<1>11. \A b \in Addrs : b # a /\ ent[b] # NULL => ent[b] \in Conn /\ ent[b] # c
  BY <1>1, <1>2 DEF LinkInv, Entries
<1>12. Entries'
  BY <1>1, <1>5, <1>6, <1>7, <1>9, <1>11 DEF LinkInv, Entries
<1>13. Made'
  <2> SUFFICES ASSUME NEW d \in Conn
               PROVE  /\ d > made  => /\ addr[d] = NULL /\ link'[d] = "none" /\ inq'[d] = <<>>
                                      /\ ~sock'[d].recvd_f
                      /\ d <= made => addr[d] \in Addrs /\ link'[d] # "none"
                      /\ link'[d] \in Live => d \in Knocking \/ ent'[addr[d]] = d
    BY <1>9 DEF Made
  <2>1. CASE d = c
    BY <2>1, <1>1, <1>2, <1>6, Kinds DEF LinkInv, Made, Live
  <2>2. CASE d # c
    <3>1. link'[d] \in Live => d \in Knocking \/ ent'[addr[d]] = d
      <4>1. SUFFICES ASSUME link[d] \in Live, d \notin Knocking
                     PROVE  ent'[addr[d]] = d
        BY <2>2, <1>6
      <4>2. ent[addr[d]] = d
        BY <4>1 DEF LinkInv, Made
      <4>3. addr[d] \in Addrs
        BY <4>1 DEF LinkInv, Made, Live, TypeOK, Conn
      <4>4. addr[d] # a
        BY <4>2, <2>2 DEF c
      <4> QED
        BY <1>5, <4>2, <4>3, <4>4
    <3>2. /\ d > made  => addr[d] = NULL /\ link[d] = "none" /\ inq[d] = <<>> /\ ~sock[d].recvd_f
          /\ d <= made => addr[d] \in Addrs /\ link[d] # "none"
      BY DEF LinkInv, Made
    <3> QED
      BY <2>2, <3>1, <3>2, <1>6, <1>7, <1>8
  <2> QED
    BY <2>1, <2>2
<1> QED
  BY <1>5, <1>6, <1>7, <1>8, <1>10, <1>12, <1>13

(* netkill removes an entry and shuts its connection. *)
LEMMA NetkillLink ==
  ASSUME LinkInv, NEW a \in Addrs, Netkill(a)
  PROVE  LinkInv'
<1>1. /\ pc = "exec" /\ pc' = "select" /\ Executed /\ curjob' = curjob
      /\ UNCHANGED <<made, addr, knock>>
  BY DEF Netkill, clients
<1>2. Current'
  BY <1>1, ExecutedType, Kinds DEF LinkInv, Current, NoCmd
<1>3. CASE ByText(a) # NULL
  <2>1. ent[a] # NULL /\ revm_socket_del(a) /\ buf' = a /\ seen' = seen \union {a}
    BY <1>3 DEF ByText, Netkill
  <2>2. TypeOK'
    BY <1>1, <2>1, DelLink, ExecutedType DEF Netkill, LinkInv, TypeOK, clients, dump
  <2> QED
    BY <1>1, <1>2, <2>1, <2>2, DelLink DEF LinkInv
<1>4. CASE ByText(a) = NULL
  <2>1. UNCHANGED <<ent, link, sock, inq, buf, seen>>
    BY <1>4 DEF Netkill
  <2>2. TypeOK'
    BY <1>1, <2>1, ExecutedType DEF Netkill, LinkInv, TypeOK, clients, dump
  <2> QED
    BY <1>1, <1>2, <2>1, <2>2, SameConnections DEF LinkInv
<1> QED
  BY <1>3, <1>4

(* quit of a client: the entry of the current job goes. *)
LEMMA QuitLink ==
  ASSUME LinkInv, Quit
  PROVE  LinkInv'
<1> DEFINE a == addr[curjob]
<1>1. /\ pc = "exec" /\ pc' \in {"select", "stopped"} /\ Executed /\ curjob' = curjob
      /\ UNCHANGED <<made, addr, knock>>
  BY DEF Quit, clients
<1>2. Current'
  BY <1>1, ExecutedType, Kinds DEF LinkInv, Current, NoCmd
<1>3. CASE curjob \in Conn /\ ent[a] # NULL
  <2>1. a \in Addrs
    BY <1>3 DEF LinkInv, Current
  <2>2. revm_socket_del(a) /\ buf' = a /\ seen' = seen \union {a}
    BY <1>3 DEF Quit
  <2> HIDE DEF a
  <2>3. TypeOK'
    BY <1>1, <1>3, <2>1, <2>2, DelLink, ExecutedType DEF Quit, LinkInv, TypeOK, clients, dump
  <2> QED
    BY <1>1, <1>2, <1>3, <2>1, <2>2, <2>3, DelLink DEF LinkInv
<1>4. CASE ~(curjob \in Conn /\ ent[a] # NULL)
  <2>1. /\ UNCHANGED <<ent, link, sock, inq>>
        /\ \/ UNCHANGED <<buf, seen>>
           \/ a \in Addrs /\ buf' = a /\ seen' = seen \union {a}
    BY <1>4 DEF Quit, LinkInv, Current
  <2> HIDE DEF a
  <2>2. TypeOK'
    BY <1>1, <2>1, ExecutedType DEF Quit, LinkInv, TypeOK, clients, dump
  <2> QED
    BY <1>1, <1>2, <2>1, <2>2, SameConnections DEF LinkInv
<1> QED
  BY <1>3, <1>4

(* revm_net_accept: the connection at the head of the backlog gets an entry,
   or is refused when its address has one. *)
LEMMA AcceptLink ==
  ASSUME LinkInv, revm_net_accept
  PROVE  LinkInv'
<1> DEFINE c == Head(knock)
           a == addr[c]
<1>1. /\ knock \in Seq(Conn) /\ knock # <<>> /\ knock' = Tail(knock)
      /\ pc = "check" /\ pc' = "input" /\ cmd' = cmd /\ UNCHANGED <<made, addr, sock>>
  BY DEF revm_net_accept, LinkInv, TypeOK, clients
<1>2. /\ c \in Conn /\ c = knock[1] /\ Len(knock) \in Nat \ {0}
      /\ knock' \in Seq(Conn) /\ Len(knock') = Len(knock) - 1
      /\ \A i \in 1..Len(knock') : knock'[i] = knock[i + 1]
  BY <1>1, HeadTailProperties, LenProperties, EmptySeq
<1>3. c \in Knocking /\ Knocking \subseteq Conn
  BY <1>1, <1>2, ElementOfSeq DEF Knocking
<1>4. Knocking' = Knocking \ {c}
  <2>1. \A i, j \in 1..Len(knock) : knock[i] = knock[j] => i = j
    BY DEF LinkInv, Backlog
  <2>2. \A i \in 1..Len(knock) : i = 1 \/ (i - 1 \in 1..Len(knock') /\ knock[i] = knock'[i - 1])
    BY <1>2
  <2>3. \A i \in 1..Len(knock') : i + 1 \in 1..Len(knock) /\ i + 1 # 1
    BY <1>2
  <2>4. ASSUME NEW d \in Knocking' PROVE d \in Knocking \ {c}
    <3>1. PICK i \in 1..Len(knock') : d = knock'[i]
      BY DEF Knocking
    <3>2. d = knock[i + 1] /\ i + 1 \in 1..Len(knock) /\ i + 1 # 1 /\ 1 \in 1..Len(knock)
      BY <1>2, <2>3, <3>1
    <3>3. d # c
      BY <3>2, <2>1, <1>2
    <3> QED
      BY <3>2, <3>3 DEF Knocking
  <2>5. ASSUME NEW d \in Knocking, d # c PROVE d \in Knocking'
    <3>1. PICK i \in 1..Len(knock) : d = knock[i]
      BY DEF Knocking
    <3>2. i - 1 \in 1..Len(knock') /\ d = knock'[i - 1]
      BY <1>2, <2>2, <2>5, <3>1
    <3> QED
      BY <3>2 DEF Knocking
  <2> QED
    BY <2>4, <2>5
<1>5. /\ c <= made /\ a \in Addrs /\ ~sock[c].recvd_f
      /\ link[c] \in {"open", "eof", "reset"}
  BY <1>2, <1>3 DEF LinkInv, Backlog, Made
<1>6. \A b \in Addrs : ent[b] # NULL => ent[b] \in Conn /\ ent[b] # c /\ addr[ent[b]] = b
  BY <1>3 DEF LinkInv, Entries, TypeOK
<1>7. \A i, j \in 1..Len(knock') : knock'[i] = knock'[j] => i = j
  <2>1. \A i, j \in 1..Len(knock) : knock[i] = knock[j] => i = j
    BY DEF LinkInv, Backlog
  <2> QED
    BY <2>1, <1>2
<1>8. buf' \in {buf, a} /\ seen' \in {seen, seen \union {a}}
  BY DEF revm_net_accept
<1>9. curjob \in Job /\ (curjob \in Conn => addr[curjob] \in Addrs)
  BY DEF LinkInv, TypeOK, Current
<1>10. ent \in [Addrs -> Conn \union {NULL}] /\ link \in [Conn -> {"none", "open", "eof", "reset", "dead", "shut", "leaked"}]
       /\ inq \in [Conn -> Seq(Piece)] /\ count \in 0..MAX_CLIENTS
  BY DEF LinkInv, TypeOK
<1>11. CASE /\ Room /\ ent[a] = NULL
            /\ ent' = [ent EXCEPT ![a] = c] /\ count' = count + 1
            /\ curjob' = Broken(c, ent', buf', sock, djob)
            /\ UNCHANGED <<link, inq>>
  <2> HIDE DEF a, c
  <2>1. ent' \in [Addrs -> Conn \union {NULL}] /\ ent'[a] = c /\ \A b \in Addrs : b # a => ent'[b] = ent[b]
    BY <1>2, <1>5, <1>10, <1>11
  <2>2. \A b \in Addrs : ent'[b] # NULL => addr[ent'[b]] \in Addrs
    BY <2>1, <1>5, <1>6 DEF a
  <2>3. c \in Job /\ (c \in Conn => addr[c] \in Addrs)
    BY <1>2, <1>5 DEF Job, a
  <2>4. curjob' \in Job /\ (curjob' \in Conn => addr[curjob'] \in Addrs)
    BY <2>1, <2>2, <2>3, <1>11, BrokenJob
  <2>5. count' \in 0..MAX_CLIENTS
    BY <1>10, <1>11, NetJobsAssumption DEF Room
  <2>6. TypeOK'
    BY <1>1, <1>2, <1>5, <1>8, <1>11, <2>1, <2>4, <2>5, ZenonT(60) DEF revm_net_accept, LinkInv, TypeOK, clients, dump
  <2>7. Backlog'
    BY <1>1, <1>4, <1>7, <1>11 DEF LinkInv, Backlog
  <2>8. Entries'
    <3> SUFFICES ASSUME NEW b \in Addrs, ent'[b] # NULL
                 PROVE  /\ addr[ent'[b]] = b /\ link[ent'[b]] \in Live /\ ent'[b] \notin Knocking'
                        /\ sock[ent'[b]].recvd_f => sock[ent'[b]].recvd # <<>>
      BY <1>1, <1>11 DEF Entries
    <3>1. CASE b = a
      BY <3>1, <2>1, <1>4, <1>5 DEF Live, a
    <3>2. CASE b # a
      BY <3>2, <2>1, <1>4 DEF LinkInv, Entries
    <3> QED
      BY <3>1, <3>2
  <2>9. Made'
    <3> SUFFICES ASSUME NEW d \in Conn, link[d] \in Live, d \notin Knocking'
                 PROVE  ent'[addr[d]] = d
      BY <1>1, <1>11 DEF LinkInv, Made
    <3>1. CASE d = c
      BY <3>1, <2>1, <1>5 DEF a
    <3>2. CASE d # c
      <4>1. addr[d] \in Addrs /\ ent[addr[d]] = d
        BY <3>2, <1>4 DEF LinkInv, Made, Live, TypeOK, Conn
      <4>2. addr[d] # a
        BY <4>1, <1>2, <1>11, Kinds
      <4> QED
        BY <4>1, <4>2, <2>1
    <3> QED
      BY <3>1, <3>2
  <2>10. Current'
    BY <1>1, <1>11, <2>4 DEF LinkInv, Current
  <2> QED
    BY <2>6, <2>7, <2>8, <2>9, <2>10 DEF LinkInv
<1>12. CASE /\ link' = [link EXCEPT ![c] = "shut"] /\ inq' = [inq EXCEPT ![c] = <<>>]
            /\ curjob' = Broken(curjob, ent, buf', sock, djob)
            /\ UNCHANGED <<ent, count>>
  <2> HIDE DEF a, c
  <2>1. /\ link' \in [Conn -> {"none", "open", "eof", "reset", "dead", "shut", "leaked"}]
        /\ link'[c] = "shut" /\ \A d \in Conn : d # c => link'[d] = link[d]
    BY <1>2, <1>10, <1>12
  <2>2. /\ inq' \in [Conn -> Seq(Piece)] /\ inq'[c] = <<>>
        /\ \A d \in Conn : d # c => inq'[d] = inq[d]
    BY <1>2, <1>10, <1>12, EmptySeq
  <2>3. \A b \in Addrs : ent[b] # NULL => addr[ent[b]] \in Addrs
    BY <1>6
  <2>4. curjob' \in Job /\ (curjob' \in Conn => addr[curjob'] \in Addrs)
    BY <1>9, <1>10, <1>12, <2>3, BrokenJob
  <2>5. TypeOK'
    BY <1>1, <1>2, <1>5, <1>8, <1>12, <2>1, <2>2, <2>4, ZenonT(60) DEF revm_net_accept, LinkInv, TypeOK, clients, dump
  <2>6. Backlog'
    BY <1>1, <1>3, <1>4, <1>7, <2>1 DEF LinkInv, Backlog
  <2>7. Entries'
    BY <1>1, <1>4, <1>6, <1>12, <2>1 DEF LinkInv, Entries
  <2>8. Made'
    <3> SUFFICES ASSUME NEW d \in Conn
                 PROVE  /\ d > made  => /\ addr[d] = NULL /\ link'[d] = "none" /\ inq'[d] = <<>>
                                        /\ ~sock[d].recvd_f
                        /\ d <= made => addr[d] \in Addrs /\ link'[d] # "none"
                        /\ link'[d] \in Live => d \in Knocking' \/ ent[addr[d]] = d
      BY <1>1, <1>12 DEF Made
    <3>1. CASE d = c
      <4>1. ~(d > made)
        BY <3>1, <1>2, <1>5 DEF LinkInv, TypeOK, Conn
      <4> QED
        BY <3>1, <4>1, <1>5, <2>1 DEF Live, a
    <3>2. CASE d # c
      BY <3>2, <1>4, <2>1, <2>2 DEF LinkInv, Made
    <3> QED
      BY <3>1, <3>2
  <2>9. Current'
    BY <1>1, <2>4, Kinds DEF LinkInv, Current, NoCmd
  <2> QED
    BY <2>5, <2>6, <2>7, <2>8, <2>9 DEF LinkInv
<1> QED
  BY <1>11, <1>12 DEF revm_net_accept
(* A complete or partial buffer as revm_update_recvd leaves it. *)
LEMMA ChompSeq ==
  ASSUME NEW q \in Seq(Piece), q # <<>>
  PROVE  /\ Chomp(q) \in Seq(Piece) /\ Len(Chomp(q)) = Len(q) /\ Len(q) \in Nat \ {0}
         /\ \A i \in 1..Len(q) : Chomp(q)[i].n = q[i].n /\ Chomp(q)[i].eol = q[i].eol
         /\ \A i \in 1..(Len(q) - 1) : Chomp(q)[i].sep = q[i].sep
<1> DEFINE l == Len(q)
           x == [q[l] EXCEPT !.sep = FALSE]
<1>1. l \in Nat \ {0} /\ l \in 1..l
  BY EmptySeq
<1>2. q[l] \in Piece
  BY <1>1, ElementOfSeq
<1>3. x \in Piece /\ x.n = q[l].n /\ x.eol = q[l].eol
  BY <1>2 DEF Piece
<1>4. Chomp(q) = [q EXCEPT ![l] = x]
  BY DEF Chomp
<1> HIDE DEF x
<1>5. /\ [q EXCEPT ![l] = x] \in Seq(Piece) /\ Len([q EXCEPT ![l] = x]) = Len(q)
      /\ \A j \in 1..Len(q) : [q EXCEPT ![l] = x][j] = IF j = l THEN x ELSE q[j]
  BY <1>1, <1>3, ExceptSeq
<1> DEFINE w == Chomp(q)
<1>6. w \in Seq(Piece) /\ Len(w) = Len(q) /\ \A j \in 1..Len(q) : w[j] = IF j = l THEN x ELSE q[j]
  BY <1>4, <1>5
<1> HIDE DEF w
<1>7. \A i \in 1..Len(q) : w[i].n = q[i].n /\ w[i].eol = q[i].eol
  BY <1>3, <1>6
<1>8. \A i \in 1..(Len(q) - 1) : w[i].sep = q[i].sep
  BY <1>1, <1>6
<1> QED
  BY <1>1, <1>6, <1>7, <1>8 DEF w

(* What revm_update_recvd leaves: the old buffer, the delimiters at its end
   made visible, and what was read. *)
LEMMA UpdateSeq ==
  ASSUME NEW c \in Conn, sock[c] \in SockType, inq[c] \in Seq(Piece), inq[c] # <<>>
  PROVE  LET b == IF sock[c].recvd_f THEN sock[c].recvd ELSE <<>>
             r == revm_update_recvd(c)
         IN  /\ r \in SockType /\ r.recvd_f /\ r.recvd # <<>>
             /\ r.ready_f = inq[c][Len(inq[c])].eol
             /\ r.recvd = b \o Chomp(inq[c]) /\ b \in Seq(Piece)
<1> DEFINE b == IF sock[c].recvd_f THEN sock[c].recvd ELSE <<>>
           t == b \o Chomp(inq[c])
           e == inq[c][Len(inq[c])].eol
<1>1. b \in Seq(Piece)
  BY EmptySeq DEF SockType
<1>2. Chomp(inq[c]) \in Seq(Piece) /\ Len(Chomp(inq[c])) \in Nat \ {0}
  BY ChompSeq
<1>3. t \in Seq(Piece) /\ t # <<>>
  <2> HIDE DEF b
  <2>1. t \in Seq(Piece) /\ Len(t) = Len(b) + Len(Chomp(inq[c])) /\ Len(b) \in Nat
    BY <1>1, <1>2, ConcatProperties, LenProperties
  <2>2. Len(t) # 0
    BY <1>2, <2>1
  <2> QED
    BY <2>1, <2>2, EmptySeq
<1>4. e \in BOOLEAN
  <2>1. Len(inq[c]) \in 1..Len(inq[c])
    BY EmptySeq
  <2>2. inq[c][Len(inq[c])] \in Piece
    BY <2>1, ElementOfSeq
  <2> QED
    BY <2>2 DEF Piece
<1>5. revm_update_recvd(c) = [recvd |-> t, recvd_f |-> TRUE, ready_f |-> e]
  BY DEF revm_update_recvd
<1> HIDE DEF t, e
<1>6. revm_update_recvd(c) \in SockType
  BY <1>3, <1>4, <1>5 DEF SockType
<1>7. /\ revm_update_recvd(c).recvd_f /\ revm_update_recvd(c).ready_f = e
      /\ revm_update_recvd(c).recvd = t
  BY <1>5
<1> QED
  BY <1>1, <1>3, <1>6, <1>7 DEF t, e

(* The entries that revm_net_recvd looks at are entries, each of its own
   connection. *)
LEMMA ReadEntries ==
  ASSUME LinkInv
  PROVE  /\ Failed \subseteq ReadSet /\ Handled \subseteq ReadSet /\ ReadSet \subseteq InTable
         /\ Arrived \subseteq Handled /\ Closing \subseteq Handled /\ Named \subseteq Handled
         /\ InTable \subseteq Addrs
         /\ \A a \in InTable : /\ ent[a] \in Conn /\ ent[a] # NULL /\ addr[ent[a]] = a
                               /\ link[ent[a]] \in Live /\ ent[a] \notin Knocking
         /\ \A a, b \in InTable : ent[a] = ent[b] => a = b
         /\ \A a \in Arrived : inq[ent[a]] # <<>> /\ a \notin Closing
<1>1. /\ Failed \subseteq ReadSet /\ Handled \subseteq ReadSet /\ ReadSet \subseteq InTable
      /\ Arrived \subseteq Handled /\ Closing \subseteq Handled /\ Named \subseteq Handled
  BY DEF Failed, Handled, ReadSet, Arrived, Closing, Named
<1>2. /\ InTable \subseteq Addrs
      /\ \A a \in InTable : /\ ent[a] \in Conn /\ ent[a] # NULL /\ addr[ent[a]] = a
                            /\ link[ent[a]] \in Live /\ ent[a] \notin Knocking
  BY DEF InTable, LinkInv, TypeOK, Entries
<1>3. \A a, b \in InTable : ent[a] = ent[b] => a = b
  BY <1>2
<1>4. \A a \in Arrived : inq[ent[a]] # <<>> /\ a \notin Closing
  BY DEF Arrived, Closing
<1> QED
  BY <1>1, <1>2, <1>3, <1>4

(* Packets that are read come from DUMP nodes. *)
LEMMA PacketType ==
  ASSUME LinkInv, NEW i \in Waiting
  PROVE  Source(i) \in Peers /\ Head(dumpq[i]).n \in Nat /\ i \in 1..Ports
         /\ Tail(dumpq[i]) \in Seq([src : Peers, n : Nat])
<1> DEFINE P == [src : Peers, n : Nat]
<1>1. i \in 1..Ports /\ dumpq[i] # <<>> /\ dumpq \in [1..Ports -> Seq(P)]
  BY DEF Waiting, LinkInv, TypeOK
<1> HIDE DEF P
<1>2. dumpq[i] \in Seq(P)
  BY <1>1
<1>3. Head(dumpq[i]) \in P /\ Tail(dumpq[i]) \in Seq(P)
  BY <1>1, <1>2, HeadTailProperties
<1> USE DEF P
<1>4. Head(dumpq[i]).src \in Peers /\ Head(dumpq[i]).n \in Nat
  BY <1>3
<1> QED
  BY <1>1, <1>3, <1>4 DEF Source

(* The buffer names a client of C, the source of a packet of I, or what it
   named before. *)
LEMMA FormattedIn ==
  ASSUME LinkInv, NEW C, C \subseteq Addrs, NEW I, I \subseteq Waiting
  PROVE  /\ I # {} => Formatted(C, I) \in {Source(i) : i \in I}
         /\ I = {} /\ C # {} => Formatted(C, I) \in C
         /\ I = {} /\ C = {} => Formatted(C, I) = buf
<1>1. CASE I # {}
  <2>1. I \subseteq 0..Ports /\ Ports \in Nat
    BY NetJobsAssumption DEF Waiting
  <2>2. \E m \in I : \A n \in I : n <= m
    BY <1>1, <2>1, GreatestNat
  <2> QED
    BY <1>1, <2>2 DEF Formatted
<1>2. CASE I = {} /\ C # {}
  BY <1>2, LastIn DEF Formatted, Keys
<1>3. CASE I = {} /\ C = {}
  BY <1>3 DEF Formatted
<1> QED
  BY <1>1, <1>2, <1>3
(* What revm_net_recvd does to one connection: to the entry's when it is
   handled, else nothing. *)
LEMMA RecvdConn ==
  ASSUME LinkInv, revm_net_recvd, NEW c \in Conn
  PROVE  /\ \A a \in Arrived : ent[a] = c =>
              /\ sock'[c] = revm_update_recvd(c) /\ inq'[c] = <<>>
              /\ link'[c] = (IF a \in Failed THEN "dead" ELSE link[c])
         /\ \A a \in Closing : ent[a] = c =>
              sock'[c] = Freed(c) /\ inq'[c] = <<>> /\ link'[c] \in {"shut", "leaked"}
         /\ \A a \in (Handled \ Arrived) \ Closing : ent[a] = c =>
              /\ sock'[c] = sock[c] /\ inq'[c] = <<>> /\ inq[c] = <<>>
              /\ link'[c] = (IF a \in Failed THEN "dead" ELSE link[c])
         /\ (\A a \in Handled : ent[a] # c) =>
              sock'[c] = sock[c] /\ inq'[c] = inq[c] /\ link'[c] = link[c]
<1> USE ReadEntries
<1>1. /\ sock'[c] = (IF \E a \in Arrived : ent[a] = c THEN revm_update_recvd(c)
                     ELSE IF \E a \in Closing : ent[a] = c THEN Freed(c) ELSE sock[c])
      /\ inq'[c] = (IF \E a \in Handled : ent[a] = c THEN <<>> ELSE inq[c])
      /\ link'[c] = (IF \E a \in Closing : ent[a] = c THEN Closed(c)
                     ELSE IF \E a \in Failed \intersect Handled : ent[a] = c
                          THEN "dead" ELSE link[c])
  BY DEF revm_net_recvd
<1>2. ASSUME NEW a \in Arrived, ent[a] = c
      PROVE  /\ sock'[c] = revm_update_recvd(c) /\ inq'[c] = <<>>
             /\ link'[c] = (IF a \in Failed THEN "dead" ELSE link[c])
  BY <1>1, <1>2
<1>3. ASSUME NEW a \in Closing, ent[a] = c
      PROVE  sock'[c] = Freed(c) /\ inq'[c] = <<>> /\ link'[c] \in {"shut", "leaked"}
  <2>1. link'[c] = Closed(c)
    BY <1>1, <1>3
  <2> QED
    BY <1>1, <1>3, <2>1 DEF Closed
<1>4. ASSUME NEW a \in (Handled \ Arrived) \ Closing, ent[a] = c
      PROVE  /\ sock'[c] = sock[c] /\ inq'[c] = <<>> /\ inq[c] = <<>>
             /\ link'[c] = (IF a \in Failed THEN "dead" ELSE link[c])
  <2>1. inq[c] = <<>>
    BY <1>4 DEF Arrived
  <2> QED
    BY <1>1, <1>4, <2>1
<1>5. (\A a \in Handled : ent[a] # c) =>
         sock'[c] = sock[c] /\ inq'[c] = inq[c] /\ link'[c] = link[c]
  BY <1>1
<1> QED
  BY <1>2, <1>3, <1>4, <1>5
(* The types of what revm_net_recvd writes *)
LEMMA RecvdType ==
  ASSUME LinkInv, revm_net_recvd
  PROVE  /\ ent' \in [Addrs -> Conn \union {NULL}]
         /\ sock' \in [Conn -> SockType]
         /\ inq' \in [Conn -> Seq(Piece)]
         /\ link' \in [Conn -> {"none", "open", "eof", "reset", "dead", "shut", "leaked"}]
         /\ djob' \in [Peers -> DumpJobType]
         /\ dumpq' \in [1..Ports -> Seq([src : Peers, n : Nat])]
         /\ buf' \in Addrs \union Peers \union {NULL}
         /\ seen' \subseteq Addrs \union Peers
<1>1. ent' \in [Addrs -> Conn \union {NULL}]
  BY DEF LinkInv, TypeOK, revm_net_recvd
<1>2. sock \in [Conn -> SockType] /\ inq \in [Conn -> Seq(Piece)]
  BY DEF LinkInv, TypeOK
<1>3. sock' \in [Conn -> SockType]
  <2>1. \A c \in Conn : Freed(c) \in SockType
    BY <1>2, ClosedLink
  <2>2. ASSUME NEW c \in Conn, \E a \in Arrived : ent[a] = c
        PROVE  revm_update_recvd(c) \in SockType
    <3>1. inq[c] # <<>> /\ inq[c] \in Seq(Piece) /\ sock[c] \in SockType
      BY <1>2, <2>2, ReadEntries
    <3> QED
      BY <3>1, UpdateSeq
  <2>3. sock' = [c \in Conn |-> IF \E a \in Arrived : ent[a] = c THEN revm_update_recvd(c)
                                ELSE IF \E a \in Closing : ent[a] = c THEN Freed(c) ELSE sock[c]]
    BY DEF revm_net_recvd
  <2> QED
    BY <1>2, <2>1, <2>2, <2>3
<1>4. inq' \in [Conn -> Seq(Piece)]
  <2>1. inq' = [c \in Conn |-> IF \E a \in Handled : ent[a] = c THEN <<>> ELSE inq[c]]
    BY DEF revm_net_recvd
  <2> QED
    BY <1>2, <2>1, EmptySeq
<1>5. link' \in [Conn -> {"none", "open", "eof", "reset", "dead", "shut", "leaked"}]
  <2>1. link' = [c \in Conn |-> IF \E a \in Closing : ent[a] = c THEN Closed(c)
                                ELSE IF \E a \in Failed \intersect Handled : ent[a] = c
                                     THEN "dead" ELSE link[c]]
    BY DEF revm_net_recvd
  <2>2. \A c \in Conn : Closed(c) \in {"shut", "leaked"}
    BY <1>2, ClosedLink
  <2> QED
    BY <2>1, <2>2 DEF LinkInv, TypeOK
<1>6. Packets \subseteq Waiting
  BY DEF Packets
<1>7. djob' \in [Peers -> DumpJobType]
  <2> SUFFICES ASSUME NEW p \in Peers
               PROVE  DumpJob(p) \in DumpJobType
    BY DEF revm_net_recvd
  <2> DEFINE I == {i \in Packets \ Fatal : Source(i) = p}
  <2>1. CASE I = {}
    BY <2>1 DEF DumpJob, LinkInv, TypeOK
  <2>2. CASE I # {}
    <3> DEFINE i == CHOOSE j \in I : TRUE
    <3>1. i \in I
      BY <2>2
    <3>2. i \in Waiting
      BY <1>6, <3>1
    <3>3. DumpJob(p) = [new |-> TRUE, n |-> Head(dumpq[i]).n]
      BY <2>2 DEF DumpJob
    <3> HIDE DEF i, I
    <3> QED
      BY <3>2, <3>3, PacketType DEF DumpJobType
  <2> QED
    BY <2>1, <2>2
<1>8. dumpq' \in [1..Ports -> Seq([src : Peers, n : Nat])]
  <2> DEFINE P == [src : Peers, n : Nat]
  <2>1. dumpq \in [1..Ports -> Seq(P)]
    BY DEF LinkInv, TypeOK
  <2>2. dumpq' = [i \in 1..Ports |-> IF i \in Packets THEN Tail(dumpq[i]) ELSE dumpq[i]]
    BY DEF revm_net_recvd
  <2>3. \A i \in Packets : Tail(dumpq[i]) \in Seq(P)
    BY <1>6, PacketType
  <2> HIDE DEF P
  <2>4. dumpq' \in [1..Ports -> Seq(P)]
    BY <2>1, <2>2, <2>3
  <2> QED
    BY <2>4 DEF P
<1>9. \A i \in Packets : Source(i) \in Peers
  BY <1>6, PacketType
<1>10. Named \subseteq Addrs
  BY ReadEntries
<1>11. buf' \in Addrs \union Peers \union {NULL}
  <2>1. buf' \in {Formatted(Named, Packets)} \union Peers /\ buf \in Addrs \union Peers \union {NULL}
    BY DEF revm_net_recvd, Routed, LinkInv, TypeOK
  <2> QED
    BY <1>6, <1>9, <1>10, <2>1, FormattedIn
<1>12. seen' \subseteq Addrs \union Peers
  <2>1. seen' = seen \union Named \union {Source(i) : i \in Packets} \union ({buf'} \ {NULL})
    BY DEF revm_net_recvd
  <2> QED
    BY <1>9, <1>10, <1>11, <2>1 DEF LinkInv, TypeOK
<1> QED
  BY <1>1, <1>3, <1>4, <1>5, <1>7, <1>8, <1>11, <1>12

(* revm_net_recvd: every socket of the set that has something to read, in the
   order of the table, the broken ones removed. *)
LEMMA RecvdLink ==
  ASSUME LinkInv, revm_net_recvd
  PROVE  LinkInv'
<1>1. /\ pc = "wait" /\ pc' \in {"input", "check"}
      /\ UNCHANGED <<made, addr, knock, cmd>>
      /\ curjob' \in {curjob, Broken(curjob, ent', buf', sock', djob')}
      /\ ent' = [a \in Addrs |-> IF a \in Closing THEN NULL ELSE ent[a]]
  BY DEF revm_net_recvd, clients
<1>2. /\ ent' \in [Addrs -> Conn \union {NULL}] /\ Knocking' = Knocking /\ Knocking \subseteq Conn
  <2>1. ent' \in [Addrs -> Conn \union {NULL}]
    BY RecvdType
  <2>2. Knocking' = Knocking /\ Knocking \subseteq Conn
    BY <1>1, ElementOfSeq DEF Knocking, LinkInv, TypeOK
  <2> QED
    BY <2>1, <2>2
<1>3. \A a \in Addrs : ent'[a] # NULL => /\ ent'[a] = ent[a] /\ a \notin Closing /\ a \in InTable
                                         /\ addr[ent'[a]] \in Addrs
  <2>1. \A a \in Addrs : ent'[a] # NULL => ent'[a] = ent[a] /\ a \notin Closing
    BY <1>1
  <2> QED
    BY <2>1, ReadEntries DEF InTable
<1>4. curjob' \in Job /\ (curjob' \in Conn => addr[curjob'] \in Addrs)
  <2>1. curjob \in Job /\ (curjob \in Conn => addr[curjob] \in Addrs)
    BY DEF LinkInv, TypeOK, Current
  <2> QED
    BY <1>1, <1>2, <1>3, <2>1, BrokenJob
<1>5. TypeOK'
  <2>1. pc' \in {"select", "wait", "check", "input", "exec", "crashed", "stopped"}
    BY <1>1
  <2> QED
    BY <1>4, <2>1, RecvdType DEF revm_net_recvd, LinkInv, TypeOK, clients, dump
<1>6. ASSUME NEW c \in Conn, \A a \in InTable : ent[a] # c
      PROVE  sock'[c] = sock[c] /\ inq'[c] = inq[c] /\ link'[c] = link[c]
  <2>1. \A a \in Handled : ent[a] # c
    BY <1>6, ReadEntries
  <2> QED
    BY <2>1, RecvdConn
<1>7. Backlog'
  <2>1. \A c \in Knocking : c \in Conn /\ \A a \in InTable : ent[a] # c
    BY <1>2, ReadEntries
  <2> QED
    BY <1>1, <1>2, <1>6, <2>1 DEF LinkInv, Backlog
<1>8. Entries'
  <2> SUFFICES ASSUME NEW a \in Addrs, ent'[a] # NULL
               PROVE  /\ addr[ent[a]] = a /\ link'[ent[a]] \in Live /\ ent[a] \notin Knocking
                      /\ sock'[ent[a]].recvd_f => sock'[ent[a]].recvd # <<>>
    BY <1>1, <1>2, <1>3 DEF Entries
  <2> DEFINE c == ent[a]
  <2>1. /\ a \in InTable /\ a \notin Closing /\ c \in Conn /\ addr[c] = a /\ link[c] \in Live
        /\ c \notin Knocking /\ (sock[c].recvd_f => sock[c].recvd # <<>>)
    BY <1>3, ReadEntries DEF LinkInv, Entries
  <2>2. CASE a \in Arrived
    <3>1. sock'[c] = revm_update_recvd(c) /\ link'[c] \in {"dead", link[c]}
      BY <2>1, <2>2, RecvdConn
    <3>2. inq[c] # <<>> /\ inq[c] \in Seq(Piece) /\ sock[c] \in SockType
      BY <2>1, <2>2, ReadEntries DEF LinkInv, TypeOK
    <3>3. sock'[c].recvd # <<>>
      BY <2>1, <3>1, <3>2, UpdateSeq
    <3> QED
      BY <2>1, <3>1, <3>3 DEF Live
  <2>3. CASE a \in Handled \ Arrived
    <3>1. a \in (Handled \ Arrived) \ Closing
      BY <2>1, <2>3
    <3>2. sock'[c] = sock[c] /\ link'[c] \in {"dead", link[c]}
      BY <2>1, <3>1, RecvdConn
    <3> QED
      BY <2>1, <3>2 DEF Live
  <2>4. CASE a \notin Handled
    <3>1. \A b \in Handled : ent[b] # c
      BY <2>1, <2>4, ReadEntries
    <3>2. sock'[c] = sock[c] /\ link'[c] = link[c]
      BY <2>1, <3>1, RecvdConn
    <3> QED
      BY <2>1, <3>2
  <2> QED
    BY <2>2, <2>3, <2>4, ReadEntries
<1>9. Made'
  <2> SUFFICES ASSUME NEW d \in Conn
               PROVE  /\ d > made  => /\ addr[d] = NULL /\ link'[d] = "none" /\ inq'[d] = <<>>
                                      /\ ~sock'[d].recvd_f
                      /\ d <= made => addr[d] \in Addrs /\ link'[d] # "none"
                      /\ link'[d] \in Live => d \in Knocking \/ ent'[addr[d]] = d
    BY <1>1, <1>2 DEF Made
  <2>1. CASE \A a \in InTable : ent[a] # d
    <3>1. sock'[d] = sock[d] /\ inq'[d] = inq[d] /\ link'[d] = link[d]
      BY <2>1, <1>6
    <3>2. link[d] \in Live => d \in Knocking
      <4>1. SUFFICES ASSUME link[d] \in Live, d \notin Knocking
                     PROVE  FALSE
        OBVIOUS
      <4>2. addr[d] \in Addrs /\ ent[addr[d]] = d
        BY <4>1 DEF LinkInv, Made, Live, TypeOK, Conn
      <4>3. addr[d] \in InTable
        BY <4>2, Kinds DEF InTable
      <4> QED
        BY <4>2, <4>3, <2>1
    <3> QED
      BY <3>1, <3>2 DEF LinkInv, Made
  <2>2. ASSUME NEW a \in InTable, ent[a] = d
        PROVE  /\ d <= made /\ ~(d > made) /\ addr[d] = a /\ a \in Addrs
               /\ link'[d] # "none"
               /\ link'[d] \in Live => ent'[a] = d
    <3>1. addr[d] = a /\ a \in Addrs /\ link[d] \in Live
      BY <2>2, ReadEntries
    <3>2. d <= made /\ ~(d > made)
      BY <3>1 DEF LinkInv, Made, Live, TypeOK, Conn
    <3>3. link[d] # "none"
      BY <3>1 DEF Live
    <3>4. CASE a \in Closing
      <4>1. link'[d] \in {"shut", "leaked"}
        BY <2>2, <3>4, RecvdConn
      <4> QED
        BY <3>1, <3>2, <4>1 DEF Live
    <3>5. CASE a \notin Closing
      <4>1. ent'[a] = d
        BY <1>1, <2>2, <3>1, <3>5
      <4>2. link'[d] \in {"dead", link[d]}
        <5>1. CASE a \in Arrived
          BY <2>2, <5>1, RecvdConn
        <5>2. CASE a \in Handled \ Arrived
          <6>1. a \in (Handled \ Arrived) \ Closing
            BY <3>5, <5>2
          <6> QED
            BY <2>2, <6>1, RecvdConn
        <5>3. CASE a \notin Handled
          <6>1. \A b \in Handled : ent[b] # d
            BY <2>2, <5>3, ReadEntries
          <6> QED
            BY <6>1, RecvdConn
        <5> QED
          BY <5>1, <5>2, <5>3
      <4> QED
        BY <3>1, <3>2, <3>3, <4>1, <4>2
    <3> QED
      BY <3>4, <3>5
  <2> QED
    BY <2>1, <2>2
<1>10. Current'
  BY <1>1, <1>4, Kinds DEF LinkInv, Current, NoCmd
<1> QED
  BY <1>5, <1>7, <1>8, <1>9, <1>10 DEF LinkInv
(* LinkInv is inductive. *)
LEMMA NextLink == LinkInv /\ [Next]_vars => LinkInv'
<1> SUFFICES ASSUME LinkInv, [Next]_vars
             PROVE  LinkInv'
  OBVIOUS
<1>1. CASE Client
  BY <1>1, ConnectLink, WriteLink, LeaveLink DEF Client
<1>2. CASE DumpNode
  BY <1>2, DumpSendLink DEF DumpNode
<1>3. CASE TerminalWakes \/ NetworkWakes
  BY <1>3, RecvdLink DEF TerminalWakes, NetworkWakes
<1>4. CASE revm_dump_accept
  BY <1>4, DumpAcceptLink
<1>5. CASE Select \/ revm_net_accept \/ revm_localjob_get
  BY <1>5, SelectLink, AcceptLink, LocalJobLink
<1>6. CASE Input
  BY <1>6, NetInputLink, DumpInputLink, StdInputLink DEF Input
<1>7. CASE Exec
  BY <1>7, PlainLink, DumpCommandLink, NetlistLink, QuitLink, NetkillLink DEF Exec
<1>8. CASE UNCHANGED vars
  <2>1. TypeOK'
    BY <1>8 DEF vars, clients, dump, LinkInv, TypeOK
  <2>2. Current'
    BY <1>8 DEF vars, clients, LinkInv, Current
  <2>3. UNCHANGED <<made, addr, knock, link, inq, ent, sock>>
    BY <1>8 DEF vars, clients
  <2> QED
    BY <2>1, <2>2, <2>3, SameConnections DEF LinkInv
<1> QED
  BY <1>1, <1>2, <1>3, <1>4, <1>5, <1>6, <1>7, <1>8 DEF Next, Server

(* LinkInv holds of every behaviour: connections, backlog and table describe
   each other, whatever clients and commands do. *)
THEOREM Link == Spec => []LinkInv
<1>1. Init => LinkInv
  BY InitLink
<1>2. LinkInv /\ [Next]_vars => LinkInv'
  BY NextLink
<1> QED
  BY <1>1, <1>2, PTL DEF Spec

(* Whatever the clients and the DUMP nodes do, the variables of the main loop
   keep their types; in particular the current job is one that exists. *)
THEOREM Types == Spec => []TypeOK
<1>1. LinkInv => TypeOK
  BY DEF LinkInv
<1> QED
  BY <1>1, Link, PTL

(* For any number of clients, addresses and connections, in any order of
   connecting, writing, leaving and killing: revm_net_accept and
   revm_socket_del leave no connection without its entry and no entry without
   its connection. *)
THEOREM Connections == Spec => []EntriesMatch
<1>1. ASSUME LinkInv
      PROVE  EntriesMatch
  <2> SUFFICES ASSUME NEW c \in Conn
               PROVE  link[c] \in Live <=> c \in Knocking \/ (addr[c] \in Addrs /\ ent[addr[c]] = c)
    BY DEF EntriesMatch, Live, Knocking
  <2> USE <1>1
  <2>1. ASSUME link[c] \in Live, c \notin Knocking
        PROVE  addr[c] \in Addrs /\ ent[addr[c]] = c
    BY <2>1 DEF LinkInv, Made, Live, TypeOK, Conn
  <2>2. ASSUME c \in Knocking
        PROVE  link[c] \in Live
    BY <2>2 DEF LinkInv, Backlog, Live
  <2>3. ASSUME addr[c] \in Addrs, ent[addr[c]] = c
        PROVE  link[c] \in Live
    BY <2>3, Kinds DEF LinkInv, Entries
  <2> QED
    BY <2>1, <2>2, <2>3
<1> QED
  BY <1>1, Link, PTL
-----------------------------------------------------------------------------
(* Lines *)

(* Nothing is a line of any number. *)
LEMMA EmptyLine ==
  /\ \A k : Run(<<>>, k)
  /\ Apart(<<>>) /\ Raw(<<>>) /\ Len(<<>>) = 0
BY DEF Run, Apart, Raw

(* The places where the pieces of a connection can be hold pieces. *)
LEMMA LineTypes ==
  ASSUME LinkInv, NEW c \in Conn
  PROVE  /\ TextOf(c) \in Seq(Piece) /\ BufOf(c) \in Seq(Piece) /\ inq[c] \in Seq(Piece)
         /\ Len(TextOf(c)) \in Nat /\ Len(BufOf(c)) \in Nat /\ Len(inq[c]) \in Nat
         /\ done[c] \in Nat /\ sent[c] \in Nat
<1>1. cmd.text \in Seq(Piece) /\ sock[c] \in SockType /\ inq[c] \in Seq(Piece)
  BY DEF LinkInv, TypeOK
<1>2. sock[c].recvd \in Seq(Piece)
  BY <1>1 DEF SockType
<1>3. TextOf(c) \in Seq(Piece) /\ BufOf(c) \in Seq(Piece)
  BY <1>1, <1>2, EmptySeq DEF TextOf, BufOf
<1>4. done[c] \in Nat /\ sent[c] \in Nat
  BY DEF LinkInv, TypeOK
<1> QED
  BY <1>1, <1>3, <1>4, LenProperties

(* A step that does not touch a connection's line keeps it in order. *)
LEMMA SameLine ==
  ASSUME NEW c \in Conn, Numbered(c), Ended(c),
         done'[c] = done[c], TextOf(c)' = TextOf(c), sock'[c] = sock[c], inq'[c] = inq[c],
         link'[c] = "open" => link[c] = "open" /\ sent'[c] = sent[c]
  PROVE  (Numbered(c) /\ Ended(c))'
<1>1. BufOf(c)' = BufOf(c)
  BY DEF BufOf
<1>2. Numbered(c)'
  BY <1>1 DEF Numbered
<1>3. Ended(c)'
  BY <1>1 DEF Ended
<1> QED
  BY <1>2, <1>3

(* At the start nothing was sent and nothing executed. *)
LEMMA InitLine == Init => LineInv
<1> SUFFICES ASSUME Init
             PROVE  LineInv
  OBVIOUS
<1>1. \A c \in Conn : link[c] = "none" /\ sent[c] = 0 /\ done[c] = 0
  BY DEF Init
<1> QED
  BY <1>1 DEF Init, LineInv, Live

(* A new connection begins to count. *)
LEMMA ConnectLine ==
  ASSUME LinkInv, LineInv, NEW a \in Addrs, Connect(a)
  PROVE  LineInv'
<1>0. made + 1 \in Conn /\ made + 1 > made
  BY NetJobsAssumption DEF LinkInv, TypeOK, Connect, Conn
<1>1. PICK n \in Conn : n = made + 1 /\ n > made
  BY <1>0
<1>2. /\ link' = [link EXCEPT ![n] = "open"] /\ link \in [Conn -> {"none", "open", "eof", "reset", "dead", "shut", "leaked"}]
      /\ UNCHANGED <<inq, sent, sock, fds, pc, cmd, done>>
  BY <1>1 DEF Connect, LinkInv, TypeOK
<1>3. link[n] = "none" /\ inq[n] = <<>> /\ ~sock[n].recvd_f
  BY <1>1 DEF LinkInv, Made
<1>4. sent[n] = 0 /\ done[n] = 0
  BY <1>1, <1>3 DEF LineInv
<1>5. cmd.from # n
  BY <1>1, <1>3 DEF LinkInv, Current, Live
<1>6. link'[n] = "open" /\ \A c \in Conn : c # n => link'[c] = link[c]
  BY <1>1, <1>2
<1>7. TextOf(n)' = <<>> /\ BufOf(n)' = <<>> /\ inq'[n] = <<>>
  BY <1>2, <1>3, <1>5 DEF TextOf, BufOf
<1>8. (Numbered(n) /\ Ended(n))'
  BY <1>2, <1>4, <1>7, EmptyLine DEF Numbered, Ended
<1>9. ASSUME NEW c \in Conn, c # n, link[c] \in Live
      PROVE  (Numbered(c) /\ Ended(c))'
  <2>1. TextOf(c)' = TextOf(c)
    BY <1>2 DEF TextOf
  <2>2. Numbered(c) /\ Ended(c)
    BY <1>9 DEF LineInv
  <2> QED
    BY <1>2, <1>6, <1>9, <2>1, <2>2, SameLine
<1>10. \A c \in Conn : link'[c] \in Live => (Numbered(c) /\ Ended(c))'
  BY <1>6, <1>8, <1>9
<1>11. \A c \in Conn : link'[c] = "none" => sent'[c] = 0 /\ done'[c] = 0
  BY <1>2, <1>6 DEF LineInv
<1>12. pc' = "wait" => \A c \in fds' : ~Pending(sock', c)
  BY <1>2 DEF LineInv
<1> QED
  BY <1>10, <1>11, <1>12 DEF LineInv, Pending

(* What a client writes is numbered after what it wrote. *)
LEMMA WriteLine ==
  ASSUME LinkInv, LineInv, NEW c \in Conn, NEW eol \in BOOLEAN, Write(c, eol)
  PROVE  LineInv'
<1> DEFINE x == [n |-> sent[c] + 1, eol |-> eol, sep |-> eol]
<1>1. /\ sent' = [sent EXCEPT ![c] = @ + 1] /\ inq' = [inq EXCEPT ![c] = Append(@, x)]
      /\ link[c] = "open" /\ UNCHANGED <<link, sock, fds, pc, cmd, done>>
      /\ sent \in [Conn -> Nat] /\ inq \in [Conn -> Seq(Piece)]
  BY DEF Write, LinkInv, TypeOK
<1>2. /\ sent'[c] = sent[c] + 1 /\ inq'[c] = Append(inq[c], x)
      /\ \A d \in Conn : d # c => sent'[d] = sent[d] /\ inq'[d] = inq[d]
  BY <1>1
<1>3. \A d \in Conn : TextOf(d)' = TextOf(d) /\ BufOf(d)' = BufOf(d)
  BY <1>1 DEF TextOf, BufOf
<1>4. Numbered(c) /\ Ended(c)
  BY <1>1 DEF LineInv, Live
<1>5. x \in Piece /\ x.n = sent[c] + 1 /\ x.eol = x.sep
  BY <1>1 DEF Piece
<1> HIDE DEF x
<1>6. /\ Len(inq'[c]) = Len(inq[c]) + 1 /\ inq'[c][Len(inq[c]) + 1] = x
      /\ \A i \in 1..Len(inq[c]) : inq'[c][i] = inq[c][i]
  BY <1>1, <1>2, <1>5, AppendProperties
<1>7. \A i \in 1..Len(inq'[c]) : i \in 1..Len(inq[c]) \/ i = Len(inq[c]) + 1
  BY <1>6, LineTypes
<1>8. sent[c] = done[c] + Len(TextOf(c)) + Len(BufOf(c)) + Len(inq[c])
  BY <1>1, <1>4 DEF Numbered
<1> DEFINE k == done[c] + Len(TextOf(c)) + Len(BufOf(c))
<1>k. k \in Nat /\ Len(inq[c]) \in Nat /\ sent[c] = k + Len(inq[c])
  BY <1>8, LineTypes
<1>9. Run(inq'[c], k)
  <2>1. Run(inq[c], k)
    BY <1>4 DEF Numbered
  <2> HIDE DEF k
  <2>2. x.n = k + (Len(inq[c]) + 1)
    BY <1>5, <1>k
  <2> QED
    BY <1>6, <1>7, <2>1, <2>2 DEF Run
<1>10. Raw(inq'[c])
  BY <1>4, <1>5, <1>6, <1>7 DEF Ended, Raw
<1>11. (Numbered(c) /\ Ended(c))'
  <2>1. sent'[c] = k + Len(inq'[c])
    <3> HIDE DEF k
    <3> QED
      BY <1>2, <1>6, <1>k
  <2>2. Numbered(c)'
    BY <1>1, <1>3, <1>4, <1>9, <2>1 DEF Numbered
  <2>3. Ended(c)'
    BY <1>1, <1>3, <1>4, <1>10 DEF Ended
  <2> QED
    BY <2>2, <2>3
<1>12. ASSUME NEW d \in Conn, d # c, link[d] \in Live
       PROVE  (Numbered(d) /\ Ended(d))'
  <2>1. Numbered(d) /\ Ended(d)
    BY <1>12 DEF LineInv
  <2> QED
    BY <1>1, <1>2, <1>3, <1>12, <2>1, SameLine
<1>13. \A d \in Conn : link'[d] \in Live => (Numbered(d) /\ Ended(d))'
  BY <1>1, <1>11, <1>12
<1>14. \A d \in Conn : link'[d] = "none" => sent'[d] = 0 /\ done'[d] = 0
  BY <1>1, <1>2 DEF LineInv
<1>15. pc' = "wait" => \A d \in fds' : ~Pending(sock', d)
  BY <1>1 DEF LineInv
<1> QED
  BY <1>13, <1>14, <1>15 DEF LineInv, Pending
(* A step that leaves the line of every live connection alone keeps LineInv. *)
LEMMA QuietLine ==
  ASSUME LineInv, sent' = sent, pc' = "wait" => \A c \in fds' : ~Pending(sock, c)', 
         \A c \in Conn : link'[c] = "none" => link[c] = "none" /\ done'[c] = done[c],
         \A c \in Conn : link'[c] \in Live =>
           /\ link[c] \in Live /\ (link'[c] = "open" => link[c] = "open")
           /\ done'[c] = done[c] /\ sock'[c] = sock[c] /\ inq'[c] = inq[c]
           /\ TextOf(c)' = TextOf(c)
  PROVE  LineInv'
<1>1. ASSUME NEW c \in Conn, link'[c] \in Live
      PROVE  (Numbered(c) /\ Ended(c))'
  <2>1. Numbered(c) /\ Ended(c)
    BY <1>1 DEF LineInv
  <2> QED
    BY <1>1, <2>1, SameLine
<1>2. \A c \in Conn : link'[c] = "none" => sent'[c] = 0 /\ done'[c] = 0
  BY DEF LineInv
<1> QED
  BY <1>1, <1>2 DEF LineInv

(* A connection that is closed keeps what it has sent; a reset loses it. *)
LEMMA LeaveLine ==
  ASSUME LinkInv, LineInv, NEW c \in Conn, NEW how \in {"eof", "reset"}, Leave(c, how)
  PROVE  LineInv'
<1>1. /\ link' = [link EXCEPT ![c] = how] /\ link[c] \in {"open", "eof"}
      /\ inq' = [inq EXCEPT ![c] = IF how = "reset" THEN <<>> ELSE @]
      /\ UNCHANGED <<sent, sock, done, cmd, pc, fds>>
      /\ inq \in [Conn -> Seq(Piece)]
      /\ link \in [Conn -> {"none", "open", "eof", "reset", "dead", "shut", "leaked"}]
  BY DEF Leave, LinkInv, TypeOK, clients
<1>2. /\ link'[c] = how /\ inq'[c] \in {<<>>, inq[c]}
      /\ \A d \in Conn : d # c => link'[d] = link[d] /\ inq'[d] = inq[d]
  BY <1>1
<1>3. \A d \in Conn : TextOf(d)' = TextOf(d) /\ BufOf(d)' = BufOf(d)
  BY <1>1 DEF TextOf, BufOf
<1>4. Numbered(c) /\ Ended(c)
  BY <1>1 DEF LineInv, Live
<1>5. (Numbered(c) /\ Ended(c))'
  <2>1. Run(inq'[c], done[c] + Len(TextOf(c)) + Len(BufOf(c))) /\ Raw(inq'[c])
    BY <1>2, <1>4, EmptyLine DEF Numbered, Ended
  <2>2. Numbered(c)'
    BY <1>1, <1>2, <1>3, <1>4, <2>1 DEF Numbered
  <2>3. Ended(c)'
    BY <1>1, <1>3, <1>4, <2>1 DEF Ended
  <2> QED
    BY <2>2, <2>3
<1>6. ASSUME NEW d \in Conn, d # c, link[d] \in Live
      PROVE  (Numbered(d) /\ Ended(d))'
  <2>1. Numbered(d) /\ Ended(d)
    BY <1>6 DEF LineInv
  <2> QED
    BY <1>1, <1>2, <1>3, <1>6, <2>1, SameLine
<1>7. \A d \in Conn : link'[d] \in Live => (Numbered(d) /\ Ended(d))'
  BY <1>2, <1>5, <1>6
<1>8. \A d \in Conn : link'[d] = "none" => sent'[d] = 0 /\ done'[d] = 0
  BY <1>1, <1>2 DEF LineInv
<1>9. pc' = "wait" => \A d \in fds' : ~Pending(sock', d)
  BY <1>1 DEF LineInv
<1> QED
  BY <1>7, <1>8, <1>9 DEF LineInv, Pending

(* What revm_prepare_select puts in the set has no complete line. *)
LEMMA SelectLine ==
  ASSUME LinkInv, LineInv, Select
  PROVE  LineInv'
<1>1. /\ UNCHANGED <<sent, sock, done, cmd, link, inq>>
      /\ pc' = "wait" => /\ revm_socket_getnew(ent, buf, sock, djob) = NULL
                         /\ ~NullJob(ent, buf, Beyond)
                         /\ fds' = {ByKey(ent, buf) : a \in InTable}
  BY DEF Select, clients
<1>2. ASSUME pc' = "wait", NEW c \in fds'
      PROVE  ~Pending(sock, c)
  <2>1. ent \in [Addrs -> Conn \union {NULL}]
    BY DEF LinkInv, TypeOK
  <2>2. PICK a \in InTable : c = ByKey(ent, buf)
    BY <1>1, <1>2
  <2>3. a \in Addrs /\ ent[a] # NULL
    BY DEF InTable
  <2>4. NewKeys(ent, buf, sock, djob) = {}
    BY <1>1, <1>2, <2>1, Chosen
  <2>5. ByKey(ent, buf) # NULL
    BY <1>1, <1>2, <2>1, <2>3, NoNullJob
  <2> QED
    BY <2>2, <2>3, <2>4, <2>5 DEF NewKeys
<1>3. pc' = "wait" => \A c \in fds' : ~Pending(sock, c)'
  BY <1>1, <1>2 DEF Pending
<1>4. \A c \in Conn : TextOf(c)' = TextOf(c)
  BY <1>1 DEF TextOf
<1> QED
  BY <1>1, <1>3, <1>4, QuietLine

(* Steps that touch no pieces of a client *)
LEMMA OtherLine ==
  ASSUME LinkInv, LineInv,
         \/ \E i \in 1..Ports, p \in Peers : DumpSend(i, p)
         \/ revm_dump_accept \/ revm_localjob_get \/ revm_dump_input \/ revm_stdinput
         \/ UNCHANGED vars
  PROVE  LineInv'
<1>1. /\ UNCHANGED <<sent, sock, done, link, inq>>
      /\ UNCHANGED <<pc, fds>> \/ pc' # "wait"
      /\ cmd' = cmd \/ (pc = "input" /\ cmd'.from \in Peers \union {Local})
  <2>1. CASE \E i \in 1..Ports, p \in Peers : DumpSend(i, p)
    BY <2>1 DEF DumpSend, clients
  <2>2. CASE revm_dump_accept \/ revm_localjob_get
    BY <2>2 DEF revm_dump_accept, revm_localjob_get, clients
  <2>3. CASE revm_dump_input
    BY <2>3 DEF revm_dump_input, clients
  <2>4. CASE revm_stdinput
    BY <2>4 DEF revm_stdinput, clients
  <2>5. CASE UNCHANGED vars
    BY <2>5 DEF vars, clients
  <2> QED
    BY <2>1, <2>2, <2>3, <2>4, <2>5
<1>2. \A c \in Conn : TextOf(c)' = TextOf(c)
  <2>1. CASE cmd' = cmd
    BY <2>1 DEF TextOf
  <2>2. CASE pc = "input" /\ cmd'.from \in Peers \union {Local}
    <3>1. cmd.from = NULL
      BY <2>2 DEF LinkInv, Current, NoCmd
    <3> QED
      BY <2>2, <3>1, Kinds DEF TextOf
  <2> QED
    BY <1>1, <2>1, <2>2
<1>3. pc' = "wait" => \A c \in fds' : ~Pending(sock, c)'
  BY <1>1 DEF LineInv, Pending
<1> QED
  BY <1>1, <1>2, <1>3, QuietLine

(* revm_net_accept moves no pieces. *)
LEMMA AcceptLine ==
  ASSUME LinkInv, LineInv, revm_net_accept
  PROVE  LineInv'
<1> DEFINE c == Head(knock)
<1>1. /\ UNCHANGED <<sent, sock, done, cmd>> /\ pc' = "input"
      /\ \/ UNCHANGED <<link, inq>>
         \/ link' = [link EXCEPT ![c] = "shut"] /\ inq' = [inq EXCEPT ![c] = <<>>]
  BY DEF revm_net_accept, clients
<1>2. \A d \in Conn : TextOf(d)' = TextOf(d)
  BY <1>1 DEF TextOf
<1> HIDE DEF c
<1>3. \A d \in Conn : \/ link'[d] = link[d] /\ inq'[d] = inq[d]
                      \/ link'[d] = "shut"
  BY <1>1 DEF LinkInv, TypeOK
<1> QED
  BY <1>1, <1>2, <1>3, QuietLine DEF Live

(* revm_net_input moves a buffer whose line is complete into the command. *)
LEMMA NetInputLine ==
  ASSUME LinkInv, LineInv, revm_net_input
  PROVE  LineInv'
<1>1. /\ pc = "input" /\ pc' \in {"select", "exec"} /\ UNCHANGED <<sent, done, link, inq>>
  BY DEF revm_net_input, TakeLine, clients
<1>2. CASE ReadyEntries = {}
  <2>1. UNCHANGED <<sock, cmd>>
    BY <1>2 DEF revm_net_input, TakeLine
  <2>2. \A c \in Conn : TextOf(c)' = TextOf(c)
    BY <2>1 DEF TextOf
  <2> QED
    BY <1>1, <2>1, <2>2, QuietLine
<1>3. CASE ReadyEntries # {}
  <2>1. First(ReadyEntries) \in ReadyEntries
    BY <1>3, FirstIn DEF ReadyEntries, InTable, Keys
  <2>2. PICK c \in Conn : c = ent[First(ReadyEntries)] /\ Pending(sock, c) /\ link[c] \in Live
    BY <2>1, ZenonT(60) DEF ReadyEntries, InTable, LinkInv, TypeOK, Entries
  <2>3. /\ cmd' = [by |-> curjob, from |-> c, text |-> sock[c].recvd]
        /\ sock' = [sock EXCEPT ![c].recvd_f = FALSE]
        /\ sock \in [Conn -> SockType]
    BY <1>3, <2>2 DEF revm_net_input, TakeLine, LinkInv, TypeOK
  <2>4. /\ ~sock'[c].recvd_f /\ \A d \in Conn : d # c => sock'[d] = sock[d]
    BY <2>3 DEF SockType
  <2>5. cmd.from = NULL
    BY <1>1 DEF LinkInv, Current, NoCmd
  <2>6. \A d \in Conn : TextOf(d) = <<>> /\ (d # c => TextOf(d)' = <<>>)
    BY <2>3, <2>5, Kinds DEF TextOf
  <2>7. BufOf(c) = sock[c].recvd /\ TextOf(c)' = sock[c].recvd /\ BufOf(c)' = <<>>
    BY <2>2, <2>3, <2>4 DEF BufOf, TextOf, Pending
  <2>8. Numbered(c) /\ Ended(c)
    BY <2>2 DEF LineInv
  <2> DEFINE b == BufOf(c)
  <2>9. b # <<>> => b[Len(b)].eol
    BY <2>2, <2>8 DEF Ended, Pending
  <2>10. done[c] \in Nat /\ Len(b) \in Nat
    BY LineTypes
  <2>11. /\ Run(b, done[c]) /\ Run(inq[c], done[c] + Len(b)) /\ Apart(b) /\ Raw(inq[c])
         /\ link[c] = "open" => sent[c] = done[c] + Len(b) + Len(inq[c])
    <3>1. Len(TextOf(c)) = 0 /\ done[c] + 0 = done[c]
      BY <2>6, <2>10, EmptyLine
    <3> QED
      BY <2>8, <3>1 DEF Numbered, Ended
  <2>12. (Numbered(c) /\ Ended(c))'
    <3>1. TextOf(c)' = b /\ BufOf(c)' = <<>>
      BY <2>7
    <3> HIDE DEF b
    <3>2. Len(<<>>) = 0 /\ done[c] + Len(b) + 0 = done[c] + Len(b)
      BY <2>10, EmptyLine
    <3>3. Numbered(c)'
      BY <1>1, <2>11, <3>1, <3>2, EmptyLine DEF Numbered
    <3>4. Ended(c)'
      BY <1>1, <2>9, <2>11, <3>1, EmptyLine DEF Ended
    <3> QED
      BY <3>3, <3>4
  <2>13. ASSUME NEW d \in Conn, d # c, link[d] \in Live
         PROVE  (Numbered(d) /\ Ended(d))'
    <3>1. Numbered(d) /\ Ended(d)
      BY <2>13 DEF LineInv
    <3>2. TextOf(d)' = TextOf(d)
      BY <2>6, <2>13
    <3> QED
      BY <1>1, <2>4, <2>13, <3>1, <3>2, SameLine
  <2>14. \A d \in Conn : link'[d] \in Live => (Numbered(d) /\ Ended(d))'
    BY <1>1, <2>12, <2>13
  <2>15. \A d \in Conn : link'[d] = "none" => sent'[d] = 0 /\ done'[d] = 0
    BY <1>1 DEF LineInv
  <2> QED
    BY <1>1, <2>14, <2>15 DEF LineInv
<1> QED
  BY <1>2, <1>3
(* Buffers put together: the first ends in the middle of a line. *)
LEMMA GlueLine ==
  ASSUME NEW b \in Seq(Piece), NEW q \in Seq(Piece), q # <<>>, NEW k \in Nat,
         Run(b, k), Run(q, k + Len(b)), Apart(b), Raw(q), b # <<>> => ~b[Len(b)].eol
  PROVE  LET w == b \o Chomp(q)
         IN  /\ w \in Seq(Piece) /\ w # <<>> /\ Len(w) = Len(b) + Len(q)
             /\ Run(w, k) /\ Apart(w) /\ w[Len(w)].eol = q[Len(q)].eol
<1> DEFINE z == Chomp(q)
           w == b \o z
           m == Len(b)
           l == Len(q)
<1>1. /\ z \in Seq(Piece) /\ Len(z) = l /\ l \in Nat \ {0} /\ m \in Nat
      /\ \A i \in 1..l : z[i].n = q[i].n /\ z[i].eol = q[i].eol
      /\ \A i \in 1..(l - 1) : z[i].sep = q[i].sep
  BY ChompSeq, LenProperties
<1> HIDE DEF z
<1>2. /\ w \in Seq(Piece) /\ Len(w) = m + l
      /\ \A i \in 1..(m + l) : w[i] = IF i <= m THEN b[i] ELSE z[i - m]
  <2>1. /\ b \o z \in Seq(Piece) /\ Len(b \o z) = Len(b) + Len(z)
        /\ \A i \in 1..(Len(b) + Len(z)) : (b \o z)[i] = IF i <= Len(b) THEN b[i] ELSE z[i - Len(b)]
    BY <1>1, ConcatProperties
  <2> QED
    BY <1>1, <2>1
<1>3. w # <<>>
  <2>1. Len(w) # 0
    BY <1>1, <1>2
  <2> QED
    BY <2>1, EmptySeq
<1> HIDE DEF w
<1>4. Run(w, k)
  <2> SUFFICES ASSUME NEW i \in 1..(m + l)
               PROVE  w[i].n = k + i
    BY <1>2 DEF Run
  <2>1. CASE i <= m
    <3>1. i \in 1..m /\ w[i] = b[i]
      BY <1>1, <1>2, <2>1
    <3> QED
      BY <3>1 DEF Run
  <2>2. CASE ~(i <= m)
    <3>1. i - m \in 1..l /\ w[i] = z[i - m]
      BY <1>1, <1>2, <2>2
    <3>2. z[i - m].n = q[i - m].n /\ q[i - m].n = k + m + (i - m)
      BY <1>1, <3>1 DEF Run
    <3>3. k + m + (i - m) = k + i
      BY <1>1
    <3> QED
      BY <3>1, <3>2, <3>3
  <2> QED
    BY <2>1, <2>2
<1>5. Apart(w)
  <2> SUFFICES ASSUME NEW i \in 1..(m + l - 1), w[i].eol
               PROVE  w[i].sep
    BY <1>2 DEF Apart
  <2>1. i \in 1..(m + l)
    BY <1>1
  <2>2. CASE i <= m - 1
    <3>1. i \in 1..(m - 1) /\ w[i] = b[i]
      BY <1>1, <1>2, <2>1, <2>2
    <3> QED
      BY <3>1 DEF Apart
  <2>3. CASE i = m
    <3>1. w[i] = b[m] /\ m # 0
      BY <1>1, <1>2, <2>1, <2>3
    <3>2. b # <<>>
      BY <3>1, EmptySeq
    <3> QED
      BY <3>1, <3>2
  <2>4. CASE i > m
    <3>1. i - m \in 1..(l - 1) /\ i - m \in 1..l /\ w[i] = z[i - m]
      BY <1>1, <1>2, <2>1, <2>4
    <3>2. z[i - m].eol = q[i - m].eol /\ z[i - m].sep = q[i - m].sep
      BY <1>1, <3>1
    <3> QED
      BY <3>1, <3>2 DEF Raw
  <2> QED
    BY <1>1, <2>2, <2>3, <2>4
<1>6. w[Len(w)].eol = q[Len(q)].eol
  <2>1. m + l \in 1..(m + l) /\ ~(m + l <= m) /\ (m + l) - m = l /\ l \in 1..l
    BY <1>1
  <2>2. w[m + l] = z[l]
    BY <1>2, <2>1
  <2> QED
    BY <1>1, <1>2, <2>1, <2>2
<1> QED
  BY <1>2, <1>3, <1>4, <1>5, <1>6 DEF w, z

(* revm_update_recvd reads only sockets that were in the set, and these have
   no complete line, so what it glues together is one line. *)
LEMMA RecvdLine ==
  ASSUME LinkInv, LineInv, revm_net_recvd
  PROVE  LineInv'
<1>1. /\ pc = "wait" /\ pc' # "wait" /\ UNCHANGED <<sent, done, cmd>>
  BY DEF revm_net_recvd, clients
<1>2. \A d \in Conn : TextOf(d) = <<>> /\ TextOf(d)' = <<>>
  <2>1. cmd.from = NULL
    BY <1>1 DEF LinkInv, Current, NoCmd
  <2> QED
    BY <1>1, <2>1, Kinds DEF TextOf
<1>3. ASSUME NEW c \in Conn, link[c] \in Live, link'[c] \in Live
      PROVE  (Numbered(c) /\ Ended(c))'
  <2>1. Numbered(c) /\ Ended(c)
    BY <1>3 DEF LineInv
  <2> DEFINE b == BufOf(c)
             q == inq[c]
             k == done[c]
  <2>2. b \in Seq(Piece) /\ q \in Seq(Piece) /\ k \in Nat /\ Len(b) \in Nat
    BY LineTypes
  <2>3. /\ Run(b, k) /\ Run(q, k + Len(b)) /\ Apart(b) /\ Raw(q)
        /\ link[c] = "open" => sent[c] = k + Len(b) + Len(q)
    <3>1. Len(TextOf(c)) = 0 /\ k + 0 = k
      BY <1>2, <2>2, EmptyLine
    <3> QED
      BY <2>1, <3>1 DEF Numbered, Ended
  <2>4. ASSUME NEW a \in Arrived, ent[a] = c
        PROVE  (Numbered(c) /\ Ended(c))'
    <3>1. /\ sock'[c] = revm_update_recvd(c) /\ inq'[c] = <<>>
          /\ link'[c] = "open" => link[c] = "open"
      BY <2>4, RecvdConn
    <3>2. q # <<>> /\ a \in ReadSet
      BY <2>4, ReadEntries
    <3>3. ~Pending(sock, c)
      BY <1>1, <2>4, <3>2 DEF ReadSet, LineInv
    <3>4. b # <<>> => ~b[Len(b)].eol
      <4>1. b # <<>> => sock[c].recvd_f
        BY DEF BufOf
      <4> QED
        BY <2>1, <3>3, <4>1 DEF Ended, Pending
    <3>5. sock[c] \in SockType
      BY DEF LinkInv, TypeOK
    <3>6. /\ sock'[c].recvd = b \o Chomp(q) /\ sock'[c].recvd_f
          /\ sock'[c].ready_f = q[Len(q)].eol
      BY <2>2, <3>1, <3>2, <3>5, UpdateSeq DEF BufOf
    <3> DEFINE w == b \o Chomp(q)
    <3>7. BufOf(c)' = w
      BY <3>6 DEF BufOf
    <3>8. /\ w # <<>> /\ Len(w) = Len(b) + Len(q)
          /\ Run(w, k) /\ Apart(w) /\ w[Len(w)].eol = q[Len(q)].eol
      <4> HIDE DEF b, q, k
      <4> QED
        BY <2>2, <2>3, <3>2, <3>4, GlueLine
    <3> HIDE DEF w, b, q, k
    <3>9. k + 0 = k /\ k + Len(b) + Len(q) = k + Len(w) /\ k + Len(w) + 0 = k + Len(w)
      <4>1. Len(q) \in Nat
        BY <2>2, LenProperties
      <4> QED
        BY <2>2, <3>8, <4>1
    <3>10. done'[c] = k /\ sent'[c] = sent[c]
      BY <1>1 DEF k
    <3>11. Numbered(c)'
      <4>1. /\ Run(<<>>, k) /\ Run(w, k + Len(<<>>)) /\ Run(<<>>, k + Len(<<>>) + Len(w))
            /\ link'[c] = "open" => sent[c] = k + Len(<<>>) + Len(w) + Len(<<>>)
        BY <2>3, <3>1, <3>8, <3>9, EmptyLine
      <4> QED
        BY <1>2, <3>1, <3>7, <3>10, <4>1 DEF Numbered
    <3>12. Ended(c)'
      BY <1>2, <3>1, <3>6, <3>7, <3>8, EmptyLine DEF Ended
    <3> QED
      BY <3>11, <3>12
  <2>5. ASSUME \A a \in Arrived : ent[a] # c
        PROVE  (Numbered(c) /\ Ended(c))'
    <3>1. /\ sock'[c] = sock[c] /\ inq'[c] = inq[c]
          /\ link'[c] = "open" => link[c] = "open"
      <4>1. CASE \E a \in Handled : ent[a] = c
        <5>1. PICK a \in Handled : ent[a] = c
          BY <4>1
        <5>2. a \notin Closing
          BY <1>3, <5>1, RecvdConn DEF Live
        <5>3. a \in (Handled \ Arrived) \ Closing
          BY <2>5, <5>1, <5>2
        <5> QED
          BY <5>1, <5>3, RecvdConn
      <4>2. CASE \A a \in Handled : ent[a] # c
        BY <4>2, RecvdConn
      <4> QED
        BY <4>1, <4>2
    <3> QED
      BY <1>1, <1>2, <2>1, <3>1, SameLine
  <2> QED
    BY <2>4, <2>5
<1>4. ASSUME NEW c \in Conn
      PROVE  /\ link'[c] \in Live => link[c] \in Live
             /\ link'[c] = "none" => link[c] = "none"
  <2>1. CASE \E a \in Handled : ent[a] = c
    <3>1. link[c] \in Live
      BY <2>1, ReadEntries
    <3>2. PICK a \in Handled : ent[a] = c
      BY <2>1
    <3>3. link'[c] \in {"shut", "leaked", "dead", link[c]}
      BY <3>2, RecvdConn
    <3> QED
      BY <3>1, <3>3
  <2>2. CASE \A a \in Handled : ent[a] # c
    BY <2>2, RecvdConn
  <2> QED
    BY <2>1, <2>2
<1>5. \A c \in Conn : link'[c] \in Live => (Numbered(c) /\ Ended(c))'
  BY <1>3, <1>4
<1>6. \A c \in Conn : link'[c] = "none" => sent'[c] = 0 /\ done'[c] = 0
  BY <1>1, <1>4 DEF LineInv
<1> QED
  BY <1>1, <1>5, <1>6 DEF LineInv
(* The end of a command: what was the text of the connection is executed. *)
LEMMA ExecutedLine ==
  ASSUME LinkInv, LineInv, pc = "exec", Executed, NEW c \in Conn, link[c] \in Live,
         sent'[c] = sent[c], link'[c] = link[c], sock'[c] = sock[c], inq'[c] = inq[c]
  PROVE  (Numbered(c) /\ Ended(c))'
<1>1. cmd'.from = NULL
  BY DEF Executed, NoCmd
<1>2. TextOf(c)' = <<>> /\ BufOf(c)' = BufOf(c)
  BY <1>1, Kinds DEF TextOf, BufOf
<1>3. Numbered(c) /\ Ended(c)
  BY DEF LineInv
<1> DEFINE t == TextOf(c)
           b == BufOf(c)
           k == done[c] + Len(t)
<1>4. k \in Nat /\ Len(b) \in Nat /\ done[c] \in Nat /\ Len(t) \in Nat /\ t \in Seq(Piece)
  BY LineTypes
<1>5. done'[c] = k
  <2>1. done \in [Conn \union Peers -> Nat]
    BY DEF LinkInv, TypeOK
  <2>2. CASE cmd.from = c
    <3>1. t = cmd.text /\ cmd.from # Local
      BY <2>2, Kinds DEF TextOf
    <3>2. t # <<>>
      BY <3>1 DEF LinkInv, Current
    <3>3. Len(t) \in 1..Len(t)
      BY <1>4, <3>2, EmptySeq
    <3>4. t[Len(t)].n = k
      BY <1>3, <3>3 DEF Numbered, Run
    <3>5. done' = [done EXCEPT ![c] = cmd.text[Len(cmd.text)].n]
      BY <2>2, <3>1 DEF Executed
    <3> HIDE DEF k, t
    <3> QED
      BY <2>1, <3>1, <3>4, <3>5
  <2>3. CASE cmd.from # c
    <3>1. t = <<>> /\ k = done[c]
      BY <1>4, <2>3, EmptyLine DEF TextOf
    <3> QED
      BY <2>1, <2>3, <3>1 DEF Executed
  <2> QED
    BY <2>2, <2>3
<1>6. /\ Run(b, k) /\ Run(inq[c], k + Len(b)) /\ Apart(b) /\ Raw(inq[c])
      /\ link[c] = "open" => sent[c] = k + Len(b) + Len(inq[c])
      /\ b # <<>> => b[Len(b)].eol = sock[c].ready_f
  BY <1>3 DEF Numbered, Ended
<1> HIDE DEF k, b, t
<1>7. k + Len(<<>>) = k /\ Len(<<>>) = 0
  BY <1>4, EmptyLine
<1>8. BufOf(c)' = b
  BY <1>2 DEF b
<1>9. Numbered(c)'
  BY <1>2, <1>5, <1>6, <1>7, <1>8, EmptyLine DEF Numbered
<1>10. Ended(c)'
  BY <1>2, <1>6, <1>8, EmptyLine DEF Ended
<1> QED
  BY <1>9, <1>10

(* A command is executed; pieces of another connection stay where they are. *)
LEMMA ExecLine ==
  ASSUME LinkInv, LineInv, Exec
  PROVE  LineInv'
<1>1. pc = "exec" /\ pc' # "wait" /\ sent' = sent /\ Executed
  BY DEF Exec, Plain, DumpCommand, Netlist, Quit, Netkill, clients
<1>2. \/ UNCHANGED <<link, sock, inq>>
      \/ \E a \in Addrs : ent[a] # NULL /\ revm_socket_del(a)
  <2>1. CASE Plain \/ DumpCommand \/ Netlist
    BY <2>1 DEF Plain, DumpCommand, Netlist
  <2>2. CASE Quit
    <3>1. curjob \in Conn => addr[curjob] \in Addrs
      BY DEF LinkInv, Current
    <3> QED
      BY <2>2, <3>1 DEF Quit
  <2>3. ASSUME NEW a \in Addrs, Netkill(a)
        PROVE  UNCHANGED <<link, sock, inq>> \/ (ent[a] # NULL /\ revm_socket_del(a))
    BY <2>3 DEF Netkill, ByText
  <2> QED
    BY <2>1, <2>2, <2>3 DEF Exec
<1>3. \A c \in Conn : \/ link'[c] = link[c] /\ sock'[c] = sock[c] /\ inq'[c] = inq[c]
                      \/ link'[c] \in {"shut", "leaked"}
  <2>1. CASE UNCHANGED <<link, sock, inq>>
    BY <2>1
  <2>2. ASSUME NEW a \in Addrs, ent[a] # NULL, revm_socket_del(a)
        PROVE  \A c \in Conn : \/ link'[c] = link[c] /\ sock'[c] = sock[c] /\ inq'[c] = inq[c]
                               \/ link'[c] \in {"shut", "leaked"}
    <3>1. /\ link' = [link EXCEPT ![ent[a]] = Closed(ent[a])]
          /\ sock' = [sock EXCEPT ![ent[a]] = Freed(ent[a])]
          /\ inq' = [inq EXCEPT ![ent[a]] = <<>>]
      BY <2>2 DEF revm_socket_del
    <3>2. link \in [Conn -> {"none", "open", "eof", "reset", "dead", "shut", "leaked"}]
          /\ sock \in [Conn -> SockType] /\ inq \in [Conn -> Seq(Piece)]
      BY DEF LinkInv, TypeOK
    <3>3. Closed(ent[a]) \in {"shut", "leaked"}
      BY DEF Closed
    <3> QED
      BY <3>1, <3>2, <3>3
  <2> QED
    BY <1>2, <2>1, <2>2
<1>4. ASSUME NEW c \in Conn, link'[c] \in Live
      PROVE  (Numbered(c) /\ Ended(c))'
  <2>1. link'[c] = link[c] /\ sock'[c] = sock[c] /\ inq'[c] = inq[c]
    BY <1>3, <1>4 DEF Live
  <2>2. sent'[c] = sent[c] /\ link[c] \in Live
    BY <1>1, <1>4, <2>1
  <2> QED
    BY <1>1, <2>1, <2>2, ExecutedLine
<1>5. ASSUME NEW c \in Conn, link'[c] = "none"
      PROVE  sent'[c] = 0 /\ done'[c] = 0
  <2>1. link[c] = "none"
    BY <1>3, <1>5
  <2>2. cmd.from # c
    BY <2>1 DEF LinkInv, Current, Live
  <2>3. done'[c] = done[c]
    BY <1>1, <2>2 DEF Executed, LinkInv, TypeOK
  <2> QED
    BY <1>1, <2>1, <2>3 DEF LineInv
<1> QED
  BY <1>1, <1>4, <1>5 DEF LineInv

(* LineInv is inductive relative to LinkInv. *)
LEMMA NextLine == LinkInv /\ LineInv /\ [Next]_vars => LineInv'
<1> SUFFICES ASSUME LinkInv, LineInv, [Next]_vars
             PROVE  LineInv'
  OBVIOUS
<1>1. CASE Client
  BY <1>1, ConnectLine, WriteLine, LeaveLine DEF Client
<1>2. CASE TerminalWakes \/ NetworkWakes
  BY <1>2, RecvdLine DEF TerminalWakes, NetworkWakes
<1>3. CASE Select \/ revm_net_accept \/ revm_net_input \/ Exec
  BY <1>3, SelectLine, AcceptLine, NetInputLine, ExecLine
<1>4. CASE DumpNode \/ revm_dump_accept \/ revm_localjob_get \/ revm_dump_input
             \/ revm_stdinput \/ UNCHANGED vars
  BY <1>4, OtherLine DEF DumpNode
<1> QED
  BY <1>1, <1>2, <1>3, <1>4 DEF Next, Server, Input

(* However the pieces that clients write are cut, delivered and mixed with
   other clients' and with commands of the terminal, a client's command is
   exactly the next pieces it wrote, up to the end of a line, and no two
   lines are glued together. *)
THEOREM WholeLines == Spec => []LinesWhole
<1>1. Init => LinkInv /\ LineInv
  BY InitLink, InitLine
<1>2. LinkInv /\ LineInv /\ [Next]_vars => (LinkInv /\ LineInv)'
  BY NextLink, NextLine
<1>3. ASSUME LinkInv, LineInv
      PROVE  LinesWhole
  <2> SUFFICES ASSUME NEW c \in Conn, cmd.from = c
               PROVE  /\ cmd.text # <<>> /\ cmd.text[1].n = done[c] + 1
                      /\ cmd.text[Len(cmd.text)].eol
                      /\ \A i \in 1..(Len(cmd.text) - 1) :
                           /\ cmd.text[i + 1].n = cmd.text[i].n + 1
                           /\ cmd.text[i].eol => cmd.text[i].sep
    BY DEF LinesWhole
  <2> USE <1>3
  <2> DEFINE t == cmd.text
  <2>1. TextOf(c) = t
    BY DEF TextOf
  <2>2. link[c] \in Live /\ c # Local /\ pc = "exec"
    BY Kinds DEF LinkInv, Current, NoCmd
  <2>3. t # <<>>
    BY <2>2 DEF LinkInv, Current
  <2>4. Numbered(c) /\ Ended(c)
    BY <2>2 DEF LineInv
  <2>5. Run(t, done[c]) /\ Apart(t) /\ t[Len(t)].eol
    BY <2>1, <2>3, <2>4 DEF Numbered, Ended
  <2>6. t \in Seq(Piece) /\ done[c] \in Nat
    BY <2>1, LineTypes
  <2> HIDE DEF t
  <2>7. Len(t) \in Nat \ {0}
    BY <2>3, <2>6, EmptySeq
  <2>8. t[1].n = done[c] + 1
    BY <2>5, <2>7 DEF Run
  <2>9. \A i \in 1..(Len(t) - 1) : t[i + 1].n = t[i].n + 1 /\ (t[i].eol => t[i].sep)
    <3> SUFFICES ASSUME NEW i \in 1..(Len(t) - 1)
                 PROVE  t[i + 1].n = t[i].n + 1 /\ (t[i].eol => t[i].sep)
      OBVIOUS
    <3>1. i \in 1..Len(t) /\ i + 1 \in 1..Len(t)
      BY <2>7
    <3>2. t[i].n = done[c] + i /\ t[i + 1].n = done[c] + (i + 1)
      BY <2>5, <3>1 DEF Run
    <3>3. t[i + 1].n = t[i].n + 1
      BY <2>6, <3>2
    <3>4. t[i].eol => t[i].sep
      BY <2>5 DEF Apart
    <3> QED
      BY <3>3, <3>4
  <2> QED
    BY <2>3, <2>5, <2>8, <2>9 DEF t
<1> QED
  BY <1>1, <1>2, <1>3, PTL DEF Spec
-----------------------------------------------------------------------------
(* Names *)

(* When inet_ntoa has formatted a single address, the buffer names the only
   entry there can be. *)
LEMMA SoleEntry ==
  ASSUME NEW e, NEW b, NEW S, b # NULL => b \in S, b = NULL => S = {},
         {a \in Addrs : e[a] # NULL} \subseteq S, \A x, y \in S : x = y,
         NEW a \in Addrs, e[a] # NULL
  PROVE  b = a /\ ByKey(e, b) = e[a]
<1>1. a \in S
  OBVIOUS
<1>2. b = a
  BY <1>1
<1> QED
  BY <1>2 DEF ByKey

(* After a broken select the current job, if a client, is the only entry. *)
LEMMA BrokenSole ==
  ASSUME NEW e \in [Addrs -> Conn \union {NULL}], NEW b, NEW s, NEW d, NEW j,
         NEW S, b # NULL => b \in S, b = NULL => S = {},
         {a \in Addrs : e[a] # NULL} \subseteq S, \A x, y \in S : x = y,
         j \in Conn => \A a \in Addrs : e[a] # NULL => e[a] = j
  PROVE  Broken(j, e, b, s, d) \in Conn =>
           \A a \in Addrs : e[a] # NULL => e[a] = Broken(j, e, b, s, d)
<1> DEFINE n == revm_socket_getnew(e, b, s, d)
<1>1. n \in Conn => b \in Addrs /\ n = e[b]
  BY Chosen
<1>2. Broken(j, e, b, s, d) = IF n # NULL THEN n ELSE j
  BY DEF Broken
<1> HIDE DEF n
<1>3. CASE n = NULL
  BY <1>2, <1>3
<1>4. CASE n # NULL
  <2> SUFFICES ASSUME n \in Conn, NEW a \in Addrs, e[a] # NULL
               PROVE  e[a] = n
    BY <1>2, <1>4
  <2>1. b = a
    BY SoleEntry
  <2> QED
    BY <1>1, <2>1
<1> QED
  BY <1>3, <1>4

(* A loop that looks up every entry by the name in the buffer of inet_ntoa
   finds it when that buffer never held another name. *)
LEMMA NoCrash ==
  ASSUME Names, One, NEW u
  PROVE  ~NullJob(ent, buf, u)
<1> SUFFICES ASSUME NEW a \in Addrs, ent[a] # NULL
             PROVE  ByKey(ent, buf) # NULL
  BY DEF NullJob
<1>1. {x \in Addrs : ent[x] # NULL} \subseteq seen
  BY DEF Names, InTable
<1> QED
  BY <1>1, SoleEntry DEF Names, One

(* At the start the buffer of inet_ntoa is empty, or holds the name of the
   server. *)
LEMMA InitName == Init => NameInv
<1> SUFFICES ASSUME Init
             PROVE  NameInv
  OBVIOUS
<1>1. InTable = {} /\ seen = {buf} \ {NULL} /\ pc = "select" /\ curjob = Local /\ cmd.from = NULL
  BY DEF Init, InTable, NoCmd
<1> QED
  BY <1>1, Kinds DEF NameInv, Names, Awake, Sole

(* Steps of clients and DUMP nodes, and stuttering *)
LEMMA QuietName ==
  ASSUME NameInv, UNCHANGED <<ent, buf, seen, pc, fds, sock, djob, curjob, cmd>>
  PROVE  NameInv'
<1>1. InTable' = InTable /\ One' = One
  BY DEF InTable, One
<1>2. Names' /\ Sole'
  BY <1>1 DEF NameInv, Names, Sole
<1>3. Awake'
  BY <1>1 DEF NameInv, Awake, Pending
<1> QED
  BY <1>2, <1>3 DEF NameInv

(* A step that adds no entry, keeps the current job and does not begin to
   wait *)
LEMMA LessName ==
  ASSUME NameInv, Names', pc' # "wait", seen \subseteq seen', curjob' = curjob,
         One' => pc' # "crashed", cmd'.from \in Conn => cmd'.by = cmd'.from,
         \A a \in Addrs : ent'[a] \in {NULL, ent[a]}
  PROVE  NameInv'
<1>1. One' => One
  BY DEF One
<1>2. Sole'
  BY <1>1 DEF NameInv, Sole
<1>3. Awake'
  BY DEF Awake
<1> QED
  BY <1>2, <1>3 DEF NameInv

(* revm_prepare_select puts every entry without a complete line in the set. *)
LEMMA SelectName ==
  ASSUME LinkInv, NameInv, Select
  PROVE  NameInv'
<1> DEFINE new == revm_socket_getnew(ent, buf, sock, djob)
<1>1. /\ UNCHANGED <<ent, buf, seen, sock, djob, cmd>>
      /\ \/ new # NULL /\ curjob' = new /\ pc' = "input"
         \/ new = NULL /\ NullJob(ent, buf, Beyond) /\ pc' = "crashed" /\ curjob' = curjob
         \/ /\ new = NULL /\ ~NullJob(ent, buf, Beyond) /\ pc' = "wait" /\ curjob' = curjob
            /\ fds' = {ByKey(ent, buf) : a \in InTable}
  BY DEF Select
<1>2. ent \in [Addrs -> Conn \union {NULL}]
  BY DEF LinkInv, TypeOK
<1>3. /\ new \in Conn => buf \in Addrs /\ new = ent[buf]
      /\ new = NULL <=> NewKeys(ent, buf, sock, djob) = {}
  BY <1>2, Chosen
<1>4. InTable' = InTable /\ One' = One
  BY <1>1 DEF InTable, One
<1>5. Names'
  BY <1>1, <1>4 DEF NameInv, Names
<1>6. ASSUME One, NEW a \in Addrs, ent[a] # NULL
      PROVE  buf = a /\ ByKey(ent, buf) = ent[a]
  <2>1. {x \in Addrs : ent[x] # NULL} \subseteq seen
    BY DEF NameInv, Names, InTable
  <2> QED
    BY <1>6, <2>1, SoleEntry DEF NameInv, Names, One
<1>7. Sole'
  <2> SUFFICES ASSUME One
               PROVE  /\ pc' # "crashed"
                      /\ curjob' \in Conn => \A a \in Addrs : ent[a] # NULL => ent[a] = curjob'
                      /\ cmd.from \in Conn => cmd.by = cmd.from
    BY <1>1, <1>4 DEF Sole
  <2>1. ~NullJob(ent, buf, Beyond)
    BY NoCrash DEF NameInv
  <2>2. pc' # "crashed"
    BY <1>1, <2>1
  <2>3. CASE curjob' = curjob
    BY <2>2, <2>3 DEF NameInv, Sole
  <2>4. CASE curjob' = new
    BY <1>3, <1>6, <2>2, <2>4 DEF NameInv, Sole
  <2> QED
    BY <1>1, <2>3, <2>4
<1>8. Awake'
  <2> SUFFICES ASSUME pc' = "wait"
               PROVE  /\ \A p \in Peers : ~djob[p].new
                      /\ One => \A a \in InTable : ent[a] \in fds' /\ ~Pending(sock, ent[a])
    BY <1>1, <1>4 DEF Awake, Pending
  <2>1. NewKeys(ent, buf, sock, djob) = {} /\ fds' = {ByKey(ent, buf) : a \in InTable}
    BY <1>1, <1>3
  <2>2. \A p \in Peers : ~djob[p].new
    BY <2>1 DEF NewKeys
  <2>3. ASSUME One, NEW a \in InTable
        PROVE  ent[a] \in fds' /\ ~Pending(sock, ent[a])
    <3>1. a \in Addrs /\ ent[a] # NULL
      BY DEF InTable
    <3>2. ByKey(ent, buf) = ent[a]
      BY <1>6, <2>3, <3>1
    <3> QED
      BY <2>1, <3>1, <3>2 DEF NewKeys
  <2> QED
    BY <2>2, <2>3
<1> QED
  BY <1>5, <1>7, <1>8 DEF NameInv

(* revm_net_recvd formats the names of the entries that it looks at. *)
LEMMA RecvdName ==
  ASSUME LinkInv, NameInv, revm_net_recvd
  PROVE  NameInv'
<1>1. /\ pc = "wait" /\ pc' \in {"input", "check"} /\ cmd' = cmd
      /\ ent' = [a \in Addrs |-> IF a \in Closing THEN NULL ELSE ent[a]]
      /\ curjob' \in {curjob, Broken(curjob, ent', buf', sock', djob')}
      /\ buf' \in {Formatted(Named, Packets)} \union Peers
      /\ seen' = seen \union Named \union {Source(i) : i \in Packets} \union ({buf'} \ {NULL})
  BY DEF revm_net_recvd, Routed
<1>2. ent' \in [Addrs -> Conn \union {NULL}]
  BY RecvdType
<1>3. \A a \in Addrs : ent'[a] \in {NULL, ent[a]}
  BY <1>1
<1>4. Packets \subseteq Waiting /\ Named \subseteq Addrs
  BY ReadEntries DEF Packets
<1>5. Names'
  <2>1. InTable' \subseteq InTable
    BY <1>3 DEF InTable
  <2>2. CASE buf' # NULL
    BY <1>1, <2>1, <2>2 DEF NameInv, Names
  <2>3. CASE buf' = NULL
    <3>1. \A i \in Packets : Source(i) \in Peers
      BY <1>4, PacketType
    <3>2. buf' = Formatted(Named, Packets)
      BY <1>1, <2>3, Kinds
    <3>3. Packets = {} /\ Named = {}
      BY <1>4, <2>3, <3>1, <3>2, FormattedIn, Kinds
    <3>4. buf = NULL
      BY <1>4, <2>3, <3>2, <3>3, FormattedIn
    <3>5. seen' = seen
      BY <1>1, <2>3, <3>3
    <3> QED
      BY <2>1, <2>3, <3>4, <3>5 DEF NameInv, Names
  <2> QED
    BY <2>2, <2>3
<1>6. Awake'
  BY <1>1 DEF Awake
<1>7. Sole'
  <2>1. cmd.from = NULL
    BY <1>1 DEF LinkInv, Current, NoCmd
  <2> SUFFICES ASSUME One'
               PROVE  curjob' \in Conn => \A a \in Addrs : ent'[a] # NULL => ent'[a] = curjob'
    BY <1>1, <2>1, Kinds DEF Sole
  <2>2. One
    BY <1>1 DEF One
  <2>3. curjob \in Conn => \A a \in Addrs : ent'[a] # NULL => ent'[a] = curjob
    BY <1>3, <2>2 DEF NameInv, Sole
  <2>4. {a \in Addrs : ent'[a] # NULL} \subseteq seen'
    BY <1>5 DEF Names, InTable
  <2>5. \A x, y \in seen' : x = y
    BY DEF One
  <2>6. Broken(curjob, ent', buf', sock', djob') \in Conn =>
          \A a \in Addrs : ent'[a] # NULL => ent'[a] = Broken(curjob, ent', buf', sock', djob')
    BY <1>2, <1>5, <2>3, <2>4, <2>5, BrokenSole DEF Names
  <2> QED
    BY <1>1, <2>3, <2>6
<1> QED
  BY <1>5, <1>6, <1>7 DEF NameInv

(* revm_net_accept formats the name under which it adds the entry. *)
LEMMA AcceptName ==
  ASSUME LinkInv, NameInv, revm_net_accept
  PROVE  NameInv'
<1> DEFINE c == Head(knock)
           a == addr[c]
<1>1. /\ pc = "check" /\ pc' = "input" /\ UNCHANGED <<sock, djob, cmd>>
      /\ buf' = (IF Room THEN a ELSE buf)
      /\ seen' = (IF Room THEN seen \union {a} ELSE seen)
      /\ \/ /\ Room /\ ent[a] = NULL /\ ent' = [ent EXCEPT ![a] = c]
            /\ curjob' = Broken(c, ent', buf', sock, djob)
         \/ /\ ent' = ent /\ curjob' = Broken(curjob, ent, buf', sock, djob)
  BY DEF revm_net_accept
<1>2. c \in Conn /\ a \in Addrs
  <2>1. knock \in Seq(Conn) /\ knock # <<>>
    BY DEF LinkInv, TypeOK, revm_net_accept
  <2>2. c \in Conn /\ c = knock[1] /\ Len(knock) \in Nat \ {0}
    BY <2>1, HeadTailProperties, EmptySeq
  <2>3. c \in Knocking
    BY <2>2 DEF Knocking
  <2> QED
    BY <2>2, <2>3 DEF LinkInv, Backlog, Made
<1> HIDE DEF a, c
<1>3. ent \in [Addrs -> Conn \union {NULL}] /\ ent' \in [Addrs -> Conn \union {NULL}]
  BY <1>1, <1>2 DEF LinkInv, TypeOK
<1>4. Names'
  <2>1. \A b \in Addrs : ent'[b] # NULL => ent[b] # NULL \/ (b = a /\ Room)
    BY <1>1, <1>3
  <2>2. InTable' \subseteq seen'
    BY <1>1, <2>1 DEF InTable, NameInv, Names
  <2> QED
    BY <1>1, <1>2, <2>2, Kinds DEF NameInv, Names
<1>5. Awake'
  BY <1>1 DEF Awake
<1>6. Sole'
  <2>1. cmd.from = NULL
    BY <1>1 DEF LinkInv, Current, NoCmd
  <2> SUFFICES ASSUME One'
               PROVE  curjob' \in Conn => \A b \in Addrs : ent'[b] # NULL => ent'[b] = curjob'
    BY <1>1, <2>1, Kinds DEF Sole
  <2>2. One
    BY <1>1 DEF One
  <2>3. {b \in Addrs : ent'[b] # NULL} \subseteq seen'
    BY <1>4 DEF Names, InTable
  <2>4. \A x, y \in seen' : x = y
    BY DEF One
  <2>5. CASE /\ Room /\ ent[a] = NULL /\ ent' = [ent EXCEPT ![a] = c]
             /\ curjob' = Broken(c, ent', buf', sock, djob)
    <3>1. \A b \in Addrs : ent'[b] # NULL => ent'[b] = c
      <4>1. a \in seen' /\ ent'[a] = c
        BY <1>1, <1>2, <1>3, <2>5
      <4> QED
        BY <2>3, <2>4, <4>1
    <3>2. c \in Conn => \A b \in Addrs : ent'[b] # NULL => ent'[b] = c
      BY <3>1
    <3>3. (buf' # NULL => buf' \in seen') /\ (buf' = NULL => seen' = {})
      BY <1>4 DEF Names
    <3>4. curjob' = Broken(c, ent', buf', sock, djob)
      BY <2>5
    <3> QED
      BY <1>3, <2>3, <2>4, <3>2, <3>3, <3>4, BrokenSole
  <2>6. CASE ent' = ent /\ curjob' = Broken(curjob, ent, buf', sock, djob)
    <3>1. curjob \in Conn => \A b \in Addrs : ent'[b] # NULL => ent'[b] = curjob
      BY <2>2, <2>6 DEF NameInv, Sole
    <3>2. curjob' = Broken(curjob, ent', buf', sock, djob)
      BY <2>6
    <3> QED
      BY <1>3, <1>4, <2>3, <2>4, <3>1, <3>2, BrokenSole DEF Names
  <2> QED
    BY <1>1, <2>5, <2>6
<1> QED
  BY <1>4, <1>5, <1>6 DEF NameInv

(* revm_dump_accept adds a job with nothing to execute. *)
LEMMA DumpAcceptName ==
  ASSUME LinkInv, NameInv, revm_dump_accept
  PROVE  NameInv'
<1>1. /\ pc = "check" /\ pc' = "input" /\ UNCHANGED <<ent, cmd>>
      /\ curjob' = Broken(curjob, ent, buf', sock, djob)
      /\ buf' \in Peers \union {buf} /\ seen' = seen \union ({buf'} \ {NULL})
  BY DEF revm_dump_accept, Formats
<1>2. Names' /\ (One' => One)
  <2>1. InTable' = InTable
    BY <1>1 DEF InTable
  <2>2. CASE buf' # NULL
    BY <1>1, <2>1, <2>2 DEF NameInv, Names, One
  <2>3. CASE buf' = NULL
    <3>1. buf = NULL
      BY <1>1, <2>3, Kinds
    <3> QED
      BY <1>1, <2>1, <2>3, <3>1 DEF NameInv, Names, One
  <2> QED
    BY <2>2, <2>3
<1>3. Awake'
  BY <1>1 DEF Awake
<1>4. Sole'
  <2> SUFFICES ASSUME One'
               PROVE  curjob' \in Conn => \A a \in Addrs : ent[a] # NULL => ent[a] = curjob'
    BY <1>1, <1>2 DEF Sole, NameInv
  <2>0. One
    BY <1>2
  <2>1. {b \in Addrs : ent[b] # NULL} \subseteq seen' /\ \A x, y \in seen' : x = y
    BY <1>1 DEF NameInv, Names, InTable, One
  <2>2. curjob \in Conn => \A b \in Addrs : ent[b] # NULL => ent[b] = curjob
    BY <2>0 DEF NameInv, Sole
  <2>3. ent \in [Addrs -> Conn \union {NULL}]
    BY DEF LinkInv, TypeOK
  <2>4. buf' # NULL => buf' \in seen'
    BY <1>1
  <2> QED
    BY <1>1, <1>2, <2>1, <2>2, <2>3, <2>4, BrokenSole DEF Names
<1> QED
  BY <1>2, <1>3, <1>4 DEF NameInv

(* The local job is no client. *)
LEMMA LocalJobName ==
  ASSUME LinkInv, NameInv, revm_localjob_get
  PROVE  NameInv'
<1>1. /\ pc = "check" /\ UNCHANGED <<ent, buf, seen, cmd>>
      /\ \/ NullJob(ent, buf, Pos[Local]) /\ pc' = "crashed"
         \/ pc' = "input" /\ curjob' = Local
  BY DEF revm_localjob_get
<1>2. Names' /\ One' = One
  BY <1>1 DEF NameInv, Names, InTable, One
<1>3. Awake'
  BY <1>1 DEF Awake
<1>4. Sole'
  <2> SUFFICES ASSUME One
               PROVE  pc' # "crashed" /\ curjob' \notin Conn /\ (cmd.from \in Conn => cmd.by = cmd.from)
    BY <1>1, <1>2 DEF Sole
  <2>1. ~NullJob(ent, buf, Pos[Local])
    BY NoCrash DEF NameInv
  <2> QED
    BY <1>1, <2>1, Kinds DEF NameInv, Sole
<1> QED
  BY <1>2, <1>3, <1>4 DEF NameInv

(* A command is executed for the connection that sent it. *)
LEMMA InputName ==
  ASSUME LinkInv, NameInv, Input
  PROVE  NameInv'
<1>1. CASE revm_net_input /\ ReadyEntries # {}
  <2> DEFINE a == First(ReadyEntries)
  <2>1. a \in ReadyEntries
    BY <1>1, FirstIn DEF ReadyEntries, InTable, Keys
  <2>2. a \in Addrs /\ ent[a] # NULL /\ a \in InTable
    BY <2>1 DEF ReadyEntries, InTable
  <2>3. /\ cmd' = [by |-> curjob, from |-> ent[a], text |-> sock[ent[a]].recvd]
        /\ buf' = a /\ seen' = seen \union {a} /\ pc' = "exec" /\ UNCHANGED <<ent, curjob>>
        /\ curjob \in Conn
    BY <1>1 DEF revm_net_input, TakeLine
  <2> HIDE DEF a
  <2>4. Names'
    BY <2>2, <2>3, Kinds DEF NameInv, Names, InTable
  <2>5. Awake'
    BY <2>3 DEF Awake
  <2>6. Sole'
    <3> SUFFICES ASSUME One'
                 PROVE  /\ \A b \in Addrs : ent[b] # NULL => ent[b] = curjob
                        /\ cmd'.by = cmd'.from
      BY <2>3 DEF Sole
    <3>1. One
      BY <2>3 DEF One
    <3>2. \A b \in Addrs : ent[b] # NULL => ent[b] = curjob
      BY <2>3, <3>1 DEF NameInv, Sole
    <3> QED
      BY <2>2, <2>3, <3>2
  <2> QED
    BY <2>4, <2>5, <2>6 DEF NameInv
<1>2. CASE revm_net_input /\ ReadyEntries = {}
  <2>1. pc = "input" /\ pc' = "select" /\ UNCHANGED <<cmd, buf, seen, ent, curjob>>
    BY <1>2 DEF revm_net_input, TakeLine
  <2>2. Names' /\ cmd.from = NULL
    BY <2>1 DEF NameInv, Names, InTable, LinkInv, Current, NoCmd
  <2> QED
    BY <2>1, <2>2, Kinds, LessName
<1>3. CASE revm_dump_input
  <2>1. pc' = "exec" /\ cmd'.from = curjob /\ curjob \in Peers /\ UNCHANGED <<buf, seen, ent, curjob>>
    BY <1>3 DEF revm_dump_input
  <2>2. Names'
    BY <2>1 DEF NameInv, Names, InTable
  <2> QED
    BY <2>1, <2>2, Kinds, LessName
<1>4. CASE revm_stdinput
  <2>1. /\ pc = "input" /\ pc' \in {"exec", "select"} /\ UNCHANGED <<buf, seen, ent, curjob>>
        /\ cmd' = cmd \/ cmd'.from = Local
    BY <1>4 DEF revm_stdinput
  <2>2. Names' /\ cmd.from = NULL
    BY <2>1 DEF NameInv, Names, InTable, LinkInv, Current, NoCmd
  <2> QED
    BY <2>1, <2>2, Kinds, LessName
<1> QED
  BY <1>1, <1>2, <1>3, <1>4 DEF Input

(* Commands add no entry. *)
LEMMA ExecName ==
  ASSUME LinkInv, NameInv, Exec
  PROVE  NameInv'
<1>1. pc = "exec" /\ pc' # "wait" /\ Executed /\ curjob' = curjob
  BY DEF Exec, Plain, DumpCommand, Netlist, Quit, Netkill
<1>2. cmd'.from \notin Conn
  BY <1>1, Kinds DEF Executed, NoCmd
<1>3. ent \in [Addrs -> Conn \union {NULL}]
  BY DEF LinkInv, TypeOK
<1>4. CASE UNCHANGED <<ent, buf, seen>>
  <2>1. Names' /\ One' = One
    BY <1>4 DEF NameInv, Names, InTable, One
  <2>2. One => pc' # "crashed"
    <3>1. One => ~NullJob(ent, buf, Beyond)
      BY NoCrash DEF NameInv
    <3> QED
      BY <3>1 DEF Exec, Plain, DumpCommand, Netlist, Quit, Netkill
  <2> QED
    BY <1>1, <1>2, <1>4, <2>1, <2>2, LessName
<1>5. ASSUME NEW a \in Addrs \union Peers, buf' = a, seen' = seen \union {a}, pc' # "crashed",
             ent' \in {ent, [ent EXCEPT ![a] = NULL]}
      PROVE  NameInv'
  <2>1. \A b \in Addrs : ent'[b] \in {NULL, ent[b]}
    BY <1>3, <1>5
  <2>2. InTable' \subseteq InTable
    BY <2>1 DEF InTable
  <2>3. Names'
    BY <1>5, <2>2, Kinds DEF NameInv, Names
  <2> QED
    BY <1>1, <1>2, <1>5, <2>1, <2>3, LessName
<1>6. CASE Plain \/ Netlist
  BY <1>4, <1>6 DEF Plain, Netlist
<1>9. CASE DumpCommand
  <2>1. PICK x \in Peers : Formats(x)
    BY <1>9 DEF DumpCommand
  <2>2. buf' = x /\ seen' = seen \union {x}
    BY <2>1, Kinds DEF Formats
  <2>3. pc' = "select" /\ ent' = ent
    BY <1>9 DEF DumpCommand
  <2> QED
    BY <1>5, <2>2, <2>3
<1>7. CASE Quit
  <2>1. CASE curjob \in Conn
    <3>1. addr[curjob] \in Addrs
      BY <2>1 DEF LinkInv, Current
    <3>2. /\ buf' = addr[curjob] /\ seen' = seen \union {addr[curjob]} /\ pc' # "crashed"
          /\ ent' \in {ent, [ent EXCEPT ![addr[curjob]] = NULL]}
      BY <1>7, <2>1 DEF Quit, revm_socket_del
    <3> QED
      BY <1>5, <3>1, <3>2
  <2>2. CASE curjob \notin Conn
    BY <1>4, <1>7, <2>2 DEF Quit
  <2> QED
    BY <2>1, <2>2
<1>8. ASSUME NEW a \in Addrs, Netkill(a)
      PROVE  NameInv'
  <2>1. CASE ByText(a) # NULL
    <3>1. buf' = a /\ seen' = seen \union {a} /\ pc' = "select" /\ ent' = [ent EXCEPT ![a] = NULL]
      BY <1>8, <2>1 DEF Netkill, revm_socket_del
    <3> QED
      BY <1>5, <3>1
  <2>2. CASE ByText(a) = NULL
    BY <1>4, <1>8, <2>2 DEF Netkill
  <2> QED
    BY <2>1, <2>2
<1> QED
  BY <1>6, <1>7, <1>8, <1>9 DEF Exec

(* NameInv is inductive relative to LinkInv. *)
LEMMA NextName == LinkInv /\ NameInv /\ [Next]_vars => NameInv'
<1> SUFFICES ASSUME LinkInv, NameInv, [Next]_vars
             PROVE  NameInv'
  OBVIOUS
<1>1. CASE Client \/ DumpNode \/ UNCHANGED vars
  <2>1. UNCHANGED <<ent, buf, seen, pc, fds, sock, djob, curjob, cmd>>
    <3>1. CASE Client
      BY <3>1 DEF Client, Connect, Write, Leave
    <3>2. CASE DumpNode
      BY <3>2 DEF DumpNode, DumpSend
    <3>3. CASE UNCHANGED vars
      BY <3>3 DEF vars
    <3> QED
      BY <1>1, <3>1, <3>2, <3>3
  <2> QED
    BY <2>1, QuietName
<1>2. CASE TerminalWakes \/ NetworkWakes
  BY <1>2, RecvdName DEF TerminalWakes, NetworkWakes
<1>3. CASE Select \/ revm_net_accept \/ revm_dump_accept \/ revm_localjob_get
  BY <1>3, SelectName, AcceptName, DumpAcceptName, LocalJobName
<1>4. CASE Input \/ Exec
  BY <1>4, InputName, ExecName
<1> QED
  BY <1>1, <1>2, <1>3, <1>4 DEF Next, Server

(* seen is finite, so counting its elements and comparing them is the same. *)
LEMMA OneIsOneAddress ==
  ASSUME LinkInv
  PROVE  OneAddress <=> One
<1>1. IsFiniteSet(seen)
  BY NetJobsAssumption, FS_Subset DEF LinkInv, TypeOK, Keys
<1>2. ASSUME One
      PROVE  OneAddress
  <2>1. CASE seen = {}
    BY <2>1, FS_EmptySet DEF OneAddress
  <2>2. CASE seen # {}
    <3>1. PICK x \in seen : TRUE
      BY <2>2
    <3>2. seen = {x}
      BY <1>2, <3>1 DEF One
    <3>3. Cardinality(seen) = 1
      BY <3>2, FS_Singleton
    <3> QED
      BY <3>3 DEF OneAddress
  <2> QED
    BY <2>1, <2>2
<1>3. ASSUME OneAddress
      PROVE  One
  <2> SUFFICES ASSUME NEW x \in seen, NEW y \in seen, x # y
               PROVE  FALSE
    BY DEF One
  <2>1. {x, y} \subseteq seen
    OBVIOUS
  <2>2. Cardinality({x}) = 1 /\ IsFiniteSet({x})
    BY FS_Singleton
  <2>3. Cardinality({x} \union {y}) = 2 /\ IsFiniteSet({x} \union {y})
    BY <2>2, FS_AddElement
  <2>4. Cardinality({x} \union {y}) <= Cardinality(seen)
    BY <1>1, <2>1, FS_Subset
  <2>5. Cardinality(seen) \in Nat
    BY <1>1, FS_CardinalityType
  <2> QED
    BY <1>3, <2>3, <2>4, <2>5 DEF OneAddress
<1> QED
  BY <1>2, <1>3

(* NameInv holds of every behaviour: the buffer of inet_ntoa names one of the
   addresses formatted so far, and no others are in the table. *)
THEOREM Name == Spec => [](LinkInv /\ NameInv)
<1>1. Init => LinkInv /\ NameInv
  BY InitLink, InitName
<1>2. LinkInv /\ NameInv /\ [Next]_vars => (LinkInv /\ NameInv)'
  BY NextLink, NextName
<1> QED
  BY <1>1, <1>2, PTL DEF Spec

(* The process never sleeps on a DUMP command, and with a single address
   formatted it never sleeps on a client's complete line nor leaves a
   client's socket out of the set that select watches. *)
THEOREM Watchful == Spec => []NoSleepOnWork
<1>1. LinkInv /\ NameInv => NoSleepOnWork
  BY OneIsOneAddress DEF NameInv, Awake, NoSleepOnWork
<1> QED
  BY <1>1, Name, PTL

(* With a single address formatted, no lookup of a job fails and a client's
   command is executed in that client's job. *)
THEOREM SoleClient == Spec => []SoleClientServed
<1>1. LinkInv /\ NameInv => SoleClientServed
  BY OneIsOneAddress DEF NameInv, Sole, SoleClientServed
<1> QED
  BY <1>1, Name, PTL
=============================================================================
