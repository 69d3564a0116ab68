------------------------------ MODULE DumpNet ------------------------------
(***************************************************************************)
(* The DUMP overlay of ERESI (src/libdump): every ERESI server is a node    *)
(* that keeps TCP connections to a few neighbours and reaches the others by *)
(* source routing.  dump_send() parks the message in a wait queue and       *)
(* floods a route request (RR); the node that owns the destination id       *)
(* answers with a route reply (Rr) that walks the recorded path backwards;  *)
(* when the reply is back the parked message leaves as a DATA packet that   *)
(* carries the path.                                                        *)
(*                                                                          *)
(* A node is single threaded: revm_select() calls one handler at a time, so *)
(* every handler is one action.  Connections are TCP: reliable, FIFO, and   *)
(* either end may close.  A socket is named by its connection number, which *)
(* is never reused, so that a stale descriptor is visible as such; 0 is "no *)
(* socket", as in the code.                                                 *)
(***************************************************************************)
EXTENDS Naturals, Sequences, FiniteSets

CONSTANTS
  Nodes,           \* processes that run libdump
  Ids,             \* IP addresses
  INADDR_ANY,      \* 0.0.0.0, the id no interface has
  Addr,            \* Addr[n][m]: address of n's end of a connection to m
  InitConn,        \* connections established and accepted at the start
  MayConnect,      \* <<n, m>>: the user of n may issue "connect m"
  NConns,          \* bound: connections ever opened
  SendTo,          \* <<n, id>>: the user of n may send to id
  MaxSends,        \* bound: calls of dump_send
  MaxDisconnects,  \* bound: "discon" commands
  MaxSplits,       \* bound: packets that arrive in two pieces
  MaxExpiries,     \* bound: cleanings that find old entries
  FreedReads       \* what a freed packet's dst reads as: {"garbage", "kept"}

Conns == 1..NConns
Slots == 1..MaxSends

ASSUME ConstantsAssumption ==
  /\ INADDR_ANY \notin Ids
  /\ Addr \in [Nodes -> [Nodes -> Ids]]
  /\ \A n, m, p, q \in Nodes : Addr[n][m] = Addr[p][q] => n = p
  /\ NConns \in Nat /\ MaxSends \in Nat /\ MaxDisconnects \in Nat
  /\ MaxSplits \in Nat /\ MaxExpiries \in Nat
  /\ InitConn \in Seq(Nodes \X Nodes) /\ Len(InitConn) <= NConns
  /\ \A c \in DOMAIN InitConn :
       /\ InitConn[c][1] # InitConn[c][2]
       /\ \A d \in DOMAIN InitConn :
            {InitConn[c][1], InitConn[c][2]} = {InitConn[d][1], InitConn[d][2]}
               => c = d
  /\ MayConnect \subseteq Nodes \X Nodes
  /\ \A p \in MayConnect : p[1] # p[2]
  /\ SendTo \subseteq Nodes \X Ids
  /\ FreedReads \subseteq {"garbage", "kept"} /\ FreedReads # {}

VARIABLES
  conn,       \* conn[c]: <<initiator, acceptor>>, or <<>> while c is unused
  opened,     \* opened[c]: nodes whose end of c is open
  backlog,    \* connections the acceptor has not accepted yet
  chan,       \* chan[c][n]: packets sent to n over c and not read yet
  ports,      \* ports[n][id]: dump_world.ports, socket of neighbour id or 0
  myids,      \* myids[n][c]: dump_world.myids, own id on c or INADDR_ANY
  RRseen,     \* dump_world.RRrecently_seen
  Rrseen,     \* dump_world.Rrrecently_seen
  send_wq,    \* dump_world.send_wq, a sequence of packet pointers
  heap,       \* heap[n][s]: the packet at s and whether s is allocated
  fresh,      \* fresh[n]: packet ids drawn by dump_mk_pkt_id so far
  up,         \* up[n]: the process has not exited
  delivered,  \* <<n, id>>: DATA packet id was handed to n's application
  used        \* how much of every bound is used up

links  == <<conn, opened, backlog, ports, myids>>
tables == <<RRseen, Rrseen, fresh>>
queue  == <<send_wq, heap>>
vars == <<conn, opened, backlog, chan, ports, myids, RRseen, Rrseen, send_wq,
          heap, fresh, up, delivered, used>>

(***************************************************************************)
(* Packets.  A packet id is a 31-bit random number; here it is unique:      *)
(* the node that drew it, how many draws preceded it, and the socket it is  *)
(* first sent on (dump_send draws one id per neighbour).                    *)
(***************************************************************************)
PktIds == Nodes \X Nat \X (Conns \cup {0})
AnyIds == Ids \cup {INADDR_ANY}
Packet == [type : {"RR", "Rr"}, src : Ids, dst : Ids, id : PktIds,
           path : Seq(Ids)]
          \cup
          [type : {"DATA"}, src : AnyIds, dst : Ids, id : PktIds,
           path : Seq(Ids)]

dump_mk_pkt_id(n, c) == <<n, fresh[n], c>>

Peer(c, n) == IF conn[c][1] = n THEN conn[c][2] ELSE conn[c][1]

(***************************************************************************)
(* Tables of a node.                                                        *)
(***************************************************************************)
dump_lookup_neighbor(n, a) == IF a \in Ids THEN ports[n][a] ELSE 0

dump_is_myid(n, a) == a \in Ids /\ \E c \in Conns : myids[n][c] = a

Registered(n, c) == c # 0 /\ \E a \in Ids : ports[n][a] = c

\* The answers dump_get_myid(s) can give: with s = 0 the first id of the hash
\* table, which may be any.
dump_get_myid(n, s) ==
  LET own == {a \in Ids : dump_is_myid(n, a)}
  IN  IF s = 0 THEN IF own = {} THEN {INADDR_ANY} ELSE own ELSE {myids[n][s]}

(***************************************************************************)
(* dump_send_real: write to a socket.  Post is the effect on the channels   *)
(* q when n writes out[c] on every socket c of DOMAIN out: what is written  *)
(* to a connection the peer has closed is lost.  Such a write may also fail,*)
(* and then the process exits at once, between two writes of a flood.       *)
(***************************************************************************)
Reaches(c, n) == Peer(c, n) \in opened[c]

Post(q, n, out) ==
  [c \in Conns |->
     IF c \in DOMAIN out /\ Reaches(c, n)
     THEN [q[c] EXCEPT ![Peer(c, n)] = @ \o out[c]]
     ELSE q[c]]

Exit(n) ==
  /\ up' = [up EXCEPT ![n] = FALSE]
  /\ opened' = [c \in Conns |-> opened[c] \ {n}]

dump_send_real(q, n, out) ==
  \/ /\ chan' = Post(q, n, out)
     /\ UNCHANGED <<up, opened>>
  \/ \E c \in DOMAIN out :
       /\ ~Reaches(c, n)
       /\ \E done \in SUBSET (DOMAIN out \ {c}) :
            chan' = Post(q, n, [d \in done |-> out[d]])
       /\ Exit(n)

(***************************************************************************)
(* dump_send: park the message, then send a route request to every          *)
(* neighbour, each with an id of its own.                                   *)
(***************************************************************************)
dump_send(n, dst) ==
  /\ up[n]
  /\ <<n, dst>> \in SendTo
  /\ used.send < MaxSends
  /\ \E s \in Slots, src \in dump_get_myid(n, 0) :
       /\ ~heap[n][s].live
       /\ heap' = [heap EXCEPT ![n][s] =
            [live |-> TRUE, dst |-> dst, src |-> src,
             id |-> dump_mk_pkt_id(n, 0)]]
       /\ send_wq' = [send_wq EXCEPT ![n] = Append(@, s)]
  /\ LET socks == {c \in Conns : Registered(n, c)}
         out == [c \in socks |->
                  <<[type |-> "RR", src |-> myids[n][c], dst |-> dst,
                     id |-> dump_mk_pkt_id(n, c), path |-> <<myids[n][c]>>]>>]
     IN  dump_send_real(chan, n, out)
  /\ fresh' = [fresh EXCEPT ![n] = @ + 1]
  /\ used' = [used EXCEPT !.send = @ + 1]
  /\ UNCHANGED <<conn, backlog, ports, myids, RRseen, Rrseen, delivered>>

(***************************************************************************)
(* The packet handlers.  q is chan without the packet p being handled; RRs  *)
(* and Rrs are the node's recently seen tables after the cleaning that      *)
(* precedes every reception.                                                *)
(***************************************************************************)
\* dump_lookup_RR_recently_seen, and dump_lookup_Rr_recently_seen too: it
\* searches the RR table, so that the Rr table is written and never read.
NeverSeen(id, RRs) == FALSE
dump_lookup_RR_recently_seen(id, RRs) == id \in RRs

First(S) == CHOOSE i \in S : \A j \in S : i <= j
Last(S)  == CHOOSE i \in S : \A j \in S : i >= j

\* Indices of the hops of p's path that are this node.
OwnHops(n, p) == {i \in DOMAIN p.path : dump_is_myid(n, p.path[i])}

\* Where a request goes on: to every neighbour but the one it came from.
FloodBack(n, prev) == {c \in Conns : prev \in Ids /\ ports[n][prev] = c}
FloodTargets(n, prev) == {c \in Conns : \E a \in Ids \ {prev} : ports[n][a] = c}

dump_receive_RR(q, n, p, RRs, Rrs) ==
  LET prev  == p.path[Len(p.path)]
      back  == dump_lookup_neighbor(n, prev)
      mine  == dump_is_myid(n, p.dst)
      dup   == dump_lookup_RR_recently_seen(p.id, RRs)
      reply == [type |-> "Rr", src |-> p.dst, dst |-> p.src,
                id |-> dump_mk_pkt_id(n, 0),
                path |-> Append(p.path, myids[n][back])]
      out   == IF dup \/ p.path = <<>> THEN <<>>
               ELSE IF mine THEN [c \in {back} \ {0} |-> <<reply>>]
               ELSE [c \in FloodTargets(n, prev) |->
                       <<[p EXCEPT !.path = Append(@, myids[n][c])]>>]
  IN  /\ RRseen' = [RRseen EXCEPT ![n] = RRs \cup {p.id}]
      /\ Rrseen' = [Rrseen EXCEPT ![n] = Rrs]
      /\ fresh' = [fresh EXCEPT ![n] = IF mine /\ ~dup THEN @ + 1 ELSE @]
      /\ dump_send_real(q, n, out)
      /\ UNCHANGED <<queue, delivered>>

\* The heap of n after XFREE of the packets in the slots S.
LeakPackets(n, S) == heap[n]
XFREE(n, S) == [s \in Slots |-> [heap[n][s] EXCEPT !.live = @ /\ s \notin S]]

\* The node is where the reply goes: while a parked packet for p.src is found
\* it gets the path of the reply, is sent and is freed.  XFREE clears the
\* pointer, so that dump_del_send_queue is called with NULL and unlinks
\* nothing: the entry stays and its packet is freed memory.  Reading the dst
\* of a freed packet gives an id no node has ("garbage", where the allocator
\* overwrites it) or its last value ("kept"); in the latter case the packet is
\* found again, its data pointer is NULL, and sending it is a fault.
SendWaiting(q, n, p) ==
  LET wq    == send_wq[n]
      hop   == dump_lookup_neighbor(n, p.path[2])
      found == {i \in DOMAIN wq : heap[n][wq[i]].dst = p.src}
      live  == {i \in found : heap[n][wq[i]].live}
      firsts == {i \in live : \A j \in 1..(i - 1) : wq[j] # wq[i]}
      data(i) == LET e == heap[n][wq[i]]
                 IN  [type |-> "DATA", src |-> e.src, dst |-> e.dst,
                      id |-> e.id, path |-> p.path]
      Free(is) == heap' = [heap EXCEPT ![n] = XFREE(n, {wq[i] : i \in is})]
  IN  \E read \in FreedReads :
        IF read = "garbage"
        THEN IF live = {} \/ hop # 0
             THEN /\ \E order \in [1..Cardinality(firsts) -> firsts] :
                       /\ \A j, k \in DOMAIN order : j < k => order[j] < order[k]
                       /\ dump_send_real(q, n,
                            [c \in IF live = {} THEN {} ELSE {hop} |->
                               [k \in DOMAIN order |-> data(order[k])]])
                  /\ Free(live)
             ELSE chan' = q /\ Exit(n) /\ UNCHANGED heap
        ELSE IF found = {}
             THEN chan' = q /\ UNCHANGED <<up, opened, heap>>
             ELSE LET i == First(found)
                  IN  /\ chan' = Post(q, n,
                           [c \in IF i \in live /\ hop # 0 THEN {hop} ELSE {} |->
                              <<data(i)>>])
                      /\ Free({i})
                      /\ Exit(n)

\* The forwarder puts its id on the outgoing socket in the path.
KeepHop(p, i, a) == p
UpdateHop(p, i, a) == [p EXCEPT !.path[i] = a]

dump_receive_Rr(q, n, p, RRs, Rrs) ==
  LET hops == OwnHops(n, p)
      i    == First(hops)
      s    == dump_lookup_neighbor(n, p.path[i - 1])
  IN  /\ RRseen' = [RRseen EXCEPT ![n] = RRs]
      /\ UNCHANGED <<fresh, send_wq, delivered>>
      /\ IF dump_lookup_RR_recently_seen(p.id, RRs)
         THEN /\ Rrseen' = [Rrseen EXCEPT ![n] = Rrs]
              /\ chan' = q
              /\ UNCHANGED <<up, opened, heap>>
         ELSE /\ Rrseen' = [Rrseen EXCEPT ![n] = Rrs \cup {p.id}]
              /\ CASE p.path = <<>> ->
                        chan' = q /\ UNCHANGED <<up, opened, heap>>
                   [] p.path # <<>> /\ dump_is_myid(n, p.dst) ->
                        SendWaiting(q, n, p)
                   [] OTHER ->
                        /\ dump_send_real(q, n,
                             [c \in IF hops = {} \/ i = 1 THEN {}
                                    ELSE {s} \ {0} |->
                                <<UpdateHop(p, i, myids[n][c])>>])
                        /\ UNCHANGED heap

\* The search for the own hop starts at path[path_len], one past the end.  XALLOC
\* is calloc: the word there is padding, which is zero, or the size of the next
\* chunk, neither of which is an id of a node; the search goes on with the last
\* hop.
dump_receive_DATA(q, n, p, RRs, Rrs) ==
  LET hops == OwnHops(n, p)
      i    == Last(hops)
      mine == dump_is_myid(n, p.dst)
      s    == IF i = Len(p.path) THEN 0
              ELSE dump_lookup_neighbor(n, p.path[i + 1])
  IN  /\ RRseen' = [RRseen EXCEPT ![n] = RRs]
      /\ Rrseen' = [Rrseen EXCEPT ![n] = Rrs]
      /\ delivered' = IF p.path # <<>> /\ mine
                      THEN delivered \cup {<<n, p.id>>} ELSE delivered
      /\ dump_send_real(q, n,
           [c \in IF p.path = <<>> \/ mine \/ hops = {} THEN {}
                  ELSE {s} \ {0} |-> <<p>>])
      /\ UNCHANGED <<queue, fresh>>

(***************************************************************************)
(* dump_receive_cb on a readable socket of dump_world.ports: clean the      *)
(* recently seen tables, read a packet, dispatch on its type.               *)
(***************************************************************************)
\* The entries found older than DUMP_RS_LIMIT: any set, because entries go in
\* the order of the hash table, one after a deleted one being skipped.
dump_clean_recently_seen(n) ==
  IF used.expire < MaxExpiries THEN SUBSET (RRseen[n] \cup Rrseen[n]) ELSE {{}}

dump_receive_cb(n, c) ==
  /\ up[n] /\ Registered(n, c) /\ chan[c][n] # <<>>
  /\ \E old \in dump_clean_recently_seen(n) :
       LET p   == Head(chan[c][n])
           q   == [chan EXCEPT ![c][n] = Tail(@)]
           RRs == RRseen[n] \ old
           Rrs == Rrseen[n] \ old
       IN  /\ used' = IF old = {} THEN used ELSE [used EXCEPT !.expire = @ + 1]
           /\ \/ p.type = "RR"   /\ dump_receive_RR(q, n, p, RRs, Rrs)
              \/ p.type = "Rr"   /\ dump_receive_Rr(q, n, p, RRs, Rrs)
              \/ p.type = "DATA" /\ dump_receive_DATA(q, n, p, RRs, Rrs)
  /\ UNCHANGED <<conn, backlog, ports, myids>>

(***************************************************************************)
(* Connections.                                                             *)
(***************************************************************************)
KeepMyid(n, c) ==
  /\ Registered(n, c)
  /\ ports' = [ports EXCEPT ![n] =
                 [a \in Ids |-> IF ports[n][a] = c THEN 0 ELSE ports[n][a]]]
  /\ opened' = [opened EXCEPT ![c] = @ \ {n}]
  /\ UNCHANGED myids
NoClose(n, c) ==
  /\ Registered(n, c)
  /\ myids' = [myids EXCEPT ![n][c] = INADDR_ANY]
  /\ ports' = [ports EXCEPT ![n] =
                 [a \in Ids |-> IF ports[n][a] = c THEN 0 ELSE ports[n][a]]]
  /\ UNCHANGED opened
dump_disconnect(n, c) ==
  /\ Registered(n, c)
  /\ myids' = [myids EXCEPT ![n][c] = INADDR_ANY]
  /\ ports' = [ports EXCEPT ![n] =
                 [a \in Ids |-> IF ports[n][a] = c THEN 0 ELSE ports[n][a]]]
  /\ opened' = [opened EXCEPT ![c] = @ \ {n}]

\* dump_recv_pkt fails: the peer has closed and everything it sent was read, or
\* only a part of a packet has arrived.  The test of EAGAIN looks at the return
\* value and not at errno, so the rest of the packet is not waited for.
ReceiveFails(n, c) ==
  /\ up[n] /\ Registered(n, c)
  /\ \/ chan[c][n] = <<>> /\ ~Reaches(c, n) /\ UNCHANGED used
     \/ /\ chan[c][n] # <<>> /\ used.split < MaxSplits
        /\ used' = [used EXCEPT !.split = @ + 1]
  /\ dump_disconnect(n, c)
  /\ UNCHANGED <<conn, backlog, chan, tables, queue, up, delivered>>

dump_disconnect_host(n, m) ==
  /\ up[n] /\ used.disconnect < MaxDisconnects
  /\ used' = [used EXCEPT !.disconnect = @ + 1]
  /\ dump_disconnect(n, dump_lookup_neighbor(n, Addr[m][n]))
  /\ UNCHANGED <<conn, backlog, chan, tables, queue, up, delivered>>

\* connect() has succeeded when the kernel of m has queued the connection,
\* whether or not m ever accepts it.
dump_connect_to(n, m) ==
  /\ up[n] /\ up[m]
  /\ <<n, m>> \in MayConnect
  /\ dump_lookup_neighbor(n, Addr[m][n]) = 0
  /\ ~dump_is_myid(n, Addr[m][n])
  /\ \E c \in Conns :
       /\ conn[c] = <<>>
       /\ \A d \in 1..(c - 1) : conn[d] # <<>>
       /\ conn' = [conn EXCEPT ![c] = <<n, m>>]
       /\ opened' = [opened EXCEPT ![c] = {n, m}]
       /\ backlog' = backlog \cup {c}
       /\ ports' = [ports EXCEPT ![n][Addr[m][n]] = c]
       /\ myids' = [myids EXCEPT ![n][c] = Addr[n][m]]
  /\ UNCHANGED <<chan, tables, queue, up, delivered, used>>

\* accept() takes the connection that has waited longest; connections are
\* numbered in the order in which they were made.
AcceptWithoutId(m, c) ==
  /\ up[m] /\ c \in backlog /\ conn[c][2] = m
  /\ \A d \in backlog : conn[d][2] = m => c <= d
  /\ backlog' = backlog \ {c}
  /\ ports' = [ports EXCEPT ![m][Addr[conn[c][1]][m]] = c]
  /\ UNCHANGED <<conn, opened, myids, chan, tables, queue, up, delivered, used>>
revm_dump_accept(m, c) ==
  /\ up[m] /\ c \in backlog /\ conn[c][2] = m
  /\ \A d \in backlog : conn[d][2] = m => c <= d
  /\ backlog' = backlog \ {c}
  /\ myids' = [myids EXCEPT ![m][c] = Addr[m][conn[c][1]]]
  /\ ports' = [ports EXCEPT ![m][Addr[conn[c][1]][m]] = c]
  /\ UNCHANGED <<conn, opened, chan, tables, queue, up, delivered, used>>

-----------------------------------------------------------------------------
InitEnd(n, c) == c \in DOMAIN InitConn /\ n \in {InitConn[c][1], InitConn[c][2]}
InitPeer(n, c) == IF InitConn[c][1] = n THEN InitConn[c][2] ELSE InitConn[c][1]

\* After dump_init and after the connections of InitConn were made.
Init ==
  /\ conn = [c \in Conns |-> IF c \in DOMAIN InitConn THEN InitConn[c] ELSE <<>>]
  /\ opened = [c \in Conns |-> {n \in Nodes : InitEnd(n, c)}]
  /\ backlog = {}
  /\ chan = [c \in Conns |-> [n \in Nodes |-> <<>>]]
  /\ ports = [n \in Nodes |-> [a \in Ids |->
       LET cs == {c \in Conns : InitEnd(n, c) /\ Addr[InitPeer(n, c)][n] = a}
       IN  IF cs = {} THEN 0 ELSE CHOOSE c \in cs : TRUE]]
  /\ myids = [n \in Nodes |-> [c \in Conns |->
       IF InitEnd(n, c) THEN Addr[n][InitPeer(n, c)] ELSE INADDR_ANY]]
  /\ RRseen = [n \in Nodes |-> {}]
  /\ Rrseen = [n \in Nodes |-> {}]
  /\ send_wq = [n \in Nodes |-> <<>>]
  /\ heap = [n \in Nodes |-> [s \in Slots |->
       [live |-> FALSE, dst |-> INADDR_ANY, src |-> INADDR_ANY,
        id |-> <<n, 0, 0>>]]]
  /\ fresh = [n \in Nodes |-> 1]
  /\ up = [n \in Nodes |-> TRUE]
  /\ delivered = {}
  /\ used = [send |-> 0, disconnect |-> 0, split |-> 0, expire |-> 0]

Receive == \E n \in Nodes, c \in Conns : dump_receive_cb(n, c)

Next ==
  \/ \E n \in Nodes, a \in Ids : dump_send(n, a)
  \/ Receive
  \/ \E n \in Nodes, c \in Conns : ReceiveFails(n, c)
  \/ \E n, m \in Nodes : dump_disconnect_host(n, m)
  \/ \E n, m \in Nodes : dump_connect_to(n, m)
  \/ \E n \in Nodes, c \in Conns : revm_dump_accept(n, c)

\* select() reports a readable socket until it is read and revm_net_recvd serves
\* what select() reports.  Floods are finite, so it is enough to assume that some
\* packet is read as long as one can be.
Readable   == \E n \in Nodes, c \in Conns : up[n] /\ Registered(n, c) /\ chan[c][n] # <<>>
PacketRead == \E n \in Nodes, c \in Conns : Len(chan'[c][n]) < Len(chan[c][n])

Fairness == []<>~Readable \/ []<><<PacketRead>>_chan

Spec == Init /\ [][Next]_vars

FairSpec == Spec /\ Fairness

-----------------------------------------------------------------------------
(***************************************************************************)
(* Properties.                                                              *)
(***************************************************************************)
\* Type invariant: every table, queue and channel of libdump holds what its
\* declaration in libdump.h says.
TypeOK ==
  /\ conn \in [Conns -> (Nodes \X Nodes) \cup {<<>>}]
  /\ opened \in [Conns -> SUBSET Nodes]
  /\ backlog \subseteq Conns
  /\ chan \in [Conns -> [Nodes -> Seq(Packet)]]
  /\ ports \in [Nodes -> [Ids -> Conns \cup {0}]]
  /\ myids \in [Nodes -> [Conns -> AnyIds]]
  /\ RRseen \in [Nodes -> SUBSET PktIds]
  /\ Rrseen \in [Nodes -> SUBSET PktIds]
  /\ send_wq \in [Nodes -> Seq(Slots)]
  /\ heap \in [Nodes -> [Slots -> [live : BOOLEAN, dst : AnyIds, src : AnyIds,
                                  id : PktIds]]]
  /\ fresh \in [Nodes -> Nat]
  /\ up \in [Nodes -> BOOLEAN]
  /\ delivered \subseteq Nodes \X PktIds
  /\ used \in [send : Nat, disconnect : Nat, split : Nat, expire : Nat]

\* The tables of a running node describe its open sockets and nothing else: a
\* neighbour's entry leads to a connection this node holds open to the owner of
\* that id, on which it has the own id the path needs; no own id survives its
\* socket.  dump_connect_to, revm_dump_accept and dump_disconnect keep the
\* three in step although an accepted connection may take over the entry of one
\* that is still open (dump.c 430-575, network.c 555-601).
LinkTables ==
  \A n \in Nodes : up[n] =>
    /\ \A a \in Ids : ports[n][a] # 0 =>
         LET c == ports[n][a] IN
         /\ conn[c] # <<>> /\ n \in {conn[c][1], conn[c][2]}
         /\ n \in opened[c]
         /\ a = Addr[Peer(c, n)][n]
         /\ myids[n][c] = Addr[n][Peer(c, n)]
    /\ \A c \in Conns : myids[n][c] # INADDR_ANY => n \in opened[c]

Owner(a) == CHOOSE n \in Nodes : \E m \in Nodes : Addr[n][m] = a

\* A message exists in one place: parked at its sender, travelling, or handed
\* over.  Two route replies for one destination, or one reply that releases
\* several messages, do not duplicate it (recv.c 330-363).
SingleCopy ==
  LET parked == {x \in Nodes \X Slots : heap[x[1]][x[2]].live}
      Data(c, n) == {k \in DOMAIN chan[c][n] : chan[c][n][k].type = "DATA"}
  IN  /\ \A x, y \in parked : heap[x[1]][x[2]].id = heap[y[1]][y[2]].id => x = y
      /\ \A x, y \in delivered : x[2] = y[2] => x = y
      /\ \A x \in parked, y \in delivered : heap[x[1]][x[2]].id # y[2]
      /\ \A c \in Conns, n \in Nodes : \A k \in Data(c, n) :
           LET p == chan[c][n][k] IN
           /\ \A x \in parked : heap[x[1]][x[2]].id # p.id
           /\ \A x \in delivered : x[2] # p.id
           /\ \A d \in Conns, m \in Nodes : \A j \in Data(d, m) :
                chan[d][m][j].id = p.id => c = d /\ n = m /\ k = j

\* No route visits a node twice, except that the source may be passed once
\* more: dump_send does not enter its own requests in the recently seen table.
\* Holds while no entry of that table has expired.
LoopFree ==
  used.expire = 0 => \A c \in Conns, n \in Nodes : \A k \in DOMAIN chan[c][n] :
    LET path == chan[c][n][k].path IN
    /\ \A i, j \in DOMAIN path :
         i < j /\ Owner(path[i]) = Owner(path[j]) => i = 1
    /\ Cardinality({i \in DOMAIN path : Owner(path[i]) = Owner(path[1])}) <= 2

\* On connections that stay up, the hop a reply or a DATA packet is handed to
\* finds itself in the path and knows the next hop, so that "[EE] error in
\* path", "error while forwarding packet" and exit(-1) of recv.c 342-348,
\* 395-399 and 439-446 are not reached, even when the source or, after
\* expiries at two nodes, any node occurs twice in the path.  Holds when every node has one
\* address.  With one address per connection it depends on the network: a source
\* on a cycle that has another neighbour besides floods a request that came home
\* once more, and a reply to it may be back before the nodes of the cycle have put
\* the addresses of their links to the source in the path; the source then does
\* not know path[2] and exits.
RouteSound ==
  \A c \in Conns, n \in Nodes : \A k \in DOMAIN chan[c][n] :
    LET p == chan[c][n][k]
        hops == OwnHops(n, p)
    IN  CASE p.type = "RR" -> dump_lookup_neighbor(n, p.path[Len(p.path)]) # 0
          [] p.type = "Rr" ->
               IF dump_is_myid(n, p.dst)
               THEN dump_lookup_neighbor(n, p.path[2]) # 0
               ELSE /\ hops # {} /\ First(hops) > 1
                    /\ dump_lookup_neighbor(n, p.path[First(hops) - 1]) # 0
          [] OTHER ->
               \/ dump_is_myid(n, p.dst)
               \/ /\ hops # {} /\ Last(hops) < Len(p.path)
                  /\ dump_lookup_neighbor(n, p.path[Last(hops) + 1]) # 0

\* Both ends of a connection that was accepted and that both hold open have it as
\* the way to each other: neither writes where the other does not listen
\* (revm_net_recvd serves the sockets of dump_world.ports only).  Holds when of
\* two nodes only one issues "connect".
NeighboursAgree ==
  \A c \in Conns : Cardinality(opened[c]) = 2 /\ c \notin backlog =>
    \A n \in opened[c] : ports[n][Addr[Peer(c, n)][n]] = c

\* Every message given to dump_send is handed to the application of its
\* destination, on connections that stay up and when every readable socket is
\* served: the flood reaches the destination, the first reply finds its way back
\* and the message its way out.
AllDelivered == []<>(Cardinality(delivered) = used.send)
=============================================================================
