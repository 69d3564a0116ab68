--------------------------- MODULE DumpNet_proofs ---------------------------
(***************************************************************************)
(* The link tables of DumpNet, for every network and every bound.           *)
(***************************************************************************)
EXTENDS DumpNet, FiniteSetTheorems, TLAPS

(***************************************************************************)
(* LinkTables is not inductive: that an accepted connection is open on the  *)
(* acceptor's side, and that a connection is registered under one id only,  *)
(* rest on what is known of connections in the backlog.                     *)
(***************************************************************************)
LinkTypes ==
  /\ conn \in [Conns -> (Nodes \X Nodes) \cup {<<>>}]
  /\ opened \in [Conns -> SUBSET Nodes]
  /\ backlog \subseteq Conns
  /\ ports \in [Nodes -> [Ids -> Conns \cup {0}]]
  /\ myids \in [Nodes -> [Conns -> AnyIds]]
  /\ up \in [Nodes -> BOOLEAN]

\* What is known of connections, and of those that wait to be accepted.
Backlog ==
  /\ \A c \in Conns : IF conn[c] = <<>> THEN opened[c] = {}
                                       ELSE conn[c][1] # conn[c][2]
  /\ \A c \in backlog :
       /\ conn[c] # <<>>
       /\ up[conn[c][2]] => conn[c][2] \in opened[c]
       /\ \A a \in Ids : up[conn[c][2]] => ports[conn[c][2]][a] # c

\* The inductive invariant for the link tables.
LinkInv == LinkTypes /\ LinkTables /\ Backlog

\* A connection of InitConn has two different ends.
LEMMA InitConnEnds ==
  ASSUME NEW c \in DOMAIN InitConn
  PROVE  /\ c \in Conns
         /\ InitConn[c] \in Nodes \X Nodes
         /\ InitConn[c] # <<>>
         /\ InitConn[c][1] # InitConn[c][2]
         /\ \A n \in Nodes : InitEnd(n, c) =>
              InitPeer(n, c) \in Nodes /\ InitPeer(n, c) # n
BY ConstantsAssumption DEF Conns, InitEnd, InitPeer

\* The first connections satisfy it.
LEMMA InitLinkInv == Init => LinkInv
<1> SUFFICES ASSUME Init PROVE LinkInv
  OBVIOUS
<1> DEFINE cs(n, a) ==
      {c \in Conns : InitEnd(n, c) /\ Addr[InitPeer(n, c)][n] = a}
<1>1. ASSUME NEW n \in Nodes, NEW a \in Ids
      PROVE  ports[n][a] = 0 \/ ports[n][a] \in cs(n, a)
  BY DEF Init
<1>2. LinkTypes
  <2>1. conn \in [Conns -> (Nodes \X Nodes) \cup {<<>>}]
    BY InitConnEnds DEF Init
  <2>2. ports \in [Nodes -> [Ids -> Conns \cup {0}]]
    BY <1>1 DEF Init
  <2>3. myids \in [Nodes -> [Conns -> AnyIds]]
    BY InitConnEnds, ConstantsAssumption DEF Init, InitEnd, AnyIds
  <2> QED
    BY <2>1, <2>2, <2>3 DEF LinkTypes, Init
<1>3. LinkTables
  <2>1. ASSUME NEW n \in Nodes, NEW a \in Ids, ports[n][a] # 0,
               NEW c, c = ports[n][a]
        PROVE  /\ conn[c] # <<>> /\ n \in {conn[c][1], conn[c][2]}
               /\ n \in opened[c]
               /\ a = Addr[Peer(c, n)][n]
               /\ myids[n][c] = Addr[n][Peer(c, n)]
    <3>1. c \in cs(n, a)
      BY <2>1, <1>1
    <3>2. c \in DOMAIN InitConn /\ c \in Conns
      BY <3>1 DEF InitEnd
    <3>3. conn[c] = InitConn[c]
      BY <3>2 DEF Init
    <3>4. Peer(c, n) = InitPeer(n, c)
      BY <3>3 DEF Peer, InitPeer
    <3> QED
      BY <3>1, <3>2, <3>3, <3>4, InitConnEnds DEF Init, InitEnd
  <2>2. ASSUME NEW n \in Nodes, NEW c \in Conns, myids[n][c] # INADDR_ANY
        PROVE  n \in opened[c]
    BY <2>2 DEF Init
  <2> QED
    BY <2>1, <2>2 DEF LinkTables
<1>4. Backlog
  BY InitConnEnds DEF Backlog, Init, InitEnd
<1> QED
  BY <1>2, <1>3, <1>4 DEF LinkInv

(***************************************************************************)
(* Sending and receiving touch the tables at most by ending the process.    *)
(***************************************************************************)
OnlyExit(n) ==
  /\ UNCHANGED <<conn, backlog, ports, myids>>
  /\ UNCHANGED <<up, opened>> \/ Exit(n)

\* Writing packets changes links only when the process exits.
LEMMA SendRealOnlyExits ==
  ASSUME NEW q, NEW n, NEW out, dump_send_real(q, n, out)
  PROVE  UNCHANGED <<up, opened>> \/ Exit(n)
BY DEF dump_send_real

\* So does dump_send.
LEMMA SendOnlyExits ==
  ASSUME NEW n \in Nodes, NEW dst \in Ids, dump_send(n, dst)
  PROVE  OnlyExit(n)
BY SendRealOnlyExits DEF dump_send, OnlyExit

\* So do the three packet handlers.
LEMMA ReceiveOnlyExits ==
  ASSUME NEW n \in Nodes, NEW c \in Conns, dump_receive_cb(n, c)
  PROVE  OnlyExit(n)
<1> DEFINE p == Head(chan[c][n])
           q == [chan EXCEPT ![c][n] = Tail(@)]
<1>1. PICK RRs, Rrs :
        \/ dump_receive_RR(q, n, p, RRs, Rrs)
        \/ dump_receive_Rr(q, n, p, RRs, Rrs)
        \/ dump_receive_DATA(q, n, p, RRs, Rrs)
  BY DEF dump_receive_cb
<1>2. CASE dump_receive_RR(q, n, p, RRs, Rrs)
  BY <1>2, SendRealOnlyExits DEF dump_receive_RR, dump_receive_cb, OnlyExit
<1>3. CASE dump_receive_Rr(q, n, p, RRs, Rrs)
  <2>1. SendWaiting(q, n, p) => UNCHANGED <<up, opened>> \/ Exit(n)
    BY SendRealOnlyExits DEF SendWaiting
  <2> QED
    BY <1>3, <2>1, SendRealOnlyExits DEF dump_receive_Rr, dump_receive_cb, OnlyExit
<1>4. CASE dump_receive_DATA(q, n, p, RRs, Rrs)
  BY <1>4, SendRealOnlyExits DEF dump_receive_DATA, dump_receive_cb, OnlyExit
<1> QED
  BY <1>1, <1>2, <1>3, <1>4

\* The end of a process closes its sockets at both sides.
LEMMA ExitKeepsLinkInv ==
  ASSUME LinkInv, NEW n \in Nodes, OnlyExit(n)
  PROVE  LinkInv'
<1>1. CASE UNCHANGED <<up, opened>>
  BY <1>1, SMTT(60) DEF OnlyExit, LinkInv, LinkTypes, LinkTables, Backlog, Peer
<1>2. CASE Exit(n)
  <2>1. /\ conn' = conn /\ backlog' = backlog /\ ports' = ports /\ myids' = myids
    BY DEF OnlyExit
  <2>2. /\ up' \in [Nodes -> BOOLEAN]
        /\ opened' \in [Conns -> SUBSET Nodes]
        /\ \A m \in Nodes : up'[m] => up[m] /\ m # n
        /\ \A m \in Nodes, c \in Conns : m # n /\ m \in opened[c] => m \in opened'[c]
        /\ \A c \in Conns : opened'[c] \subseteq opened[c]
    BY <1>2 DEF LinkInv, LinkTypes, Exit
  <2>3. LinkTypes'
    BY <2>1, <2>2 DEF LinkInv, LinkTypes
  <2>4. LinkTables'
    <3>1. ASSUME NEW m \in Nodes, up'[m], NEW a \in Ids, ports[m][a] # 0,
                 NEW c, c = ports[m][a]
          PROVE  /\ conn[c] # <<>> /\ m \in {conn[c][1], conn[c][2]}
                 /\ m \in opened'[c]
                 /\ a = Addr[Peer(c, m)][m]
                 /\ myids[m][c] = Addr[m][Peer(c, m)]
      <4>1. up[m] /\ m # n /\ c \in Conns
        BY <2>2, <3>1 DEF LinkInv, LinkTypes
      <4> QED
        BY <2>2, <3>1, <4>1 DEF LinkInv, LinkTables
    <3>2. ASSUME NEW m \in Nodes, up'[m], NEW c \in Conns, myids[m][c] # INADDR_ANY
          PROVE  m \in opened'[c]
      BY <2>2, <3>2 DEF LinkInv, LinkTables
    <3> QED
      BY <2>1, <3>1, <3>2 DEF LinkTables, Peer
  <2>5. Backlog'
    BY <2>1, <2>2 DEF LinkInv, LinkTypes, Backlog
  <2> QED
    BY <2>3, <2>4, <2>5 DEF LinkInv
<1> QED
  BY <1>1, <1>2 DEF OnlyExit

(***************************************************************************)
(* The three operations on connections.                                     *)
(***************************************************************************)
LEMMA DisconnectKeepsLinkInv ==
  ASSUME LinkInv, NEW n \in Nodes, NEW c, up[n], dump_disconnect(n, c),
         UNCHANGED <<conn, backlog, up>>
  PROVE  LinkInv'
<1> USE DEF LinkInv
<1>1. c \in Conns /\ \E a \in Ids : ports[n][a] = c
  BY DEF dump_disconnect, Registered, LinkTypes
<1>2. conn' = conn /\ backlog' = backlog /\ up' = up
  OBVIOUS
<1>3. /\ ports' \in [Nodes -> [Ids -> Conns \cup {0}]]
      /\ \A m \in Nodes, a \in Ids : ports'[m][a] # 0 =>
           /\ ports'[m][a] = ports[m][a]
           /\ ~(m = n /\ ports[m][a] = c)
  BY DEF dump_disconnect, LinkTypes
<1>4. /\ myids' \in [Nodes -> [Conns -> AnyIds]]
      /\ \A m \in Nodes, d \in Conns :
           myids'[m][d] = IF m = n /\ d = c THEN INADDR_ANY ELSE myids[m][d]
  BY <1>1 DEF dump_disconnect, LinkTypes, AnyIds
<1>5. /\ opened' \in [Conns -> SUBSET Nodes]
      /\ \A m \in Nodes, d \in Conns :
           m \in opened[d] /\ ~(m = n /\ d = c) => m \in opened'[d]
      /\ \A d \in Conns : opened'[d] \subseteq opened[d]
  BY <1>1 DEF dump_disconnect, LinkTypes
<1>6. LinkTypes'
  BY <1>2, <1>3, <1>4, <1>5 DEF LinkTypes
<1>7. LinkTables'
  <2>1. ASSUME NEW m \in Nodes, up'[m], NEW a \in Ids, ports'[m][a] # 0,
               NEW d, d = ports'[m][a]
        PROVE  /\ conn'[d] # <<>> /\ m \in {conn'[d][1], conn'[d][2]}
               /\ m \in opened'[d]
               /\ a = Addr[Peer(d, m)'][m]
               /\ myids'[m][d] = Addr[m][Peer(d, m)']
    <3>1. d = ports[m][a] /\ d # 0 /\ d \in Conns /\ ~(m = n /\ d = c)
      BY <2>1, <1>3 DEF LinkTypes
    <3>2. /\ conn[d] # <<>> /\ m \in {conn[d][1], conn[d][2]}
          /\ m \in opened[d]
          /\ a = Addr[Peer(d, m)][m]
          /\ myids[m][d] = Addr[m][Peer(d, m)]
      BY <2>1, <3>1, <1>2 DEF LinkTables
    <3>3. Peer(d, m)' = Peer(d, m)
      BY <1>2 DEF Peer
    <3> QED
      BY <3>1, <3>2, <3>3, <1>2, <1>4, <1>5
  <2>2. ASSUME NEW m \in Nodes, up'[m], NEW d \in Conns, myids'[m][d] # INADDR_ANY
        PROVE  m \in opened'[d]
    BY <2>2, <1>2, <1>4, <1>5 DEF LinkTables
  <2> QED
    BY <2>1, <2>2 DEF LinkTables
<1>8. Backlog'
  <2>1. ASSUME NEW d \in backlog, up[conn[d][2]]
        PROVE  conn[d][2] \in Nodes /\ ~(conn[d][2] = n /\ d = c)
    BY <2>1, <1>1 DEF Backlog, LinkTypes
  <2>2. ASSUME NEW d \in backlog, up[conn[d][2]]
        PROVE  /\ conn[d][2] \in opened'[d]
               /\ \A a \in Ids : ports'[conn[d][2]][a] # d
    <3>1. d \in Conns /\ d # 0
      BY DEF LinkTypes, Conns
    <3> QED
      BY <2>2, <2>1, <3>1, <1>3, <1>5 DEF Backlog
  <2>3. ASSUME NEW d \in Conns, conn[d] = <<>>
        PROVE  opened'[d] = {}
    BY <2>3, <1>5 DEF Backlog
  <2> QED
    BY <2>2, <2>3, <1>2 DEF Backlog
<1> QED
  BY <1>6, <1>7, <1>8

\* dump_connect_to registers what it has just opened.
LEMMA ConnectKeepsLinkInv ==
  ASSUME LinkInv, NEW n \in Nodes, NEW m \in Nodes, dump_connect_to(n, m)
  PROVE  LinkInv'
<1> USE DEF LinkInv
<1>1. PICK c \in Conns :
        /\ conn[c] = <<>>
        /\ conn' = [conn EXCEPT ![c] = <<n, m>>]
        /\ opened' = [opened EXCEPT ![c] = {n, m}]
        /\ backlog' = backlog \cup {c}
        /\ ports' = [ports EXCEPT ![n][Addr[m][n]] = c]
        /\ myids' = [myids EXCEPT ![n][c] = Addr[n][m]]
  BY DEF dump_connect_to
<1>2. n # m /\ up' = up /\ up[n] /\ Addr[n][m] \in Ids /\ Addr[m][n] \in Ids
  BY ConstantsAssumption DEF dump_connect_to
<1>3. c # 0 /\ c \notin backlog
  BY <1>1 DEF Conns, Backlog
<1>4. ASSUME NEW k \in Nodes, up[k], NEW a \in Ids
      PROVE  ports[k][a] # c
  BY <1>1, <1>3, <1>4 DEF LinkTables
<1>5. LinkTypes'
  BY <1>1, <1>2 DEF LinkTypes, AnyIds
<1>6. /\ \A d \in Conns : conn'[d] = IF d = c THEN <<n, m>> ELSE conn[d]
      /\ \A d \in Conns : opened'[d] = IF d = c THEN {n, m} ELSE opened[d]
      /\ \A k \in Nodes, a \in Ids : ports'[k][a] =
           IF k = n /\ a = Addr[m][n] THEN c ELSE ports[k][a]
      /\ \A k \in Nodes, d \in Conns : myids'[k][d] =
           IF k = n /\ d = c THEN Addr[n][m] ELSE myids[k][d]
  BY <1>1, <1>2 DEF LinkTypes
<1>7. LinkTables'
  <2>1. ASSUME NEW k \in Nodes, up'[k], NEW a \in Ids, ports'[k][a] # 0,
               NEW d, d = ports'[k][a]
        PROVE  /\ conn'[d] # <<>> /\ k \in {conn'[d][1], conn'[d][2]}
               /\ k \in opened'[d]
               /\ a = Addr[Peer(d, k)'][k]
               /\ myids'[k][d] = Addr[k][Peer(d, k)']
    <3>1. CASE k = n /\ a = Addr[m][n]
      <4>1. d = c
        BY <3>1, <2>1, <1>6
      <4>2. conn'[c] = <<n, m>> /\ opened'[c] = {n, m} /\ myids'[n][c] = Addr[n][m]
        BY <1>6
      <4>3. Peer(c, n)' = m
        BY <4>2 DEF Peer
      <4> QED
        BY <3>1, <4>1, <4>2, <4>3
    <3>2. CASE ~(k = n /\ a = Addr[m][n])
      <4>1. d = ports[k][a] /\ d # c /\ d # 0 /\ d \in Conns
        BY <3>2, <2>1, <1>2, <1>4, <1>6 DEF LinkTypes
      <4>2. /\ conn[d] # <<>> /\ k \in {conn[d][1], conn[d][2]}
            /\ k \in opened[d]
            /\ a = Addr[Peer(d, k)][k]
            /\ myids[k][d] = Addr[k][Peer(d, k)]
        BY <2>1, <4>1, <1>2 DEF LinkTables
      <4>3. Peer(d, k)' = Peer(d, k)
        BY <4>1, <1>6 DEF Peer
      <4> QED
        BY <4>1, <4>2, <4>3, <1>6
    <3> QED
      BY <3>1, <3>2
  <2>2. ASSUME NEW k \in Nodes, up'[k], NEW d \in Conns, myids'[k][d] # INADDR_ANY
        PROVE  k \in opened'[d]
    <3>1. CASE k = n /\ d = c
      BY <3>1, <1>6
    <3>2. CASE ~(k = n /\ d = c)
      <4>1. k \in opened[d]
        BY <3>2, <2>2, <1>2, <1>6 DEF LinkTables
      <4>2. opened[c] = {}
        BY <1>1 DEF Backlog
      <4> QED
        BY <4>1, <4>2, <1>6
    <3> QED
      BY <3>1, <3>2
  <2> QED
    BY <2>1, <2>2 DEF LinkTables
<1>8. Backlog'
  <2>1. ASSUME NEW d \in backlog'
        PROVE  /\ conn'[d] # <<>>
               /\ up'[conn'[d][2]] => conn'[d][2] \in opened'[d]
               /\ \A a \in Ids : up'[conn'[d][2]] => ports'[conn'[d][2]][a] # d
    <3>1. CASE d = c
      BY <3>1, <1>2, <1>3, <1>4, <1>6
    <3>2. CASE d # c
      <4>1. d \in backlog /\ d \in Conns /\ conn[d] \in Nodes \X Nodes
        BY <3>2, <2>1, <1>1 DEF LinkTypes, Backlog
      <4> QED
        BY <3>2, <4>1, <1>2, <1>6 DEF Backlog
    <3> QED
      BY <3>1, <3>2
  <2>2. ASSUME NEW d \in Conns
        PROVE  IF conn'[d] = <<>> THEN opened'[d] = {}
                                  ELSE conn'[d][1] # conn'[d][2]
    BY <1>2, <1>6 DEF Backlog
  <2> QED
    BY <2>1, <2>2 DEF Backlog
<1> QED
  BY <1>5, <1>7, <1>8

\* revm_dump_accept registers a socket that was open, in place of the older one.
LEMMA AcceptKeepsLinkInv ==
  ASSUME LinkInv, NEW m \in Nodes, NEW c \in Conns, revm_dump_accept(m, c)
  PROVE  LinkInv'
<1> USE DEF LinkInv
<1> DEFINE n == conn[c][1]
<1>1. /\ c \in backlog /\ up[m] /\ c # 0
      /\ conn[c] = <<n, m>> /\ n \in Nodes /\ n # m
      /\ Addr[n][m] \in Ids /\ Addr[m][n] \in Ids
  <2>1. c \in backlog /\ up[m] /\ c # 0 /\ conn[c][2] = m
    BY DEF revm_dump_accept, Conns
  <2>2. conn[c] \in Nodes \X Nodes /\ conn[c][1] # conn[c][2]
    BY <2>1 DEF LinkTypes, Backlog
  <2>3. conn[c] = <<n, m>> /\ n \in Nodes
    BY <2>1, <2>2
  <2> QED
    BY <2>1, <2>2, <2>3, ConstantsAssumption
<1>2. conn' = conn /\ opened' = opened /\ up' = up /\ backlog' = backlog \ {c}
  BY DEF revm_dump_accept
<1>3. m \in opened[c] /\ \A a \in Ids : ports[m][a] # c
  BY <1>1 DEF Backlog
<1>4. LinkTypes'
  BY <1>1, <1>2 DEF LinkTypes, AnyIds, revm_dump_accept
<1>5. /\ \A k \in Nodes, a \in Ids : ports'[k][a] =
           IF k = m /\ a = Addr[n][m] THEN c ELSE ports[k][a]
      /\ \A k \in Nodes, d \in Conns : myids'[k][d] =
           IF k = m /\ d = c THEN Addr[m][n] ELSE myids[k][d]
  BY <1>1 DEF LinkTypes, revm_dump_accept
<1>6. LinkTables'
  <2>1. ASSUME NEW k \in Nodes, up'[k], NEW a \in Ids, ports'[k][a] # 0,
               NEW d, d = ports'[k][a]
        PROVE  /\ conn'[d] # <<>> /\ k \in {conn'[d][1], conn'[d][2]}
               /\ k \in opened'[d]
               /\ a = Addr[Peer(d, k)'][k]
               /\ myids'[k][d] = Addr[k][Peer(d, k)']
    <3>0. Peer(d, k)' = Peer(d, k)
      BY <1>2 DEF Peer
    <3>1. CASE k = m /\ a = Addr[n][m]
      <4>1. d = c /\ Peer(c, m) = n
        BY <3>1, <2>1, <1>1, <1>5 DEF Peer
      <4> QED
        BY <3>0, <3>1, <4>1, <1>1, <1>2, <1>3, <1>5
    <3>2. CASE ~(k = m /\ a = Addr[n][m])
      <4>1. d = ports[k][a] /\ d # 0 /\ d \in Conns /\ ~(k = m /\ d = c)
        BY <3>2, <2>1, <1>3, <1>5 DEF LinkTypes
      <4>2. /\ conn[d] # <<>> /\ k \in {conn[d][1], conn[d][2]}
            /\ k \in opened[d]
            /\ a = Addr[Peer(d, k)][k]
            /\ myids[k][d] = Addr[k][Peer(d, k)]
        BY <2>1, <4>1, <1>2 DEF LinkTables
      <4> QED
        BY <3>0, <4>1, <4>2, <1>2, <1>5
    <3> QED
      BY <3>1, <3>2
  <2>2. ASSUME NEW k \in Nodes, up'[k], NEW d \in Conns, myids'[k][d] # INADDR_ANY
        PROVE  k \in opened'[d]
    BY <2>2, <1>2, <1>3, <1>5 DEF LinkTables
  <2> QED
    BY <2>1, <2>2 DEF LinkTables
<1>7. Backlog'
  <2>1. ASSUME NEW d \in backlog', NEW a \in Ids, up[conn[d][2]]
        PROVE  ports'[conn[d][2]][a] # d
    <3>1. d # c /\ d \in backlog /\ conn[d] \in Nodes \X Nodes
      BY <1>2 DEF LinkTypes, Backlog
    <3> QED
      BY <2>1, <3>1, <1>5 DEF Backlog
  <2> QED
    BY <2>1, <1>2 DEF Backlog
<1> QED
  BY <1>4, <1>6, <1>7

\* Every step of the system keeps the invariant.
LEMMA NextKeepsLinkInv ==
  ASSUME LinkInv, [Next]_vars
  PROVE  LinkInv'
<1>1. CASE UNCHANGED vars
  BY <1>1, SMTT(60) DEF vars, LinkInv, LinkTypes, LinkTables, Backlog, Peer
<1>2. ASSUME NEW n \in Nodes, NEW a \in Ids, dump_send(n, a) PROVE LinkInv'
  BY <1>2, SendOnlyExits, ExitKeepsLinkInv
<1>3. CASE Receive
  BY <1>3, ReceiveOnlyExits, ExitKeepsLinkInv DEF Receive
<1>4. ASSUME NEW n \in Nodes, NEW c \in Conns, ReceiveFails(n, c) PROVE LinkInv'
  BY <1>4, DisconnectKeepsLinkInv DEF ReceiveFails
<1>5. ASSUME NEW n \in Nodes, NEW m \in Nodes, dump_disconnect_host(n, m)
      PROVE  LinkInv'
  BY <1>5, DisconnectKeepsLinkInv DEF dump_disconnect_host
<1>6. ASSUME NEW n \in Nodes, NEW m \in Nodes, dump_connect_to(n, m)
      PROVE  LinkInv'
  BY <1>6, ConnectKeepsLinkInv
<1>7. ASSUME NEW n \in Nodes, NEW c \in Conns, revm_dump_accept(n, c)
      PROVE  LinkInv'
  BY <1>7, AcceptKeepsLinkInv
<1> QED
  BY <1>1, <1>2, <1>3, <1>4, <1>5, <1>6, <1>7 DEF Next

\* The inductive invariant, for the proofs that build on it.
LEMMA LinkInvariant == Spec => []LinkInv
BY InitLinkInv, NextKeepsLinkInv, PTL DEF Spec

(***************************************************************************)
(* LinkTables holds in every reachable state, for every set of nodes and    *)
(* addresses and all bounds: connect, accept, discon, a failed reception    *)
(* and the exit of a node keep the tables of the nodes that still run in    *)
(* step with their open sockets.                                            *)
(***************************************************************************)
THEOREM LinkTablesInvariant == Spec => []LinkTables
<1>1. LinkInv => LinkTables
  BY DEF LinkInv
<1> QED
  BY <1>1, LinkInvariant, PTL

(***************************************************************************)
(* Agreement of neighbours, when of two nodes only one issues "connect".    *)
(* An accepted connection takes over the acceptor's entry, so it must be    *)
(* the one the connector holds: the connector has one open connection to a  *)
(* peer, its latest, and accept() hands connections out in the order in     *)
(* which they were made.                                                    *)
(***************************************************************************)
OneWay ==
  \A n, m \in Nodes : <<n, m>> \in MayConnect => <<m, n>> \notin MayConnect

\* The ends of c are n and m.
Joins(c, n, m) == conn[c] = <<n, m>> \/ conn[c] = <<m, n>>

\* Only "connect" puts a connection in the backlog.
Asked == \A c \in backlog : conn[c] \in MayConnect

\* The open ends of a connection are two running nodes.
OpenEnds ==
  \A c \in Conns : \A n \in opened[c] :
    up[n] /\ \E m \in Nodes \ {n} : Joins(c, n, m)

\* Connections are numbered in the order in which they were made.
Numbered == \A c, d \in Conns : conn[c] = <<>> /\ c < d => conn[d] = <<>>

\* A node that no connection of m can reach in the backlog has at most one open
\* connection to m, the latest, and registers it.
ConnectorSide ==
  \A n, m \in Nodes, c \in Conns :
    <<m, n>> \notin MayConnect /\ Joins(c, n, m) /\ n \in opened[c] =>
      /\ ports[n][Addr[m][n]] = c
      /\ \A d \in Conns : d > c => ~Joins(d, n, m)

\* An acceptor that has accepted what n holds open registers it, and nothing
\* else of n waits.
AcceptorSide ==
  \A n, m \in Nodes, c \in Conns :
    /\ <<n, m>> \in MayConnect /\ Joins(c, n, m)
    /\ n \in opened[c] /\ m \in opened[c] /\ c \notin backlog
    => /\ ports[m][Addr[n][m]] = c
       /\ \A d \in backlog : conn[d] # <<n, m>>

\* The inductive invariant for NeighboursAgree.
AgreeInv ==
  /\ OneWay /\ LinkInv
  /\ Asked /\ OpenEnds /\ Numbered /\ ConnectorSide /\ AcceptorSide

\* The other end of a connection.
LEMMA JoinsPeer ==
  ASSUME NEW c, NEW n, NEW m, n # m, Joins(c, n, m)
  PROVE  Peer(c, n) = m /\ conn[c] # <<>>
BY DEF Joins, Peer

\* Both ends are registered: one by ConnectorSide, one by AcceptorSide.
LEMMA AgreeInvImplies == AgreeInv => NeighboursAgree
<1> SUFFICES ASSUME AgreeInv, NEW c \in Conns, Cardinality(opened[c]) = 2,
                    c \notin backlog, NEW n \in opened[c]
             PROVE  ports[n][Addr[Peer(c, n)][n]] = c
  BY DEF NeighboursAgree
<1>1. n \in Nodes
  BY DEF AgreeInv, LinkInv, LinkTypes
<1>2. PICK m \in Nodes \ {n} : Joins(c, n, m)
  BY DEF AgreeInv, OpenEnds
<1>3. Peer(c, n) = m
  BY <1>2, JoinsPeer
<1>4. Joins(c, m, n)
  BY <1>2 DEF Joins
<1>5. m \in opened[c]
  <2>1. opened[c] \subseteq {n, m}
    <3>1. ASSUME NEW k \in opened[c] PROVE k \in {n, m}
      <4>1. PICK l \in Nodes : Joins(c, k, l)
        BY DEF AgreeInv, OpenEnds
      <4> QED
        BY <1>2, <4>1 DEF Joins
    <3> QED
      BY <3>1
  <2>2. CASE m \notin opened[c]
    <3>1. opened[c] = {n}
      BY <2>1, <2>2
    <3>2. Cardinality(opened[c]) = 1
      BY <3>1, FS_Singleton
    <3> QED
      BY <3>2
  <2> QED
    BY <2>2
<1>6. CASE <<m, n>> \notin MayConnect
  BY <1>1, <1>2, <1>3, <1>6 DEF AgreeInv, ConnectorSide
<1>7. CASE <<m, n>> \in MayConnect
  BY <1>1, <1>2, <1>3, <1>4, <1>5, <1>7 DEF AgreeInv, AcceptorSide
<1> QED
  BY <1>6, <1>7

\* The first connections are accepted, open and registered at both ends.
LEMMA InitAgreeInv == OneWay /\ Init => AgreeInv
<1> SUFFICES ASSUME OneWay, Init PROVE AgreeInv
  OBVIOUS
<1>1. LinkInv
  BY InitLinkInv
<1>2. ASSUME NEW c \in Conns, conn[c] # <<>>
      PROVE  c \in DOMAIN InitConn /\ conn[c] = InitConn[c]
  BY <1>2 DEF Init
<1>3. Asked
  BY DEF Asked, Init
<1>4. OpenEnds
  <2> SUFFICES ASSUME NEW c \in Conns, NEW n \in opened[c]
               PROVE  up[n] /\ \E m \in Nodes \ {n} : Joins(c, n, m)
    BY DEF OpenEnds
  <2>1. n \in Nodes /\ InitEnd(n, c) /\ up[n] /\ c \in DOMAIN InitConn
    BY DEF Init, InitEnd
  <2>2. conn[c] = InitConn[c]
    BY <2>1 DEF Init
  <2>3. /\ InitConn[c] = <<InitConn[c][1], InitConn[c][2]>>
        /\ InitConn[c][1] \in Nodes /\ InitConn[c][2] \in Nodes
        /\ InitConn[c][1] # InitConn[c][2]
    BY <2>1, InitConnEnds
  <2>4. n = InitConn[c][1] \/ n = InitConn[c][2]
    BY <2>1 DEF InitEnd
  <2> QED
    BY <2>1, <2>2, <2>3, <2>4 DEF Joins
<1>5. Numbered
  <2> SUFFICES ASSUME NEW c \in Conns, NEW d \in Conns, conn[c] = <<>>, c < d,
                      conn[d] # <<>>
               PROVE  FALSE
    BY DEF Numbered
  <2>1. d \in DOMAIN InitConn
    BY <1>2
  <2>2. c \in DOMAIN InitConn
    <3>1. DOMAIN InitConn = 1..Len(InitConn) /\ Len(InitConn) \in Nat
      BY ConstantsAssumption
    <3> QED
      BY <2>1, <3>1 DEF Conns
  <2>3. conn[c] = InitConn[c]
    BY <2>2 DEF Init
  <2> QED
    BY <2>2, <2>3, InitConnEnds
<1>6. ASSUME NEW n \in Nodes, NEW m \in Nodes, NEW c \in Conns, NEW d \in Conns,
             Joins(c, n, m), Joins(d, n, m)
      PROVE  c = d
  <2>1. conn[c] # <<>> /\ conn[d] # <<>>
    BY <1>6 DEF Joins
  <2>2. /\ c \in DOMAIN InitConn /\ conn[c] = InitConn[c]
        /\ d \in DOMAIN InitConn /\ conn[d] = InitConn[d]
    BY <1>2, <2>1
  <2>3. {InitConn[c][1], InitConn[c][2]} = {n, m}
    BY <1>6, <2>2 DEF Joins
  <2>4. {InitConn[d][1], InitConn[d][2]} = {n, m}
    BY <1>6, <2>2 DEF Joins
  <2> QED
    BY <2>2, <2>3, <2>4, ConstantsAssumption
<1>7. ASSUME NEW n \in Nodes, NEW m \in Nodes, NEW c \in Conns, Joins(c, n, m)
      PROVE  ports[n][Addr[m][n]] = c
  <2> DEFINE cs == {d \in Conns : InitEnd(n, d) /\ Addr[InitPeer(n, d)][n] = Addr[m][n]}
  <2>1. /\ c \in DOMAIN InitConn /\ conn[c] = InitConn[c]
    BY <1>2, <1>7, SMTT(60) DEF Joins
  <2>2. n # m /\ InitEnd(n, c) /\ InitPeer(n, c) = m
    BY <1>7, <2>1, InitConnEnds DEF Joins, InitEnd, InitPeer
  <2>3. c \in cs
    BY <2>2
  <2>4. ASSUME NEW d \in cs PROVE d = c
    <3>1. d \in DOMAIN InitConn /\ InitPeer(n, d) \in Nodes /\ conn[d] = InitConn[d]
      BY InitConnEnds DEF Init, InitEnd
    <3>2. InitPeer(n, d) = m
      BY <3>1, ConstantsAssumption
    <3>3. InitConn[d] = <<InitConn[d][1], InitConn[d][2]>>
      BY <3>1, InitConnEnds
    <3>4. Joins(d, n, m)
      BY <2>4, <3>1, <3>2, <3>3 DEF Joins, InitEnd, InitPeer
    <3> QED
      BY <1>6, <1>7, <3>4
  <2>5. Addr[m][n] \in Ids
    BY ConstantsAssumption
  <2>6. ports[n][Addr[m][n]] = IF cs = {} THEN 0 ELSE CHOOSE d \in cs : TRUE
    BY <2>5 DEF Init
  <2> HIDE DEF cs
  <2> QED
    BY <2>3, <2>4, <2>6
<1>8. ConnectorSide
  <2> SUFFICES ASSUME NEW n \in Nodes, NEW m \in Nodes, NEW c \in Conns,
                      Joins(c, n, m)
               PROVE  /\ ports[n][Addr[m][n]] = c
                      /\ \A d \in Conns : d > c => ~Joins(d, n, m)
    BY DEF ConnectorSide
  <2>1. \A d \in Conns : Joins(d, n, m) => d = c
    BY <1>6
  <2>2. \A d \in Conns : d > c => d # c
    BY DEF Conns
  <2> QED
    BY <1>7, <2>1, <2>2
<1>9. AcceptorSide
  <2>1. \A n, m \in Nodes, c \in Conns : Joins(c, n, m) => Joins(c, m, n)
    BY DEF Joins
  <2>2. backlog = {}
    BY DEF Init
  <2> QED
    BY <1>7, <2>1, <2>2 DEF AcceptorSide
<1> QED
  BY <1>1, <1>3, <1>4, <1>5, <1>8, <1>9 DEF AgreeInv

\* Ends of connections close, and entries that led to a closed end go.
LEMMA ClosingKeepsAgreeInv ==
  ASSUME AgreeInv, LinkInv', UNCHANGED <<conn, backlog>>,
         \A c \in Conns : opened'[c] \subseteq opened[c],
         \A c \in Conns : \A n \in opened'[c] : up'[n],
         \A n \in Nodes, a \in Ids :
           ports[n][a] # 0 /\ n \in opened'[ports[n][a]] => ports'[n][a] = ports[n][a]
  PROVE  AgreeInv'
<1>1. \A c, n, m : Joins(c, n, m)' <=> Joins(c, n, m)
  BY DEF Joins
<1>2. Asked' /\ Numbered'
  BY DEF AgreeInv, Asked, Numbered
<1>3. OpenEnds'
  BY <1>1 DEF AgreeInv, OpenEnds
<1>4. \A n, m \in Nodes : Addr[m][n] \in Ids
  BY ConstantsAssumption
<1>5. \A c \in Conns : c # 0
  BY DEF Conns
<1>6. ConnectorSide'
  BY <1>1, <1>4, <1>5 DEF AgreeInv, ConnectorSide
<1>7. AcceptorSide'
  BY <1>1, <1>4, <1>5 DEF AgreeInv, AcceptorSide
<1> QED
  BY <1>2, <1>3, <1>6, <1>7 DEF AgreeInv, OneWay

\* The end of a process opens and registers nothing.
LEMMA ExitKeepsAgreeInv ==
  ASSUME AgreeInv, LinkInv', NEW n \in Nodes, OnlyExit(n)
  PROVE  AgreeInv'
<1>1. UNCHANGED <<conn, backlog, ports>>
  BY DEF OnlyExit
<1>2. ASSUME NEW c \in Conns
      PROVE  opened'[c] \subseteq opened[c] /\ \A m \in opened'[c] : up'[m]
  <2>1. \A m \in opened[c] : up[m] /\ m \in Nodes
    BY DEF AgreeInv, OpenEnds, LinkInv, LinkTypes
  <2>2. up \in [Nodes -> BOOLEAN] /\ opened \in [Conns -> SUBSET Nodes]
    BY DEF AgreeInv, LinkInv, LinkTypes
  <2>3. CASE UNCHANGED <<up, opened>>
    BY <2>1, <2>3
  <2>4. CASE Exit(n)
    BY <2>1, <2>2, <2>4 DEF Exit
  <2> QED
    BY <2>3, <2>4 DEF OnlyExit
<1> QED
  BY <1>1, <1>2, ClosingKeepsAgreeInv

\* A disconnection drops the entry with the socket.
LEMMA DisconnectKeepsAgreeInv ==
  ASSUME AgreeInv, LinkInv', NEW n \in Nodes, NEW c, dump_disconnect(n, c),
         UNCHANGED <<conn, backlog, up>>
  PROVE  AgreeInv'
<1>1. c \in Conns
  BY DEF dump_disconnect, Registered, AgreeInv, LinkInv, LinkTypes
<1>2. \A d \in Conns : opened'[d] = IF d = c THEN opened[d] \ {n} ELSE opened[d]
  BY <1>1 DEF dump_disconnect, AgreeInv, LinkInv, LinkTypes
<1>3. \A m \in Nodes, a \in Ids : ports'[m][a] =
        IF m = n /\ ports[m][a] = c THEN 0 ELSE ports[m][a]
  BY DEF dump_disconnect, AgreeInv, LinkInv, LinkTypes
<1>4. ASSUME NEW d \in Conns
      PROVE  opened'[d] \subseteq opened[d] /\ \A m \in opened'[d] : up'[m]
  BY <1>2 DEF AgreeInv, OpenEnds
<1>5. ASSUME NEW m \in Nodes, NEW a \in Ids,
             ports[m][a] # 0, m \in opened'[ports[m][a]]
      PROVE  ports'[m][a] = ports[m][a]
  BY <1>1, <1>2, <1>3, <1>5
<1> QED
  BY <1>4, <1>5, ClosingKeepsAgreeInv

\* A new connection has the highest number, and no acceptor has it yet.
LEMMA ConnectKeepsAgreeInv ==
  ASSUME AgreeInv, LinkInv', NEW n \in Nodes, NEW m \in Nodes,
         dump_connect_to(n, m)
  PROVE  AgreeInv'
<1>1. PICK c \in Conns :
        /\ conn[c] = <<>>
        /\ \A d \in 1..(c - 1) : conn[d] # <<>>
        /\ conn' = [conn EXCEPT ![c] = <<n, m>>]
        /\ opened' = [opened EXCEPT ![c] = {n, m}]
        /\ backlog' = backlog \cup {c}
        /\ ports' = [ports EXCEPT ![n][Addr[m][n]] = c]
  BY DEF dump_connect_to
<1>2. /\ n # m /\ <<n, m>> \in MayConnect /\ <<m, n>> \notin MayConnect
      /\ up[n] /\ up[m] /\ up' = up
      /\ Addr[m][n] \in Ids /\ ports[n][Addr[m][n]] = 0
  BY ConstantsAssumption DEF dump_connect_to, dump_lookup_neighbor, AgreeInv, OneWay
<1>3. /\ \A d \in Conns : conn'[d] = IF d = c THEN <<n, m>> ELSE conn[d]
      /\ \A d \in Conns : opened'[d] = IF d = c THEN {n, m} ELSE opened[d]
      /\ \A k \in Nodes, a \in Ids : ports'[k][a] =
           IF k = n /\ a = Addr[m][n] THEN c ELSE ports[k][a]
  BY <1>1, <1>2 DEF AgreeInv, LinkInv, LinkTypes
<1>4. c \notin backlog /\ c # 0
  BY <1>1 DEF AgreeInv, LinkInv, Backlog, Conns
<1>5. /\ \A d \in Conns \ {c} : \A k, l : Joins(d, k, l)' <=> Joins(d, k, l)
      /\ \A k, l : Joins(c, k, l)' <=> (k = n /\ l = m) \/ (k = m /\ l = n)
      /\ \A k, l : ~Joins(c, k, l)
  BY <1>1, <1>3 DEF Joins
<1>6. \A d \in Conns : Joins(d, n, m) => n \notin opened[d]
  <2>1. \A d \in Conns : d # 0
    BY DEF Conns
  <2> QED
    BY <1>2, <2>1 DEF AgreeInv, ConnectorSide
<1>7. \A d \in Conns : d > c => conn[d] = <<>>
  BY <1>1 DEF AgreeInv, Numbered, Conns
<1>8. Asked'
  <2>1. \A d \in backlog : d \in Conns /\ d # c
    BY <1>4 DEF AgreeInv, LinkInv, LinkTypes
  <2> QED
    BY <1>1, <1>2, <1>3, <2>1 DEF AgreeInv, Asked
<1>9. OpenEnds'
  <2> SUFFICES ASSUME NEW d \in Conns, NEW k \in opened'[d]
               PROVE  up'[k] /\ \E l \in Nodes \ {k} : Joins(d, k, l)'
    BY DEF OpenEnds
  <2>1. CASE d = c
    BY <1>2, <1>3, <1>5, <2>1
  <2>2. CASE d # c
    BY <1>2, <1>3, <1>5, <2>2 DEF AgreeInv, OpenEnds
  <2> QED
    BY <2>1, <2>2
<1>10. Numbered'
  <2> SUFFICES ASSUME NEW d \in Conns, NEW e \in Conns, conn'[d] = <<>>, d < e
               PROVE  conn'[e] = <<>>
    BY DEF Numbered
  <2>1. d # c /\ conn[d] = <<>>
    BY <1>3
  <2>2. e # c
    <3>1. CASE e = c
      <4>1. d \in 1..(c - 1)
        BY <3>1 DEF Conns
      <4> QED
        BY <1>1, <2>1, <4>1
    <3> QED
      BY <3>1
  <2> QED
    BY <1>3, <2>1, <2>2 DEF AgreeInv, Numbered
<1>11. ConnectorSide'
  <2> SUFFICES ASSUME NEW k \in Nodes, NEW l \in Nodes, NEW d \in Conns,
                      <<l, k>> \notin MayConnect, Joins(d, k, l)', k \in opened'[d]
               PROVE  /\ ports'[k][Addr[l][k]] = d
                      /\ \A e \in Conns : e > d => ~Joins(e, k, l)'
    BY DEF ConnectorSide
  <2>0. Addr[l][k] \in Ids
    BY ConstantsAssumption
  <2>1. CASE d = c
    <3>1. k = n /\ l = m
      BY <1>2, <1>5, <2>1
    <3>2. \A e \in Conns : e > c => e # c /\ ~Joins(e, k, l)
      <4>1. <<k, l>> # <<>> /\ <<l, k>> # <<>>
        OBVIOUS
      <4>2. \A e \in Conns : e > c => e # c
        BY DEF Conns
      <4> QED
        BY <1>7, <4>1, <4>2 DEF Joins
    <3> QED
      BY <1>2, <1>3, <1>5, <2>1, <3>1, <3>2
  <2>2. CASE d # c
    <3>1. Joins(d, k, l) /\ k \in opened[d]
      BY <1>3, <1>5, <2>2
    <3>2. /\ ports[k][Addr[l][k]] = d
          /\ \A e \in Conns : e > d => ~Joins(e, k, l)
      BY <3>1 DEF AgreeInv, ConnectorSide
    <3>3. ~(k = n /\ l = m)
      BY <1>6, <3>1
    <3>4. ~(k = m /\ l = n)
      BY <1>2
    <3>5. ~(k = n /\ Addr[l][k] = Addr[m][n])
      BY <3>3, ConstantsAssumption
    <3> QED
      BY <1>3, <1>5, <2>0, <3>2, <3>3, <3>4, <3>5
  <2> QED
    BY <2>1, <2>2
<1>12. AcceptorSide'
  <2> SUFFICES ASSUME NEW k \in Nodes, NEW l \in Nodes, NEW d \in Conns,
                      <<k, l>> \in MayConnect, Joins(d, k, l)',
                      k \in opened'[d], l \in opened'[d], d \notin backlog'
               PROVE  /\ ports'[l][Addr[k][l]] = d
                      /\ \A e \in backlog' : conn'[e] # <<k, l>>
    BY DEF AcceptorSide
  <2>0. Addr[k][l] \in Ids
    BY ConstantsAssumption
  <2>1. d # c /\ d \notin backlog
    BY <1>1
  <2>2. Joins(d, k, l) /\ k \in opened[d] /\ l \in opened[d]
    BY <1>3, <1>5, <2>1
  <2>3. /\ ports[l][Addr[k][l]] = d
        /\ \A e \in backlog : conn[e] # <<k, l>>
    BY <2>1, <2>2 DEF AgreeInv, AcceptorSide
  <2>4. ~(k = n /\ l = m) /\ ~(k = m /\ l = n)
    BY <1>2, <1>6, <2>2
  <2>5. ~(l = n /\ Addr[k][l] = Addr[m][n])
    BY <2>4, ConstantsAssumption
  <2>6. \A e \in backlog : e \in Conns /\ e # c
    BY <1>4 DEF AgreeInv, LinkInv, LinkTypes
  <2>7. <<n, m>> # <<k, l>>
    BY <2>4
  <2> QED
    BY <1>1, <1>3, <2>0, <2>3, <2>5, <2>6, <2>7
<1> QED
  BY <1>8, <1>9, <1>10, <1>11, <1>12 DEF AgreeInv, OneWay

\* Accepted in order, the last connection is the one its opener registered.
LEMMA AcceptKeepsAgreeInv ==
  ASSUME AgreeInv, LinkInv', NEW m \in Nodes, NEW c \in Conns,
         revm_dump_accept(m, c)
  PROVE  AgreeInv'
<1>1. PICK n : conn[c] = <<n, m>> /\ n \in Nodes /\ n # m
  <2>1. c \in backlog /\ conn[c][2] = m
    BY DEF revm_dump_accept
  <2>2. conn[c] \in Nodes \X Nodes /\ conn[c][1] # conn[c][2]
    BY <2>1 DEF AgreeInv, LinkInv, LinkTypes, Backlog
  <2>3. conn[c] = <<conn[c][1], m>> /\ conn[c][1] \in Nodes /\ conn[c][1] # m
    BY <2>1, <2>2
  <2> QED
    BY <2>3
<1>2. /\ c \in backlog /\ conn' = conn /\ opened' = opened /\ up' = up
      /\ backlog' = backlog \ {c}
      /\ ports' = [ports EXCEPT ![m][Addr[n][m]] = c]
  BY <1>1 DEF revm_dump_accept
<1>3. ASSUME NEW d \in backlog, conn[d] = <<n, m>>
      PROVE  c <= d
  BY <1>3 DEF revm_dump_accept
<1>4. /\ <<n, m>> \in MayConnect /\ <<m, n>> \notin MayConnect
      /\ Addr[n][m] \in Ids
  <2>1. <<n, m>> \in MayConnect
    BY <1>1, <1>2 DEF AgreeInv, Asked
  <2> QED
    BY <1>1, <2>1, ConstantsAssumption DEF AgreeInv, OneWay
<1>5. \A k \in Nodes, a \in Ids : ports'[k][a] =
        IF k = m /\ a = Addr[n][m] THEN c ELSE ports[k][a]
  BY <1>2, <1>4 DEF AgreeInv, LinkInv, LinkTypes
<1>6. \A d, k, l : Joins(d, k, l)' <=> Joins(d, k, l)
  BY <1>2 DEF Joins
<1>7. Asked' /\ Numbered' /\ OpenEnds'
  BY <1>2, <1>6 DEF AgreeInv, Asked, Numbered, OpenEnds
<1>8. ConnectorSide'
  <2> SUFFICES ASSUME NEW k \in Nodes, NEW l \in Nodes, NEW d \in Conns,
                      <<l, k>> \notin MayConnect, Joins(d, k, l)', k \in opened'[d]
               PROVE  /\ ports'[k][Addr[l][k]] = d
                      /\ \A e \in Conns : e > d => ~Joins(e, k, l)'
    BY DEF ConnectorSide
  <2>1. /\ ports[k][Addr[l][k]] = d
        /\ \A e \in Conns : e > d => ~Joins(e, k, l)
    BY <1>2, <1>6 DEF AgreeInv, ConnectorSide
  <2>2. ~(k = m /\ l = n)
    BY <1>4
  <2>3. Addr[l][k] \in Ids /\ ~(k = m /\ Addr[l][k] = Addr[n][m])
    BY <1>1, <2>2, ConstantsAssumption
  <2> QED
    BY <1>5, <1>6, <2>1, <2>3
<1>9. AcceptorSide'
  <2> SUFFICES ASSUME NEW k \in Nodes, NEW l \in Nodes, NEW d \in Conns,
                      <<k, l>> \in MayConnect, Joins(d, k, l)',
                      k \in opened'[d], l \in opened'[d], d \notin backlog'
               PROVE  /\ ports'[l][Addr[k][l]] = d
                      /\ \A e \in backlog' : conn'[e] # <<k, l>>
    BY DEF AcceptorSide
  <2>0. Addr[k][l] \in Ids
    BY ConstantsAssumption
  <2>1. Joins(d, k, l) /\ k \in opened[d] /\ l \in opened[d]
    BY <1>2, <1>6
  <2>2. CASE d = c
    <3>1. k = n /\ l = m
      BY <1>1, <1>4, <2>1, <2>2 DEF Joins
    <3>2. \A e \in Conns : e > c => ~Joins(e, n, m)
      BY <1>1, <1>4, <2>1, <2>2, <3>1 DEF AgreeInv, ConnectorSide
    <3>3. ASSUME NEW e \in backlog', conn'[e] = <<n, m>>
          PROVE  FALSE
      <4>1. e \in backlog /\ e # c /\ conn[e] = <<n, m>> /\ e \in Conns
        BY <1>2, <3>3 DEF AgreeInv, LinkInv, LinkTypes
      <4>2. e > c
        BY <1>3, <4>1 DEF Conns
      <4> QED
        BY <3>2, <4>1, <4>2 DEF Joins
    <3> QED
      BY <1>5, <2>0, <2>2, <3>1, <3>3
  <2>3. CASE d # c
    <3>1. d \notin backlog
      BY <1>2, <2>3
    <3>2. /\ ports[l][Addr[k][l]] = d
          /\ \A e \in backlog : conn[e] # <<k, l>>
      BY <2>1, <3>1 DEF AgreeInv, AcceptorSide
    <3>3. ~(k = n /\ l = m)
      BY <1>1, <1>2, <3>2
    <3>4. ~(l = m /\ Addr[k][l] = Addr[n][m])
      BY <1>1, <3>3, ConstantsAssumption
    <3> QED
      BY <1>2, <1>5, <2>0, <3>2, <3>4
  <2> QED
    BY <2>2, <2>3
<1> QED
  BY <1>7, <1>8, <1>9 DEF AgreeInv, OneWay

\* Every step of the system keeps the invariant.
LEMMA NextKeepsAgreeInv ==
  ASSUME AgreeInv, [Next]_vars
  PROVE  AgreeInv'
<1>0. LinkInv'
  BY NextKeepsLinkInv DEF AgreeInv
<1>1. CASE UNCHANGED vars
  BY <1>0, <1>1, ClosingKeepsAgreeInv DEF vars, AgreeInv, OpenEnds
<1>2. ASSUME NEW n \in Nodes, NEW a \in Ids, dump_send(n, a) PROVE AgreeInv'
  BY <1>0, <1>2, SendOnlyExits, ExitKeepsAgreeInv
<1>3. CASE Receive
  BY <1>0, <1>3, ReceiveOnlyExits, ExitKeepsAgreeInv DEF Receive
<1>4. ASSUME NEW n \in Nodes, NEW c \in Conns, ReceiveFails(n, c) PROVE AgreeInv'
  BY <1>0, <1>4, DisconnectKeepsAgreeInv DEF ReceiveFails
<1>5. ASSUME NEW n \in Nodes, NEW m \in Nodes, dump_disconnect_host(n, m)
      PROVE  AgreeInv'
  BY <1>0, <1>5, DisconnectKeepsAgreeInv DEF dump_disconnect_host
<1>6. ASSUME NEW n \in Nodes, NEW m \in Nodes, dump_connect_to(n, m)
      PROVE  AgreeInv'
  BY <1>0, <1>6, ConnectKeepsAgreeInv
<1>7. ASSUME NEW n \in Nodes, NEW c \in Conns, revm_dump_accept(n, c)
      PROVE  AgreeInv'
  BY <1>0, <1>7, AcceptKeepsAgreeInv
<1> QED
  BY <1>1, <1>2, <1>3, <1>4, <1>5, <1>6, <1>7 DEF Next

\* The inductive invariant, for the proofs that build on it.
LEMMA AgreeInvariant == OneWay /\ Spec => []AgreeInv
BY InitAgreeInv, NextKeepsAgreeInv, PTL DEF Spec

(***************************************************************************)
(* Agreement: in a network where of two nodes only one issues "connect",    *)
(* both ends of an accepted connection that both hold open have it as the   *)
(* way to each other, whatever is closed, reconnected and accepted late.    *)
(***************************************************************************)
THEOREM Agreement == OneWay /\ Spec => []NeighboursAgree
BY AgreeInvariant, AgreeInvImplies, PTL
=============================================================================
