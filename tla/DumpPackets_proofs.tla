------------------------- MODULE DumpPackets_proofs -------------------------
(***************************************************************************)
(* The packets of DumpNet, for every network and every bound: their types,  *)
(* that routes do not loop, that a message has a single copy, and that      *)
(* between nodes of one address, on connections that stay, every route can  *)
(* be followed.                                                             *)
(***************************************************************************)
EXTENDS DumpNet_proofs, Extrema, FiniteSetTheorems, SequenceTheorems, TLAPS

(***************************************************************************)
(* What a write does to the channels.  Every packet of the new channels was *)
(* in q at the same place, or is one of the packets just written.           *)
(***************************************************************************)
Channels == [Conns -> [Nodes -> Seq(Packet)]]

\* Place k of channel c to m holds the packet it held in q.
Kept(q, c, m, k) == k \in DOMAIN q[c][m] /\ chan'[c][m][k] = q[c][m][k]

\* Place k of channel c to m holds a packet that n has just written.
Written(q, n, out, c, m, k) ==
  /\ c \in DOMAIN out /\ m = Peer(c, n)
  /\ k - Len(q[c][m]) \in DOMAIN out[c]
  /\ chan'[c][m][k] = out[c][k - Len(q[c][m])]

\* The packets to write, by socket.
Outgoing(out) ==
  \A c \in DOMAIN out : c \in Conns /\ out[c] \in Seq(Packet)

\* Post appends out[c] to the channel of the peer and leaves the others alone.
LEMMA PostEffect ==
  ASSUME NEW q \in Channels, NEW n \in Nodes, NEW out, Outgoing(out),
         chan' = Post(q, n, out)
  PROVE  /\ chan' \in Channels
         /\ \A c \in Conns, m \in Nodes : \A k \in DOMAIN chan'[c][m] :
              Kept(q, c, m, k) \/ Written(q, n, out, c, m, k)
<1>1. ASSUME NEW c \in Conns
      PROVE  /\ chan'[c] \in [Nodes -> Seq(Packet)]
             /\ \A m \in Nodes :
                  \/ chan'[c][m] = q[c][m]
                  \/ /\ c \in DOMAIN out /\ m = Peer(c, n)
                     /\ chan'[c][m] = q[c][m] \o out[c]
  <2>0. q[c] \in [Nodes -> Seq(Packet)]
    BY DEF Channels
  <2>1. CASE c \in DOMAIN out /\ Reaches(c, n)
    <3>1. out[c] \in Seq(Packet)
      BY <2>1 DEF Outgoing
    <3>2. chan'[c] = [q[c] EXCEPT ![Peer(c, n)] = q[c][Peer(c, n)] \o out[c]]
      BY <2>1 DEF Post
    <3>3. ASSUME NEW m \in Nodes PROVE q[c][m] \o out[c] \in Seq(Packet)
      BY <2>0, <3>1
    <3> QED
      BY <2>0, <2>1, <3>2, <3>3, ZenonT(60)
  <2>2. CASE ~(c \in DOMAIN out /\ Reaches(c, n))
    BY <2>0, <2>2 DEF Post
  <2> QED
    BY <2>1, <2>2
<1>2. chan' \in Channels
  BY <1>1 DEF Channels, Post
<1>3. ASSUME NEW c \in Conns, NEW m \in Nodes, NEW k \in DOMAIN chan'[c][m]
      PROVE  Kept(q, c, m, k) \/ Written(q, n, out, c, m, k)
  <2>0. q[c][m] \in Seq(Packet)
    BY DEF Channels
  <2>1. CASE chan'[c][m] = q[c][m]
    BY <2>1 DEF Kept
  <2>2. CASE /\ c \in DOMAIN out /\ m = Peer(c, n)
             /\ chan'[c][m] = q[c][m] \o out[c]
    <3>1. out[c] \in Seq(Packet)
      BY <2>2 DEF Outgoing
    <3>2. /\ Len(q[c][m] \o out[c]) = Len(q[c][m]) + Len(out[c])
          /\ \A i \in 1..(Len(q[c][m]) + Len(out[c])) :
               (q[c][m] \o out[c])[i] =
                 IF i <= Len(q[c][m]) THEN q[c][m][i]
                                      ELSE out[c][i - Len(q[c][m])]
      BY <2>0, <3>1, ConcatProperties
    <3>3. k \in 1..(Len(q[c][m]) + Len(out[c]))
      BY <2>0, <2>2, <3>1, <3>2
    <3> DEFINE a == Len(q[c][m])
               b == Len(out[c])
    <3>4. a \in Nat /\ b \in Nat /\ DOMAIN q[c][m] = 1..a /\ DOMAIN out[c] = 1..b
      BY <2>0, <3>1
    <3>5. /\ k \in 1..(a + b)
          /\ chan'[c][m][k] = IF k <= a THEN q[c][m][k] ELSE out[c][k - a]
      BY <2>2, <3>2, <3>3
    <3>6. k \in 1..a \/ (~(k <= a) /\ k - a \in 1..b)
      <4> HIDE DEF a, b
      <4> QED
        BY <3>4, <3>5
    <3>7. CASE k \in 1..a
      BY <3>4, <3>5, <3>7 DEF Kept
    <3>8. CASE ~(k <= a) /\ k - a \in 1..b
      BY <2>2, <3>4, <3>5, <3>8 DEF Written
    <3> QED
      BY <3>6, <3>7, <3>8
  <2> QED
    BY <1>1, <2>1, <2>2
<1> QED
  BY <1>2, <1>3

\* The same for dump_send_real, whether all writes succeed or one fails.
LEMMA SendEffect ==
  ASSUME NEW q \in Channels, NEW n \in Nodes, NEW out, Outgoing(out),
         dump_send_real(q, n, out)
  PROVE  /\ chan' \in Channels
         /\ \A c \in Conns, m \in Nodes : \A k \in DOMAIN chan'[c][m] :
              Kept(q, c, m, k) \/ Written(q, n, out, c, m, k)
<1>1. CASE chan' = Post(q, n, out)
  BY <1>1, PostEffect
<1>2. CASE chan' # Post(q, n, out)
  <2>1. PICK done \in SUBSET (DOMAIN out) :
          chan' = Post(q, n, [d \in done |-> out[d]])
    BY <1>2 DEF dump_send_real
  <2> DEFINE part == [d \in done |-> out[d]]
  <2>2. Outgoing(part) /\ chan' = Post(q, n, part)
    BY <2>1 DEF Outgoing
  <2>3. /\ chan' \in Channels
        /\ \A c \in Conns, m \in Nodes : \A k \in DOMAIN chan'[c][m] :
             Kept(q, c, m, k) \/ Written(q, n, part, c, m, k)
    <3> HIDE DEF part
    <3> QED
      BY <2>2, PostEffect
  <2>4. ASSUME NEW c, NEW m, NEW k, Written(q, n, part, c, m, k)
        PROVE  Written(q, n, out, c, m, k)
    BY <2>4 DEF Written
  <2> QED
    BY <2>3, <2>4
<1> QED
  BY <1>1, <1>2

(***************************************************************************)
(* Packets.                                                                 *)
(***************************************************************************)
LEMMA PacketFields ==
  ASSUME NEW p \in Packet
  PROVE  /\ p.type \in {"RR", "Rr", "DATA"}
         /\ p.src \in AnyIds
         /\ p.type # "DATA" => p.src \in Ids
         /\ p.dst \in Ids
         /\ p.id \in PktIds
         /\ p.path \in Seq(Ids)
BY DEF Packet, AnyIds

\* A request that n passes on over d, and the reply n sends back over d.
Forwarded(n, p, d) == [p EXCEPT !.path = Append(@, myids[n][d])]
Reply(n, p, d) ==
  [type |-> "Rr", src |-> p.dst, dst |-> p.src, id |-> dump_mk_pkt_id(n, 0),
   path |-> Append(p.path, myids[n][d])]

\* A registered socket is a connection, on which a running node has an id.
LEMMA SocketHasId ==
  ASSUME LinkInv, NEW n \in Nodes, up[n], NEW d, Registered(n, d)
  PROVE  /\ d \in Conns /\ d # 0
         /\ Peer(d, n) \in Nodes
         /\ myids[n][d] = Addr[n][Peer(d, n)]
         /\ myids[n][d] \in Ids
<1>1. PICK a \in Ids : ports[n][a] = d /\ d # 0
  BY DEF Registered
<1>2. d \in Conns
  BY <1>1 DEF LinkInv, LinkTypes
<1>3. conn[d] # <<>> /\ myids[n][d] = Addr[n][Peer(d, n)]
  BY <1>1 DEF LinkInv, LinkTables
<1>4. conn[d] \in Nodes \X Nodes
  BY <1>2, <1>3 DEF LinkInv, LinkTypes
<1>5. Peer(d, n) \in Nodes
  BY <1>4 DEF Peer
<1> QED
  BY <1>1, <1>2, <1>3, <1>5, ConstantsAssumption

\* Ids that a node draws are ids of packets.
LEMMA NewId ==
  ASSUME TypeOK, NEW n \in Nodes, NEW d \in Conns \cup {0}
  PROVE  dump_mk_pkt_id(n, d) \in PktIds
BY DEF TypeOK, dump_mk_pkt_id, PktIds

\* A request that is passed on is a packet like the one received.
LEMMA ForwardedType ==
  ASSUME LinkInv, NEW n \in Nodes, up[n], NEW d, Registered(n, d),
         NEW p \in Packet, p.type # "DATA"
  PROVE  /\ Forwarded(n, p, d) \in Packet
         /\ Forwarded(n, p, d).path = Append(p.path, myids[n][d])
         /\ Forwarded(n, p, d).type = p.type
         /\ Forwarded(n, p, d).id = p.id
         /\ Forwarded(n, p, d).src = p.src
         /\ Forwarded(n, p, d).dst = p.dst
<1>1. Append(p.path, myids[n][d]) \in Seq(Ids)
  BY SocketHasId, PacketFields
<1> QED
  BY <1>1 DEF Forwarded, Packet

\* So is the reply to it.
LEMMA ReplyType ==
  ASSUME TypeOK, LinkInv, NEW n \in Nodes, up[n], NEW d, Registered(n, d),
         NEW p \in Packet, p.type # "DATA"
  PROVE  Reply(n, p, d) \in Packet
<1>1. Append(p.path, myids[n][d]) \in Seq(Ids)
  BY SocketHasId, PacketFields
<1>2. dump_mk_pkt_id(n, 0) \in PktIds
  BY NewId
<1> QED
  BY <1>1, <1>2, PacketFields DEF Reply, Packet

\* Reading the first packet of chan[c][n].
Popped(c, n) == [chan EXCEPT ![c][n] = Tail(@)]

\* Taking the head of a socket leaves the other packets in their order.
LEMMA PopEffect ==
  ASSUME TypeOK, NEW n \in Nodes, NEW c \in Conns, chan[c][n] # <<>>
  PROVE  /\ Head(chan[c][n]) \in Packet
         /\ Head(chan[c][n]) = chan[c][n][1]
         /\ 1 \in DOMAIN chan[c][n]
         /\ Popped(c, n) \in Channels
         /\ \A d \in Conns, m \in Nodes : \A k \in DOMAIN Popped(c, n)[d][m] :
              LET j == IF d = c /\ m = n THEN k + 1 ELSE k
              IN  /\ j \in DOMAIN chan[d][m]
                  /\ Popped(c, n)[d][m][k] = chan[d][m][j]
<1>1. chan \in Channels /\ chan[c][n] \in Seq(Packet)
  BY DEF TypeOK, Channels
<1>2. /\ Head(chan[c][n]) \in Packet
      /\ Tail(chan[c][n]) \in Seq(Packet)
      /\ Len(Tail(chan[c][n])) = Len(chan[c][n]) - 1
      /\ \A i \in 1..Len(Tail(chan[c][n])) : Tail(chan[c][n])[i] = chan[c][n][i + 1]
  BY <1>1, HeadTailProperties
<1>3. Head(chan[c][n]) = chan[c][n][1] /\ 1 \in DOMAIN chan[c][n]
  BY <1>1
<1>4. Popped(c, n) \in Channels
  BY <1>1, <1>2 DEF Popped, Channels
<1>5. \A d \in Conns, m \in Nodes :
        Popped(c, n)[d][m] = IF d = c /\ m = n THEN Tail(chan[c][n]) ELSE chan[d][m]
  BY <1>1 DEF Popped, Channels
<1>6. ASSUME NEW d \in Conns, NEW m \in Nodes, NEW k \in DOMAIN Popped(c, n)[d][m]
      PROVE  LET j == IF d = c /\ m = n THEN k + 1 ELSE k
             IN  /\ j \in DOMAIN chan[d][m]
                 /\ Popped(c, n)[d][m][k] = chan[d][m][j]
  <2>1. CASE d = c /\ m = n
    <3>1. k \in DOMAIN Tail(chan[c][n]) /\ Popped(c, n)[d][m] = Tail(chan[c][n])
      BY <1>5, <2>1
    <3>2. /\ DOMAIN Tail(chan[c][n]) = 1..(Len(chan[c][n]) - 1)
          /\ DOMAIN chan[c][n] = 1..Len(chan[c][n])
          /\ Len(chan[c][n]) \in Nat
      BY <1>1, <1>2
    <3> DEFINE l == Len(chan[c][n])
    <3>3. k \in 1..(l - 1) /\ l \in Nat
      BY <3>1, <3>2
    <3>4. k + 1 \in 1..l
      <4> HIDE DEF l
      <4> QED
        BY <3>3
    <3>5. Tail(chan[c][n])[k] = chan[c][n][k + 1]
      BY <3>3, <1>2
    <3> QED
      BY <2>1, <3>1, <3>2, <3>4, <3>5
  <2>2. CASE ~(d = c /\ m = n)
    BY <1>5, <2>2
  <2> QED
    BY <2>1, <2>2
<1> QED
  BY <1>2, <1>3, <1>4, <1>6

(***************************************************************************)
(* What each handler writes.                                                *)
(***************************************************************************)
\* n wrote w on the registered socket d, whose other end is m.
Sends(n, d, m) == Registered(n, d) /\ m = Peer(d, n)

\* dump_receive_RR writes nothing but replies and forwarded requests.
LEMMA RREffect ==
  ASSUME TypeOK, LinkInv, NEW n \in Nodes, up[n], NEW q \in Channels,
         NEW p \in Packet, p.type = "RR", NEW RRs, NEW Rrs,
         dump_receive_RR(q, n, p, RRs, Rrs)
  PROVE  /\ chan' \in Channels
         /\ \A d \in Conns, m \in Nodes : \A k \in DOMAIN chan'[d][m] :
              \/ Kept(q, d, m, k)
              \/ /\ Sends(n, d, m) /\ p.path # <<>> /\ p.id \notin RRs
                 /\ \/ /\ dump_is_myid(n, p.dst)
                       /\ d = dump_lookup_neighbor(n, p.path[Len(p.path)])
                       /\ chan'[d][m][k] = Reply(n, p, d)
                    \/ /\ ~dump_is_myid(n, p.dst)
                       /\ chan'[d][m][k] = Forwarded(n, p, d)
<1> DEFINE prev  == p.path[Len(p.path)]
           back  == dump_lookup_neighbor(n, prev)
           mine  == dump_is_myid(n, p.dst)
           dup   == dump_lookup_RR_recently_seen(p.id, RRs)
           reply == [type |-> "Rr", src |-> p.dst, dst |-> p.src,
                     id |-> dump_mk_pkt_id(n, 0),
                     path |-> Append(p.path, myids[n][back])]
           flood == [c \in FloodTargets(n, prev) |->
                       <<[p EXCEPT !.path = Append(@, myids[n][c])]>>]
           out   == IF dup \/ p.path = <<>> THEN <<>>
                    ELSE IF mine THEN [c \in {back} \ {0} |-> <<reply>>]
                    ELSE flood
<1>1. dump_send_real(q, n, out)
  BY DEF dump_receive_RR
<1>2. ASSUME NEW d \in DOMAIN out
      PROVE  /\ Registered(n, d) /\ p.path # <<>> /\ p.id \notin RRs
             /\ \/ mine /\ d = back /\ out[d] = <<Reply(n, p, d)>>
                \/ ~mine /\ out[d] = <<Forwarded(n, p, d)>>
  <2>1. CASE dup \/ p.path = <<>>
    <3>1. out = <<>>
      BY <2>1
    <3> QED
      BY <3>1
  <2>2. CASE ~(dup \/ p.path = <<>>) /\ mine
    <3>1. out = [c \in {back} \ {0} |-> <<reply>>]
      BY <2>2
    <3>2. d = back /\ back # 0 /\ out[d] = <<reply>>
      BY <3>1
    <3>3. Registered(n, d)
      BY <3>2 DEF Registered, dump_lookup_neighbor
    <3> QED
      BY <2>2, <3>2, <3>3 DEF Reply, dump_lookup_RR_recently_seen
  <2>3. CASE ~(dup \/ p.path = <<>>) /\ ~mine
    <3>1. out = flood
      BY <2>3
    <3>2. d \in FloodTargets(n, prev) /\ out[d] = <<Forwarded(n, p, d)>>
      BY <3>1 DEF Forwarded
    <3>3. Registered(n, d)
      BY <3>2 DEF Registered, FloodTargets, Conns
    <3> QED
      BY <2>3, <3>2, <3>3 DEF dump_lookup_RR_recently_seen
  <2> QED
    BY <2>1, <2>2, <2>3
<1>3. Outgoing(out)
  <2> SUFFICES ASSUME NEW d \in DOMAIN out
               PROVE  d \in Conns /\ out[d] \in Seq(Packet)
    BY DEF Outgoing
  <2> HIDE DEF out
  <2>1. Forwarded(n, p, d) \in Packet /\ Reply(n, p, d) \in Packet /\ d \in Conns
    BY <1>2, ForwardedType, ReplyType, SocketHasId
  <2> QED
    BY <1>2, <2>1
<1> HIDE DEF out
<1>4. /\ chan' \in Channels
      /\ \A c \in Conns, m \in Nodes : \A k \in DOMAIN chan'[c][m] :
           Kept(q, c, m, k) \/ Written(q, n, out, c, m, k)
  BY <1>1, <1>3, SendEffect
<1>5. ASSUME NEW d \in Conns, NEW m \in Nodes, NEW k, Written(q, n, out, d, m, k)
      PROVE  /\ Sends(n, d, m) /\ p.path # <<>> /\ p.id \notin RRs
             /\ \/ mine /\ d = back /\ chan'[d][m][k] = Reply(n, p, d)
                \/ ~mine /\ chan'[d][m][k] = Forwarded(n, p, d)
  <2>1. d \in DOMAIN out /\ m = Peer(d, n)
    BY <1>5 DEF Written
  <2>2. PICK j : j \in DOMAIN out[d] /\ chan'[d][m][k] = out[d][j]
    BY <1>5 DEF Written
  <2>3. ASSUME NEW w, out[d] = <<w>> PROVE chan'[d][m][k] = w
    BY <2>2, <2>3
  <2> QED
    BY <1>2, <2>1, <2>3 DEF Sends
<1> QED
  BY <1>4, <1>5

\* The DATA packet made of the parked packet in slot s and the reply p.
DataPkt(n, s, p) ==
  [type |-> "DATA", src |-> heap[n][s].src, dst |-> heap[n][s].dst,
   id |-> heap[n][s].id, path |-> p.path]

\* The packets the wait queues point to.
HeapType == [Nodes -> [Slots -> [live : BOOLEAN, dst : AnyIds, src : AnyIds,
                                 id : PktIds]]]

\* Slot s of n is freed in this step.
Released(n, s) == s \in Slots /\ heap[n][s].live /\ ~heap'[n][s].live

\* At most packets are freed.
OnlyFrees ==
  /\ heap' \in HeapType
  /\ \A m \in Nodes, s \in Slots :
       /\ heap'[m][s].live => heap[m][s].live
       /\ heap'[m][s].id = heap[m][s].id

\* XFREE ends the life of packets and changes nothing else of them.
LEMMA FreeEffect ==
  ASSUME heap \in HeapType, NEW n \in Nodes, NEW S,
         heap' = [heap EXCEPT ![n] = XFREE(n, S)]
  PROVE  OnlyFrees /\ \A s \in Slots \cap S : ~heap'[n][s].live
<1>1. ASSUME NEW s \in Slots
      PROVE  /\ XFREE(n, S)[s] \in [live : BOOLEAN, dst : AnyIds, src : AnyIds,
                                    id : PktIds]
             /\ XFREE(n, S)[s].id = heap[n][s].id
             /\ XFREE(n, S)[s].live => heap[n][s].live /\ s \notin S
  <2>1. heap[n][s] \in [live : BOOLEAN, dst : AnyIds, src : AnyIds, id : PktIds]
    BY DEF HeapType
  <2>2. XFREE(n, S)[s] = [heap[n][s] EXCEPT !.live = heap[n][s].live /\ s \notin S]
    BY DEF XFREE
  <2> QED
    BY <2>1, <2>2
<1>2. DOMAIN XFREE(n, S) = Slots /\ XFREE(n, S) = [s \in Slots |-> XFREE(n, S)[s]]
  BY DEF XFREE
<1>3. heap'[n] = XFREE(n, S) /\ \A m \in Nodes \ {n} : heap'[m] = heap[m]
  BY DEF HeapType
<1>4. heap' \in HeapType
  BY <1>1, <1>2, <1>3 DEF HeapType
<1> QED
  BY <1>1, <1>3, <1>4 DEF OnlyFrees

\* A parked message becomes a DATA packet along the path of the reply.
LEMMA DataType ==
  ASSUME TypeOK, NEW n \in Nodes, NEW s \in Slots, NEW p \in Packet,
         heap[n][s].dst = p.src, p.type = "Rr"
  PROVE  DataPkt(n, s, p) \in Packet
<1>1. heap[n][s] \in [live : BOOLEAN, dst : AnyIds, src : AnyIds, id : PktIds]
  BY DEF TypeOK
<1>2. p.src \in Ids /\ p.path \in Seq(Ids)
  BY PacketFields
<1> QED
  BY <1>1, <1>2 DEF DataPkt, Packet

\* The packets n writes when p, the reply to its request, is back: one per
\* parked packet for p.src, each of them freed; slot says which is which.
Batch(q, n, p, slot) ==
  /\ \A d \in Conns, m \in Nodes : \A k \in DOMAIN chan'[d][m] :
       \/ Kept(q, d, m, k)
       \/ /\ Sends(n, d, m)
          /\ d = dump_lookup_neighbor(n, p.path[2])
          /\ k - Len(q[d][m]) \in DOMAIN slot
          /\ Released(n, slot[k - Len(q[d][m])])
          /\ heap[n][slot[k - Len(q[d][m])]].dst = p.src
          /\ chan'[d][m][k] = DataPkt(n, slot[k - Len(q[d][m])], p)
  /\ \A i, j \in DOMAIN slot : slot[i] = slot[j] => i = j

\* A write of the packets of slots, all to the next hop of the reply.
LEMMA BatchEffect ==
  ASSUME TypeOK, LinkInv, NEW n \in Nodes, up[n], NEW q \in Channels,
         NEW p \in Packet, p.type = "Rr",
         NEW len \in Nat, NEW slot \in [1..len -> Slots],
         \A i, j \in 1..len : slot[i] = slot[j] => i = j,
         \A i \in 1..len : Released(n, slot[i]) /\ heap[n][slot[i]].dst = p.src,
         NEW hop, hop = dump_lookup_neighbor(n, p.path[2]), hop # 0,
         NEW D, D \subseteq {hop},
         NEW out, out = [d \in D |-> [i \in 1..len |-> DataPkt(n, slot[i], p)]],
         dump_send_real(q, n, out) \/ chan' = Post(q, n, out)
  PROVE  chan' \in Channels /\ Batch(q, n, p, slot)
<1>1. Registered(n, hop)
  BY DEF Registered, dump_lookup_neighbor
<1>2. hop \in Conns
  BY <1>1, SocketHasId
<1>3. \A i \in 1..len : DataPkt(n, slot[i], p) \in Packet
  BY DataType
<1>4. [i \in 1..len |-> DataPkt(n, slot[i], p)] \in Seq(Packet)
  BY <1>3
<1>5. Outgoing(out)
  BY <1>2, <1>4 DEF Outgoing
<1>6. /\ chan' \in Channels
      /\ \A c \in Conns, m \in Nodes : \A k \in DOMAIN chan'[c][m] :
           Kept(q, c, m, k) \/ Written(q, n, out, c, m, k)
  BY <1>5, SendEffect, PostEffect
<1>7. ASSUME NEW d \in Conns, NEW m \in Nodes, NEW k, Written(q, n, out, d, m, k)
      PROVE  /\ Sends(n, d, m)
             /\ d = dump_lookup_neighbor(n, p.path[2])
             /\ k - Len(q[d][m]) \in DOMAIN slot
             /\ Released(n, slot[k - Len(q[d][m])])
             /\ heap[n][slot[k - Len(q[d][m])]].dst = p.src
             /\ chan'[d][m][k] = DataPkt(n, slot[k - Len(q[d][m])], p)
  <2> DEFINE j == k - Len(q[d][m])
  <2>1. /\ d \in DOMAIN out /\ m = Peer(d, n)
        /\ j \in DOMAIN out[d] /\ chan'[d][m][k] = out[d][j]
    BY <1>7 DEF Written
  <2> HIDE DEF j
  <2>2. d = hop /\ out[d] = [i \in 1..len |-> DataPkt(n, slot[i], p)]
    BY <2>1
  <2>3. j \in 1..len /\ chan'[d][m][k] = DataPkt(n, slot[j], p)
    BY <2>1, <2>2
  <2>4. j \in DOMAIN slot /\ Released(n, slot[j]) /\ heap[n][slot[j]].dst = p.src
    BY <2>3
  <2> QED
    BY <1>1, <2>1, <2>2, <2>3, <2>4 DEF Sends, j
<1> QED
  BY <1>6, <1>7, ZenonT(60) DEF Batch

\* Without packets to write, the channels are what they were.
LEMMA EmptyWrite ==
  ASSUME NEW q \in Channels, NEW n, NEW out, DOMAIN out = {},
         dump_send_real(q, n, out) \/ chan' = Post(q, n, out)
  PROVE  chan' = q
<1>1. Post(q, n, out) = q
  BY DEF Post, Channels
<1> QED
  BY <1>1 DEF dump_send_real

\* A sequence of one element as a function.
LEMMA OneElement ==
  ASSUME NEW y
  PROVE  <<y>> = [k \in 1..1 |-> y]
<1>1. <<y>> \in Seq({y}) /\ [k \in 1..1 |-> y] \in Seq({y})
  OBVIOUS
<1>2. Len(<<y>>) = 1 /\ Len([k \in 1..1 |-> y]) = 1
  OBVIOUS
<1> QED
  BY <1>1, <1>2, SeqEqual

\* The walk of the wait queue writes each parked message once and frees it.
LEMMA WaitingEffect ==
  ASSUME TypeOK, LinkInv, NEW n \in Nodes, up[n], NEW q \in Channels,
         NEW p \in Packet, p.type = "Rr", SendWaiting(q, n, p)
  PROVE  chan' \in Channels /\ OnlyFrees /\ \E slot : Batch(q, n, p, slot)
<1> DEFINE wq    == send_wq[n]
           hop   == dump_lookup_neighbor(n, p.path[2])
           found == {i \in DOMAIN wq : heap[n][wq[i]].dst = p.src}
           live  == {i \in found : heap[n][wq[i]].live}
           firsts == {i \in live : \A j \in 1..(i - 1) : wq[j] # wq[i]}
           data(i) == LET e == heap[n][wq[i]]
                      IN  [type |-> "DATA", src |-> e.src, dst |-> e.dst,
                           id |-> e.id, path |-> p.path]
           Free(is) == heap' = [heap EXCEPT ![n] = XFREE(n, {wq[i] : i \in is})]
<1>0. heap \in HeapType /\ wq \in Seq(Slots)
  BY DEF TypeOK, HeapType
<1>1. \/ /\ live = {} \/ hop # 0
         /\ \E order \in [1..Cardinality(firsts) -> firsts] :
              /\ \A j, k \in DOMAIN order : j < k => order[j] < order[k]
              /\ dump_send_real(q, n,
                   [c \in IF live = {} THEN {} ELSE {hop} |->
                      [k \in DOMAIN order |-> data(order[k])]])
         /\ Free(live)
      \/ chan' = q /\ heap' = heap
      \/ LET i == First(found)
         IN  /\ chan' = Post(q, n,
                  [c \in IF i \in live /\ hop # 0 THEN {hop} ELSE {} |->
                     <<data(i)>>])
             /\ Free({i})
  BY DEF SendWaiting
<1>2. ASSUME chan' = q PROVE chan' \in Channels /\ Batch(q, n, p, <<>>)
  BY <1>2 DEF Batch, Kept
<1>3. ASSUME NEW i PROVE data(i) = DataPkt(n, wq[i], p)
  BY DEF DataPkt
<1>4. CASE chan' = q /\ heap' = heap
  BY <1>0, <1>2, <1>4 DEF OnlyFrees
<1>5. CASE /\ live = {} \/ hop # 0
           /\ \E order \in [1..Cardinality(firsts) -> firsts] :
                /\ \A j, k \in DOMAIN order : j < k => order[j] < order[k]
                /\ dump_send_real(q, n,
                     [c \in IF live = {} THEN {} ELSE {hop} |->
                        [k \in DOMAIN order |-> data(order[k])]])
           /\ Free(live)
  <2>1. OnlyFrees /\ \A s \in Slots \cap {wq[i] : i \in live} : ~heap'[n][s].live
    BY <1>0, <1>5, FreeEffect
  <2>2. PICK order \in [1..Cardinality(firsts) -> firsts] :
          /\ \A j, k \in DOMAIN order : j < k => order[j] < order[k]
          /\ dump_send_real(q, n,
               [c \in IF live = {} THEN {} ELSE {hop} |->
                  [k \in DOMAIN order |-> data(order[k])]])
    BY <1>5
  <2>3. CASE live = {}
    <3> DEFINE out == [c \in IF live = {} THEN {} ELSE {hop} |->
                         [k \in DOMAIN order |-> data(order[k])]]
    <3>1. DOMAIN out = {} /\ dump_send_real(q, n, out)
      BY <2>2, <2>3
    <3> HIDE DEF out
    <3>2. chan' = q
      BY <3>1, EmptyWrite
    <3> QED
      BY <1>2, <2>1, <3>2
  <2>4. CASE live # {}
    <3> DEFINE len == Cardinality(firsts)
               slot == [k \in 1..len |-> wq[order[k]]]
               out == [c \in {hop} |-> [i \in 1..len |-> DataPkt(n, slot[i], p)]]
    <3>1. firsts \subseteq 1..Len(wq) /\ Len(wq) \in Nat /\ firsts \subseteq Nat
      <4>1. firsts \subseteq DOMAIN wq
        OBVIOUS
      <4> HIDE DEF wq, firsts
      <4>2. Len(wq) \in Nat /\ DOMAIN wq = 1..Len(wq)
        BY <1>0
      <4> QED
        BY <4>1, <4>2
    <3>2. len \in Nat
      <4> HIDE DEF wq, firsts
      <4>1. IsFiniteSet(1..Len(wq))
        BY <3>1, FS_Interval
      <4>2. IsFiniteSet(firsts)
        BY <3>1, <4>1, FS_Subset
      <4> QED
        BY <4>2, FS_CardinalityType
    <3>3. ASSUME NEW i \in 1..len
          PROVE  /\ order[i] \in firsts
                 /\ slot[i] = wq[order[i]]
                 /\ slot[i] \in Slots
                 /\ heap[n][slot[i]].live
                 /\ heap[n][slot[i]].dst = p.src
                 /\ ~heap'[n][slot[i]].live
      <4>1. order[i] \in firsts
        BY <2>2
      <4>2. order[i] \in live /\ order[i] \in DOMAIN wq
        BY <4>1
      <4>3. wq[order[i]] \in Slots
        <5> HIDE DEF wq
        <5> QED
          BY <4>2, <1>0
      <4>4. slot[i] = wq[order[i]]
        OBVIOUS
      <4> QED
        BY <2>1, <4>1, <4>2, <4>3, <4>4
    <3>4. ASSUME NEW a \in firsts, NEW b \in firsts, wq[a] = wq[b]
          PROVE  a = b
      <4>1. /\ \A j \in 1..(a - 1) : wq[j] # wq[a]
            /\ \A j \in 1..(b - 1) : wq[j] # wq[b]
        OBVIOUS
      <4> HIDE DEF wq, firsts
      <4>2. a \in Nat /\ b \in Nat /\ a >= 1 /\ b >= 1
        BY <3>1
      <4>3. ~(a < b)
        BY <3>4, <4>1, <4>2
      <4>4. ~(b < a)
        BY <3>4, <4>1, <4>2
      <4> QED
        BY <4>2, <4>3, <4>4
    <3>5. ASSUME NEW i \in 1..len, NEW j \in 1..len, slot[i] = slot[j]
          PROVE  i = j
      <4>1. order[i] = order[j]
        BY <3>3, <3>4, <3>5
      <4>2. DOMAIN order = 1..len
        BY <2>2
      <4>3. order[i] \in Nat
        BY <3>1, <3>3
      <4>4. i < j => order[i] < order[j]
        BY <2>2, <4>2
      <4>5. j < i => order[j] < order[i]
        BY <2>2, <4>2
      <4> HIDE DEF wq, firsts, len, slot
      <4>6. i \in Nat /\ j \in Nat
        BY <3>2
      <4> QED
        BY <4>1, <4>3, <4>4, <4>5, <4>6
    <3>6. slot \in [1..len -> Slots]
      BY <3>3
    <3>7. \A i \in 1..len : Released(n, slot[i]) /\ heap[n][slot[i]].dst = p.src
      BY <3>3 DEF Released
    <3>8. dump_send_real(q, n, out)
      <4>1. out = [c \in IF live = {} THEN {} ELSE {hop} |->
                     [k \in DOMAIN order |-> data(order[k])]]
        <5>1. DOMAIN order = 1..len
          BY <2>2
        <5>2. [k \in DOMAIN order |-> data(order[k])]
                = [i \in 1..len |-> DataPkt(n, slot[i], p)]
          BY <1>3, <5>1
        <5> QED
          BY <2>4, <5>2
      <4> QED
        BY <2>2, <4>1
    <3>9. hop # 0
      BY <1>5, <2>4
    <3> HIDE DEF len, slot, out
    <3>10. out = [d \in {hop} |-> [i \in 1..len |-> DataPkt(n, slot[i], p)]]
      BY DEF out
    <3>11. chan' \in Channels /\ Batch(q, n, p, slot)
      BY <3>2, <3>5, <3>6, <3>7, <3>8, <3>9, <3>10, BatchEffect
    <3> QED
      BY <2>1, <3>11
  <2> QED
    BY <2>3, <2>4
<1>6. CASE LET i == First(found)
           IN  /\ chan' = Post(q, n,
                    [c \in IF i \in live /\ hop # 0 THEN {hop} ELSE {} |->
                       <<data(i)>>])
               /\ Free({i})
  <2>1. PICK i :
          /\ chan' = Post(q, n,
               [c \in IF i \in live /\ hop # 0 THEN {hop} ELSE {} |-> <<data(i)>>])
          /\ Free({i})
    BY <1>6
  <2>2. OnlyFrees /\ \A s \in Slots \cap {wq[i]} : ~heap'[n][s].live
    <3>1. {wq[j] : j \in {i}} = {wq[i]}
      OBVIOUS
    <3> QED
      BY <1>0, <2>1, <3>1, FreeEffect
  <2>3. CASE ~(i \in live /\ hop # 0)
    <3> DEFINE out == [c \in IF i \in live /\ hop # 0 THEN {hop} ELSE {} |->
                         <<data(i)>>]
    <3>1. DOMAIN out = {} /\ chan' = Post(q, n, out)
      BY <2>1, <2>3
    <3> HIDE DEF out
    <3>2. chan' = q
      BY <3>1, EmptyWrite
    <3> QED
      BY <1>2, <2>2, <3>2
  <2>4. CASE i \in live /\ hop # 0
    <3> DEFINE len == 1
               slot == [k \in 1..len |-> wq[i]]
               out == [c \in {hop} |-> [k \in 1..len |-> DataPkt(n, slot[k], p)]]
    <3>1. wq[i] \in Slots /\ heap[n][wq[i]].live /\ heap[n][wq[i]].dst = p.src
      BY <1>0, <2>4
    <3>2. slot \in [1..len -> Slots] /\ \A a, b \in 1..len : slot[a] = slot[b] => a = b
      BY <3>1
    <3>3. \A a \in 1..len : Released(n, slot[a]) /\ heap[n][slot[a]].dst = p.src
      BY <2>2, <3>1 DEF Released
    <3>4. chan' = Post(q, n, out)
      <4>1. <<data(i)>> = [k \in 1..len |-> DataPkt(n, slot[k], p)]
        BY <1>3, OneElement
      <4> QED
        BY <2>1, <2>4, <4>1
    <3>5. hop # 0
      BY <2>4
    <3> HIDE DEF len, slot, out
    <3>6. out = [d \in {hop} |-> [k \in 1..len |-> DataPkt(n, slot[k], p)]]
      BY DEF out
    <3>7. chan' \in Channels /\ Batch(q, n, p, slot)
      <4>1. len \in Nat
        BY DEF len
      <4> QED
        BY <3>2, <3>3, <3>4, <3>5, <3>6, <4>1, BatchEffect
    <3> QED
      BY <2>2, <3>7
  <2> QED
    BY <2>3, <2>4
<1> QED
  BY <1>1, <1>4, <1>5, <1>6

\* A forwarder of a reply changes one hop of the path.
LEMMA UpdateType ==
  ASSUME NEW p \in Packet, p.type = "Rr", NEW i, NEW a \in Ids
  PROVE  /\ UpdateHop(p, i, a) \in Packet
         /\ DOMAIN UpdateHop(p, i, a).path = DOMAIN p.path
         /\ \A j \in DOMAIN p.path :
              UpdateHop(p, i, a).path[j] = IF j = i THEN a ELSE p.path[j]
         /\ UpdateHop(p, i, a).type = p.type
         /\ UpdateHop(p, i, a).src = p.src
         /\ UpdateHop(p, i, a).dst = p.dst
         /\ UpdateHop(p, i, a).id = p.id
<1>1. [p.path EXCEPT ![i] = a] \in Seq(Ids)
  <2> DEFINE l == Len(p.path)
  <2>1. l \in Nat /\ p.path \in [1..l -> Ids]
    BY PacketFields
  <2> HIDE DEF l
  <2>2. [p.path EXCEPT ![i] = a] \in [1..l -> Ids]
    BY <2>1
  <2> QED
    BY <2>1, <2>2
<1> QED
  BY <1>1 DEF UpdateHop, Packet

\* The reply p goes on over d with the own id of n on d in its path.
Returned(n, p, d) == UpdateHop(p, First(OwnHops(n, p)), myids[n][d])

\* dump_receive_Rr writes parked messages, or the reply towards the source.
LEMMA RrEffect ==
  ASSUME TypeOK, LinkInv, NEW n \in Nodes, up[n], NEW q \in Channels,
         NEW p \in Packet, p.type = "Rr", NEW RRs, NEW Rrs,
         dump_receive_Rr(q, n, p, RRs, Rrs)
  PROVE  /\ chan' \in Channels
         /\ OnlyFrees
         /\ \/ /\ p.path # <<>> /\ dump_is_myid(n, p.dst)
               /\ \E slot : Batch(q, n, p, slot)
            \/ /\ heap' = heap
               /\ \A d \in Conns, m \in Nodes : \A k \in DOMAIN chan'[d][m] :
                    \/ Kept(q, d, m, k)
                    \/ /\ Sends(n, d, m)
                       /\ p.path # <<>> /\ ~dump_is_myid(n, p.dst)
                       /\ OwnHops(n, p) # {} /\ First(OwnHops(n, p)) # 1
                       /\ d = dump_lookup_neighbor(n,
                                p.path[First(OwnHops(n, p)) - 1])
                       /\ chan'[d][m][k] = Returned(n, p, d)
<1> DEFINE hops == OwnHops(n, p)
           i    == First(hops)
           s    == dump_lookup_neighbor(n, p.path[i - 1])
           D    == IF hops = {} \/ i = 1 THEN {} ELSE {s} \ {0}
           out  == [c \in D |-> <<UpdateHop(p, i, myids[n][c])>>]
<1>0. heap \in HeapType
  BY DEF TypeOK, HeapType
<1>1. \/ chan' = q /\ heap' = heap
      \/ p.path # <<>> /\ dump_is_myid(n, p.dst) /\ SendWaiting(q, n, p)
      \/ /\ p.path # <<>> /\ ~dump_is_myid(n, p.dst)
         /\ dump_send_real(q, n, out) /\ heap' = heap
  BY DEF dump_receive_Rr
<1>2. CASE chan' = q /\ heap' = heap
  BY <1>0, <1>2 DEF Kept, OnlyFrees
<1>3. CASE p.path # <<>> /\ dump_is_myid(n, p.dst) /\ SendWaiting(q, n, p)
  BY <1>3, WaitingEffect
<1>4. CASE /\ p.path # <<>> /\ ~dump_is_myid(n, p.dst)
           /\ dump_send_real(q, n, out) /\ heap' = heap
  <2>1. ASSUME NEW d \in D
        PROVE  /\ d = s /\ hops # {} /\ i # 1
               /\ Registered(n, d)
    BY <2>1 DEF Registered, dump_lookup_neighbor
  <2> HIDE DEF D
  <2>2. ASSUME NEW d \in D
        PROVE  /\ d \in Conns
               /\ out[d] = <<Returned(n, p, d)>>
               /\ out[d] \in Seq(Packet)
    <3>1. d \in Conns /\ myids[n][d] \in Ids
      BY <2>1, SocketHasId
    <3>2. out[d] = <<Returned(n, p, d)>>
      BY DEF Returned
    <3>3. Returned(n, p, d) \in Packet
      BY <3>1, UpdateType DEF Returned
    <3> QED
      BY <3>1, <3>2, <3>3
  <2>3. DOMAIN out = D
    OBVIOUS
  <2>4. Outgoing(out)
    BY <2>2, <2>3 DEF Outgoing
  <2> HIDE DEF out
  <2>5. /\ chan' \in Channels
        /\ \A c \in Conns, m \in Nodes : \A k \in DOMAIN chan'[c][m] :
             Kept(q, c, m, k) \/ Written(q, n, out, c, m, k)
    BY <1>4, <2>4, SendEffect
  <2>6. ASSUME NEW d \in Conns, NEW m \in Nodes, NEW k,
               Written(q, n, out, d, m, k)
        PROVE  /\ Sends(n, d, m)
               /\ hops # {} /\ i # 1 /\ d = s
               /\ chan'[d][m][k] = Returned(n, p, d)
    <3>1. d \in D /\ m = Peer(d, n)
      BY <2>3, <2>6 DEF Written
    <3>2. PICK j : j \in DOMAIN out[d] /\ chan'[d][m][k] = out[d][j]
      BY <2>6 DEF Written
    <3>3. chan'[d][m][k] = Returned(n, p, d)
      BY <2>2, <3>1, <3>2
    <3> QED
      BY <2>1, <3>1, <3>3 DEF Sends
  <2> QED
    BY <1>0, <1>4, <2>5, <2>6 DEF OnlyFrees
<1> QED
  BY <1>1, <1>2, <1>3, <1>4

\* dump_receive_DATA writes the packet it received, on one socket.
LEMMA DATAEffect ==
  ASSUME TypeOK, LinkInv, NEW n \in Nodes, up[n], NEW q \in Channels,
         NEW p \in Packet, NEW RRs, NEW Rrs,
         dump_receive_DATA(q, n, p, RRs, Rrs)
  PROVE  /\ chan' \in Channels
         /\ \A d \in Conns, m \in Nodes : \A k \in DOMAIN chan'[d][m] :
              \/ Kept(q, d, m, k)
              \/ /\ Sends(n, d, m)
                 /\ p.path # <<>> /\ ~dump_is_myid(n, p.dst)
                 /\ OwnHops(n, p) # {} /\ Last(OwnHops(n, p)) # Len(p.path)
                 /\ d = dump_lookup_neighbor(n, p.path[Last(OwnHops(n, p)) + 1])
                 /\ k = Len(q[d][m]) + 1
                 /\ chan'[d][m][k] = p
<1> DEFINE hops == OwnHops(n, p)
           i    == Last(hops)
           s    == IF i = Len(p.path) THEN 0
                   ELSE dump_lookup_neighbor(n, p.path[i + 1])
           D    == IF p.path = <<>> \/ dump_is_myid(n, p.dst) \/ hops = {}
                   THEN {} ELSE {s} \ {0}
           out  == [c \in D |-> <<p>>]
<1>1. dump_send_real(q, n, out)
  BY DEF dump_receive_DATA
<1>2. ASSUME NEW d \in D
      PROVE  /\ p.path # <<>> /\ ~dump_is_myid(n, p.dst) /\ hops # {}
             /\ i # Len(p.path)
             /\ d = dump_lookup_neighbor(n, p.path[i + 1]) /\ d # 0
  BY <1>2
<1> HIDE DEF D
<1>3. ASSUME NEW d \in D
      PROVE  Registered(n, d) /\ d \in Conns
  <2>1. Registered(n, d)
    BY <1>2 DEF Registered, dump_lookup_neighbor
  <2> QED
    BY <2>1, SocketHasId
<1>4. DOMAIN out = D /\ \A d \in D : out[d] = <<p>>
  OBVIOUS
<1>5. Outgoing(out)
  BY <1>3, <1>4 DEF Outgoing
<1> HIDE DEF out
<1>6. /\ chan' \in Channels
      /\ \A c \in Conns, m \in Nodes : \A k \in DOMAIN chan'[c][m] :
           Kept(q, c, m, k) \/ Written(q, n, out, c, m, k)
  BY <1>1, <1>5, SendEffect
<1>7. ASSUME NEW d \in Conns, NEW m \in Nodes, NEW k \in DOMAIN chan'[d][m],
             Written(q, n, out, d, m, k)
      PROVE  /\ Sends(n, d, m) /\ d \in D
             /\ k = Len(q[d][m]) + 1
             /\ chan'[d][m][k] = p
  <2>1. d \in D /\ m = Peer(d, n) /\ out[d] = <<p>>
    BY <1>4, <1>7 DEF Written
  <2> DEFINE l == Len(q[d][m])
  <2>2. k - l \in DOMAIN <<p>> /\ chan'[d][m][k] = <<p>>[k - l]
    BY <1>7, <2>1 DEF Written
  <2>3. l \in Nat /\ k \in Nat
    <3>1. q[d][m] \in Seq(Packet) /\ chan'[d][m] \in Seq(Packet)
      BY <1>6 DEF Channels
    <3> QED
      BY <3>1
  <2> HIDE DEF l
  <2>4. DOMAIN <<p>> = {1}
    OBVIOUS
  <2>5. k - l = 1
    BY <2>2, <2>4
  <2>6. k = l + 1 /\ chan'[d][m][k] = p
    BY <2>2, <2>3, <2>5
  <2> QED
    BY <1>3, <2>1, <2>6 DEF Sends, l
<1> QED
  BY <1>2, <1>6, <1>7

\* dump_send writes one request per neighbour.
LEMMA RequestEffect ==
  ASSUME TypeOK, LinkInv, NEW n \in Nodes, NEW dst \in Ids, dump_send(n, dst)
  PROVE  /\ chan' \in Channels
         /\ \A d \in Conns, m \in Nodes : \A k \in DOMAIN chan'[d][m] :
              \/ Kept(chan, d, m, k)
              \/ /\ Sends(n, d, m)
                 /\ chan'[d][m][k] =
                      [type |-> "RR", src |-> myids[n][d], dst |-> dst,
                       id |-> dump_mk_pkt_id(n, d), path |-> <<myids[n][d]>>]
<1> DEFINE socks == {c \in Conns : Registered(n, c)}
           pkt(d) == [type |-> "RR", src |-> myids[n][d], dst |-> dst,
                      id |-> dump_mk_pkt_id(n, d), path |-> <<myids[n][d]>>]
           out == [c \in socks |-> <<pkt(c)>>]
<1>1. dump_send_real(chan, n, out) /\ up[n]
  BY DEF dump_send
<1>2. chan \in Channels
  BY DEF TypeOK, Channels
<1>3. ASSUME NEW d \in socks
      PROVE  d \in Conns /\ pkt(d) \in Packet
  <2>1. myids[n][d] \in Ids /\ dump_mk_pkt_id(n, d) \in PktIds
    BY <1>1, SocketHasId, NewId
  <2>2. <<myids[n][d]>> \in Seq(Ids)
    BY <2>1
  <2> QED
    BY <2>1, <2>2 DEF Packet
<1>4. DOMAIN out = socks /\ \A d \in socks : out[d] = <<pkt(d)>>
  OBVIOUS
<1>5. Outgoing(out)
  <2> SUFFICES ASSUME NEW d \in socks PROVE d \in Conns /\ <<pkt(d)>> \in Seq(Packet)
    BY <1>4 DEF Outgoing
  <2> HIDE DEF socks, pkt
  <2> QED
    BY <1>3
<1> HIDE DEF out
<1>6. /\ chan' \in Channels
      /\ \A c \in Conns, m \in Nodes : \A k \in DOMAIN chan'[c][m] :
           Kept(chan, c, m, k) \/ Written(chan, n, out, c, m, k)
  BY <1>1, <1>2, <1>5, SendEffect
<1>7. ASSUME NEW d \in Conns, NEW m \in Nodes, NEW k,
             Written(chan, n, out, d, m, k)
      PROVE  Sends(n, d, m) /\ chan'[d][m][k] = pkt(d)
  <2>1. d \in socks /\ m = Peer(d, n) /\ out[d] = <<pkt(d)>>
    BY <1>4, <1>7 DEF Written
  <2>2. PICK j : j \in DOMAIN out[d] /\ chan'[d][m][k] = out[d][j]
    BY <1>7 DEF Written
  <2> HIDE DEF pkt
  <2>3. chan'[d][m][k] = pkt(d)
    BY <2>1, <2>2
  <2> QED
    BY <2>1, <2>3 DEF Sends
<1> QED
  BY <1>6, <1>7

(***************************************************************************)
(* The type invariant.                                                      *)
(***************************************************************************)
TypeInv == TypeOK /\ LinkInv

\* The types hold at the start.
LEMMA InitTypes == Init => TypeInv
<1> SUFFICES ASSUME Init PROVE TypeInv
  OBVIOUS
<1>1. LinkInv
  BY InitLinkInv
<1>2. chan \in [Conns -> [Nodes -> Seq(Packet)]]
  BY DEF Init
<1>3. send_wq \in [Nodes -> Seq(Slots)]
  BY DEF Init
<1>4. heap \in [Nodes -> [Slots -> [live : BOOLEAN, dst : AnyIds, src : AnyIds,
                                    id : PktIds]]]
  BY DEF Init, AnyIds, PktIds
<1>5. /\ RRseen \in [Nodes -> SUBSET PktIds] /\ Rrseen \in [Nodes -> SUBSET PktIds]
      /\ fresh \in [Nodes -> Nat] /\ delivered \subseteq Nodes \X PktIds
      /\ used \in [send : Nat, disconnect : Nat, split : Nat, expire : Nat]
  BY DEF Init
<1> QED
  BY <1>1, <1>2, <1>3, <1>4, <1>5 DEF TypeInv, TypeOK, LinkInv, LinkTypes

\* What every reception does besides the handler: the tables lose the entries
\* that have expired, and the packet leaves its channel.
LEMMA ReceiveCases ==
  ASSUME TypeInv, NEW n \in Nodes, NEW c \in Conns, dump_receive_cb(n, c)
  PROVE  /\ up[n] /\ Registered(n, c) /\ chan[c][n] # <<>>
         /\ Head(chan[c][n]) \in Packet /\ Popped(c, n) \in Channels
         /\ UNCHANGED <<conn, backlog, ports, myids>>
         /\ used' \in [send : Nat, disconnect : Nat, split : Nat, expire : Nat]
         /\ \E RRs \in SUBSET RRseen[n], Rrs \in SUBSET Rrseen[n] :
              /\ used'.expire = 0 => used.expire = 0 /\ RRs = RRseen[n]
              /\ \/ /\ Head(chan[c][n]).type = "RR"
                    /\ dump_receive_RR(Popped(c, n), n, Head(chan[c][n]), RRs, Rrs)
                 \/ /\ Head(chan[c][n]).type = "Rr"
                    /\ dump_receive_Rr(Popped(c, n), n, Head(chan[c][n]), RRs, Rrs)
                 \/ /\ Head(chan[c][n]).type = "DATA"
                    /\ dump_receive_DATA(Popped(c, n), n, Head(chan[c][n]), RRs, Rrs)
<1>1. /\ up[n] /\ Registered(n, c) /\ chan[c][n] # <<>>
      /\ UNCHANGED <<conn, backlog, ports, myids>>
  BY DEF dump_receive_cb
<1>2. Head(chan[c][n]) \in Packet /\ Popped(c, n) \in Channels
  BY <1>1, PopEffect DEF TypeInv
<1>3. PICK old :
        /\ used' = IF old = {} THEN used ELSE [used EXCEPT !.expire = @ + 1]
        /\ \/ /\ Head(chan[c][n]).type = "RR"
              /\ dump_receive_RR(Popped(c, n), n, Head(chan[c][n]),
                                 RRseen[n] \ old, Rrseen[n] \ old)
           \/ /\ Head(chan[c][n]).type = "Rr"
              /\ dump_receive_Rr(Popped(c, n), n, Head(chan[c][n]),
                                 RRseen[n] \ old, Rrseen[n] \ old)
           \/ /\ Head(chan[c][n]).type = "DATA"
              /\ dump_receive_DATA(Popped(c, n), n, Head(chan[c][n]),
                                   RRseen[n] \ old, Rrseen[n] \ old)
  BY DEF dump_receive_cb, Popped
<1>4. used \in [send : Nat, disconnect : Nat, split : Nat, expire : Nat]
  BY DEF TypeInv, TypeOK
<1>5. used' \in [send : Nat, disconnect : Nat, split : Nat, expire : Nat]
  BY <1>3, <1>4
<1>6. used'.expire = 0 => used.expire = 0 /\ old = {}
  <2>1. CASE old = {}
    BY <1>3, <2>1
  <2>2. CASE old # {}
    <3>1. used'.expire = used.expire + 1
      BY <1>3, <1>4, <2>2
    <3> QED
      BY <1>4, <3>1
  <2> QED
    BY <2>1, <2>2
<1>7. old = {} => RRseen[n] \ old = RRseen[n]
  OBVIOUS
<1> DEFINE RRs == RRseen[n] \ old
           Rrs == Rrseen[n] \ old
<1>8. RRs \in SUBSET RRseen[n] /\ Rrs \in SUBSET Rrseen[n]
  OBVIOUS
<1>9. /\ used'.expire = 0 => used.expire = 0 /\ RRs = RRseen[n]
      /\ \/ /\ Head(chan[c][n]).type = "RR"
            /\ dump_receive_RR(Popped(c, n), n, Head(chan[c][n]), RRs, Rrs)
         \/ /\ Head(chan[c][n]).type = "Rr"
            /\ dump_receive_Rr(Popped(c, n), n, Head(chan[c][n]), RRs, Rrs)
         \/ /\ Head(chan[c][n]).type = "DATA"
            /\ dump_receive_DATA(Popped(c, n), n, Head(chan[c][n]), RRs, Rrs)
  BY <1>3, <1>6, <1>7
<1> HIDE DEF RRs, Rrs
<1> QED
  BY <1>1, <1>2, <1>5, <1>8, <1>9

\* The part of the type invariant that LinkInv does not state.
PacketTypes ==
  /\ chan \in Channels
  /\ RRseen \in [Nodes -> SUBSET PktIds]
  /\ Rrseen \in [Nodes -> SUBSET PktIds]
  /\ send_wq \in [Nodes -> Seq(Slots)]
  /\ heap \in HeapType
  /\ fresh \in [Nodes -> Nat]
  /\ delivered \subseteq Nodes \X PktIds
  /\ used \in [send : Nat, disconnect : Nat, split : Nat, expire : Nat]

\* The invariant as the types of packets and those of links.
LEMMA TypeParts == TypeInv <=> PacketTypes /\ LinkInv
BY DEF TypeInv, TypeOK, PacketTypes, LinkInv, LinkTypes, Channels, HeapType

\* The packet handlers keep the types of packets.
LEMMA ReceiveKeepsTypes ==
  ASSUME TypeInv, NEW n \in Nodes, NEW c \in Conns, dump_receive_cb(n, c)
  PROVE  PacketTypes'
<1> USE TypeParts
<1>1. PICK RRs \in SUBSET RRseen[n], Rrs \in SUBSET Rrseen[n] :
        \/ /\ Head(chan[c][n]).type = "RR"
           /\ dump_receive_RR(Popped(c, n), n, Head(chan[c][n]), RRs, Rrs)
        \/ /\ Head(chan[c][n]).type = "Rr"
           /\ dump_receive_Rr(Popped(c, n), n, Head(chan[c][n]), RRs, Rrs)
        \/ /\ Head(chan[c][n]).type = "DATA"
           /\ dump_receive_DATA(Popped(c, n), n, Head(chan[c][n]), RRs, Rrs)
  BY ReceiveCases
<1> DEFINE p == Head(chan[c][n])
           q == Popped(c, n)
<1>2. /\ p \in Packet /\ q \in Channels /\ up[n] /\ TypeOK /\ LinkInv
      /\ used' \in [send : Nat, disconnect : Nat, split : Nat, expire : Nat]
  BY ReceiveCases DEF TypeInv
<1>3. p.id \in PktIds
  BY <1>2, PacketFields
<1>4. RRs \subseteq PktIds /\ Rrs \subseteq PktIds
  BY DEF PacketTypes
<1> HIDE DEF p, q
<1>5. CASE p.type = "RR" /\ dump_receive_RR(q, n, p, RRs, Rrs)
  <2>1. chan' \in Channels
    BY <1>2, <1>5, RREffect
  <2>2. /\ RRseen' \in [Nodes -> SUBSET PktIds] /\ Rrseen' \in [Nodes -> SUBSET PktIds]
    BY <1>3, <1>4, <1>5 DEF dump_receive_RR, PacketTypes
  <2>3. fresh' \in [Nodes -> Nat]
    BY <1>5 DEF dump_receive_RR, PacketTypes
  <2>4. UNCHANGED <<send_wq, heap, delivered>>
    BY <1>5 DEF dump_receive_RR, queue
  <2> QED
    BY <1>2, <2>1, <2>2, <2>3, <2>4 DEF PacketTypes, Channels, HeapType
<1>6. CASE p.type = "Rr" /\ dump_receive_Rr(q, n, p, RRs, Rrs)
  <2>1. chan' \in Channels /\ heap' \in HeapType
    BY <1>2, <1>6, RrEffect DEF OnlyFrees
  <2>2. RRseen' \in [Nodes -> SUBSET PktIds]
    BY <1>4, <1>6 DEF dump_receive_Rr, PacketTypes
  <2>3. Rrseen' \in [Nodes -> SUBSET PktIds]
    <3>1. \/ Rrseen' = [Rrseen EXCEPT ![n] = Rrs]
          \/ Rrseen' = [Rrseen EXCEPT ![n] = Rrs \cup {p.id}]
      BY <1>6 DEF dump_receive_Rr
    <3>2. Rrs \cup {p.id} \in SUBSET PktIds /\ Rrs \in SUBSET PktIds
      BY <1>3, <1>4
    <3> QED
      BY <3>1, <3>2 DEF PacketTypes
  <2>4. UNCHANGED <<fresh, send_wq, delivered>>
    BY <1>6 DEF dump_receive_Rr
  <2> QED
    BY <1>2, <2>1, <2>2, <2>3, <2>4 DEF PacketTypes, Channels, HeapType
<1>7. CASE p.type = "DATA" /\ dump_receive_DATA(q, n, p, RRs, Rrs)
  <2>1. chan' \in Channels
    BY <1>2, <1>7, DATAEffect
  <2>2. /\ RRseen' \in [Nodes -> SUBSET PktIds] /\ Rrseen' \in [Nodes -> SUBSET PktIds]
    BY <1>4, <1>7 DEF dump_receive_DATA, PacketTypes
  <2>3. delivered' \subseteq Nodes \X PktIds
    BY <1>3, <1>7 DEF dump_receive_DATA, PacketTypes
  <2>4. UNCHANGED <<send_wq, heap, fresh>>
    BY <1>7 DEF dump_receive_DATA, queue
  <2> QED
    BY <1>2, <2>1, <2>2, <2>3, <2>4 DEF PacketTypes, Channels, HeapType
<1> QED
  BY <1>1, <1>5, <1>6, <1>7 DEF p, q

\* dump_send keeps the types of packets.
LEMMA SendKeepsTypes ==
  ASSUME TypeInv, NEW n \in Nodes, NEW dst \in Ids, dump_send(n, dst)
  PROVE  PacketTypes'
<1> USE TypeParts
<1>1. chan' \in Channels
  BY RequestEffect DEF TypeInv
<1>2. PICK s \in Slots, src \in dump_get_myid(n, 0) :
        /\ heap' = [heap EXCEPT ![n][s] =
             [live |-> TRUE, dst |-> dst, src |-> src,
              id |-> dump_mk_pkt_id(n, 0)]]
        /\ send_wq' = [send_wq EXCEPT ![n] = Append(@, s)]
  BY DEF dump_send
<1>3. src \in AnyIds /\ dst \in AnyIds
  BY DEF dump_get_myid, AnyIds
<1>4. dump_mk_pkt_id(n, 0) \in PktIds
  BY NewId DEF TypeInv
<1>5. heap' \in HeapType
  <2> DEFINE e == [live |-> TRUE, dst |-> dst, src |-> src,
                   id |-> dump_mk_pkt_id(n, 0)]
  <2>1. e \in [live : BOOLEAN, dst : AnyIds, src : AnyIds, id : PktIds]
    BY <1>3, <1>4
  <2>2. heap' = [heap EXCEPT ![n][s] = e]
    BY <1>2
  <2> HIDE DEF e
  <2> QED
    BY <2>1, <2>2 DEF PacketTypes, HeapType
<1>6. send_wq' \in [Nodes -> Seq(Slots)]
  <2>1. Append(send_wq[n], s) \in Seq(Slots)
    BY DEF PacketTypes
  <2> QED
    BY <1>2, <2>1 DEF PacketTypes
<1>7. fresh' \in [Nodes -> Nat]
  BY DEF dump_send, PacketTypes
<1>8. used' \in [send : Nat, disconnect : Nat, split : Nat, expire : Nat]
  <2>1. used \in [send : Nat, disconnect : Nat, split : Nat, expire : Nat]
    BY DEF PacketTypes
  <2>2. used' = [used EXCEPT !.send = @ + 1]
    BY DEF dump_send
  <2> QED
    BY <2>1, <2>2
<1>9. UNCHANGED <<RRseen, Rrseen, delivered>>
  BY DEF dump_send
<1> QED
  BY <1>1, <1>5, <1>6, <1>7, <1>8, <1>9 DEF PacketTypes, Channels, HeapType

\* The operations on connections touch none of the packets.
Still ==
  /\ UNCHANGED <<chan, RRseen, Rrseen, fresh, send_wq, heap, delivered>>
  /\ used' \in [send : Nat, disconnect : Nat, split : Nat, expire : Nat]
  /\ used'.expire = used.expire

\* Connecting, accepting and disconnecting touch no packet.
LEMMA LinkActionsStill ==
  ASSUME TypeInv, NEW n \in Nodes, NEW m \in Nodes, NEW c \in Conns,
         \/ ReceiveFails(n, c) \/ dump_disconnect_host(n, m)
         \/ dump_connect_to(n, m) \/ revm_dump_accept(n, c)
  PROVE  Still
<1>1. used \in [send : Nat, disconnect : Nat, split : Nat, expire : Nat]
  BY DEF TypeInv, TypeOK
<1>2. UNCHANGED <<chan, RRseen, Rrseen, fresh, send_wq, heap, delivered>>
  BY DEF ReceiveFails, dump_disconnect_host, dump_connect_to, revm_dump_accept,
         tables, queue
<1>3. \/ used' = used \/ used' = [used EXCEPT !.split = @ + 1]
      \/ used' = [used EXCEPT !.disconnect = @ + 1]
  BY DEF ReceiveFails, dump_disconnect_host, dump_connect_to, revm_dump_accept
<1> QED
  BY <1>1, <1>2, <1>3 DEF Still

\* A step is a send, a reception, or leaves the packets alone.
LEMMA PacketSteps ==
  ASSUME TypeInv, [Next]_vars
  PROVE  \/ \E n \in Nodes, dst \in Ids : dump_send(n, dst)
         \/ \E n \in Nodes, c \in Conns : dump_receive_cb(n, c)
         \/ Still
<1>1. CASE UNCHANGED vars
  BY <1>1 DEF vars, Still, TypeInv, TypeOK
<1>2. ASSUME NEW n \in Nodes, NEW m \in Nodes,
             dump_disconnect_host(n, m) \/ dump_connect_to(n, m)
      PROVE  Still
  <2>1. Conns # {}
    <3>1. CASE dump_connect_to(n, m)
      BY <3>1 DEF dump_connect_to
    <3>2. CASE dump_disconnect_host(n, m)
      <4>1. PICK d : Registered(n, d)
        BY <3>2 DEF dump_disconnect_host, dump_disconnect
      <4> QED
        BY <4>1 DEF Registered, TypeInv, LinkInv, LinkTypes
    <3> QED
      BY <1>2, <3>1, <3>2
  <2> QED
    BY <1>2, <2>1, LinkActionsStill
<1>3. ASSUME NEW n \in Nodes, NEW c \in Conns,
             ReceiveFails(n, c) \/ revm_dump_accept(n, c)
      PROVE  Still
  BY <1>3, LinkActionsStill
<1> QED
  BY <1>1, <1>2, <1>3 DEF Next, Receive

\* The types and the link tables hold together.
LEMMA TypeInvariant == Spec => []TypeInv
<1>1. TypeInv /\ [Next]_vars => TypeInv'
  <2> SUFFICES ASSUME TypeInv, [Next]_vars PROVE TypeInv'
    OBVIOUS
  <2>1. LinkInv'
    BY NextKeepsLinkInv DEF TypeInv
  <2>2. PacketTypes'
    <3>1. CASE Still
      BY <3>1, TypeParts DEF Still, PacketTypes, Channels, HeapType
    <3> QED
      BY <3>1, PacketSteps, SendKeepsTypes, ReceiveKeepsTypes
  <2> QED
    BY <2>1, <2>2, TypeParts DEF TypeInv, TypeOK, PacketTypes, LinkInv, LinkTypes,
       Channels, HeapType
<1> QED
  BY <1>1, InitTypes, PTL DEF Spec

(***************************************************************************)
(* Types: every table, queue and channel of libdump holds what it is        *)
(* declared to hold.  That a packet's ids are addresses, never INADDR_ANY,  *)
(* is not local to the handlers: they write the own id of a socket they     *)
(* found in dump_world.ports, and LinkTables says it has one.               *)
(***************************************************************************)
THEOREM Types == Spec => []TypeOK
<1>1. TypeInv => TypeOK
  BY DEF TypeInv
<1> QED
  BY <1>1, TypeInvariant, PTL

(***************************************************************************)
(* Routes.  A node appends its id to a request only if the request is not   *)
(* in its recently seen table, and enters it there; so every hop of a       *)
(* request after the first has it in its table.                             *)
(***************************************************************************)
SimplePath(path) ==
  \A i, j \in DOMAIN path : i < j /\ Owner(path[i]) = Owner(path[j]) => i = 1

\* Those who passed a request on, other than its source, remember its id.
Marked(p) ==
  p.type = "RR" =>
    \A j \in DOMAIN p.path :
      /\ Owner(p.path[j]) \in Nodes
      /\ j # 1 => p.id \in RRseen[Owner(p.path[j])]

\* What a socket is known by is an address of its node.
OwnIds ==
  \A n \in Nodes, c \in Conns :
    myids[n][c] \in Ids => \E m \in Nodes : myids[n][c] = Addr[n][m]

\* Until an entry expires, all routes are simple and remembered.
SimpleRoutes ==
  used.expire = 0 =>
    \A c \in Conns, n \in Nodes : \A k \in DOMAIN chan[c][n] :
      SimplePath(chan[c][n][k].path) /\ Marked(chan[c][n][k])

\* The inductive invariant for LoopFree.
RouteInv == TypeInv /\ OwnIds /\ SimpleRoutes

\* An address has one owner.
LEMMA OwnerOfAddr ==
  ASSUME NEW n \in Nodes, NEW m \in Nodes
  PROVE  Owner(Addr[n][m]) = n
<1>1. \E k \in Nodes : \E l \in Nodes : Addr[k][l] = Addr[n][m]
  OBVIOUS
<1>2. \E l \in Nodes : Addr[Owner(Addr[n][m])][l] = Addr[n][m]
  BY <1>1 DEF Owner
<1>3. Owner(Addr[n][m]) \in Nodes
  BY <1>1 DEF Owner
<1> QED
  BY <1>2, <1>3, ConstantsAssumption

\* The id of a registered socket belongs to the node.
LEMMA OwnerOfSocket ==
  ASSUME LinkInv, NEW n \in Nodes, up[n], NEW d, Registered(n, d)
  PROVE  Owner(myids[n][d]) = n
BY SocketHasId, OwnerOfAddr

\* So does whatever dump_is_myid takes for its own.
LEMMA OwnerOfMyid ==
  ASSUME OwnIds, NEW n \in Nodes, NEW a, dump_is_myid(n, a)
  PROVE  Owner(a) = n
BY OwnerOfAddr DEF OwnIds, dump_is_myid

\* The least of a set of indices.
LEMMA FirstOf ==
  ASSUME NEW S, S \subseteq Nat, S # {}
  PROVE  First(S) \in S /\ \A j \in S : First(S) <= j
<1>1. \E i \in S : \A j \in S : i <= j
  BY LeastNat
<1> QED
  BY <1>1 DEF First

\* No step gives a node an address of another.
LEMMA OwnIdsStep ==
  ASSUME TypeInv, OwnIds, [Next]_vars
  PROVE  OwnIds'
<1>1. CASE myids' = myids
  BY <1>1 DEF OwnIds
<1>2. ASSUME NEW n \in Nodes, NEW c, dump_disconnect(n, c)
      PROVE  OwnIds'
  <2>1. myids' = [myids EXCEPT ![n][c] = INADDR_ANY]
    BY <1>2 DEF dump_disconnect
  <2> QED
    BY <2>1, ConstantsAssumption DEF OwnIds, TypeInv, TypeOK
<1>3. ASSUME NEW n \in Nodes, NEW m \in Nodes, dump_connect_to(n, m)
      PROVE  OwnIds'
  <2>1. PICK c \in Conns : myids' = [myids EXCEPT ![n][c] = Addr[n][m]]
    BY <1>3 DEF dump_connect_to
  <2> QED
    BY <2>1, SMTT(60) DEF OwnIds, TypeInv, TypeOK
<1>4. ASSUME NEW m \in Nodes, NEW c \in Conns, revm_dump_accept(m, c)
      PROVE  OwnIds'
  <2>1. myids' = [myids EXCEPT ![m][c] = Addr[m][conn[c][1]]]
    BY <1>4 DEF revm_dump_accept
  <2>2. conn[c][1] \in Nodes
    <3>1. conn[c] # <<>>
      BY <1>4 DEF revm_dump_accept, TypeInv, LinkInv, Backlog
    <3> QED
      BY <3>1 DEF TypeInv, TypeOK
  <2>3. \A k \in Nodes, d \in Conns : myids'[k][d] =
          IF k = m /\ d = c THEN Addr[m][conn[c][1]] ELSE myids[k][d]
    BY <2>1 DEF TypeInv, TypeOK
  <2> QED
    BY <2>2, <2>3 DEF OwnIds
<1>5. CASE UNCHANGED vars \/ Receive \/ \E n \in Nodes, a \in Ids : dump_send(n, a)
  BY <1>1, <1>5 DEF vars, Receive, dump_receive_cb, dump_send
<1>6. ASSUME NEW n \in Nodes, NEW c \in Conns, ReceiveFails(n, c)
      PROVE  OwnIds'
  BY <1>2, <1>6 DEF ReceiveFails
<1>7. ASSUME NEW n \in Nodes, NEW m \in Nodes, dump_disconnect_host(n, m)
      PROVE  OwnIds'
  BY <1>2, <1>7 DEF dump_disconnect_host
<1> QED
  BY <1>3, <1>4, <1>5, <1>6, <1>7 DEF Next

\* A hop that is new to a simple path keeps it simple.
LEMMA AppendSimple ==
  ASSUME NEW path \in Seq(Ids), NEW a \in Ids, SimplePath(path),
         \A j \in DOMAIN path : Owner(path[j]) = Owner(a) => j = 1
  PROVE  SimplePath(Append(path, a))
<1> DEFINE l == Len(path)
           new == Append(path, a)
<1>1. /\ l \in Nat /\ DOMAIN path = 1..l /\ DOMAIN new = 1..(l + 1)
      /\ \A i \in 1..l : new[i] = path[i]
      /\ new[l + 1] = a
  BY AppendProperties
<1> SUFFICES ASSUME NEW i \in DOMAIN new, NEW j \in DOMAIN new, i < j,
                    Owner(new[i]) = Owner(new[j])
             PROVE  i = 1
  BY DEF SimplePath
<1> HIDE DEF l, new
<1>2. i \in 1..l
  BY <1>1
<1>3. CASE j = l + 1
  BY <1>1, <1>2, <1>3
<1>4. CASE j \in 1..l
  BY <1>1, <1>2, <1>4 DEF SimplePath
<1> QED
  BY <1>1, <1>3, <1>4

\* So does a change of the id of a hop into another id of the same node.
LEMMA ReplaceSimple ==
  ASSUME NEW path, NEW new, NEW i, NEW a, SimplePath(path),
         DOMAIN new = DOMAIN path,
         \A j \in DOMAIN path : new[j] = IF j = i THEN a ELSE path[j],
         i \in DOMAIN path => Owner(path[i]) = Owner(a)
  PROVE  SimplePath(new)
<1>1. \A j \in DOMAIN path : Owner(new[j]) = Owner(path[j])
  OBVIOUS
<1> QED
  BY <1>1 DEF SimplePath

\* A new request has a path of one hop.
LEMMA SendKeepsRoutes ==
  ASSUME RouteInv, NEW n \in Nodes, NEW dst \in Ids, dump_send(n, dst)
  PROVE  SimpleRoutes'
<1>1. UNCHANGED RRseen /\ used'.expire = used.expire
  BY DEF dump_send, RouteInv, TypeInv, TypeOK
<1> SUFFICES ASSUME used.expire = 0, NEW d \in Conns, NEW m \in Nodes,
                    NEW k \in DOMAIN chan'[d][m], NEW w, w = chan'[d][m][k]
             PROVE  SimplePath(w.path) /\ Marked(w)'
  BY <1>1 DEF SimpleRoutes
<1>2. CASE Kept(chan, d, m, k)
  BY <1>1, <1>2 DEF Kept, RouteInv, SimpleRoutes, Marked
<1>3. CASE /\ Sends(n, d, m)
           /\ w = [type |-> "RR", src |-> myids[n][d], dst |-> dst,
                   id |-> dump_mk_pkt_id(n, d), path |-> <<myids[n][d]>>]
  <2>1. Owner(myids[n][d]) = n
    BY <1>3, OwnerOfSocket DEF Sends, RouteInv, TypeInv, dump_send
  <2>2. w.path = <<myids[n][d]>>
    BY <1>3
  <2>3. DOMAIN w.path = {1} /\ w.path[1] = myids[n][d]
    BY <2>2
  <2> QED
    BY <2>1, <2>3 DEF SimplePath, Marked
<1> QED
  BY <1>2, <1>3, RequestEffect DEF RouteInv, TypeInv

\* A node that extends a path is not in it, or it would have seen the request.
LEMMA ReceiveKeepsRoutes ==
  ASSUME RouteInv, NEW n \in Nodes, NEW c \in Conns, dump_receive_cb(n, c)
  PROVE  SimpleRoutes'
<1> SUFFICES ASSUME used'.expire = 0, NEW d \in Conns, NEW m \in Nodes,
                    NEW k \in DOMAIN chan'[d][m], NEW w, w = chan'[d][m][k]
             PROVE  SimplePath(w.path) /\ Marked(w)'
  BY DEF SimpleRoutes
<1>1. PICK RRs \in SUBSET RRseen[n], Rrs \in SUBSET Rrseen[n] :
        /\ used'.expire = 0 => used.expire = 0 /\ RRs = RRseen[n]
        /\ \/ /\ Head(chan[c][n]).type = "RR"
              /\ dump_receive_RR(Popped(c, n), n, Head(chan[c][n]), RRs, Rrs)
           \/ /\ Head(chan[c][n]).type = "Rr"
              /\ dump_receive_Rr(Popped(c, n), n, Head(chan[c][n]), RRs, Rrs)
           \/ /\ Head(chan[c][n]).type = "DATA"
              /\ dump_receive_DATA(Popped(c, n), n, Head(chan[c][n]), RRs, Rrs)
  BY ReceiveCases DEF RouteInv
<1> DEFINE p == Head(chan[c][n])
           q == Popped(c, n)
<1>2. /\ p \in Packet /\ q \in Channels /\ up[n] /\ TypeOK /\ LinkInv /\ OwnIds
      /\ used.expire = 0 /\ RRs = RRseen[n] /\ Registered(n, c)
      /\ chan[c][n] # <<>>
  BY <1>1, ReceiveCases DEF RouteInv, TypeInv
<1>3. SimplePath(p.path) /\ Marked(p)
  BY <1>2, PopEffect DEF RouteInv, SimpleRoutes
<1>4. p.path \in Seq(Ids)
  BY <1>2, PacketFields
<1>5. ASSUME Kept(q, d, m, k) PROVE SimplePath(w.path) /\ Marked(w)
  <2>1. k \in DOMAIN q[d][m] /\ w = q[d][m][k]
    BY <1>5 DEF Kept
  <2>2. \E j \in DOMAIN chan[d][m] : w = chan[d][m][j]
    BY <1>2, <2>1, PopEffect
  <2> QED
    BY <1>2, <2>2 DEF RouteInv, SimpleRoutes
<1> HIDE DEF p, q
<1>6. ASSUME Kept(q, d, m, k), \A l \in Nodes : RRseen[l] \subseteq RRseen'[l]
      PROVE  SimplePath(w.path) /\ Marked(w)'
  BY <1>5, <1>6 DEF Marked
<1>7. CASE p.type = "RR" /\ dump_receive_RR(q, n, p, RRs, Rrs)
  <2>1. RRseen' = [RRseen EXCEPT ![n] = RRseen[n] \cup {p.id}]
    BY <1>2, <1>7 DEF dump_receive_RR
  <2>2. /\ RRseen \in [Nodes -> SUBSET PktIds]
        /\ \A l \in Nodes : RRseen[l] \subseteq RRseen'[l]
        /\ p.id \in RRseen'[n]
    BY <1>2, <2>1 DEF TypeOK
  <2>3. CASE Kept(q, d, m, k)
    BY <1>6, <2>2, <2>3
  <2>4. CASE /\ Sends(n, d, m) /\ p.id \notin RRs
             /\ w = Reply(n, p, d) \/ w = Forwarded(n, p, d)
    <3>1. Owner(myids[n][d]) = n /\ myids[n][d] \in Ids
      BY <1>2, <2>4, OwnerOfSocket, SocketHasId DEF Sends
    <3>2. w.path = Append(p.path, myids[n][d])
      BY <1>2, <1>7, <2>4, ForwardedType DEF Reply, Sends
    <3>3. \A j \in DOMAIN p.path : Owner(p.path[j]) = n => j = 1
      BY <1>2, <1>3, <1>7, <2>4 DEF Marked
    <3>4. SimplePath(w.path)
      BY <1>3, <1>4, <3>1, <3>2, <3>3, AppendSimple
    <3>5. CASE w = Reply(n, p, d)
      BY <3>4, <3>5 DEF Reply, Marked
    <3>6. CASE w = Forwarded(n, p, d)
      <4>1. w.id = p.id
        BY <1>2, <1>7, <2>4, <3>6, ForwardedType DEF Sends
      <4> DEFINE l == Len(p.path)
      <4>2. /\ l \in Nat /\ DOMAIN p.path = 1..l /\ DOMAIN w.path = 1..(l + 1)
            /\ \A i \in 1..l : w.path[i] = p.path[i]
            /\ w.path[l + 1] = myids[n][d]
        BY <1>4, <3>1, <3>2, AppendProperties
      <4> HIDE DEF l
      <4>3. ASSUME NEW j \in DOMAIN w.path
            PROVE  /\ Owner(w.path[j]) \in Nodes
                   /\ j # 1 => w.id \in RRseen'[Owner(w.path[j])]
        <5>1. CASE j \in 1..l
          BY <1>3, <1>7, <2>2, <4>1, <4>2, <5>1 DEF Marked
        <5>2. CASE j = l + 1
          BY <2>2, <3>1, <4>1, <4>2, <5>2
        <5> QED
          BY <4>2, <5>1, <5>2
      <4>4. Marked(w)'
        BY <4>3 DEF Marked
      <4> QED
        BY <3>4, <4>4
    <3> QED
      BY <2>4, <3>5, <3>6
  <2> QED
    BY <1>2, <1>7, <2>3, <2>4, RREffect
<1>8. ASSUME RRseen' = [RRseen EXCEPT ![n] = RRs]
      PROVE  \A l \in Nodes : RRseen[l] \subseteq RRseen'[l]
  BY <1>2, <1>8 DEF TypeOK
<1>9. CASE p.type = "Rr" /\ dump_receive_Rr(q, n, p, RRs, Rrs)
  <2>1. \A l \in Nodes : RRseen[l] \subseteq RRseen'[l]
    BY <1>8, <1>9 DEF dump_receive_Rr
  <2>2. CASE Kept(q, d, m, k)
    BY <1>6, <2>1, <2>2
  <2>3. CASE \E s : w = DataPkt(n, s, p)
    BY <1>3, <2>3 DEF DataPkt, Marked
  <2>4. CASE Sends(n, d, m) /\ w = Returned(n, p, d) /\ OwnHops(n, p) # {}
    <3> DEFINE i == First(OwnHops(n, p))
    <3>1. Owner(myids[n][d]) = n /\ myids[n][d] \in Ids
      BY <1>2, <2>4, OwnerOfSocket, SocketHasId DEF Sends
    <3>2. /\ w.type = "Rr" /\ DOMAIN w.path = DOMAIN p.path
          /\ \A j \in DOMAIN p.path :
               w.path[j] = IF j = i THEN myids[n][d] ELSE p.path[j]
      BY <1>2, <1>9, <2>4, <3>1, UpdateType DEF Returned
    <3>3. OwnHops(n, p) \subseteq Nat
      BY <1>4 DEF OwnHops
    <3>4. i \in OwnHops(n, p)
      BY <2>4, <3>3, FirstOf
    <3>5. Owner(p.path[i]) = n
      BY <1>2, <3>4, OwnerOfMyid DEF OwnHops
    <3> HIDE DEF i
    <3>6. SimplePath(w.path)
      <4>1. PICK old, new, a : old = p.path /\ new = w.path /\ a = myids[n][d]
        OBVIOUS
      <4>2. /\ SimplePath(old) /\ DOMAIN new = DOMAIN old
            /\ \A j \in DOMAIN old : new[j] = IF j = i THEN a ELSE old[j]
            /\ i \in DOMAIN old => Owner(old[i]) = Owner(a)
        BY <1>3, <3>1, <3>2, <3>5, <4>1
      <4>3. SimplePath(new)
        BY <4>2, ReplaceSimple
      <4> QED
        BY <4>1, <4>3
    <3> QED
      BY <3>2, <3>6 DEF Marked
  <2>5. \/ Kept(q, d, m, k)
        \/ \E s : w = DataPkt(n, s, p)
        \/ Sends(n, d, m) /\ w = Returned(n, p, d) /\ OwnHops(n, p) # {}
    BY <1>2, <1>9, RrEffect DEF Batch
  <2> QED
    BY <2>2, <2>3, <2>4, <2>5
<1>10. CASE p.type = "DATA" /\ dump_receive_DATA(q, n, p, RRs, Rrs)
  <2>1. \A l \in Nodes : RRseen[l] \subseteq RRseen'[l]
    BY <1>8, <1>10 DEF dump_receive_DATA
  <2>2. CASE Kept(q, d, m, k)
    BY <1>6, <2>1, <2>2
  <2>3. CASE w = p
    BY <1>3, <1>10, <2>3 DEF Marked
  <2> QED
    BY <1>2, <1>10, <2>2, <2>3, DATAEffect
<1> QED
  BY <1>1, <1>7, <1>9, <1>10 DEF p, q

\* A simple path has the node of its first hop at most twice.
LEMMA SimpleTwice ==
  ASSUME NEW path \in Seq(Ids), SimplePath(path)
  PROVE  Cardinality({i \in DOMAIN path : Owner(path[i]) = Owner(path[1])}) <= 2
<1> DEFINE S == {i \in DOMAIN path : Owner(path[i]) = Owner(path[1])}
<1>1. S \subseteq Nat /\ S \subseteq DOMAIN path
  OBVIOUS
<1>2. ASSUME NEW i \in S, NEW j \in S, i # 1, j # 1 PROVE i = j
  BY <1>1, <1>2 DEF SimplePath
<1>3. \E a, b : S \subseteq {a, b}
  <2>1. CASE S \subseteq {1}
    BY <2>1
  <2>2. CASE ~(S \subseteq {1})
    <3>1. PICK i \in S : i # 1
      BY <2>2
    <3>2. S \subseteq {1, i}
      BY <1>2, <3>1
    <3> QED
      BY <3>2
  <2> QED
    BY <2>1, <2>2
<1> HIDE DEF S
<1>4. PICK a, b : S \subseteq {a, b}
  BY <1>3
<1>5. IsFiniteSet({a}) /\ Cardinality({a}) = 1
  BY FS_Singleton
<1>6. /\ IsFiniteSet({a} \cup {b})
      /\ \/ Cardinality({a} \cup {b}) = 1
         \/ Cardinality({a} \cup {b}) = 2
  <2>1. CASE b \in {a}
    <3>1. {a} \cup {b} = {a}
      BY <2>1
    <3> QED
      BY <1>5, <3>1
  <2>2. CASE b \notin {a}
    <3>1. /\ IsFiniteSet({a} \cup {b})
          /\ Cardinality({a} \cup {b}) =
               IF b \in {a} THEN Cardinality({a}) ELSE Cardinality({a}) + 1
      BY <1>5, FS_AddElement
    <3>2. Cardinality({a} \cup {b}) = 1 + 1
      BY <1>5, <2>2, <3>1
    <3>3. 1 + 1 = 2
      OBVIOUS
    <3> QED
      BY <3>1, <3>2, <3>3
  <2> QED
    BY <2>1, <2>2
<1>7. S \subseteq {a} \cup {b}
  BY <1>4
<1>8. IsFiniteSet(S) /\ Cardinality(S) <= Cardinality({a} \cup {b})
  BY <1>6, <1>7, FS_Subset
<1>9. Cardinality(S) \in Nat
  BY <1>8, FS_CardinalityType
<1>10. Cardinality(S) <= 2
  <2>1. PICK x, y : x = Cardinality(S) /\ y = Cardinality({a} \cup {b})
    OBVIOUS
  <2>2. x \in Nat /\ x <= y /\ (y = 1 \/ y = 2)
    BY <1>6, <1>8, <1>9, <2>1
  <2>3. x <= 2
    BY <2>2
  <2> QED
    BY <2>1, <2>3
<1> QED
  BY <1>10 DEF S

(***************************************************************************)
(* NoLoops: as long as no entry of a recently seen table has expired, no    *)
(* route visits a node twice, save the source, once more.  dump_receive_RR  *)
(* drops a request it has seen before it adds its id, and a forwarder of    *)
(* the reply replaces its id by another of its own.                         *)
(***************************************************************************)
THEOREM NoLoops == Spec => []LoopFree
<1>1. Init => RouteInv
  <2>1. Init => OwnIds
    BY InitConnEnds, ConstantsAssumption DEF Init, OwnIds, InitEnd
  <2>2. Init => SimpleRoutes
    BY DEF Init, SimpleRoutes
  <2> QED
    BY <2>1, <2>2, InitTypes DEF RouteInv
<1>2. RouteInv /\ TypeInv' /\ [Next]_vars => RouteInv'
  <2> SUFFICES ASSUME RouteInv, TypeInv', [Next]_vars PROVE RouteInv'
    OBVIOUS
  <2>1. OwnIds'
    BY OwnIdsStep DEF RouteInv
  <2>2. CASE Still
    BY <2>1, <2>2 DEF Still, RouteInv, SimpleRoutes, Marked
  <2> QED
    BY <2>1, <2>2, PacketSteps, SendKeepsRoutes, ReceiveKeepsRoutes DEF RouteInv
<1>3. RouteInv => LoopFree
  <2> SUFFICES ASSUME RouteInv, used.expire = 0,
                      NEW c \in Conns, NEW n \in Nodes, NEW k \in DOMAIN chan[c][n]
               PROVE  LoopFree!2!(c, n)!(k)
    BY DEF LoopFree
  <2>1. chan[c][n][k] \in Packet
    BY DEF RouteInv, TypeInv, TypeOK
  <2>2. chan[c][n][k].path \in Seq(Ids) /\ SimplePath(chan[c][n][k].path)
    BY <2>1, PacketFields DEF RouteInv, SimpleRoutes
  <2> QED
    BY <2>2, SimpleTwice DEF SimplePath
<1> QED
  BY <1>1, <1>2, <1>3, TypeInvariant, PTL DEF Spec

(***************************************************************************)
(* Copies of a message.  The message with id i is parked in slot s of n, at *)
(* place k of the channel c to n, or was handed to the application of n.    *)
(***************************************************************************)
ParkedAt(n, s, i) ==
  n \in Nodes /\ s \in Slots /\ heap[n][s].live /\ heap[n][s].id = i

\* The message i is in a DATA packet at place k on the way to n.
FlyingAt(c, n, k, i) ==
  /\ c \in Conns /\ n \in Nodes /\ k \in DOMAIN chan[c][n]
  /\ chan[c][n][k].type = "DATA" /\ chan[c][n][k].id = i

\* The message i was delivered to n.
GivenTo(n, i) == <<n, i>> \in delivered

\* The id i was drawn before.
Drawn(i) == i \in PktIds /\ i[2] < fresh[i[1]]

\* SingleCopy in these terms.
OneCopy ==
  /\ \A i, n, s, m, t : ParkedAt(n, s, i) /\ ParkedAt(m, t, i) => n = m /\ s = t
  /\ \A i, n, m : GivenTo(n, i) /\ GivenTo(m, i) => n = m
  /\ \A i, n, s, m : ~(ParkedAt(n, s, i) /\ GivenTo(m, i))
  /\ \A i, c, n, k, m, s : ~(FlyingAt(c, n, k, i) /\ ParkedAt(m, s, i))
  /\ \A i, c, n, k, m : ~(FlyingAt(c, n, k, i) /\ GivenTo(m, i))
  /\ \A i, c, n, k, d, m, j :
       FlyingAt(c, n, k, i) /\ FlyingAt(d, m, j, i) => c = d /\ n = m /\ k = j

\* A message keeps the id dump_send drew for it, so that no later draw gives
\* its id again.
AllDrawn ==
  /\ \A i, n, s : ParkedAt(n, s, i) => Drawn(i)
  /\ \A i, n : GivenTo(n, i) => Drawn(i)
  /\ \A i, c, n, k : FlyingAt(c, n, k, i) => Drawn(i)

\* The inductive invariant for SingleCopy.
CopyInv == TypeInv /\ OneCopy /\ AllDrawn

\* One place for every id is what SingleCopy says.
LEMMA CopyInvImplies == CopyInv => SingleCopy
<1> SUFFICES ASSUME CopyInv PROVE SingleCopy
  OBVIOUS
<1>1. \A x \in delivered : x = <<x[1], x[2]>> /\ GivenTo(x[1], x[2])
  <2>1. \A x \in delivered : x = <<x[1], x[2]>>
    BY DEF CopyInv, TypeInv, TypeOK
  <2> QED
    BY <2>1 DEF GivenTo
<1>2. \A x \in Nodes \X Slots : heap[x[1]][x[2]].live =>
        x = <<x[1], x[2]>> /\ ParkedAt(x[1], x[2], heap[x[1]][x[2]].id)
  BY DEF ParkedAt
<1>3. \A c \in Conns, n \in Nodes : \A k \in DOMAIN chan[c][n] :
        chan[c][n][k].type = "DATA" => FlyingAt(c, n, k, chan[c][n][k].id)
  BY DEF FlyingAt
<1> DEFINE parked == {x \in Nodes \X Slots : heap[x[1]][x[2]].live}
           Data(c, n) == {k \in DOMAIN chan[c][n] : chan[c][n][k].type = "DATA"}
<1>4. \A x, y \in parked : heap[x[1]][x[2]].id = heap[y[1]][y[2]].id => x = y
  BY <1>2 DEF CopyInv, OneCopy
<1>5. \A x, y \in delivered : x[2] = y[2] => x = y
  BY <1>1 DEF CopyInv, OneCopy
<1>6. \A x \in parked, y \in delivered : heap[x[1]][x[2]].id # y[2]
  BY <1>1, <1>2 DEF CopyInv, OneCopy
<1>7. ASSUME NEW c \in Conns, NEW n \in Nodes, NEW k \in Data(c, n)
      PROVE  /\ \A x \in parked : heap[x[1]][x[2]].id # chan[c][n][k].id
             /\ \A x \in delivered : x[2] # chan[c][n][k].id
             /\ \A d \in Conns, m \in Nodes : \A j \in Data(d, m) :
                  chan[d][m][j].id = chan[c][n][k].id => c = d /\ n = m /\ k = j
  <2>1. FlyingAt(c, n, k, chan[c][n][k].id)
    BY <1>3
  <2> QED
    BY <2>1, <1>1, <1>2, <1>3 DEF CopyInv, OneCopy
<1> QED
  BY <1>4, <1>5, <1>6, <1>7 DEF SingleCopy

\* There is no message at the start.
LEMMA InitCopies == Init => CopyInv
<1> SUFFICES ASSUME Init PROVE CopyInv
  OBVIOUS
<1>1. \A i, n, s : ~ParkedAt(n, s, i)
  BY DEF Init, ParkedAt
<1>2. \A i, n : ~GivenTo(n, i)
  BY DEF Init, GivenTo
<1>3. \A i, c, n, k : ~FlyingAt(c, n, k, i)
  BY DEF Init, FlyingAt
<1> QED
  BY <1>1, <1>2, <1>3, InitTypes DEF CopyInv, OneCopy, AllDrawn

\* Ids that were drawn stay drawn.
LEMMA DrawnStays ==
  ASSUME TypeInv, TypeInv', \A m \in Nodes : fresh[m] <= fresh'[m],
         NEW i, Drawn(i)
  PROVE  Drawn(i)'
<1>1. i \in PktIds /\ i[1] \in Nodes /\ i[2] \in Nat
  BY DEF Drawn, PktIds
<1>2. fresh[i[1]] \in Nat /\ fresh'[i[1]] \in Nat
  BY <1>1 DEF TypeInv, TypeOK
<1> QED
  BY <1>1, <1>2 DEF Drawn

\* Where the packet at place k of the channel d to m was before n read the
\* first packet of c.
Before(c, n, d, m, k) == IF d = c /\ m = n THEN k + 1 ELSE k

\* A packet that was not just written was on its way before.
LEMMA KeptFlies ==
  ASSUME TypeInv, NEW n \in Nodes, NEW c \in Conns, chan[c][n] # <<>>,
         NEW d, NEW m, NEW k, NEW i, FlyingAt(d, m, k, i)',
         Kept(Popped(c, n), d, m, k)
  PROVE  FlyingAt(d, m, Before(c, n, d, m, k), i)
<1>1. d \in Conns /\ m \in Nodes /\ k \in DOMAIN Popped(c, n)[d][m]
  BY DEF FlyingAt, Kept
<1>2. /\ Before(c, n, d, m, k) \in DOMAIN chan[d][m]
      /\ Popped(c, n)[d][m][k] = chan[d][m][Before(c, n, d, m, k)]
  BY <1>1, PopEffect DEF TypeInv, Before
<1> QED
  BY <1>1, <1>2 DEF FlyingAt, Kept

\* A message that flies after n read a packet of c flew before, unless it has
\* just been written.
Moved(c, n, d, m, k, i) ==
  FlyingAt(d, m, k, i)' /\ ~Kept(Popped(c, n), d, m, k)

\* Messages leave the slots of n for the channels, or are lost.
LEMMA ReleaseKeepsCopies ==
  ASSUME CopyInv, TypeInv', NEW n \in Nodes, NEW c \in Conns, chan[c][n] # <<>>,
         \A m \in Nodes : fresh[m] <= fresh'[m],
         \A i, m, s : ParkedAt(m, s, i)' => ParkedAt(m, s, i),
         \A i, m : GivenTo(m, i)' => GivenTo(m, i),
         \A i, d, m, k : Moved(c, n, d, m, k, i) =>
           \E s : ParkedAt(n, s, i) /\ ~ParkedAt(n, s, i)',
         \A i, d, m, k, e, l, j :
           Moved(c, n, d, m, k, i) /\ Moved(c, n, e, l, j, i) =>
             d = e /\ m = l /\ k = j
  PROVE  CopyInv'
<1>1. ASSUME NEW i, NEW d, NEW m, NEW k, FlyingAt(d, m, k, i)'
      PROVE  \/ /\ ~Moved(c, n, d, m, k, i)
                /\ FlyingAt(d, m, Before(c, n, d, m, k), i)
             \/ /\ Moved(c, n, d, m, k, i)
                /\ \E s : ParkedAt(n, s, i) /\ ~ParkedAt(n, s, i)'
  BY <1>1, KeptFlies DEF Moved, CopyInv
<1>2. ASSUME NEW i, NEW d, NEW m, NEW k, FlyingAt(d, m, k, i)'
      PROVE  k \in Nat
  <2>1. chan'[d][m] \in Seq(Packet) /\ k \in DOMAIN chan'[d][m]
    BY <1>2 DEF FlyingAt, TypeInv, TypeOK
  <2> QED
    BY <2>1
<1>3. ASSUME NEW d, NEW m, NEW k \in Nat, NEW j \in Nat,
             Before(c, n, d, m, k) = Before(c, n, d, m, j)
      PROVE  k = j
  BY <1>3 DEF Before
<1>4. ASSUME NEW i, NEW d, NEW m, NEW k, FlyingAt(d, m, k, i)',
             NEW e, NEW l, NEW j, FlyingAt(e, l, j, i)'
      PROVE  d = e /\ m = l /\ k = j
  <2>1. CASE Moved(c, n, d, m, k, i) /\ Moved(c, n, e, l, j, i)
    BY <2>1
  <2>2. CASE ~Moved(c, n, d, m, k, i) /\ ~Moved(c, n, e, l, j, i)
    <3>1. /\ FlyingAt(d, m, Before(c, n, d, m, k), i)
          /\ FlyingAt(e, l, Before(c, n, e, l, j), i)
      BY <1>1, <1>4, <2>2
    <3>2. d = e /\ m = l /\ Before(c, n, d, m, k) = Before(c, n, e, l, j)
      BY <3>1 DEF CopyInv, OneCopy
    <3> QED
      BY <1>2, <1>3, <1>4, <3>2
  <2>3. CASE ~Moved(c, n, d, m, k, i) /\ Moved(c, n, e, l, j, i)
    BY <1>1, <1>4, <2>3 DEF CopyInv, OneCopy
  <2>4. CASE Moved(c, n, d, m, k, i) /\ ~Moved(c, n, e, l, j, i)
    BY <1>1, <1>4, <2>4 DEF CopyInv, OneCopy
  <2> QED
    BY <2>1, <2>2, <2>3, <2>4
<1>5. ASSUME NEW i, NEW d, NEW m, NEW k, FlyingAt(d, m, k, i)'
      PROVE  \A l, s : ~ParkedAt(l, s, i)'
  BY <1>1, <1>5 DEF CopyInv, OneCopy
<1>6. ASSUME NEW i, NEW d, NEW m, NEW k, FlyingAt(d, m, k, i)'
      PROVE  \A l : ~GivenTo(l, i)'
  BY <1>1, <1>6 DEF CopyInv, OneCopy
<1>7. \A i, m, s, l, t : ParkedAt(m, s, i)' /\ ParkedAt(l, t, i)' => m = l /\ s = t
  BY DEF CopyInv, OneCopy
<1>8. \A i, m, l : GivenTo(m, i)' /\ GivenTo(l, i)' => m = l
  BY DEF CopyInv, OneCopy
<1>9. \A i, m, s, l : ~(ParkedAt(m, s, i)' /\ GivenTo(l, i)')
  BY DEF CopyInv, OneCopy
<1>10. OneCopy'
  BY <1>4, <1>5, <1>6, <1>7, <1>8, <1>9 DEF OneCopy
<1>11. AllDrawn'
  <2>1. \A i : Drawn(i) => Drawn(i)'
    BY DrawnStays DEF CopyInv
  <2>2. \A i, m, s : ParkedAt(m, s, i)' => Drawn(i)'
    BY <2>1 DEF CopyInv, AllDrawn
  <2>3. \A i, m : GivenTo(m, i)' => Drawn(i)'
    BY <2>1 DEF CopyInv, AllDrawn
  <2>4. \A i, d, m, k : FlyingAt(d, m, k, i)' => Drawn(i)'
    BY <1>1, <2>1 DEF CopyInv, AllDrawn
  <2> QED
    BY <2>2, <2>3, <2>4 DEF AllDrawn
<1> QED
  BY <1>10, <1>11 DEF CopyInv

\* Handlers that write no DATA, and a reply that releases parked messages.
LEMMA RepliesKeepCopies ==
  ASSUME CopyInv, TypeInv', NEW n \in Nodes, NEW c \in Conns, chan[c][n] # <<>>,
         up[n], NEW RRs, NEW Rrs,
         \/ /\ Head(chan[c][n]).type = "RR"
            /\ dump_receive_RR(Popped(c, n), n, Head(chan[c][n]), RRs, Rrs)
         \/ /\ Head(chan[c][n]).type = "Rr"
            /\ dump_receive_Rr(Popped(c, n), n, Head(chan[c][n]), RRs, Rrs)
  PROVE  CopyInv'
<1> DEFINE p == Head(chan[c][n])
           q == Popped(c, n)
<1>1. p \in Packet /\ q \in Channels /\ TypeOK /\ LinkInv
  BY PopEffect DEF CopyInv, TypeInv
<1>2. delivered' = delivered
  BY DEF dump_receive_RR, dump_receive_Rr
<1>3. \A i, m : GivenTo(m, i)' => GivenTo(m, i)
  BY <1>2 DEF GivenTo
<1> HIDE DEF p, q
<1>4. CASE p.type = "RR" /\ dump_receive_RR(q, n, p, RRs, Rrs)
  <2>1. heap' = heap /\ \A m \in Nodes : fresh[m] <= fresh'[m]
    <3>1. heap' = heap
      BY <1>4 DEF dump_receive_RR, queue
    <3>2. fresh' = fresh \/ fresh' = [fresh EXCEPT ![n] = @ + 1]
      BY <1>4 DEF dump_receive_RR, CopyInv, TypeInv, TypeOK
    <3>3. fresh \in [Nodes -> Nat]
      BY DEF CopyInv, TypeInv, TypeOK
    <3>4. \A m \in Nodes : fresh[m] <= fresh'[m]
      BY <3>2, <3>3
    <3> QED
      BY <3>1, <3>4
  <2>2. \A i, m, s : ParkedAt(m, s, i)' => ParkedAt(m, s, i)
    BY <2>1 DEF ParkedAt
  <2>3. ASSUME NEW i, NEW d, NEW m, NEW k, Moved(c, n, d, m, k, i)
        PROVE  FALSE
    <3>1. /\ d \in Conns /\ m \in Nodes /\ k \in DOMAIN chan'[d][m]
          /\ chan'[d][m][k].type = "DATA" /\ ~Kept(q, d, m, k)
      BY <2>3 DEF Moved, FlyingAt, q
    <3>2. /\ Sends(n, d, m)
          /\ chan'[d][m][k] = Reply(n, p, d) \/ chan'[d][m][k] = Forwarded(n, p, d)
      BY <1>1, <1>4, <3>1, RREffect
    <3>3. Reply(n, p, d).type = "Rr" /\ Forwarded(n, p, d).type = "RR"
      BY <1>1, <1>4, <3>2, ForwardedType DEF Reply, Sends
    <3> QED
      BY <3>1, <3>2, <3>3
  <2> QED
    BY <1>3, <2>1, <2>2, <2>3, ReleaseKeepsCopies
<1>5. CASE p.type = "Rr" /\ dump_receive_Rr(q, n, p, RRs, Rrs)
  <2>1. fresh' = fresh
    BY <1>5 DEF dump_receive_Rr
  <2>2. \A m \in Nodes : fresh[m] <= fresh'[m]
    BY <2>1 DEF CopyInv, TypeInv, TypeOK
  <2>3. OnlyFrees
    BY <1>1, <1>5, RrEffect
  <2>4. \A i, m, s : ParkedAt(m, s, i)' => ParkedAt(m, s, i)
    BY <2>3 DEF OnlyFrees, ParkedAt
  <2>5. CASE \E slot : Batch(q, n, p, slot)
    <3>1. PICK slot : Batch(q, n, p, slot)
      BY <2>5
    <3>2. ASSUME NEW i, NEW d, NEW m, NEW k, Moved(c, n, d, m, k, i)
          PROVE  /\ d = dump_lookup_neighbor(n, p.path[2]) /\ m = Peer(d, n)
                 /\ d \in Conns /\ m \in Nodes /\ k \in DOMAIN chan'[d][m]
                 /\ k - Len(q[d][m]) \in DOMAIN slot
                 /\ \E s : /\ s = slot[k - Len(q[d][m])]
                          /\ ParkedAt(n, s, i) /\ ~ParkedAt(n, s, i)'
      <4>1. /\ d \in Conns /\ m \in Nodes /\ k \in DOMAIN chan'[d][m]
            /\ chan'[d][m][k].id = i /\ ~Kept(q, d, m, k)
        BY <3>2 DEF Moved, FlyingAt, q
      <4>0. PICK s : s = slot[k - Len(q[d][m])]
        OBVIOUS
      <4>2. /\ d = dump_lookup_neighbor(n, p.path[2]) /\ m = Peer(d, n)
            /\ k - Len(q[d][m]) \in DOMAIN slot
            /\ Released(n, s)
            /\ chan'[d][m][k] = DataPkt(n, s, p)
        BY <3>1, <4>0, <4>1 DEF Batch, Sends
      <4>3. heap[n][s].id = i
        BY <4>1, <4>2 DEF DataPkt
      <4>4. ParkedAt(n, s, i) /\ ~ParkedAt(n, s, i)'
        BY <4>2, <4>3 DEF Released, ParkedAt
      <4> QED
        BY <4>0, <4>1, <4>2, <4>4
    <3>3. ASSUME NEW i, NEW d, NEW m, NEW k, Moved(c, n, d, m, k, i),
                 NEW e, NEW l, NEW j, Moved(c, n, e, l, j, i)
          PROVE  d = e /\ m = l /\ k = j
      <4>1. d = e /\ m = l
        BY <3>2, <3>3
      <4> DEFINE z == Len(q[d][m])
      <4>2. /\ k - z \in DOMAIN slot /\ j - z \in DOMAIN slot
            /\ slot[k - z] = slot[j - z]
        BY <3>2, <3>3, <4>1 DEF CopyInv, OneCopy
      <4>3. k - z = j - z
        BY <3>1, <4>2 DEF Batch
      <4>4. z \in Nat /\ k \in Nat /\ j \in Nat
        <5>1. d \in Conns /\ m \in Nodes /\ k \in DOMAIN chan'[d][m]
              /\ j \in DOMAIN chan'[d][m]
          BY <3>2, <3>3, <4>1
        <5>2. chan'[d][m] \in Seq(Packet) /\ q[d][m] \in Seq(Packet)
          BY <1>1, <5>1 DEF Channels, TypeInv, TypeOK
        <5> QED
          BY <5>1, <5>2
      <4> HIDE DEF z
      <4>5. k = j
        BY <4>3, <4>4
      <4> QED
        BY <4>1, <4>5
    <3>4. \A i, d, m, k : Moved(c, n, d, m, k, i) =>
            \E s : ParkedAt(n, s, i) /\ ~ParkedAt(n, s, i)'
      BY <3>2
    <3> QED
      BY <1>3, <2>2, <2>4, <3>3, <3>4, ReleaseKeepsCopies
  <2>6. CASE \A d \in Conns, m \in Nodes : \A k \in DOMAIN chan'[d][m] :
               \/ Kept(q, d, m, k)
               \/ Sends(n, d, m) /\ chan'[d][m][k] = Returned(n, p, d)
    <3>1. ASSUME NEW i, NEW d, NEW m, NEW k, Moved(c, n, d, m, k, i)
          PROVE  FALSE
      <4>1. /\ d \in Conns /\ m \in Nodes /\ k \in DOMAIN chan'[d][m]
            /\ chan'[d][m][k].type = "DATA" /\ ~Kept(q, d, m, k)
        BY <3>1 DEF Moved, FlyingAt, q
      <4>2. Sends(n, d, m) /\ chan'[d][m][k] = Returned(n, p, d)
        BY <2>6, <4>1
      <4>3. myids[n][d] \in Ids
        BY <1>1, <4>2, SocketHasId DEF Sends
      <4>4. Returned(n, p, d).type = "Rr"
        BY <1>1, <1>5, <4>3, UpdateType DEF Returned
      <4> QED
        BY <4>1, <4>2, <4>4
    <3> QED
      BY <1>3, <2>2, <2>4, <3>1, ReleaseKeepsCopies
  <2> QED
    BY <1>1, <1>5, <2>5, <2>6, RrEffect
<1> QED
  BY <1>4, <1>5 DEF p, q

\* A DATA packet moves on, or its message is handed over, or it is lost.
LEMMA DATAKeepsCopies ==
  ASSUME CopyInv, TypeInv', NEW n \in Nodes, NEW c \in Conns, chan[c][n] # <<>>,
         up[n], NEW RRs, NEW Rrs, Head(chan[c][n]).type = "DATA",
         dump_receive_DATA(Popped(c, n), n, Head(chan[c][n]), RRs, Rrs)
  PROVE  CopyInv'
<1> DEFINE p == Head(chan[c][n])
           q == Popped(c, n)
<1>1. /\ p \in Packet /\ q \in Channels /\ TypeOK /\ LinkInv
      /\ p = chan[c][n][1] /\ 1 \in DOMAIN chan[c][n]
  BY PopEffect DEF CopyInv, TypeInv
<1>2. PICK x : x = p.id
  OBVIOUS
<1>3. FlyingAt(c, n, 1, x)
  BY <1>1, <1>2 DEF FlyingAt
<1>4. /\ heap' = heap /\ fresh' = fresh
      /\ delivered' = IF p.path # <<>> /\ dump_is_myid(n, p.dst)
                      THEN delivered \cup {<<n, p.id>>} ELSE delivered
  BY DEF dump_receive_DATA, queue
<1>5. \A i, m, s : ParkedAt(m, s, i)' => ParkedAt(m, s, i)
  BY <1>4 DEF ParkedAt
<1>6. ASSUME NEW i, NEW m, GivenTo(m, i)'
      PROVE  \/ GivenTo(m, i)
             \/ m = n /\ i = x /\ dump_is_myid(n, p.dst)
  BY <1>2, <1>4, <1>6 DEF GivenTo
<1> HIDE DEF p, q
<1>7. ASSUME NEW i, NEW d, NEW m, NEW k, FlyingAt(d, m, k, i)'
      PROVE  \/ /\ ~Moved(c, n, d, m, k, i) /\ i # x
                /\ FlyingAt(d, m, Before(c, n, d, m, k), i)
             \/ /\ i = x /\ ~dump_is_myid(n, p.dst)
                /\ d = dump_lookup_neighbor(n, p.path[Last(OwnHops(n, p)) + 1])
                /\ m = Peer(d, n) /\ k = Len(q[d][m]) + 1
                /\ d \in Conns /\ m \in Nodes
  <2>1. d \in Conns /\ m \in Nodes /\ k \in DOMAIN chan'[d][m] /\ k \in 1..Len(chan'[d][m])
    <3>1. d \in Conns /\ m \in Nodes /\ k \in DOMAIN chan'[d][m]
      BY <1>7 DEF FlyingAt
    <3>2. chan'[d][m] \in Seq(Packet)
      BY <3>1 DEF TypeInv, TypeOK
    <3> QED
      BY <3>1, <3>2
  <2>2. CASE Kept(q, d, m, k)
    <3>1. FlyingAt(d, m, Before(c, n, d, m, k), i) /\ ~Moved(c, n, d, m, k, i)
      BY <1>7, <2>2, KeptFlies DEF CopyInv, Moved, q
    <3>2. ~(d = c /\ m = n /\ Before(c, n, d, m, k) = 1)
      BY <2>1 DEF Before
    <3>3. i # x
      BY <1>3, <3>1, <3>2 DEF CopyInv, OneCopy
    <3> QED
      BY <3>1, <3>3
  <2>3. CASE ~Kept(q, d, m, k)
    <3>1. /\ Sends(n, d, m) /\ ~dump_is_myid(n, p.dst)
          /\ d = dump_lookup_neighbor(n, p.path[Last(OwnHops(n, p)) + 1])
          /\ k = Len(q[d][m]) + 1
          /\ chan'[d][m][k] = p
      BY <1>1, <2>1, <2>3, DATAEffect DEF p, q
    <3>2. i = x
      BY <1>2, <1>7, <3>1 DEF FlyingAt
    <3> QED
      BY <2>1, <3>1, <3>2 DEF Sends
  <2> QED
    BY <2>2, <2>3
<1>8. ASSUME NEW i, NEW d, NEW m, NEW k, FlyingAt(d, m, k, i)',
             NEW e, NEW l, NEW j, FlyingAt(e, l, j, i)'
      PROVE  d = e /\ m = l /\ k = j
  <2>1. CASE i = x
    BY <1>7, <1>8, <2>1
  <2>2. CASE i # x
    <3>1. /\ FlyingAt(d, m, Before(c, n, d, m, k), i)
          /\ FlyingAt(e, l, Before(c, n, e, l, j), i)
      BY <1>7, <1>8, <2>2
    <3>2. d = e /\ m = l /\ Before(c, n, d, m, k) = Before(c, n, e, l, j)
      BY <3>1 DEF CopyInv, OneCopy
    <3>3. k \in Nat /\ j \in Nat
      <4>1. /\ d \in Conns /\ m \in Nodes
            /\ k \in DOMAIN chan'[d][m] /\ j \in DOMAIN chan'[d][m]
        BY <1>8, <3>2 DEF FlyingAt
      <4>2. chan'[d][m] \in Seq(Packet)
        BY <4>1 DEF TypeInv, TypeOK
      <4> QED
        BY <4>1, <4>2
    <3> QED
      BY <3>2, <3>3 DEF Before
  <2> QED
    BY <2>1, <2>2
<1>9. ASSUME NEW i, NEW d, NEW m, NEW k, FlyingAt(d, m, k, i)'
      PROVE  \A l, s : ~ParkedAt(l, s, i)'
  BY <1>3, <1>5, <1>7, <1>9 DEF CopyInv, OneCopy
<1>10. ASSUME NEW i, NEW d, NEW m, NEW k, FlyingAt(d, m, k, i)'
       PROVE  \A l : ~GivenTo(l, i)'
  BY <1>3, <1>6, <1>7, <1>10 DEF CopyInv, OneCopy
<1>11. \A i, m, s, l, t : ParkedAt(m, s, i)' /\ ParkedAt(l, t, i)' => m = l /\ s = t
  BY <1>5 DEF CopyInv, OneCopy
<1>12. \A i, m, l : GivenTo(m, i)' /\ GivenTo(l, i)' => m = l
  BY <1>3, <1>6 DEF CopyInv, OneCopy
<1>13. \A i, m, s, l : ~(ParkedAt(m, s, i)' /\ GivenTo(l, i)')
  BY <1>3, <1>5, <1>6 DEF CopyInv, OneCopy
<1>14. OneCopy'
  BY <1>8, <1>9, <1>10, <1>11, <1>12, <1>13 DEF OneCopy
<1>15. AllDrawn'
  <2>1. \A i : Drawn(i) => Drawn(i)'
    BY <1>4 DEF Drawn
  <2>2. Drawn(x)
    BY <1>3 DEF CopyInv, AllDrawn
  <2>3. \A i, m, s : ParkedAt(m, s, i)' => Drawn(i)'
    BY <1>5, <2>1 DEF CopyInv, AllDrawn
  <2>4. \A i, m : GivenTo(m, i)' => Drawn(i)'
    BY <1>6, <2>1, <2>2 DEF CopyInv, AllDrawn
  <2>5. \A i, d, m, k : FlyingAt(d, m, k, i)' => Drawn(i)'
    BY <1>7, <2>1, <2>2 DEF CopyInv, AllDrawn
  <2> QED
    BY <2>3, <2>4, <2>5 DEF AllDrawn
<1> QED
  BY <1>14, <1>15 DEF CopyInv

\* dump_send parks one message more, under an id that was not drawn before.
LEMMA SendKeepsCopies ==
  ASSUME CopyInv, TypeInv', NEW n \in Nodes, NEW dst \in Ids, dump_send(n, dst)
  PROVE  CopyInv'
<1>1. PICK s, e :
        /\ s \in Slots /\ ~heap[n][s].live
        /\ heap' = [heap EXCEPT ![n][s] = e]
        /\ e.id = dump_mk_pkt_id(n, 0)
  <2>1. PICK s, src :
          /\ s \in Slots /\ ~heap[n][s].live
          /\ heap' = [heap EXCEPT ![n][s] =
               [live |-> TRUE, dst |-> dst, src |-> src,
                id |-> dump_mk_pkt_id(n, 0)]]
    BY DEF dump_send
  <2>2. PICK e : e = [live |-> TRUE, dst |-> dst, src |-> src,
                      id |-> dump_mk_pkt_id(n, 0)]
    OBVIOUS
  <2>3. e.id = dump_mk_pkt_id(n, 0) /\ heap' = [heap EXCEPT ![n][s] = e]
    BY <2>1, <2>2
  <2> QED
    BY <2>1, <2>3
<1>2. PICK x : x = <<n, fresh[n], 0>>
  OBVIOUS
<1>3. /\ fresh \in [Nodes -> Nat] /\ fresh' = [fresh EXCEPT ![n] = @ + 1]
      /\ delivered' = delivered
  BY DEF dump_send, CopyInv, TypeInv, TypeOK
<1>4. ~Drawn(x) /\ Drawn(x)'
  <2>1. x \in PktIds
    BY <1>2, <1>3 DEF PktIds
  <2>2. x[1] = n /\ x[2] = fresh[n] /\ fresh[n] \in Nat /\ fresh'[n] = fresh[n] + 1
    BY <1>2, <1>3
  <2> QED
    BY <2>1, <2>2 DEF Drawn
<1>5. \A m \in Nodes : fresh[m] <= fresh'[m]
  BY <1>3
<1>6. \A i : Drawn(i) => Drawn(i)'
  BY <1>5, DrawnStays DEF CopyInv
<1>7. ASSUME NEW i, NEW m, NEW t, ParkedAt(m, t, i)'
      PROVE  ParkedAt(m, t, i) \/ (m = n /\ t = s /\ i = x)
  <2>1. m \in Nodes /\ t \in Slots /\ heap'[m][t].live /\ heap'[m][t].id = i
    BY <1>7 DEF ParkedAt
  <2>2. heap'[m][t] = IF m = n /\ t = s THEN e ELSE heap[m][t]
    BY <1>1, <2>1 DEF CopyInv, TypeInv, TypeOK
  <2>3. CASE m = n /\ t = s
    BY <1>1, <1>2, <2>1, <2>2, <2>3 DEF dump_mk_pkt_id
  <2>4. CASE ~(m = n /\ t = s)
    BY <2>1, <2>2, <2>4 DEF ParkedAt
  <2> QED
    BY <2>3, <2>4
<1>8. \A i, m : GivenTo(m, i)' <=> GivenTo(m, i)
  BY <1>3 DEF GivenTo
<1>9. ASSUME NEW i, NEW d, NEW m, NEW k, FlyingAt(d, m, k, i)'
      PROVE  FlyingAt(d, m, k, i)
  <2>1. /\ d \in Conns /\ m \in Nodes /\ k \in DOMAIN chan'[d][m]
        /\ chan'[d][m][k].type = "DATA" /\ chan'[d][m][k].id = i
    BY <1>9 DEF FlyingAt
  <2>2. CASE Kept(chan, d, m, k)
    BY <2>1, <2>2 DEF Kept, FlyingAt
  <2>3. CASE chan'[d][m][k] =
               [type |-> "RR", src |-> myids[n][d], dst |-> dst,
                id |-> dump_mk_pkt_id(n, d), path |-> <<myids[n][d]>>]
    BY <2>1, <2>3
  <2> QED
    BY <2>1, <2>2, <2>3, RequestEffect DEF CopyInv, TypeInv
<1>10. OneCopy'
  <2>1. \A i, m, t, l, u : ParkedAt(m, t, i)' /\ ParkedAt(l, u, i)' => m = l /\ t = u
    BY <1>4, <1>7 DEF CopyInv, OneCopy, AllDrawn
  <2>2. \A i, m, t, l : ~(ParkedAt(m, t, i)' /\ GivenTo(l, i)')
    BY <1>4, <1>7, <1>8 DEF CopyInv, OneCopy, AllDrawn
  <2>3. \A i, d, m, k, l, t : ~(FlyingAt(d, m, k, i)' /\ ParkedAt(l, t, i)')
    BY <1>4, <1>7, <1>9 DEF CopyInv, OneCopy, AllDrawn
  <2>4. \A i, d, m, k, l : ~(FlyingAt(d, m, k, i)' /\ GivenTo(l, i)')
    BY <1>8, <1>9 DEF CopyInv, OneCopy
  <2>5. \A i, d, m, k, f, l, j :
          FlyingAt(d, m, k, i)' /\ FlyingAt(f, l, j, i)' => d = f /\ m = l /\ k = j
    BY <1>9 DEF CopyInv, OneCopy
  <2>6. \A i, m, l : GivenTo(m, i)' /\ GivenTo(l, i)' => m = l
    BY <1>8 DEF CopyInv, OneCopy
  <2> QED
    BY <2>1, <2>2, <2>3, <2>4, <2>5, <2>6 DEF OneCopy
<1>11. AllDrawn'
  <2>1. \A i, m, t : ParkedAt(m, t, i)' => Drawn(i)'
    BY <1>4, <1>6, <1>7 DEF CopyInv, AllDrawn
  <2>2. \A i, m : GivenTo(m, i)' => Drawn(i)'
    BY <1>6, <1>8 DEF CopyInv, AllDrawn
  <2>3. \A i, d, m, k : FlyingAt(d, m, k, i)' => Drawn(i)'
    BY <1>6, <1>9 DEF CopyInv, AllDrawn
  <2> QED
    BY <2>1, <2>2, <2>3 DEF AllDrawn
<1> QED
  BY <1>10, <1>11 DEF CopyInv

\* Steps that touch no packet keep every message where it is.
LEMMA StillKeepsCopies ==
  ASSUME CopyInv, TypeInv', Still
  PROVE  CopyInv'
<1>1. \A i, n, s : ParkedAt(n, s, i)' <=> ParkedAt(n, s, i)
  BY DEF Still, ParkedAt
<1>2. \A i, n : GivenTo(n, i)' <=> GivenTo(n, i)
  BY DEF Still, GivenTo
<1>3. \A i, c, n, k : FlyingAt(c, n, k, i)' <=> FlyingAt(c, n, k, i)
  BY DEF Still, FlyingAt
<1>4. \A i : Drawn(i)' <=> Drawn(i)
  BY DEF Still, Drawn
<1>5. OneCopy'
  BY <1>1, <1>2, <1>3 DEF OneCopy, CopyInv
<1>6. AllDrawn'
  BY <1>1, <1>2, <1>3, <1>4 DEF AllDrawn, CopyInv
<1> QED
  BY <1>5, <1>6 DEF CopyInv

(***************************************************************************)
(* NoDuplicates: a message given to dump_send is in one place, whatever     *)
(* connections do, however many replies answer the request and wherever     *)
(* processes exit.  The walk of the wait queue frees each packet before it  *)
(* looks for the next, and a forwarder writes DATA on one socket.           *)
(***************************************************************************)
THEOREM NoDuplicates == Spec => []SingleCopy
<1>1. CopyInv /\ TypeInv' /\ [Next]_vars => CopyInv'
  <2> SUFFICES ASSUME CopyInv, TypeInv', [Next]_vars PROVE CopyInv'
    OBVIOUS
  <2>1. ASSUME NEW n \in Nodes, NEW c \in Conns, dump_receive_cb(n, c)
        PROVE  CopyInv'
    <3>1. PICK RRs, Rrs :
            \/ /\ Head(chan[c][n]).type = "RR"
               /\ dump_receive_RR(Popped(c, n), n, Head(chan[c][n]), RRs, Rrs)
            \/ /\ Head(chan[c][n]).type = "Rr"
               /\ dump_receive_Rr(Popped(c, n), n, Head(chan[c][n]), RRs, Rrs)
            \/ /\ Head(chan[c][n]).type = "DATA"
               /\ dump_receive_DATA(Popped(c, n), n, Head(chan[c][n]), RRs, Rrs)
      BY <2>1, ReceiveCases DEF CopyInv
    <3>2. up[n] /\ chan[c][n] # <<>>
      BY <2>1, ReceiveCases DEF CopyInv
    <3> QED
      BY <3>1, <3>2, RepliesKeepCopies, DATAKeepsCopies
  <2> QED
    BY <2>1, PacketSteps, SendKeepsCopies, StillKeepsCopies DEF CopyInv
<1> QED
  BY <1>1, InitCopies, CopyInvImplies, TypeInvariant, PTL DEF Spec

(***************************************************************************)
(* Routes that work.  In a network of nodes that have one address each, and *)
(* whose connections stay, every node a packet is handed to finds itself in *)
(* the path and knows the next hop.                                         *)
(***************************************************************************)
SingleHomed == \A n, m, k \in Nodes : Addr[n][m] = Addr[n][k]

\* No "connect", no "discon", no packet in two pieces, and a freed packet that
\* is not taken for one that waits.
Stable ==
  /\ MayConnect = {} /\ MaxDisconnects = 0 /\ MaxSplits = 0
  /\ FreedReads = {"garbage"}

\* The address of n.
Home(n) == Addr[n][n]

\* Everybody runs and every connection is open at both ends.
AllOpen ==
  /\ backlog = {}
  /\ \A n \in Nodes : up[n]
  /\ \A c \in Conns, n, m \in Nodes : Joins(c, n, m) => n \in opened[c]

\* What stays as it is in a network that is SingleHomed and Stable.
StaticInv == SingleHomed /\ Stable /\ TypeInv /\ OwnIds /\ AgreeInv /\ AllOpen

\* Two hops that follow each other have sockets to each other.
Linked(path) ==
  \A i \in DOMAIN path : i + 1 \in DOMAIN path =>
    \A k \in Nodes :
      /\ path[i] = Home(k) => dump_lookup_neighbor(k, path[i + 1]) # 0
      /\ path[i + 1] = Home(k) => dump_lookup_neighbor(k, path[i]) # 0

\* The path passes n.
OnPath(n, path) == \E i \in DOMAIN path : path[i] = Home(n)

\* The packet p may be on its way to n.
Sound(n, p) ==
  /\ dump_is_myid(n, Home(n))
  /\ p.path # <<>> /\ Linked(p.path)
  /\ p.type = "RR" =>
       p.path[1] = p.src /\ dump_lookup_neighbor(n, p.path[Len(p.path)]) # 0
  /\ p.type = "Rr" =>
       /\ Len(p.path) >= 2 /\ OnPath(n, p.path)
       /\ p.path[1] = p.dst /\ p.path[Len(p.path)] = p.src
  /\ p.type = "DATA" => OnPath(n, p.path) /\ p.path[Len(p.path)] = p.dst

\* The inductive invariant for RouteSound.
SoundInv ==
  /\ StaticInv
  /\ \A c \in Conns, n \in Nodes : \A k \in DOMAIN chan[c][n] :
       Sound(n, chan[c][n][k])

\* A node has one address and shares it with nobody.
LEMMA HomeFacts ==
  ASSUME SingleHomed, NEW n \in Nodes, NEW m \in Nodes
  PROVE  /\ Home(n) \in Ids
         /\ Addr[n][m] = Home(n)
         /\ Home(n) = Home(m) => n = m
BY ConstantsAssumption DEF SingleHomed, Home

\* Therefore a node recognises exactly that one.
LEMMA MyidIsHome ==
  ASSUME StaticInv, NEW n \in Nodes, NEW a, dump_is_myid(n, a)
  PROVE  a = Home(n)
BY HomeFacts DEF StaticInv, OwnIds, dump_is_myid

\* What a registered socket d of n leads to.
LEMMA SocketPeer ==
  ASSUME StaticInv, NEW n \in Nodes, NEW d, Registered(n, d)
  PROVE  /\ Peer(d, n) \in Nodes /\ d \in Conns
         /\ myids[n][d] = Home(n)
         /\ Peer(d, n) \in opened[d]
         /\ dump_lookup_neighbor(Peer(d, n), Home(n)) = d /\ d # 0
         /\ dump_is_myid(Peer(d, n), Home(Peer(d, n)))
         /\ \A a \in Ids : ports[n][a] = d => a = Home(Peer(d, n))
<1>1. up[n] /\ LinkInv /\ SingleHomed
  BY DEF StaticInv, AllOpen, TypeInv
<1>2. PICK b \in Ids : ports[n][b] = d /\ d # 0
  BY DEF Registered
<1>3. d \in Conns /\ Peer(d, n) \in Nodes /\ myids[n][d] = Addr[n][Peer(d, n)]
  BY <1>1, SocketHasId
<1>4. conn[d] # <<>> /\ n \in {conn[d][1], conn[d][2]}
  BY <1>1, <1>2 DEF LinkInv, LinkTables
<1>5. \A a \in Ids : ports[n][a] = d => a = Addr[Peer(d, n)][n]
  BY <1>1, <1>2 DEF LinkInv, LinkTables
<1>6. conn[d] \in Nodes \X Nodes /\ conn[d][1] # conn[d][2]
  BY <1>1, <1>3, <1>4 DEF LinkInv, LinkTypes, Backlog
<1>7. PICK m \in Nodes : m = Peer(d, n)
  BY <1>3
<1>8. Joins(d, m, n) /\ m # n
  <2>1. conn[d] = <<conn[d][1], conn[d][2]>>
    BY <1>6
  <2> QED
    BY <1>4, <1>6, <1>7, <2>1 DEF Joins, Peer
<1>9. m \in opened[d]
  BY <1>3, <1>8 DEF StaticInv, AllOpen
<1>10. ports[m][Addr[n][m]] = d
  BY <1>3, <1>8, <1>9 DEF StaticInv, AgreeInv, ConnectorSide, Stable
<1>11. Addr[n][m] = Home(n) /\ Home(n) \in Ids /\ Addr[m][n] = Home(m)
       /\ Home(m) \in Ids
  BY <1>1, HomeFacts
<1>12. up[m] /\ myids[m][d] = Addr[m][Peer(d, m)]
  BY <1>1, <1>2, <1>10, <1>11 DEF StaticInv, AllOpen, LinkInv, LinkTables
<1>13. Peer(d, m) = n
  BY <1>8, JoinsPeer
<1>14. dump_is_myid(m, Home(m))
  BY <1>3, <1>11, <1>12, <1>13 DEF dump_is_myid
<1>15. dump_lookup_neighbor(m, Home(n)) = d
  BY <1>10, <1>11 DEF dump_lookup_neighbor
<1> QED
  BY <1>2, <1>3, <1>5, <1>7, <1>9, <1>11, <1>14, <1>15

\* A hop that is found is a registered neighbour.
LEMMA LookupRegisters ==
  ASSUME NEW n \in Nodes, NEW a, dump_lookup_neighbor(n, a) # 0
  PROVE  a \in Ids /\ Registered(n, dump_lookup_neighbor(n, a))
         /\ ports[n][a] = dump_lookup_neighbor(n, a)
BY DEF dump_lookup_neighbor, Registered

\* The peer of the socket that n has for the hop a is that hop.
LEMMA HopIsPeer ==
  ASSUME StaticInv, NEW n \in Nodes, NEW a, NEW d, NEW m, Sends(n, d, m),
         d = dump_lookup_neighbor(n, a)
  PROVE  a = Home(m)
<1>1. d # 0
  BY DEF Sends, Registered
<1>2. a \in Ids /\ ports[n][a] = d
  BY <1>1, LookupRegisters
<1> QED
  BY <1>2, SocketPeer DEF Sends

\* The greatest of a bounded set of indices.
LEMMA LastOf ==
  ASSUME NEW b \in Nat, NEW S, S \subseteq 0..b, S # {}
  PROVE  Last(S) \in S /\ \A j \in S : Last(S) >= j
<1>1. \E i \in S : \A j \in S : i >= j
  <2>1. PICK i \in S : \A j \in S : j <= i
    BY GreatestNat
  <2>2. \A j \in S : i >= j
    BY <2>1
  <2> QED
    BY <2>2
<1> QED
  BY <1>1 DEF Last

\* The own hops of n are the places of its address.
LEMMA OwnHopsAre ==
  ASSUME StaticInv, NEW n \in Nodes, dump_is_myid(n, Home(n)), NEW p
  PROVE  OwnHops(n, p) = {i \in DOMAIN p.path : p.path[i] = Home(n)}
BY MyidIsHome DEF OwnHops

\* Sound packets are what RouteSound asks for.
LEMMA SoundGoesOn ==
  ASSUME StaticInv, NEW n \in Nodes, NEW p \in Packet, Sound(n, p)
  PROVE  /\ p.type = "RR" => dump_lookup_neighbor(n, p.path[Len(p.path)]) # 0
         /\ p.type = "Rr" =>
              IF dump_is_myid(n, p.dst)
              THEN dump_lookup_neighbor(n, p.path[2]) # 0
              ELSE /\ OwnHops(n, p) # {} /\ First(OwnHops(n, p)) > 1
                   /\ dump_lookup_neighbor(n, p.path[First(OwnHops(n, p)) - 1]) # 0
         /\ p.type = "DATA" =>
              \/ dump_is_myid(n, p.dst)
              \/ /\ OwnHops(n, p) # {} /\ Last(OwnHops(n, p)) < Len(p.path)
                 /\ dump_lookup_neighbor(n, p.path[Last(OwnHops(n, p)) + 1]) # 0
<1> DEFINE hops == OwnHops(n, p)
           l == Len(p.path)
<1>1. p.path \in Seq(Ids) /\ l \in Nat /\ DOMAIN p.path = 1..l /\ l # 0
  BY PacketFields DEF Sound
<1>2. hops = {i \in DOMAIN p.path : p.path[i] = Home(n)}
  BY OwnHopsAre DEF Sound
<1>3. Linked(p.path) /\ dump_is_myid(n, Home(n))
  BY DEF Sound
<1>4. hops \subseteq Nat /\ hops \subseteq 0..l
  BY <1>1, <1>2
<1>5. CASE p.type = "RR"
  BY <1>5 DEF Sound
<1>6. CASE p.type = "Rr" /\ dump_is_myid(n, p.dst)
  <2>1. l >= 2 /\ p.path[1] = p.dst
    BY <1>6 DEF Sound
  <2>2. p.path[1] = Home(n)
    BY <1>6, <2>1, MyidIsHome
  <2>3. 1 \in DOMAIN p.path /\ 1 + 1 \in DOMAIN p.path /\ 1 + 1 = 2
    BY <1>1, <2>1
  <2>4. dump_lookup_neighbor(n, p.path[2]) # 0
    BY <1>3, <2>2, <2>3 DEF Linked
  <2> QED
    BY <1>6, <2>4
<1>7. CASE p.type = "Rr" /\ ~dump_is_myid(n, p.dst)
  <2>1. p.path[1] = p.dst /\ OnPath(n, p.path)
    BY <1>7 DEF Sound
  <2>2. hops # {}
    BY <1>2, <2>1 DEF OnPath
  <2>3. PICK i : i = First(hops)
    OBVIOUS
  <2>4. i \in hops
    BY <1>4, <2>2, <2>3, FirstOf
  <2>5. i # 1
    BY <1>2, <1>3, <1>7, <2>1, <2>4
  <2>6. i \in 1..l /\ p.path[i] = Home(n)
    BY <1>1, <1>2, <2>4
  <2> HIDE DEF hops, l
  <2>7. i > 1 /\ i - 1 \in 1..l /\ (i - 1) + 1 = i
    BY <1>1, <2>5, <2>6
  <2>8. dump_lookup_neighbor(n, p.path[i - 1]) # 0
    BY <1>1, <1>3, <2>6, <2>7 DEF Linked
  <2> QED
    BY <1>7, <2>2, <2>3, <2>7, <2>8 DEF hops
<1>8. CASE p.type = "DATA" /\ ~dump_is_myid(n, p.dst)
  <2>1. p.path[l] = p.dst /\ OnPath(n, p.path)
    BY <1>8 DEF Sound
  <2>2. hops # {}
    BY <1>2, <2>1 DEF OnPath
  <2>3. PICK i : i = Last(hops)
    OBVIOUS
  <2>4. i \in hops
    <3> HIDE DEF hops, l
    <3> QED
      BY <1>1, <1>4, <2>2, <2>3, LastOf
  <2>5. i # l
    BY <1>2, <1>3, <1>8, <2>1, <2>4
  <2>6. i \in 1..l /\ p.path[i] = Home(n)
    BY <1>1, <1>2, <2>4
  <2>7. i < l /\ i + 1 \in 1..l
    <3> HIDE DEF hops, l
    <3> QED
      BY <1>1, <2>5, <2>6
  <2>8. dump_lookup_neighbor(n, p.path[i + 1]) # 0
    <3> HIDE DEF hops, l
    <3> QED
      BY <1>1, <1>3, <2>6, <2>7 DEF Linked
  <2> QED
    BY <1>8, <2>2, <2>3, <2>7, <2>8
<1>9. CASE p.type = "DATA" /\ dump_is_myid(n, p.dst)
  BY <1>9
<1> QED
  BY <1>5, <1>6, <1>7, <1>8, <1>9, PacketFields

\* A sound packet can be sent on by the node it is handed to.
LEMMA SoundInvImplies == SoundInv => RouteSound
<1> SUFFICES ASSUME SoundInv, NEW c \in Conns, NEW n \in Nodes,
                    NEW k \in DOMAIN chan[c][n]
             PROVE  RouteSound!(c, n)!(k)
  BY DEF RouteSound
<1>1. PICK p : p = chan[c][n][k]
  OBVIOUS
<1>2. p \in Packet /\ Sound(n, p) /\ StaticInv
  BY <1>1, SMTT(60) DEF SoundInv, StaticInv, TypeInv, TypeOK
<1>3. p.type \in {"RR", "Rr", "DATA"}
  BY <1>2, PacketFields
<1> QED
  BY <1>1, <1>2, <1>3, SoundGoesOn

\* Writing on registered sockets of a network that stays ends no process.
LEMMA WritesSucceed ==
  ASSUME StaticInv, NEW n \in Nodes, NEW q, NEW out, dump_send_real(q, n, out),
         \A c \in DOMAIN out : Registered(n, c)
  PROVE  UNCHANGED <<up, opened>>
<1>1. \A c \in DOMAIN out : Reaches(c, n)
  BY SocketPeer DEF Reaches
<1> QED
  BY <1>1 DEF dump_send_real

\* dump_send meets no failing write.
LEMMA SendStays ==
  ASSUME StaticInv, NEW n \in Nodes, NEW dst \in Ids, dump_send(n, dst)
  PROVE  UNCHANGED <<up, opened>>
<1> DEFINE out == [c \in {c \in Conns : Registered(n, c)} |->
                    <<[type |-> "RR", src |-> myids[n][c], dst |-> dst,
                       id |-> dump_mk_pkt_id(n, c), path |-> <<myids[n][c]>>]>>]
<1>1. dump_send_real(chan, n, out)
  BY DEF dump_send
<1>2. \A c \in DOMAIN out : Registered(n, c)
  OBVIOUS
<1> HIDE DEF out
<1> QED
  BY <1>1, <1>2, WritesSucceed

\* dump_receive_RR meets none.
LEMMA RRStays ==
  ASSUME StaticInv, NEW n \in Nodes, NEW q, NEW p, NEW RRs, NEW Rrs,
         dump_receive_RR(q, n, p, RRs, Rrs)
  PROVE  UNCHANGED <<up, opened>>
<1> DEFINE prev  == p.path[Len(p.path)]
           back  == dump_lookup_neighbor(n, prev)
           dup   == dump_lookup_RR_recently_seen(p.id, RRs)
           reply == [type |-> "Rr", src |-> p.dst, dst |-> p.src,
                     id |-> dump_mk_pkt_id(n, 0),
                     path |-> Append(p.path, myids[n][back])]
           answer == [c \in {back} \ {0} |-> <<reply>>]
           flood == [c \in FloodTargets(n, prev) |->
                       <<[p EXCEPT !.path = Append(@, myids[n][c])]>>]
           out   == IF dup \/ p.path = <<>> THEN <<>>
                    ELSE IF dump_is_myid(n, p.dst) THEN answer
                    ELSE flood
<1>1. dump_send_real(q, n, out)
  BY DEF dump_receive_RR
<1>2. \A c \in DOMAIN answer : Registered(n, c)
  BY LookupRegisters
<1>3. \A c \in DOMAIN flood : Registered(n, c)
  BY DEF FloodTargets, Registered, Conns
<1>4. out = <<>> \/ out = answer \/ out = flood
  OBVIOUS
<1> HIDE DEF out, answer, flood
<1>5. \A c \in DOMAIN out : Registered(n, c)
  <2>1. CASE out = <<>>
    <3>1. DOMAIN out = {}
      BY <2>1
    <3> QED
      BY <3>1
  <2> QED
    BY <1>2, <1>3, <1>4, <2>1
<1> QED
  BY <1>1, <1>5, WritesSucceed

\* dump_receive_Rr meets none, and does not exit on an error in the path.
LEMMA RrStays ==
  ASSUME StaticInv, NEW n \in Nodes, NEW q, NEW p \in Packet, p.type = "Rr",
         Sound(n, p), NEW RRs, NEW Rrs, dump_receive_Rr(q, n, p, RRs, Rrs)
  PROVE  UNCHANGED <<up, opened>>
<1>1. CASE UNCHANGED <<up, opened>>
  BY <1>1
<1>2. CASE dump_is_myid(n, p.dst) /\ SendWaiting(q, n, p)
  <2> DEFINE hop == dump_lookup_neighbor(n, p.path[2])
  <2>1. hop # 0
    BY <1>2, SoundGoesOn
  <2>2. Registered(n, hop)
    BY <2>1, LookupRegisters
  <2>3. FreedReads = {"garbage"}
    BY DEF StaticInv, Stable
  <2>4. PICK D, b : /\ D \subseteq {hop}
                    /\ dump_send_real(q, n, [c \in D |-> b])
    <3> DEFINE wq    == send_wq[n]
               found == {i \in DOMAIN wq : heap[n][wq[i]].dst = p.src}
               live  == {i \in found : heap[n][wq[i]].live}
               firsts == {i \in live : \A j \in 1..(i - 1) : wq[j] # wq[i]}
               data(i) == LET e == heap[n][wq[i]]
                          IN  [type |-> "DATA", src |-> e.src, dst |-> e.dst,
                               id |-> e.id, path |-> p.path]
               D == IF live = {} THEN {} ELSE {hop}
    <3>1. \E order \in [1..Cardinality(firsts) -> firsts] :
            dump_send_real(q, n,
              [c \in IF live = {} THEN {} ELSE {hop} |->
                 [k \in DOMAIN order |-> data(order[k])]])
      BY <1>2, <2>1, <2>3 DEF SendWaiting
    <3>2. PICK order :
            dump_send_real(q, n, [c \in D |-> [k \in DOMAIN order |-> data(order[k])]])
      BY <3>1
    <3>3. D \subseteq {hop}
      OBVIOUS
    <3> HIDE DEF D
    <3> QED
      BY <3>2, <3>3
  <2>5. PICK out : out = [c \in D |-> b]
    OBVIOUS
  <2>6. dump_send_real(q, n, out) /\ \A c \in DOMAIN out : Registered(n, c)
    BY <2>2, <2>4, <2>5
  <2> QED
    BY <2>6, WritesSucceed
<1>3. CASE ~dump_is_myid(n, p.dst) /\ ~UNCHANGED <<up, opened>>
  <2> DEFINE hops == OwnHops(n, p)
             i    == First(hops)
             s    == dump_lookup_neighbor(n, p.path[i - 1])
             D    == IF hops = {} \/ i = 1 THEN {} ELSE {s} \ {0}
             out  == [c \in D |-> <<UpdateHop(p, i, myids[n][c])>>]
  <2>1. dump_send_real(q, n, out)
    BY <1>3 DEF dump_receive_Rr
  <2>2. \A c \in DOMAIN out : Registered(n, c)
    BY LookupRegisters
  <2> HIDE DEF out
  <2> QED
    BY <2>1, <2>2, WritesSucceed
<1> QED
  BY <1>1, <1>2, <1>3 DEF dump_receive_Rr

\* dump_receive_DATA does neither.
LEMMA DATAStays ==
  ASSUME StaticInv, NEW n \in Nodes, NEW q, NEW p, NEW RRs, NEW Rrs,
         dump_receive_DATA(q, n, p, RRs, Rrs)
  PROVE  UNCHANGED <<up, opened>>
<1> DEFINE hops == OwnHops(n, p)
           i    == Last(hops)
           s    == IF i = Len(p.path) THEN 0
                   ELSE dump_lookup_neighbor(n, p.path[i + 1])
           D    == IF p.path = <<>> \/ dump_is_myid(n, p.dst) \/ hops = {}
                   THEN {} ELSE {s} \ {0}
           out  == [c \in D |-> <<p>>]
<1>1. dump_send_real(q, n, out)
  BY DEF dump_receive_DATA
<1>2. \A c \in DOMAIN out : Registered(n, c)
  BY LookupRegisters
<1> HIDE DEF out
<1> QED
  BY <1>1, <1>2, WritesSucceed

\* Nothing else happens in such a network.
LEMMA OnlyPackets ==
  ASSUME StaticInv, [Next]_vars
  PROVE  \/ \E n \in Nodes, dst \in Ids : dump_send(n, dst)
         \/ \E n \in Nodes, c \in Conns : dump_receive_cb(n, c)
         \/ UNCHANGED vars
<1>1. /\ MayConnect = {} /\ MaxDisconnects = 0 /\ MaxSplits = 0 /\ backlog = {}
      /\ used \in [send : Nat, disconnect : Nat, split : Nat, expire : Nat]
  BY DEF StaticInv, Stable, AllOpen, TypeInv, TypeOK
<1>2. ASSUME NEW n \in Nodes, NEW c \in Conns, ReceiveFails(n, c) PROVE FALSE
  <2>1. Registered(n, c)
    BY <1>2 DEF ReceiveFails
  <2>2. Reaches(c, n)
    BY <2>1, SocketPeer DEF Reaches
  <2>3. used.split < 0
    BY <1>1, <1>2, <2>2 DEF ReceiveFails
  <2> QED
    BY <1>1, <2>3
<1>3. ASSUME NEW n \in Nodes, NEW m \in Nodes, dump_disconnect_host(n, m)
      PROVE  FALSE
  BY <1>1, <1>3 DEF dump_disconnect_host
<1>4. ASSUME NEW n \in Nodes, NEW m \in Nodes, dump_connect_to(n, m) PROVE FALSE
  BY <1>1, <1>4 DEF dump_connect_to
<1>5. ASSUME NEW n \in Nodes, NEW c \in Conns, revm_dump_accept(n, c) PROVE FALSE
  BY <1>1, <1>5 DEF revm_dump_accept
<1> QED
  BY <1>2, <1>3, <1>4, <1>5 DEF Next, Receive

\* A path stays linked when a neighbour of its last hop adds its address.
LEMMA LinkedAppend ==
  ASSUME StaticInv, NEW n \in Nodes, NEW path \in Seq(Ids), path # <<>>,
         Linked(path), dump_lookup_neighbor(n, path[Len(path)]) # 0
  PROVE  /\ Linked(Append(path, Home(n)))
         /\ Append(path, Home(n)) # <<>>
         /\ Append(path, Home(n))[1] = path[1]
         /\ Len(Append(path, Home(n))) = Len(path) + 1
         /\ Append(path, Home(n))[Len(path) + 1] = Home(n)
         /\ Append(path, Home(n))[Len(path)] = path[Len(path)]
         /\ DOMAIN Append(path, Home(n)) = 1..(Len(path) + 1)
<1> DEFINE l == Len(path)
           new == Append(path, Home(n))
<1>1. Home(n) \in Ids /\ SingleHomed
  BY HomeFacts DEF StaticInv
<1>2. /\ l \in Nat /\ l # 0 /\ DOMAIN path = 1..l /\ DOMAIN new = 1..(l + 1)
      /\ \A i \in 1..l : new[i] = path[i]
      /\ new[l + 1] = Home(n) /\ new # <<>> /\ Len(new) = l + 1
  BY <1>1, AppendProperties
<1>3. PICK b : b = path[l] /\ dump_lookup_neighbor(n, b) # 0
  OBVIOUS
<1>4. PICK d : d = dump_lookup_neighbor(n, b)
  OBVIOUS
<1>5. Registered(n, d) /\ ports[n][b] = d /\ b \in Ids
  BY <1>3, <1>4, LookupRegisters
<1>6. PICK m : m = Peer(d, n)
  OBVIOUS
<1>7. m \in Nodes /\ b = Home(m) /\ dump_lookup_neighbor(m, Home(n)) # 0
  BY <1>5, <1>6, SocketPeer
<1>8. 1 \in 1..l /\ l \in 1..l
  <2> HIDE DEF l
  <2> QED
    BY <1>2
<1>9. ASSUME NEW i \in DOMAIN new, i + 1 \in DOMAIN new, NEW k \in Nodes
      PROVE  /\ new[i] = Home(k) => dump_lookup_neighbor(k, new[i + 1]) # 0
             /\ new[i + 1] = Home(k) => dump_lookup_neighbor(k, new[i]) # 0
  <2> HIDE DEF l, new
  <2>1. CASE i = l
    <3>1. new[i] = b /\ new[i + 1] = Home(n)
      BY <1>2, <1>3, <1>8, <2>1
    <3>2. Home(k) = Home(m) => k = m
      BY <1>1, <1>7, HomeFacts
    <3>3. Home(k) = Home(n) => k = n
      BY <1>1, HomeFacts
    <3> QED
      BY <1>3, <1>7, <3>1, <3>2, <3>3
  <2>2. CASE i # l
    <3>1. i \in 1..l /\ i + 1 \in 1..l
      BY <1>2, <1>9, <2>2
    <3>2. new[i] = path[i] /\ new[i + 1] = path[i + 1]
      BY <1>2, <3>1
    <3> QED
      BY <1>2, <3>1, <3>2 DEF Linked
  <2> QED
    BY <2>1, <2>2
<1>10. Linked(new)
  <2> HIDE DEF new
  <2> QED
    BY <1>9 DEF Linked
<1> QED
  BY <1>2, <1>8, <1>10

\* A new request is sound.
LEMMA RequestSound ==
  ASSUME StaticInv, NEW n \in Nodes, NEW d, NEW m, Sends(n, d, m),
         NEW w, w.type = "RR", w.src = myids[n][d], w.path = <<myids[n][d]>>
  PROVE  Sound(m, w)
<1>1. /\ myids[n][d] = Home(n) /\ dump_is_myid(m, Home(m))
      /\ dump_lookup_neighbor(m, Home(n)) # 0
  BY SocketPeer DEF Sends
<1>2. /\ DOMAIN w.path = {1} /\ w.path[1] = Home(n) /\ Len(w.path) = 1
      /\ w.path # <<>>
  BY <1>1
<1>3. Linked(w.path)
  BY <1>2 DEF Linked
<1>4. w.path[1] = w.src /\ dump_lookup_neighbor(m, w.path[Len(w.path)]) # 0
  BY <1>1, <1>2
<1> QED
  BY <1>1, <1>2, <1>3, <1>4 DEF Sound

\* A request stays sound when a node adds itself.
LEMMA ForwardedSound ==
  ASSUME StaticInv, NEW n \in Nodes, NEW d, NEW m, Sends(n, d, m),
         NEW p \in Packet, p.type = "RR", Sound(n, p)
  PROVE  Sound(m, Forwarded(n, p, d))
<1>1. /\ myids[n][d] = Home(n) /\ dump_is_myid(m, Home(m))
      /\ dump_lookup_neighbor(m, Home(n)) # 0
  BY SocketPeer DEF Sends
<1>2. PICK w : w = Forwarded(n, p, d)
  OBVIOUS
<1>3. /\ w.path = Append(p.path, Home(n)) /\ w.type = "RR" /\ w.src = p.src
  BY <1>1, <1>2, ForwardedType DEF Sends, StaticInv, TypeInv, AllOpen
<1>4. /\ p.path \in Seq(Ids) /\ p.path # <<>> /\ Linked(p.path)
      /\ dump_lookup_neighbor(n, p.path[Len(p.path)]) # 0
      /\ p.path[1] = p.src
  BY PacketFields DEF Sound
<1>5. /\ Linked(w.path) /\ w.path # <<>>
      /\ w.path[1] = w.src /\ w.path[Len(w.path)] = Home(n)
  BY <1>3, <1>4, LinkedAppend
<1>6. Sound(m, w)
  BY <1>1, <1>3, <1>5 DEF Sound
<1> QED
  BY <1>2, <1>6

\* The reply of the destination is sound for the last hop.
LEMMA ReplySound ==
  ASSUME StaticInv, NEW n \in Nodes, NEW d, NEW m, Sends(n, d, m),
         NEW p \in Packet, p.type = "RR", Sound(n, p), dump_is_myid(n, p.dst),
         d = dump_lookup_neighbor(n, p.path[Len(p.path)])
  PROVE  Sound(m, Reply(n, p, d))
<1>1. myids[n][d] = Home(n) /\ dump_is_myid(m, Home(m))
  BY SocketPeer DEF Sends
<1>2. PICK w : w = Reply(n, p, d)
  OBVIOUS
<1>3. /\ w.path = Append(p.path, Home(n)) /\ w.type = "Rr"
      /\ w.src = p.dst /\ w.dst = p.src
  BY <1>1, <1>2 DEF Reply
<1>4. /\ p.path \in Seq(Ids) /\ p.path # <<>> /\ Linked(p.path)
      /\ dump_lookup_neighbor(n, p.path[Len(p.path)]) # 0
      /\ p.path[1] = p.src
  BY PacketFields DEF Sound
<1>5. p.dst = Home(n)
  BY MyidIsHome
<1> DEFINE l == Len(p.path)
<1>6. /\ Linked(w.path) /\ w.path # <<>> /\ w.path[1] = w.dst
      /\ Len(w.path) = l + 1 /\ w.path[l + 1] = Home(n)
      /\ w.path[l] = p.path[l] /\ DOMAIN w.path = 1..(l + 1)
  BY <1>3, <1>4, LinkedAppend
<1>7. l \in Nat /\ l # 0
  BY <1>4
<1>8. p.path[l] = Home(m)
  BY HopIsPeer
<1> HIDE DEF l
<1>9. l + 1 >= 2 /\ l \in 1..(l + 1)
  BY <1>7
<1>10. OnPath(m, w.path)
  BY <1>6, <1>8, <1>9 DEF OnPath
<1>11. Len(w.path) >= 2 /\ w.path[Len(w.path)] = w.src
  BY <1>3, <1>5, <1>6, <1>9
<1>12. Sound(m, w)
  BY <1>1, <1>3, <1>6, <1>10, <1>11 DEF Sound
<1> QED
  BY <1>2, <1>12

\* The id a forwarder puts in the path is the one that was there.
LEMMA ReturnedSound ==
  ASSUME StaticInv, NEW n \in Nodes, NEW d, NEW m, Sends(n, d, m),
         NEW p \in Packet, p.type = "Rr", Sound(n, p), ~dump_is_myid(n, p.dst),
         OwnHops(n, p) # {},
         d = dump_lookup_neighbor(n, p.path[First(OwnHops(n, p)) - 1])
  PROVE  Sound(m, Returned(n, p, d))
<1>1. /\ myids[n][d] = Home(n) /\ dump_is_myid(m, Home(m)) /\ Home(n) \in Ids
  BY SocketPeer, HomeFacts DEF Sends, StaticInv
<1>2. PICK w : w = Returned(n, p, d)
  OBVIOUS
<1>3. PICK i : i = First(OwnHops(n, p))
  OBVIOUS
<1>4. /\ p.path \in Seq(Ids) /\ w.path \in Seq(Ids)
      /\ w.type = "Rr" /\ w.src = p.src /\ w.dst = p.dst
      /\ DOMAIN w.path = DOMAIN p.path
      /\ \A j \in DOMAIN p.path : w.path[j] = IF j = i THEN Home(n) ELSE p.path[j]
  <2>1. PICK a \in Ids : a = Home(n)
    BY <1>1
  <2>2. w = UpdateHop(p, i, a)
    BY <1>1, <1>2, <1>3, <2>1 DEF Returned
  <2>3. /\ UpdateHop(p, i, a) \in Packet
        /\ DOMAIN UpdateHop(p, i, a).path = DOMAIN p.path
        /\ \A j \in DOMAIN p.path :
             UpdateHop(p, i, a).path[j] = IF j = i THEN a ELSE p.path[j]
        /\ UpdateHop(p, i, a).type = p.type
        /\ UpdateHop(p, i, a).src = p.src
        /\ UpdateHop(p, i, a).dst = p.dst
    BY UpdateType
  <2>4. w \in Packet
    BY <2>2, <2>3
  <2>5. p.path \in Seq(Ids) /\ w.path \in Seq(Ids)
    BY <2>4, PacketFields
  <2> QED
    BY <2>1, <2>2, <2>3, <2>5
<1>5. i > 1
  BY <1>3, SoundGoesOn
<1>6. OwnHops(n, p) \subseteq Nat
  BY <1>4 DEF OwnHops
<1>7. i \in OwnHops(n, p)
  BY <1>3, <1>6, FirstOf
<1>8. i \in DOMAIN p.path /\ p.path[i] = Home(n)
  BY <1>7, MyidIsHome DEF OwnHops
<1>9. w.path = p.path
  <2>1. Len(w.path) = Len(p.path)
    <3> DEFINE u == Len(w.path)
               v == Len(p.path)
    <3>1. u \in Nat /\ v \in Nat /\ 1..u = 1..v
      BY <1>4
    <3> HIDE DEF u, v
    <3>2. u = v
      BY <3>1
    <3> QED
      BY <3>2 DEF u, v
  <2>2. \A j \in 1..Len(w.path) : w.path[j] = p.path[j]
    BY <1>4, <1>8
  <2> QED
    BY <1>4, <2>1, <2>2, SeqEqual
<1>10. p.path[i - 1] = Home(m)
  BY <1>3, HopIsPeer
<1> DEFINE l == Len(p.path)
<1>11. i \in 1..l /\ l \in Nat /\ DOMAIN p.path = 1..l
  BY <1>4, <1>8
<1>12. i - 1 \in 1..l
  <2> HIDE DEF l
  <2> QED
    BY <1>5, <1>11
<1>13. OnPath(m, w.path)
  BY <1>9, <1>10, <1>11, <1>12 DEF OnPath
<1>14. Sound(m, w)
  BY <1>1, <1>4, <1>9, <1>13 DEF Sound
<1> QED
  BY <1>2, <1>14

\* A message that the source releases is sound for the second hop.
LEMMA BatchSound ==
  ASSUME StaticInv, NEW n \in Nodes, NEW d, NEW m, Sends(n, d, m),
         NEW p \in Packet, p.type = "Rr", Sound(n, p), NEW s,
         d = dump_lookup_neighbor(n, p.path[2]), heap[n][s].dst = p.src
  PROVE  Sound(m, DataPkt(n, s, p))
<1>1. dump_is_myid(m, Home(m)) /\ p.path[2] = Home(m)
  BY SocketPeer, HopIsPeer DEF Sends
<1>2. PICK w : w = DataPkt(n, s, p)
  OBVIOUS
<1>3. w.type = "DATA" /\ w.path = p.path /\ w.dst = p.src
  BY <1>2 DEF DataPkt
<1>4. p.path \in Seq(Ids) /\ Len(p.path) >= 2
  BY PacketFields DEF Sound
<1>5. OnPath(m, p.path)
  BY <1>1, <1>4 DEF OnPath
<1>6. Sound(m, w)
  BY <1>1, <1>3, <1>5 DEF Sound
<1> QED
  BY <1>2, <1>6

\* A message stays sound on the way to its destination.
LEMMA PassedOnSound ==
  ASSUME StaticInv, NEW n \in Nodes, NEW d, NEW m, Sends(n, d, m),
         NEW p \in Packet, p.type = "DATA", Sound(n, p), OwnHops(n, p) # {},
         ~dump_is_myid(n, p.dst),
         d = dump_lookup_neighbor(n, p.path[Last(OwnHops(n, p)) + 1])
  PROVE  Sound(m, p)
<1>1. dump_is_myid(m, Home(m))
  BY SocketPeer DEF Sends
<1>2. PICK i : i = Last(OwnHops(n, p))
  OBVIOUS
<1>3. i < Len(p.path) /\ p.path[i + 1] = Home(m)
  BY <1>2, SoundGoesOn, HopIsPeer
<1> DEFINE l == Len(p.path)
<1>4. p.path \in Seq(Ids) /\ l \in Nat /\ DOMAIN p.path = 1..l
  BY PacketFields
<1>5. OwnHops(n, p) \subseteq 1..l
  BY <1>4 DEF OwnHops
<1>6. i \in 1..l
  <2> HIDE DEF l
  <2>1. OwnHops(n, p) \subseteq 0..l
    BY <1>4, <1>5
  <2> QED
    BY <1>2, <1>4, <1>5, <2>1, LastOf
<1>7. i + 1 \in 1..l
  <2>1. i < l
    BY <1>3
  <2> HIDE DEF l
  <2> QED
    BY <1>4, <1>6, <2>1
<1>8. OnPath(m, p.path)
  BY <1>3, <1>4, <1>7 DEF OnPath
<1> QED
  BY <1>1, <1>8 DEF Sound

\* What is sound for the old tables is sound for tables that did not change.
LEMMA SoundOver ==
  ASSUME UNCHANGED <<ports, myids>>, StaticInv',
         \A d \in Conns, m \in Nodes : \A k \in DOMAIN chan'[d][m] :
           Sound(m, chan'[d][m][k])
  PROVE  SoundInv'
<1>1. ASSUME NEW d \in Conns, NEW m \in Nodes, NEW k \in DOMAIN chan'[d][m],
             NEW w, w = chan'[d][m][k]
      PROVE  /\ dump_is_myid(m, Home(m))' <=> dump_is_myid(m, Home(m))
             /\ Linked(w.path)' <=> Linked(w.path)
             /\ OnPath(m, w.path)' <=> OnPath(m, w.path)
             /\ \A a : dump_lookup_neighbor(m, a)' = dump_lookup_neighbor(m, a)
  BY DEF Linked, dump_is_myid, dump_lookup_neighbor, OnPath, Home
<1>2. ASSUME NEW d \in Conns, NEW m \in Nodes, NEW k \in DOMAIN chan'[d][m],
             NEW w, w = chan'[d][m][k]
      PROVE  Sound(m, w)'
  <2>1. Sound(m, w)
    BY <1>2
  <2> QED
    BY <1>1, <1>2, <2>1 DEF Sound
<1>3. (\A d \in Conns, m \in Nodes : \A k \in DOMAIN chan[d][m] :
         Sound(m, chan[d][m][k]))'
  <2> SUFFICES ASSUME NEW d \in Conns, NEW m \in Nodes, NEW k \in DOMAIN chan'[d][m]
               PROVE  Sound(m, chan[d][m][k])'
    OBVIOUS
  <2>1. PICK w : w = chan'[d][m][k]
    OBVIOUS
  <2> QED
    BY <1>2, <2>1 DEF Sound, OnPath, Linked
<1> QED
  BY <1>3 DEF SoundInv

\* What no packet handler changes.
LEMMA StaticStays ==
  ASSUME StaticInv, TypeInv', AgreeInv', UNCHANGED <<conn, opened, backlog, myids, up>>
  PROVE  StaticInv'
BY DEF StaticInv, SingleHomed, Stable, OwnIds, AllOpen, Joins

\* dump_send leaves sound packets.
LEMMA SendKeepsSound ==
  ASSUME SoundInv, TypeInv', AgreeInv', NEW n \in Nodes, NEW dst \in Ids,
         dump_send(n, dst)
  PROVE  SoundInv'
<1>1. StaticInv /\ TypeOK /\ LinkInv
  BY DEF SoundInv, StaticInv, TypeInv
<1>2. UNCHANGED <<conn, opened, backlog, ports, myids, up>>
  BY <1>1, SendStays DEF dump_send
<1>3. StaticInv'
  BY <1>1, <1>2, StaticStays
<1>4. ASSUME NEW d \in Conns, NEW m \in Nodes, NEW k \in DOMAIN chan'[d][m],
             NEW w, w = chan'[d][m][k]
      PROVE  Sound(m, w)
  <2>1. CASE Kept(chan, d, m, k)
    BY <1>4, <2>1 DEF Kept, SoundInv
  <2>2. CASE /\ Sends(n, d, m)
             /\ w = [type |-> "RR", src |-> myids[n][d], dst |-> dst,
                     id |-> dump_mk_pkt_id(n, d), path |-> <<myids[n][d]>>]
    <3>1. w.type = "RR" /\ w.src = myids[n][d] /\ w.path = <<myids[n][d]>>
      BY <2>2
    <3> QED
      BY <1>1, <2>2, <3>1, RequestSound
  <2> QED
    BY <1>1, <1>4, <2>1, <2>2, RequestEffect
<1>5. \A d \in Conns, m \in Nodes : \A k \in DOMAIN chan'[d][m] :
        Sound(m, chan'[d][m][k])
  BY <1>4
<1> QED
  BY <1>2, <1>3, <1>5, SoundOver

\* The packet handlers leave sound packets.
LEMMA ReceiveKeepsSound ==
  ASSUME SoundInv, TypeInv', AgreeInv', NEW n \in Nodes, NEW c \in Conns,
         dump_receive_cb(n, c)
  PROVE  SoundInv'
<1>1. PICK RRs, Rrs :
        \/ /\ Head(chan[c][n]).type = "RR"
           /\ dump_receive_RR(Popped(c, n), n, Head(chan[c][n]), RRs, Rrs)
        \/ /\ Head(chan[c][n]).type = "Rr"
           /\ dump_receive_Rr(Popped(c, n), n, Head(chan[c][n]), RRs, Rrs)
        \/ /\ Head(chan[c][n]).type = "DATA"
           /\ dump_receive_DATA(Popped(c, n), n, Head(chan[c][n]), RRs, Rrs)
  BY ReceiveCases DEF SoundInv, StaticInv
<1>2. PICK p, q : p = Head(chan[c][n]) /\ q = Popped(c, n)
  OBVIOUS
<1>3. /\ StaticInv /\ TypeOK /\ LinkInv /\ TypeInv
      /\ p \in Packet /\ q \in Channels /\ up[n] /\ chan[c][n] # <<>>
      /\ UNCHANGED <<conn, backlog, ports, myids>>
  BY <1>2, ReceiveCases DEF SoundInv, StaticInv, TypeInv
<1>4. Sound(n, p)
  BY <1>2, <1>3, PopEffect DEF SoundInv
<1>5. \/ p.type = "RR" /\ dump_receive_RR(q, n, p, RRs, Rrs)
      \/ p.type = "Rr" /\ dump_receive_Rr(q, n, p, RRs, Rrs)
      \/ p.type = "DATA" /\ dump_receive_DATA(q, n, p, RRs, Rrs)
  BY <1>1, <1>2
<1>6. UNCHANGED <<up, opened>>
  BY <1>3, <1>4, <1>5, RRStays, RrStays, DATAStays
<1>7. StaticInv'
  BY <1>3, <1>6, StaticStays
<1>8. ASSUME NEW d \in Conns, NEW m \in Nodes, NEW k \in DOMAIN chan'[d][m],
             NEW w, w = chan'[d][m][k]
      PROVE  Sound(m, w)
  <2>1. CASE Kept(q, d, m, k)
    <3>1. k \in DOMAIN q[d][m] /\ w = q[d][m][k]
      BY <1>8, <2>1 DEF Kept
    <3>2. \E j \in DOMAIN chan[d][m] : w = chan[d][m][j]
      BY <1>2, <1>3, <3>1, PopEffect
    <3> QED
      BY <3>2 DEF SoundInv
  <2>2. CASE ~Kept(q, d, m, k) /\ p.type = "RR" /\ dump_receive_RR(q, n, p, RRs, Rrs)
    <3>1. /\ Sends(n, d, m)
          /\ \/ /\ dump_is_myid(n, p.dst)
                /\ d = dump_lookup_neighbor(n, p.path[Len(p.path)])
                /\ w = Reply(n, p, d)
             \/ w = Forwarded(n, p, d)
      BY <1>3, <1>8, <2>2, RREffect
    <3> QED
      BY <1>3, <1>4, <2>2, <3>1, ReplySound, ForwardedSound
  <2>3. CASE ~Kept(q, d, m, k) /\ p.type = "Rr" /\ dump_receive_Rr(q, n, p, RRs, Rrs)
    <3>1. CASE \E slot : Batch(q, n, p, slot)
      <4>1. PICK s : /\ Sends(n, d, m) /\ d = dump_lookup_neighbor(n, p.path[2])
                     /\ heap[n][s].dst = p.src /\ w = DataPkt(n, s, p)
        BY <1>8, <2>3, <3>1 DEF Batch
      <4> QED
        BY <1>3, <1>4, <2>3, <4>1, BatchSound
    <3>2. CASE ~\E slot : Batch(q, n, p, slot)
      <4>1. /\ Sends(n, d, m) /\ ~dump_is_myid(n, p.dst) /\ OwnHops(n, p) # {}
            /\ d = dump_lookup_neighbor(n, p.path[First(OwnHops(n, p)) - 1])
            /\ w = Returned(n, p, d)
        BY <1>3, <1>8, <2>3, <3>2, RrEffect
      <4> QED
        BY <1>3, <1>4, <2>3, <4>1, ReturnedSound
    <3> QED
      BY <3>1, <3>2
  <2>4. CASE ~Kept(q, d, m, k) /\ p.type = "DATA" /\ dump_receive_DATA(q, n, p, RRs, Rrs)
    <3>1. /\ Sends(n, d, m) /\ ~dump_is_myid(n, p.dst) /\ OwnHops(n, p) # {}
          /\ d = dump_lookup_neighbor(n, p.path[Last(OwnHops(n, p)) + 1])
          /\ w = p
      BY <1>3, <1>8, <2>4, DATAEffect
    <3> QED
      BY <1>3, <1>4, <2>4, <3>1, PassedOnSound
  <2> QED
    BY <1>5, <2>1, <2>2, <2>3, <2>4
<1>9. \A d \in Conns, m \in Nodes : \A k \in DOMAIN chan'[d][m] :
        Sound(m, chan'[d][m][k])
  BY <1>8
<1> QED
  BY <1>3, <1>7, <1>9, SoundOver

(***************************************************************************)
(* Routing: between nodes of one address each, on connections that stay, a  *)
(* packet is only ever handed to a node that finds itself in the path and   *)
(* has a socket to the next hop, so that the error exits of recv.c 342-348, *)
(* 395-399 and 439-446 are not taken, even when the path passes the source  *)
(* twice or, after an expiry, any node.                                     *)
(***************************************************************************)
THEOREM Routing == SingleHomed /\ Stable /\ Spec => []RouteSound
<1>1. SingleHomed /\ Stable /\ Init => SoundInv
  <2> SUFFICES ASSUME SingleHomed, Stable, Init PROVE SoundInv
    OBVIOUS
  <2>1. TypeInv
    BY InitTypes
  <2>2. AgreeInv
    BY InitAgreeInv DEF Stable, OneWay
  <2>3. OwnIds
    BY InitConnEnds, ConstantsAssumption DEF Init, OwnIds, InitEnd
  <2>4. AllOpen
    <3>1. ASSUME NEW c \in Conns, NEW n \in Nodes, NEW m \in Nodes, Joins(c, n, m)
          PROVE  n \in opened[c]
      <4>1. c \in DOMAIN InitConn /\ conn[c] = InitConn[c]
        BY <3>1 DEF Init, Joins
      <4>2. InitEnd(n, c)
        BY <3>1, <4>1 DEF InitEnd, Joins
      <4> QED
        BY <4>2 DEF Init
    <3> QED
      BY <3>1 DEF AllOpen, Init
  <2>5. \A c \in Conns, n \in Nodes : DOMAIN chan[c][n] = {}
    BY DEF Init
  <2> QED
    BY <2>1, <2>2, <2>3, <2>4, <2>5 DEF SoundInv, StaticInv
<1>2. SoundInv /\ TypeInv' /\ AgreeInv' /\ [Next]_vars => SoundInv'
  <2> SUFFICES ASSUME SoundInv, TypeInv', AgreeInv', [Next]_vars PROVE SoundInv'
    OBVIOUS
  <2>1. CASE UNCHANGED vars
    <3>1. StaticInv'
      BY <2>1, StaticStays DEF vars, SoundInv
    <3>2. UNCHANGED <<ports, myids, chan>>
      BY <2>1 DEF vars
    <3>3. \A d \in Conns, m \in Nodes : \A k \in DOMAIN chan'[d][m] :
            Sound(m, chan'[d][m][k])
      BY <3>2 DEF SoundInv
    <3> QED
      BY <3>1, <3>2, <3>3, SoundOver
  <2> QED
    BY <2>1, OnlyPackets, SendKeepsSound, ReceiveKeepsSound DEF SoundInv
<1>3. Stable => OneWay
  BY DEF Stable, OneWay
<1> QED
  BY <1>1, <1>2, <1>3, SoundInvImplies, TypeInvariant, AgreeInvariant, PTL DEF Spec
=============================================================================
