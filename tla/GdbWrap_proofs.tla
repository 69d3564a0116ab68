--------------------------- MODULE GdbWrap_proofs ---------------------------
(***************************************************************************)
(* Proofs about GdbWrap, for any number of calls, refused queries and      *)
(* interrupts and for every way in which recv cuts the bytes.              *)
(*                                                                         *)
(* BaseInv holds of every behaviour: types, numbers of queries, bytes.     *)
(* PhaseInv, inductive relative to it, speaks of an exchange that was not  *)
(* disturbed: for every place of the client it says what is on either      *)
(* wire, what the server does and how often the query was executed.        *)
(***************************************************************************)
EXTENDS GdbWrap, Extrema, FiniteSetTheorems, SequenceTheorems, TLAPS

(* Bytes that a server sends, that a wire holds and that the buffer holds *)
ReplyByte == [c : {"$", "d", "#", "x"}, id : Ids,
              k : {"stop", "exit", "data", "err", "OK", "none"}]
InByte    == ReplyByte \union {Sign("+"), Sign("-")}
AnyByte   == InByte \union {Sign("$")}
Message   == [t : {"query"}, q : Queries] \union {Ack, Break}

(* A call is under way. *)
Busy == pc \in {"send", "ack", "get", "back"}

(* Types *)
Shape ==
  /\ pc \in {"idle", "send", "ack", "get", "back", "killed", "crashed"}
  /\ calls \in 0..(MaxCalls + 1)
  /\ is_active \in BOOLEAN /\ interrupted \in BOOLEAN /\ eintr \in BOOLEAN /\ handler \in BOOLEAN /\ blocked \in BOOLEAN
  /\ choice \in 0..2
  /\ ret \in Replies \union {NULL, [id |-> 0, k |-> "raw"]}
  /\ link \in {"up", "closed", "reset"}
  /\ caps \subseteq {"X", "M"}
  /\ job \in Queries \union {NULL}
  /\ exec \in [Ids -> Nat]
  /\ stray \in 0..MaxStray /\ naks \in 0..MaxNaks /\ ints \in 0..MaxInts
  /\ upset \subseteq {"cut", "signal"}

(* Bytes and messages; nothing is on its way to a server that has gone. *)
Wires ==
  /\ s2c \in Seq(InByte) /\ c2s \in Seq(Message) /\ packet \in Seq(AnyByte)
  /\ pc = "get" => packet \in Seq(InByte)
  /\ link # "up" => c2s = <<>> /\ job = NULL

(* A query has the number of its call; choice tells which of its two commands
   gdbwrap_writemem tries, and the first leaves a number for the second. *)
Numbers ==
  /\ calls = 0 => ~Busy /\ ret = NULL
  /\ calls > 0 => q \in Queries /\ q.id = calls
  /\ choice = 0 => calls <= MaxCalls
  /\ Busy => (q.k = "X" => choice = 0) /\ (q.k = "M" => choice = 1)

BaseInv == Shape /\ Wires /\ Numbers /\ EndNoticed

NoQuery == \A i \in 1..Len(c2s) : c2s[i].t # "query"

Length(r) == IF r.k = "none" THEN 4 ELSE 6

(* s is the part of r's packet that follows its first k bytes. *)
Part(s, r, k) == \A i \in 1..Len(s) : s[i] = Bytes(r)[k + i]

(* r is a reply that the server may give to the query. *)
Answering(r) == r \in Replies /\ r.id = q.id /\ r.k \in Answers(q.k)

(* Nothing that belongs to an exchange is on its way. *)
Idle    == s2c = <<>> /\ job = NULL /\ NoQuery

(* The query is executed, or was when the server died. *)
Running == job = q \/ (job = NULL /\ link # "up")

(* The query is on its way, was refused, was acknowledged, was answered. *)
Asked ==
  \/ /\ s2c = <<>> /\ job = NULL /\ exec[q.id] = 0
     /\ \A i \in 1..Len(c2s) : c2s[i].t = "query" => i = Len(c2s) /\ c2s[i].q = q
  \/ s2c = <<Sign("-")>> /\ job = NULL /\ exec[q.id] = 0 /\ NoQuery
  \/ s2c = <<Sign("+")>> /\ Running /\ exec[q.id] = 1 /\ NoQuery
  \/ /\ job = NULL /\ exec[q.id] = 1 /\ NoQuery
     /\ \E r \in Replies : /\ Answering(r) /\ Len(s2c) = 1 + Length(r) /\ s2c[1] = Sign("+")
                           /\ Part(Tail(s2c), r, 0)

(* The reply is awaited; or buffer and wire together are the reply. *)
Getting ==
  /\ exec[q.id] = 1 /\ NoQuery
  /\ \/ s2c = <<>> /\ packet = <<>> /\ Running
     \/ /\ job = NULL /\ s2c # <<>> /\ (handler => packet = <<>>)
        /\ \E r \in Replies : /\ Answering(r) /\ Len(packet) + Len(s2c) = Length(r)
                              /\ Part(packet, r, 0) /\ Part(s2c, r, Len(packet))

(* The exchange is over, and what it returned was the answer. *)
Returned ==
  /\ Idle
  /\ ret # NULL => /\ exec[q.id] = 1
                   /\ ret.k # "raw" => ret.id = q.id
                   /\ ret.k = "raw" /\ packet # <<>> => packet[1].id = q.id

(* The phase that goes with every place of the client; no query is executed
   twice, and a client believes in the end of a server that lives only when
   the server announced it. *)
Phases ==
  /\ \A i \in Ids : exec[i] <= 1 /\ (i > calls => exec[i] = 0)
  /\ Len(packet) <= 6
  /\ handler => pc = "get" /\ blocked /\ ints > 0
  /\ pc \in {"idle", "back", "crashed"} => Returned
  /\ pc = "send" => Idle /\ exec[q.id] = 0
  /\ pc = "ack" => Asked
  /\ pc = "get" => Getting
  /\ pc = "killed" => Idle
  /\ ~is_active /\ link = "up" => pc \in {"idle", "back", "crashed"} /\ packet # <<>>

(* What gdbwrap_writemem learns from the replies *)
Writes ==
  /\ choice > 0 => "X" \notin caps \/ link # "up"
  /\ pc = "back" /\ q.k \in {"X", "M"} /\ is_active =>
       IF packet = <<>> THEN q.k \notin caps \/ link # "up"
       ELSE q.k \in caps /\ exec[q.id] = 1

PhaseInv == upset = {} => Phases /\ (ints = 0 => Writes)
-----------------------------------------------------------------------------
(* Packets *)

Kinds == {"stop", "exit", "data", "err", "OK", "none"}

(* Bytes of a packet *)
LEMMA BytesShape ==
  ASSUME NEW r, r.id \in Ids, r.k \in Kinds
  PROVE  /\ Bytes(r) \in Seq(ReplyByte) /\ Len(Bytes(r)) = Length(r)
         /\ Length(r) \in {4, 6}
         /\ Bytes(r)[1] = Byte("$", r)
         /\ r.k # "none" => Bytes(r)[2] = Byte("d", r) /\ Bytes(r)[3] = Byte("d", r)
         /\ Bytes(r)[Length(r) - 2] = Byte("#", r)
         /\ Bytes(r)[Length(r) - 1] = Byte("x", r)
         /\ Bytes(r)[Length(r)] = Byte("x", r)
<1> DEFINE a == Byte("$", r)
           d == Byte("d", r)
           h == Byte("#", r)
           x == Byte("x", r)
<1>1. a \in ReplyByte /\ d \in ReplyByte /\ h \in ReplyByte /\ x \in ReplyByte
  BY DEF Byte, ReplyByte, Kinds
<1>2. Bytes(r) = (<<a>> \o (IF r.k = "none" THEN <<>> ELSE <<d, d>>)) \o <<h, x, x>>
  BY DEF Bytes
<1> HIDE DEF a, d, h, x
<1>3. <<a>> \in Seq(ReplyByte) /\ <<h, x, x>> \in Seq(ReplyByte) /\ <<d, d>> \in Seq(ReplyByte)
      /\ <<>> \in Seq(ReplyByte)
  BY <1>1
<1>4. CASE r.k = "none"
  <2>1. Bytes(r) = (<<a>> \o <<>>) \o <<h, x, x>>
    BY <1>2, <1>4
  <2>2. <<a>> \o <<>> = <<a>>
    BY <1>3, ConcatEmptySeq
  <2>3. /\ <<a>> \o <<h, x, x>> \in Seq(ReplyByte)
        /\ Len(<<a>> \o <<h, x, x>>) = 4
        /\ \A i \in 1..4 : (<<a>> \o <<h, x, x>>)[i] = IF i <= 1 THEN <<a>>[i] ELSE <<h, x, x>>[i - 1]
    BY <1>3, ConcatProperties
  <2> DEFINE b == Bytes(r)
  <2>4. b \in Seq(ReplyByte) /\ Len(b) = 4 /\ b[1] = a /\ b[2] = h /\ b[3] = x /\ b[4] = x
    BY <2>1, <2>2, <2>3
  <2>5. Length(r) = 4
    BY <1>4 DEF Length
  <2> QED
    BY <1>4, <2>4, <2>5 DEF a, h, x
<1>5. CASE r.k # "none"
  <2>1. Bytes(r) = (<<a>> \o <<d, d>>) \o <<h, x, x>>
    BY <1>2, <1>5
  <2> DEFINE f == <<a>> \o <<d, d>>
  <2>2. /\ f \in Seq(ReplyByte) /\ Len(f) = 3
        /\ \A i \in 1..3 : f[i] = IF i <= 1 THEN <<a>>[i] ELSE <<d, d>>[i - 1]
    BY <1>3, ConcatProperties
  <2>3. f[1] = a /\ f[2] = d /\ f[3] = d
    BY <2>2
  <2> HIDE DEF f
  <2>4. /\ f \o <<h, x, x>> \in Seq(ReplyByte)
        /\ Len(f \o <<h, x, x>>) = 6
        /\ \A i \in 1..6 : (f \o <<h, x, x>>)[i] = IF i <= 3 THEN f[i] ELSE <<h, x, x>>[i - 3]
    <3> DEFINE e == <<h, x, x>>
    <3>1. e \in Seq(ReplyByte) /\ Len(e) = 3 /\ Len(f) = 3 /\ f \in Seq(ReplyByte)
      BY <1>3, <2>2
    <3> HIDE DEF e
    <3>2. /\ f \o e \in Seq(ReplyByte) /\ Len(f \o e) = Len(f) + Len(e)
          /\ \A i \in 1..(Len(f) + Len(e)) : (f \o e)[i] = IF i <= Len(f) THEN f[i] ELSE e[i - Len(f)]
      BY <3>1, ConcatProperties
    <3>3. Len(f) + Len(e) = 6
      BY <3>1
    <3> QED
      BY <3>1, <3>2, <3>3 DEF e
  <2> DEFINE b == f \o <<h, x, x>>
  <2>5. Len(b) = 6 /\ b[1] = a /\ b[2] = d /\ b[3] = d /\ b[4] = h /\ b[5] = x /\ b[6] = x
    BY <2>3, <2>4
  <2>6. Length(r) = 6 /\ Bytes(r) = b
    BY <1>5, <2>1 DEF Length, f
  <2> HIDE DEF b
  <2>7. Bytes(r) \in Seq(ReplyByte)
    BY <2>4, <2>6 DEF b
  <2> QED
    BY <1>5, <2>5, <2>6, <2>7 DEF a, d, h, x
<1> QED
  BY <1>4, <1>5

(* Only the number and the kind of a reply are in its bytes. *)
LEMMA BytesOf ==
  ASSUME NEW r, NEW s, r.id = s.id, r.k = s.k
  PROVE  Bytes(r) = Bytes(s)
BY DEF Bytes, Byte

(* The position that First chooses *)
LEMMA FirstAt ==
  ASSUME NEW S, NEW p \in Seq(S), NEW c, Has(p, c)
  PROVE  /\ First(p, c) \in 1..Len(p) /\ p[First(p, c)].c = c
         /\ \A j \in 1..(First(p, c) - 1) : p[j].c # c
<1> DEFINE T == {i \in 1..Len(p) : p[i].c = c}
<1>0. Len(p) \in Nat
  BY LenProperties
<1>1. T \subseteq Nat /\ T # {}
  BY DEF Has
<1>2. PICK m \in T : \A n \in T : m <= n
  <2> HIDE DEF T
  <2> QED
    BY <1>1, LeastNat
<1>3. m \in 1..Len(p) /\ p[m].c = c
  OBVIOUS
<1>4. \A j \in 1..(m - 1) : p[j].c # c
  <2> SUFFICES ASSUME NEW j \in 1..(m - 1), p[j].c = c
               PROVE  FALSE
    OBVIOUS
  <2>1. j \in 1..Len(p) /\ ~(m <= j)
    BY <1>0, <1>3
  <2> QED
    BY <1>2, <2>1
<1>5. \E i \in 1..Len(p) : p[i].c = c /\ \A j \in 1..(i - 1) : p[j].c # c
  BY <1>3, <1>4
<1> QED
  BY <1>5 DEF First

(* A position that First must choose *)
LEMMA FirstIs ==
  ASSUME NEW S, NEW p \in Seq(S), NEW c, NEW i \in 1..Len(p), p[i].c = c,
         \A j \in 1..(i - 1) : p[j].c # c
  PROVE  Has(p, c) /\ First(p, c) = i
<1>1. Has(p, c) /\ Len(p) \in Nat
  BY LenProperties DEF Has
<1> DEFINE f == First(p, c)
<1>2. f \in 1..Len(p) /\ p[f].c = c /\ \A j \in 1..(f - 1) : p[j].c # c
  BY <1>1, FirstAt
<1> HIDE DEF f
<1>3. ~(f < i) /\ ~(i < f)
  <2>1. f < i => f \in 1..(i - 1)
    BY <1>1, <1>2
  <2>2. i < f => i \in 1..(f - 1)
    BY <1>1, <1>2
  <2> QED
    BY <1>2, <2>1, <2>2
<1>4. f = i
  BY <1>1, <1>2, <1>3
<1> QED
  BY <1>1, <1>4 DEF f
(* gdbwrap_calc_checksum leaves a part of the buffer. *)
LEMMA PayloadType ==
  ASSUME NEW S, NEW p \in Seq(S)
  PROVE  Payload(p) \in Seq(S)
<1>0. Len(p) \in Nat /\ \A i \in 1..Len(p) : p[i] \in S
  BY LenProperties, ElementOfSeq
<1> DEFINE f == First(p, "$")
           t == SubSeq(p, f + 1, Len(p))
           g == First(t, "#")
<1>1. CASE Has(p, "$") /\ Has(SubSeq(p, f, Len(p)), "#")
  <2>1. f \in 1..Len(p) /\ p[f].c = "$"
    BY <1>1, FirstAt
  <2> HIDE DEF f
  <2>2. f \in Int /\ f + 1 \in Int /\ \A i \in f..Len(p) : p[i] \in S
    BY <1>0, <2>1
  <2>3. /\ t \in Seq(S)
        /\ Len(t) = IF f + 1 <= Len(p) THEN Len(p) - (f + 1) + 1 ELSE 0
        /\ \A i \in 1..(Len(p) - (f + 1) + 1) : t[i] = p[f + 1 + i - 1]
    <3>1. \A i \in (f + 1)..Len(p) : p[i] \in S
      BY <1>0, <2>1
    <3> QED
      BY <1>0, <2>2, <3>1, SubSeqProperties
  <2>4. /\ Len(SubSeq(p, f, Len(p))) = Len(p) - f + 1
        /\ \A i \in 1..(Len(p) - f + 1) : SubSeq(p, f, Len(p))[i] = p[f + i - 1]
    BY <1>0, <2>1, <2>2, SubSeqProperties
  <2>5. Has(t, "#")
    <3>1. PICK i \in 1..(Len(p) - f + 1) : p[f + i - 1].c = "#"
      BY <1>1, <2>4 DEF Has
    <3>2. i # 1
      <4>1. i = 1 => f + i - 1 = f
        BY <1>0, <2>1
      <4> QED
        BY <2>1, <3>1, <4>1
    <3>3. /\ i - 1 \in 1..(Len(p) - (f + 1) + 1) /\ f + 1 <= Len(p)
          /\ f + 1 + (i - 1) - 1 = f + i - 1
      BY <1>0, <2>1, <3>2
    <3>4. t[i - 1].c = "#" /\ i - 1 \in 1..Len(t)
      BY <2>3, <3>1, <3>3
    <3> QED
      BY <3>4 DEF Has
  <2> HIDE DEF t
  <2>6. g \in 1..Len(t)
    BY <2>3, <2>5, FirstAt
  <2> HIDE DEF g
  <2>7. g - 1 \in Int /\ \A i \in 1..(g - 1) : t[i] \in S
    <3>1. \A i \in 1..(g - 1) : i \in 1..Len(t)
      BY <2>6
    <3> QED
      BY <2>3, <2>6, <3>1, ElementOfSeq
  <2>8. SubSeq(t, 1, g - 1) \in Seq(S)
    BY <2>7, SubSeqProperties
  <2>9. Payload(p) = SubSeq(t, 1, g - 1)
    BY <1>1 DEF Payload, f, t, g
  <2> QED
    BY <2>8, <2>9
<1>2. CASE ~(Has(p, "$") /\ Has(SubSeq(p, f, Len(p)), "#"))
  BY <1>2 DEF Payload
<1> QED
  BY <1>1, <1>2

(* A buffer in which the bytes of a reply begin at the first $ and go to the
   end: its data is the reply's. *)
LEMMA DataOf ==
  ASSUME NEW S, NEW p \in Seq(S), NEW r, r.id \in Ids, r.k \in Kinds,
         Has(p, "$"), SubSeq(p, First(p, "$"), Len(p)) = Bytes(r)
  PROVE  /\ Len(p) >= 4 /\ p[Len(p)] = Byte("x", r)
         /\ IF r.k = "none" THEN Payload(p) = <<>>
            ELSE Len(Payload(p)) = 2 /\ Payload(p)[1] = Byte("d", r) /\ Payload(p) # <<>>
<1> DEFINE f == First(p, "$")
           t == SubSeq(p, f + 1, Len(p))
           L == Length(r)
           b == Bytes(r)
<1>1. Len(p) \in Nat /\ \A i \in 1..Len(p) : p[i] \in S
  BY LenProperties, ElementOfSeq
<1>2. f \in 1..Len(p)
  BY FirstAt
<1>3. SubSeq(p, f, Len(p)) = b
  OBVIOUS
<1> HIDE DEF f
<1>4. /\ Len(b) = Len(p) - f + 1 /\ \A i \in 1..(Len(p) - f + 1) : b[i] = p[f + i - 1]
  <2>1. \A i \in f..Len(p) : p[i] \in S
    BY <1>1, <1>2
  <2>2. f \in Int /\ Len(p) \in Int /\ f <= Len(p)
    BY <1>1, <1>2
  <2> QED
    BY <1>3, <2>1, <2>2, SubSeqProperties
<1>5. /\ Len(b) = L /\ L \in {4, 6}
      /\ r.k # "none" => b[2] = Byte("d", r) /\ b[3] = Byte("d", r)
      /\ b[L - 2] = Byte("#", r) /\ b[L] = Byte("x", r)
      /\ L = (IF r.k = "none" THEN 4 ELSE 6)
  BY BytesShape DEF Length
<1> HIDE DEF b, L
<1>6. L = Len(p) - f + 1 /\ Len(p) >= 4 /\ f + L - 1 = Len(p)
  <2>1. L = Len(p) - f + 1
    BY <1>4, <1>5
  <2>2. f >= 1 /\ f \in Int /\ L \in Int /\ L >= 4
    BY <1>2, <1>5
  <2> QED
    BY <1>1, <2>1, <2>2
<1>7. p[Len(p)] = Byte("x", r)
  <2>1. L \in 1..(Len(p) - f + 1)
    BY <1>5, <1>6
  <2> QED
    BY <1>4, <1>5, <1>6, <2>1
<1>8. /\ t \in Seq(S) /\ Len(t) = L - 1
      /\ \A i \in 1..(L - 1) : t[i] = b[i + 1]
  <2>1. \A i \in (f + 1)..Len(p) : p[i] \in S
    BY <1>1, <1>2
  <2>2. f + 1 \in Int /\ Len(p) \in Int /\ f + 1 <= Len(p) /\ Len(p) - (f + 1) + 1 = L - 1
    BY <1>1, <1>2, <1>5, <1>6
  <2>3. /\ t \in Seq(S) /\ Len(t) = L - 1
        /\ \A i \in 1..(L - 1) : t[i] = p[f + 1 + i - 1]
    BY <2>1, <2>2, SubSeqProperties
  <2>4. \A i \in 1..(L - 1) : f + 1 + i - 1 = f + (i + 1) - 1 /\ i + 1 \in 1..(Len(p) - f + 1)
    BY <1>2, <1>5, <1>6
  <2> QED
    BY <1>4, <2>3, <2>4
<1> HIDE DEF t
<1>9. Byte("#", r).c = "#" /\ Byte("d", r).c = "d"
  BY DEF Byte
<1>10. t[L - 3].c = "#" /\ L - 3 \in 1..Len(t) /\ \A j \in 1..(L - 3 - 1) : t[j].c # "#"
  <2>1. L - 3 \in 1..(L - 1) /\ (L - 3) + 1 = L - 2
    BY <1>5
  <2>2. t[L - 3] = b[L - 2]
    BY <1>8, <2>1
  <2>3. CASE r.k = "none"
    BY <1>5, <1>8, <1>9, <2>1, <2>2, <2>3
  <2>4. CASE r.k # "none"
    <3>1. L = 6 /\ t[1] = b[2] /\ t[2] = b[3]
      BY <1>5, <1>8, <2>4
    <3>2. \A j \in 1..(L - 3 - 1) : j = 1 \/ j = 2
      BY <3>1
    <3> QED
      BY <1>5, <1>8, <1>9, <2>1, <2>2, <2>4, <3>1, <3>2
  <2> QED
    BY <2>3, <2>4
<1>11. Has(t, "#") /\ First(t, "#") = L - 3
  BY <1>8, <1>10, FirstIs
<1>12. Has(b, "#")
  <2>1. L - 2 \in 1..Len(b)
    BY <1>5
  <2> QED
    BY <1>5, <1>9, <2>1 DEF Has
<1>13. Payload(p) = SubSeq(t, 1, L - 3 - 1)
  BY <1>3, <1>11, <1>12 DEF Payload, f, t
<1>14. CASE r.k = "none"
  <2>1. L - 3 - 1 = 0
    BY <1>5, <1>14
  <2>2. SubSeq(t, 1, 0) = <<>>
    BY SubSeqEmpty
  <2> QED
    BY <1>6, <1>7, <1>13, <1>14, <2>1, <2>2
<1>15. CASE r.k # "none"
  <2>1. L - 3 - 1 = 2 /\ L = 6
    BY <1>5, <1>15
  <2>2. \A i \in 1..2 : t[i] \in S
    <3>1. t \in Seq(S) /\ Len(t) = 5
      BY <1>8, <2>1
    <3>2. \A i \in 1..Len(t) : t[i] \in S
      BY <3>1, ElementOfSeq
    <3> QED
      BY <3>1, <3>2
  <2>3. Len(SubSeq(t, 1, 2)) = 2 /\ SubSeq(t, 1, 2)[1] = t[1]
    BY <2>2, SubSeqProperties
  <2>4. t[1] = b[2]
    BY <1>8, <2>1
  <2>5. SubSeq(t, 1, 2) # <<>>
    <3> DEFINE u == SubSeq(t, 1, 2)
    <3>1. Len(u) = 2 /\ Len(<<>>) = 0
      BY <2>3
    <3> HIDE DEF u
    <3>2. u # <<>>
      BY <3>1, SMTT(60)
    <3> QED
      BY <3>2 DEF u
  <2> QED
    BY <1>5, <1>6, <1>7, <1>13, <1>15, <2>1, <2>3, <2>4, <2>5
<1> QED
  BY <1>14, <1>15
(* A packet whose checksum is right belongs to a reply. *)
LEMMA GoodPacket ==
  ASSUME NEW p \in Seq(InByte), Good(p)
  PROVE  /\ Len(p) >= 4 /\ p[Len(p)].id \in Ids /\ p[Len(p)].k \in Kinds
         /\ p[Len(p)].k = "exit" => Exited(Payload(p))
<1> DEFINE f == First(p, "$")
           r == p[f]
<1>1. Has(p, "$") /\ SubSeq(p, f, Len(p)) = Bytes(r)
  BY DEF Good
<1>2. f \in 1..Len(p) /\ r.c = "$"
  BY <1>1, FirstAt
<1>3. r \in InByte
  BY <1>2, ElementOfSeq
<1>4. r \in ReplyByte
  <2>1. r # Sign("+") /\ r # Sign("-")
    BY <1>2 DEF Sign
  <2> QED
    BY <1>3, <2>1 DEF InByte
<1>5. r.id \in Ids /\ r.k \in Kinds
  BY <1>4 DEF ReplyByte, Kinds
<1> HIDE DEF r
<1>6. /\ Len(p) >= 4 /\ p[Len(p)] = Byte("x", r)
      /\ IF r.k = "none" THEN Payload(p) = <<>>
         ELSE Len(Payload(p)) = 2 /\ Payload(p)[1] = Byte("d", r) /\ Payload(p) # <<>>
  BY <1>1, <1>5, DataOf
<1>7. /\ Byte("x", r).id = r.id /\ Byte("x", r).k = r.k
      /\ Byte("d", r).c = "d" /\ Byte("d", r).k = r.k
  BY DEF Byte
<1> QED
  BY <1>5, <1>6, <1>7 DEF Exited

(* What has arrived of a packet, in order and from its beginning *)
LEMMA PartStart ==
  ASSUME NEW S, NEW p \in Seq(S), NEW r, r.id \in Ids, r.k \in Kinds,
         Part(p, r, 0), Len(p) >= 1
  PROVE  /\ p[1] = Byte("$", r) /\ p[1].id = r.id /\ Bytes(p[1]) = Bytes(r)
         /\ Has(p, "$") /\ First(p, "$") = 1 /\ SubSeq(p, 1, Len(p)) = p
<1>1. Len(p) \in Nat
  BY LenProperties
<1>2. p[1] = Byte("$", r)
  <2>1. 1 \in 1..Len(p)
    BY <1>1
  <2>2. p[1] = Bytes(r)[0 + 1] /\ 0 + 1 = 1
    BY <2>1 DEF Part
  <2> QED
    BY <2>2, BytesShape
<1>3. p[1].c = "$" /\ p[1].id = r.id /\ p[1].k = r.k
  BY <1>2 DEF Byte
<1>4. Bytes(p[1]) = Bytes(r)
  BY <1>3, BytesOf
<1>5. Has(p, "$") /\ First(p, "$") = 1
  <2>1. 1 \in 1..Len(p) /\ \A j \in 1..(1 - 1) : p[j].c # "$"
    BY <1>1
  <2> QED
    BY <1>3, <2>1, FirstIs
<1>6. SubSeq(p, 1, Len(p)) = p
  BY SubSeqFull
<1> QED
  BY <1>2, <1>3, <1>4, <1>5, <1>6

(* All of it *)
LEMMA WholePacket ==
  ASSUME NEW S, NEW p \in Seq(S), NEW r, r.id \in Ids, r.k \in Kinds,
         Part(p, r, 0), Len(p) = Length(r)
  PROVE  /\ Good(p) /\ Len(p) >= 3 /\ Len(p) <= 6 /\ p[Len(p) - 2].c = "#"
         /\ p[Len(p)].id = r.id /\ p[Len(p)].k = r.k
         /\ Payload(p) = <<>> <=> r.k = "none"
         /\ Len(Payload(p)) <= 2
         /\ Exited(Payload(p)) => r.k = "exit"
<1> DEFINE b == Bytes(r)
<1>1. b \in Seq(ReplyByte) /\ Len(b) = Length(r) /\ Length(r) \in {4, 6}
      /\ b[Length(r) - 2] = Byte("#", r)
  BY BytesShape
<1>2. Len(p) \in Nat /\ Len(p) >= 4 /\ Len(p) <= 6
  BY <1>1
<1>3. \A i \in 1..Len(p) : p[i] = b[i]
  BY <1>2 DEF Part
<1> HIDE DEF b
<1>4. p = b
  BY <1>1, <1>3, SeqEqual
<1>5. /\ Bytes(p[1]) = Bytes(r)
      /\ Has(p, "$") /\ First(p, "$") = 1 /\ SubSeq(p, 1, Len(p)) = p
  BY <1>2, PartStart
<1>6. Good(p)
  <2>1. \A j \in 1..(1 - 1) : p[j].c # "#"
    OBVIOUS
  <2> QED
    BY <1>4, <1>5, <2>1 DEF Good, b
<1>7. /\ p[Len(p)] = Byte("x", r)
      /\ IF r.k = "none" THEN Payload(p) = <<>>
         ELSE Len(Payload(p)) = 2 /\ Payload(p)[1] = Byte("d", r) /\ Payload(p) # <<>>
  BY <1>4, <1>5, DataOf DEF b
<1>8. p[Len(p) - 2].c = "#"
  BY <1>1, <1>4 DEF Byte
<1>9. p[Len(p)].id = r.id /\ p[Len(p)].k = r.k
  BY <1>7 DEF Byte
<1>10. Exited(Payload(p)) => r.k = "exit"
  <2>1. Byte("d", r).k = r.k
    BY DEF Byte
  <2> QED
    BY <1>7, <2>1 DEF Exited
<1>11. Len(Payload(p)) <= 2
  <2> DEFINE y == Payload(p)
  <2>1. y = <<>> \/ Len(y) = 2
    BY <1>7
  <2> HIDE DEF y
  <2>2. Len(y) <= 2
    <3>1. CASE y = <<>>
      BY <3>1
    <3>2. CASE Len(y) = 2
      BY <3>2
    <3> QED
      BY <2>1, <3>1, <3>2
  <2> QED
    BY <2>2 DEF y
<1> QED
  BY <1>2, <1>6, <1>7, <1>8, <1>9, <1>10, <1>11

(* Not all of it *)
LEMMA PartPacket ==
  ASSUME NEW S, NEW p \in Seq(S), NEW r, r.id \in Ids, r.k \in Kinds,
         Part(p, r, 0), Len(p) >= 1, Len(p) < Length(r)
  PROVE  ~Good(p) /\ (Len(p) >= 3 => p[Len(p) - 2].c # "#")
<1> DEFINE b == Bytes(r)
<1>1. /\ b \in Seq(ReplyByte) /\ Len(b) = Length(r) /\ Length(r) \in {4, 6}
      /\ b[1] = Byte("$", r)
      /\ r.k # "none" => b[2] = Byte("d", r) /\ b[3] = Byte("d", r)
      /\ Length(r) = (IF r.k = "none" THEN 4 ELSE 6)
  BY BytesShape DEF Length
<1>2. Len(p) \in Nat /\ \A i \in 1..Len(p) : p[i] = b[i]
  BY LenProperties DEF Part
<1> DEFINE l == Len(p)
           L == Length(r)
<1>a. l \in Nat /\ l >= 1 /\ L \in {4, 6} /\ l < L /\ Len(b) = L
      /\ (L = IF r.k = "none" THEN 4 ELSE 6)
  BY <1>1, <1>2
<1> HIDE DEF l, L
<1>3. ~Good(p)
  <2> SUFFICES ASSUME Good(p) PROVE FALSE
    OBVIOUS
  <2>1. Bytes(p[1]) = Bytes(r) /\ First(p, "$") = 1 /\ SubSeq(p, 1, Len(p)) = p
    BY PartStart
  <2>2. p = b
    BY <2>1 DEF Good
  <2>3. l = L
    BY <1>a, <2>2 DEF l
  <2> QED
    BY <1>a, <2>3
<1> HIDE DEF b
<1>4. Len(p) >= 3 => p[Len(p) - 2].c # "#"
  <2> SUFFICES ASSUME Len(p) >= 3 PROVE p[Len(p) - 2].c # "#"
    OBVIOUS
  <2> DEFINE n == Len(p) - 2
  <2>0. l >= 3 /\ l = Len(p)
    BY DEF l
  <2>1. n \in 1..Len(p) /\ (n = 1 \/ (r.k # "none" /\ (n = 2 \/ n = 3)))
    <3>1. CASE r.k = "none"
      <4>1. l = 3
        BY <1>a, <2>0, <3>1
      <4> QED
        BY <2>0, <4>1
    <3>2. CASE r.k # "none"
      <4>1. l = 3 \/ l = 4 \/ l = 5
        BY <1>a, <2>0, <3>2
      <4> QED
        BY <2>0, <3>2, <4>1
    <3> QED
      BY <3>1, <3>2
  <2>2. p[n] = b[n]
    BY <1>2, <2>1
  <2> HIDE DEF n
  <2>3. b[n] = Byte("$", r) \/ b[n] = Byte("d", r)
    BY <1>1, <2>1
  <2>4. p[n].c # "#"
    BY <2>2, <2>3 DEF Byte
  <2> QED
    BY <2>4 DEF n
<1> QED
  BY <1>3, <1>4
-----------------------------------------------------------------------------
(* Types, and what holds even after a disturbance *)

(* The bounds are numbers, and no query or reply is NULL. *)
LEMMA Nulls ==
  /\ MaxCalls \in Nat /\ MaxNaks \in Nat /\ MaxStray \in Nat /\ MaxInts \in Nat
  /\ NULL \notin Queries /\ NULL \notin Replies /\ NULL # [id |-> 0, k |-> "raw"]
BY GdbWrapAssumption, NullAssumption

(* gdbwrap_init *)
LEMMA BaseInit ==
  Init => BaseInv
<1> SUFFICES ASSUME Init PROVE BaseInv
  OBVIOUS
<1>1. Shape
  <2>1. exec \in [Ids -> Nat] /\ caps \subseteq {"X", "M"}
    BY DEF Init
  <2>2. /\ calls \in 0..(MaxCalls + 1) /\ stray \in 0..MaxStray /\ naks \in 0..MaxNaks
        /\ ints \in 0..MaxInts
    BY Nulls DEF Init
  <2>3. pc = "idle" /\ choice = 0 /\ ret = NULL /\ link = "up" /\ job = NULL /\ upset = {}
    BY DEF Init
  <2>4. is_active \in BOOLEAN /\ interrupted \in BOOLEAN /\ eintr \in BOOLEAN /\ handler \in BOOLEAN /\ blocked \in BOOLEAN
    BY DEF Init
  <2> QED
    BY <2>1, <2>2, <2>3, <2>4 DEF Shape
<1>2. Wires
  BY DEF Init, Wires
<1>3. Numbers
  BY Nulls DEF Init, Numbers, Busy
<1>4. EndNoticed
  BY DEF Init, EndNoticed
<1> QED
  BY <1>1, <1>2, <1>3, <1>4 DEF BaseInv

(* A call numbers its query. *)
LEMMA BaseCall ==
  ASSUME BaseInv, NEW k \in Calls, Call(k)
  PROVE  BaseInv'
<1> USE DEF Call, Start
<1>1. calls \in Nat /\ calls < MaxCalls /\ calls' = calls + 1 /\ MaxCalls \in Nat /\ choice \in 0..2
  BY Nulls DEF BaseInv, Shape
<1>2. calls' \in 1..MaxCalls /\ calls' \in 0..(MaxCalls + 1) /\ calls' \in Ids /\ calls' > 0
      /\ calls' <= MaxCalls /\ calls' # 0
  BY <1>1 DEF Ids
<1>3. q' \in Queries /\ q'.id = calls' /\ (q'.k = "X" => choice = 0) /\ (q'.k = "M" => choice = 1)
  <2>1. q'.id = calls' /\ q'.k \in {"c", "s", "m", "X", "M"}
    BY DEF Calls, Write
  <2>2. q' \in Queries
    BY <1>2 DEF Queries, Calls, Write
  <2>3. (q'.k = "X" => choice = 0) /\ (q'.k = "M" => choice = 1)
    BY <1>1 DEF Calls, Write
  <2> QED
    BY <2>1, <2>2, <2>3
<1>4. Shape'
  <2>1. pc' \in {"send", "back"} /\ eintr' \in BOOLEAN /\ ret' = NULL
    BY DEF BaseInv, Shape
  <2> QED
    BY <1>2, <2>1 DEF BaseInv, Shape, server, faults
<1>5. Wires'
  BY DEF BaseInv, Wires, server, faults
<1>6. Numbers'
  BY <1>2, <1>3 DEF Numbers, Busy
<1>7. EndNoticed'
  BY DEF EndNoticed
<1> QED
  BY <1>4, <1>5, <1>6, <1>7 DEF BaseInv

(* gdbwrap_make_message and the send that follows *)
LEMMA BaseSend ==
  ASSUME BaseInv, gdbwrap_make_message
  PROVE  BaseInv'
<1> USE DEF gdbwrap_make_message
<1>0. calls > 0 /\ q \in Queries
  BY DEF BaseInv, Shape, Numbers, Busy
<1>1. stray' \in 0..MaxStray
  BY Nulls DEF BaseInv, Shape
<1>2. Shape'
  <2>1. pc' \in {"killed", "ack"} /\ link' \in {"up", "closed", "reset"}
    BY DEF BaseInv, Shape, Poked
  <2> QED
    BY <1>1, <2>1 DEF BaseInv, Shape, server
<1>3. Wires'
  <2>1. packet' \in Seq(AnyByte)
    <3>1. <<Sign("$")>> \in Seq(AnyByte)
      BY DEF AnyByte
    <3> QED
      BY <3>1 DEF BaseInv, Wires
  <2>2. Query \in Message
    BY <1>0 DEF Query, Message
  <2>3. c2s' \in Seq(Message)
    <3>1. c2s \in Seq(Message)
      BY DEF BaseInv, Wires
    <3>2. Append(c2s, Query) \in Seq(Message)
      BY <2>2, <3>1, AppendProperties
    <3> QED
      BY <3>1, <3>2 DEF Sent
  <2>4. link' # "up" => link # "up"
    BY DEF Poked
  <2> QED
    BY <2>1, <2>3, <2>4 DEF BaseInv, Wires, Sent, server
<1>4. Numbers'
  BY <1>0 DEF BaseInv, Numbers, Busy
<1>5. EndNoticed'
  BY DEF EndNoticed
<1> QED
  BY <1>2, <1>3, <1>4, <1>5 DEF BaseInv

(* gdbwrap_check_ack takes one byte. *)
LEMMA BaseCheckAck ==
  ASSUME BaseInv, gdbwrap_check_ack
  PROVE  BaseInv'
<1> USE DEF gdbwrap_check_ack
<1>0. calls > 0 /\ q \in Queries /\ s2c \in Seq(InByte)
  BY DEF BaseInv, Shape, Wires, Numbers, Busy
<1>1. Shape'
  BY DEF BaseInv, Shape, server, faults
<1>2. Wires'
  <2>1. s2c' \in Seq(InByte) /\ packet' \in Seq(AnyByte) /\ (pc' = "get" => packet' \in Seq(InByte))
    <3>1. CASE s2c # <<>> /\ s2c' = Tail(s2c)
      <4>1. Tail(s2c) \in Seq(InByte) /\ Head(s2c) \in InByte
        BY <1>0, <3>1, HeadTailProperties
      <4>2. <<Head(s2c)>> \in Seq(AnyByte) /\ <<>> \in Seq(AnyByte) /\ <<>> \in Seq(InByte)
        BY <4>1 DEF AnyByte
      <4> QED
        BY <3>1, <4>1, <4>2 DEF BaseInv, Wires
    <3>2. CASE s2c = <<>>
      BY <3>2 DEF BaseInv, Wires
    <3> QED
      BY <3>1, <3>2
  <2> QED
    BY <2>1 DEF BaseInv, Wires, server, faults
<1>3. Numbers'
  BY <1>0 DEF BaseInv, Numbers, Busy
<1>4. EndNoticed'
  BY DEF EndNoticed
<1> QED
  BY <1>1, <1>2, <1>3, <1>4 DEF BaseInv
(* What a send leaves on the wire *)
LEMMA SentType ==
  ASSUME BaseInv, NEW m \in Message, Sent(m), Poked
  PROVE  /\ c2s' \in Seq(Message) /\ link' \in {"up", "closed", "reset"}
         /\ link' # "up" => link # "up" /\ c2s' = <<>> /\ job = NULL
<1>1. c2s \in Seq(Message) /\ (link # "up" => c2s = <<>> /\ job = NULL)
      /\ link \in {"up", "closed", "reset"}
  BY DEF BaseInv, Wires, Shape
<1>2. Append(c2s, m) \in Seq(Message)
  BY <1>1, AppendProperties
<1> QED
  BY <1>1, <1>2 DEF Sent, Poked

(* What a piece of the wire adds to the buffer, and what it leaves *)
LEMMA Pieces ==
  ASSUME NEW S, NEW s \in Seq(S), NEW p \in Seq(S), NEW n \in 0..Len(s)
  PROVE  /\ SubSeq(s, 1, n) \in Seq(S) /\ Len(SubSeq(s, 1, n)) = n
         /\ \A i \in 1..n : SubSeq(s, 1, n)[i] = s[i]
         /\ SubSeq(s, n + 1, Len(s)) \in Seq(S) /\ Len(SubSeq(s, n + 1, Len(s))) = Len(s) - n
         /\ \A i \in 1..(Len(s) - n) : SubSeq(s, n + 1, Len(s))[i] = s[n + i]
         /\ p \o SubSeq(s, 1, n) \in Seq(S) /\ Len(p \o SubSeq(s, 1, n)) = Len(p) + n
         /\ \A i \in 1..(Len(p) + n) :
              (p \o SubSeq(s, 1, n))[i] = IF i <= Len(p) THEN p[i] ELSE s[i - Len(p)]
<1> DEFINE l == Len(s)
           a == SubSeq(s, 1, n)
           z == SubSeq(s, n + 1, l)
<1>1. l \in Nat /\ Len(p) \in Nat /\ n \in 0..l /\ \A i \in 1..l : s[i] \in S
  BY LenProperties, ElementOfSeq
<1> HIDE DEF l
<1>2. a \in Seq(S) /\ Len(a) = n /\ \A i \in 1..n : a[i] = s[i]
  <2>1. \A i \in 1..n : s[i] \in S
    BY <1>1
  <2>2. /\ a \in Seq(S) /\ Len(a) = (IF 1 <= n THEN n - 1 + 1 ELSE 0)
        /\ \A i \in 1..(n - 1 + 1) : a[i] = s[1 + i - 1]
    BY <1>1, <2>1, SubSeqProperties
  <2>3. n - 1 + 1 = n /\ (IF 1 <= n THEN n - 1 + 1 ELSE 0) = n
    BY <1>1
  <2>4. \A i \in 1..n : 1 + i - 1 = i
    BY <1>1
  <2> QED
    BY <2>2, <2>3, <2>4
<1>3. z \in Seq(S) /\ Len(z) = l - n /\ \A i \in 1..(l - n) : z[i] = s[n + i]
  <2>1. n + 1 \in Int /\ l \in Int /\ \A i \in (n + 1)..l : s[i] \in S
    BY <1>1
  <2>2. /\ z \in Seq(S) /\ Len(z) = (IF n + 1 <= l THEN l - (n + 1) + 1 ELSE 0)
        /\ \A i \in 1..(l - (n + 1) + 1) : z[i] = s[n + 1 + i - 1]
    BY <2>1, SubSeqProperties
  <2>3. l - (n + 1) + 1 = l - n /\ (IF n + 1 <= l THEN l - (n + 1) + 1 ELSE 0) = l - n
    BY <1>1
  <2>4. \A i \in 1..(l - n) : n + 1 + i - 1 = n + i
    BY <1>1
  <2> QED
    BY <2>2, <2>3, <2>4
<1> HIDE DEF a, z
<1>4. /\ p \o a \in Seq(S) /\ Len(p \o a) = Len(p) + n
      /\ \A i \in 1..(Len(p) + n) : (p \o a)[i] = IF i <= Len(p) THEN p[i] ELSE s[i - Len(p)]
  <2>1. /\ p \o a \in Seq(S) /\ Len(p \o a) = Len(p) + Len(a)
        /\ \A i \in 1..(Len(p) + Len(a)) : (p \o a)[i] = IF i <= Len(p) THEN p[i] ELSE a[i - Len(p)]
    BY <1>2, ConcatProperties
  <2>2. \A i \in 1..(Len(p) + n) : ~(i <= Len(p)) => i - Len(p) \in 1..n
    BY <1>1
  <2> QED
    BY <1>2, <2>1, <2>2
<1> QED
  BY <1>2, <1>3, <1>4 DEF a, z, l

(* gdbwrap_get_packet: what is left in the buffer are bytes, and a good
   packet that announces the end makes the session inactive. *)
LEMMA BaseGetPacket ==
  ASSUME BaseInv, gdbwrap_get_packet
  PROVE  BaseInv'
<1> USE DEF gdbwrap_get_packet
<1>0. /\ pc = "get" /\ calls > 0 /\ q \in Queries /\ s2c \in Seq(InByte) /\ packet \in Seq(InByte)
      /\ packet \in Seq(AnyByte)
  BY DEF BaseInv, Shape, Wires, Numbers, Busy
<1>1. CASE s2c = <<>> /\ link # "up" /\ is_active' = FALSE /\ ret' = NULL /\ pc' = "back"
           /\ UNCHANGED <<packet, interrupted, c2s, s2c, link, upset>>
  <2>1. Shape'
    <3>1. is_active' \in BOOLEAN
      BY <1>1
    <3> QED
      BY <1>1, <3>1 DEF BaseInv, Shape, server
  <2>2. Wires'
    BY <1>1 DEF BaseInv, Wires, server
  <2>3. Numbers'
    BY <1>0, <1>1 DEF BaseInv, Numbers, Busy
  <2>4. EndNoticed'
    BY <1>1 DEF EndNoticed
  <2> QED
    BY <2>1, <2>2, <2>3, <2>4 DEF BaseInv
<1>2. ASSUME NEW n \in 1..Len(s2c), NEW p, p = packet \o SubSeq(s2c, 1, n),
             s2c' = SubSeq(s2c, n + 1, Len(s2c)),
             upset' = IF Cut(p) THEN upset \union {"cut"} ELSE upset,
             \/ /\ Unfinished(p)
                /\ packet' = p
                /\ UNCHANGED <<pc, ret, is_active, interrupted, c2s, link>>
             \/ /\ ~Unfinished(p) /\ Good(p)
                /\ packet' = Payload(p) /\ pc' = "back"
                /\ ret' = [id |-> p[Len(p)].id, k |-> p[Len(p)].k]
                /\ is_active' = StillActive(Payload(p))
                /\ Sent(Ack) /\ Poked
                /\ UNCHANGED interrupted
             \/ /\ ~Unfinished(p) /\ ~Good(p)
                /\ packet' = Payload(p) /\ pc' = "back"
                /\ ret' = IF interrupted THEN [id |-> 0, k |-> "raw"] ELSE NULL
                /\ is_active' = (is_active /\ ~(interrupted /\ Exited(Payload(p))))
                /\ interrupted' = FALSE
                /\ UNCHANGED <<c2s, link>>
      PROVE  BaseInv'
  <2>1. p \in Seq(InByte) /\ s2c' \in Seq(InByte)
    <3>1. n \in 0..Len(s2c)
      OBVIOUS
    <3> QED
      BY <1>0, <1>2, <3>1, Pieces
  <2>2. p \in Seq(AnyByte) /\ Payload(p) \in Seq(AnyByte)
    <3>1. \A x \in Seq(InByte) : x \in Seq(AnyByte)
      BY DEF AnyByte
    <3> QED
      BY <2>1, <3>1, PayloadType
  <2>3. upset' \subseteq {"cut", "signal"}
    BY <1>2 DEF BaseInv, Shape
  <2>4. CASE Unfinished(p) /\ packet' = p
             /\ UNCHANGED <<pc, ret, is_active, interrupted, c2s, link>>
    <3>1. Shape'
      BY <2>3, <2>4 DEF BaseInv, Shape, server
    <3>2. Wires'
      BY <2>1, <2>2, <2>4 DEF BaseInv, Wires, server
    <3>3. Numbers'
      BY <1>0, <2>4 DEF BaseInv, Numbers, Busy
    <3>4. EndNoticed'
      BY <1>0, <2>4 DEF EndNoticed
    <3> QED
      BY <3>1, <3>2, <3>3, <3>4 DEF BaseInv
  <2>5. CASE ~Unfinished(p) /\ Good(p) /\ packet' = Payload(p) /\ pc' = "back"
             /\ ret' = [id |-> p[Len(p)].id, k |-> p[Len(p)].k]
             /\ is_active' = StillActive(Payload(p)) /\ Sent(Ack) /\ Poked /\ UNCHANGED interrupted
    <3>0. p[Len(p)].id \in Ids /\ p[Len(p)].k \in Kinds
          /\ (p[Len(p)].k = "exit" => Exited(Payload(p)))
      BY <2>1, <2>5, GoodPacket
    <3>1. ret' \in Replies /\ ret'.k = p[Len(p)].k
      BY <2>5, <3>0 DEF Replies, Kinds
    <3>2. is_active' \in BOOLEAN
      BY <2>5 DEF StillActive
    <3>3. /\ c2s' \in Seq(Message) /\ link' \in {"up", "closed", "reset"}
          /\ link' # "up" => link # "up" /\ c2s' = <<>> /\ job = NULL
      <4>1. Ack \in Message
        BY DEF Message
      <4> QED
        BY <2>5, <4>1, SentType
    <3>4. Shape'
      BY <2>3, <2>5, <3>1, <3>2, <3>3 DEF BaseInv, Shape, server
    <3>5. Wires'
      BY <2>1, <2>2, <2>5, <3>3 DEF BaseInv, Wires, server
    <3>6. Numbers'
      BY <1>0, <2>5 DEF BaseInv, Numbers, Busy
    <3>7. EndNoticed'
      BY <2>5, <3>0, <3>1 DEF EndNoticed, StillActive
    <3> QED
      BY <3>4, <3>5, <3>6, <3>7 DEF BaseInv
  <2>6. CASE ~Unfinished(p) /\ ~Good(p) /\ packet' = Payload(p) /\ pc' = "back"
             /\ ret' = (IF interrupted THEN [id |-> 0, k |-> "raw"] ELSE NULL)
             /\ is_active' = (is_active /\ ~(interrupted /\ Exited(Payload(p))))
             /\ interrupted' = FALSE /\ UNCHANGED <<c2s, link>>
    <3>1. is_active' \in BOOLEAN /\ interrupted' \in BOOLEAN
      BY <2>6
    <3>2. Shape'
      BY <2>3, <2>6, <3>1 DEF BaseInv, Shape, server
    <3>3. Wires'
      BY <2>1, <2>2, <2>6 DEF BaseInv, Wires, server
    <3>4. Numbers'
      BY <1>0, <2>6 DEF BaseInv, Numbers, Busy
    <3>5. EndNoticed'
      BY <2>6 DEF EndNoticed
    <3> QED
      BY <3>2, <3>3, <3>4, <3>5 DEF BaseInv
  <2> QED
    BY <1>2, <2>4, <2>5, <2>6
<1> QED
  BY <1>1, <1>2

(* The return to the caller, and the second command of gdbwrap_writemem *)
LEMMA BaseReturn ==
  ASSUME BaseInv, Return
  PROVE  BaseInv'
<1> USE DEF Return
<1>0. /\ pc = "back" /\ calls > 0 /\ calls \in Nat /\ q \in Queries /\ q.id = calls /\ MaxCalls \in Nat
      /\ choice \in 0..2 /\ calls \in 0..(MaxCalls + 1)
      /\ choice = 0 => calls <= MaxCalls
      /\ (q.k = "X" => choice = 0) /\ (q.k = "M" => choice = 1)
  BY Nulls DEF BaseInv, Shape, Numbers, Busy
<1>1. CASE pc' \in {"idle", "crashed"} /\ UNCHANGED <<q, calls, packet, choice, ret>>
  <2>1. Shape'
    BY <1>1 DEF BaseInv, Shape, server, faults
  <2>2. Wires'
    BY <1>1 DEF BaseInv, Wires, server, faults
  <2>3. Numbers'
    BY <1>0, <1>1 DEF BaseInv, Numbers, Busy
  <2>4. EndNoticed'
    BY <1>0, <1>1 DEF BaseInv, EndNoticed
  <2> QED
    BY <2>1, <2>2, <2>3, <2>4 DEF BaseInv
<1>2. CASE q.k \in {"X", "M"} /\ choice' = choice + 1 /\ choice # 0 /\ pc' = "idle"
           /\ UNCHANGED <<q, calls, packet, ret>>
  <2>0. choice' \in 0..2 /\ choice' # 0
    BY <1>0, <1>2
  <2>1. Shape'
    BY <1>2, <2>0 DEF BaseInv, Shape, server, faults
  <2>2. Wires'
    BY <1>2 DEF BaseInv, Wires, server, faults
  <2>3. Numbers'
    BY <1>0, <1>2, <2>0 DEF BaseInv, Numbers, Busy
  <2>4. EndNoticed'
    BY <1>0, <1>2 DEF BaseInv, EndNoticed
  <2> QED
    BY <2>1, <2>2, <2>3, <2>4 DEF BaseInv
<1>3. CASE choice' = choice + 1 /\ choice = 0 /\ Start("M", packet)
  <2>0. /\ choice' = 1 /\ choice' \in 0..2 /\ calls' = calls + 1 /\ calls' \in 0..(MaxCalls + 1)
        /\ calls' > 0 /\ calls' \in Ids
    BY <1>0, <1>3 DEF Start, Ids
  <2>1. q' \in Queries /\ q'.id = calls' /\ q'.k = "M"
    BY <1>3, <2>0 DEF Start, Queries
  <2>2. pc' \in {"send", "back"} /\ ret' = NULL /\ packet' = packet
    BY <1>3 DEF Start
  <2>3. Shape'
    BY <2>0, <2>2 DEF BaseInv, Shape, server, faults
  <2>4. Wires'
    BY <2>2 DEF BaseInv, Wires, server, faults
  <2>5. Numbers'
    BY <2>0, <2>1, <2>2 DEF Numbers, Busy
  <2>6. EndNoticed'
    BY <2>2 DEF EndNoticed
  <2> QED
    BY <2>3, <2>4, <2>5, <2>6 DEF BaseInv
<1>4. \/ pc' \in {"idle", "crashed"} /\ UNCHANGED <<q, calls, packet, choice, ret>>
      \/ /\ q.k \in {"X", "M"} /\ choice' = choice + 1
         /\ \/ choice # 0 /\ pc' = "idle" /\ UNCHANGED <<q, calls, packet, ret>>
            \/ choice = 0 /\ Start("M", packet)
  OBVIOUS
<1> QED
  BY <1>1, <1>2, <1>3, <1>4

(* The handler sends its byte. *)
LEMMA BaseSigInt ==
  ASSUME BaseInv, SigInt
  PROVE  BaseInv'
<1> USE DEF SigInt
<1>1. ints' \in 0..MaxInts /\ upset' \subseteq {"cut", "signal"}
  BY Nulls DEF BaseInv, Shape
<1>2. interrupted' \in BOOLEAN /\ blocked' \in BOOLEAN
  BY DEF Waiting
<1>3. CASE link = "reset" /\ pc' = "killed" /\ UNCHANGED <<handler, c2s, link>>
  <2>1. Shape'
    BY <1>1, <1>2, <1>3 DEF BaseInv, Shape, server
  <2>2. Wires'
    BY <1>3 DEF BaseInv, Wires, server
  <2>3. Numbers'
    BY <1>3 DEF BaseInv, Numbers, Busy
  <2>4. EndNoticed'
    BY <1>3 DEF EndNoticed
  <2> QED
    BY <2>1, <2>2, <2>3, <2>4 DEF BaseInv
<1>4. CASE link # "reset" /\ handler' = TRUE /\ Sent(Break) /\ Poked /\ UNCHANGED pc
  <2>0. handler' \in BOOLEAN
    BY <1>4
  <2>1. /\ c2s' \in Seq(Message) /\ link' \in {"up", "closed", "reset"}
        /\ link' # "up" => link # "up" /\ c2s' = <<>> /\ job = NULL
    <3>1. Break \in Message
      BY DEF Message
    <3> QED
      BY <1>4, <3>1, SentType
  <2>2. Shape'
    BY <1>1, <1>2, <1>4, <2>0, <2>1 DEF BaseInv, Shape, server
  <2>3. Wires'
    BY <1>4, <2>1 DEF BaseInv, Wires, server
  <2>4. Numbers'
    BY <1>4 DEF BaseInv, Numbers, Busy
  <2>5. EndNoticed'
    BY <1>4 DEF BaseInv, EndNoticed
  <2> QED
    BY <2>2, <2>3, <2>4, <2>5 DEF BaseInv
<1> QED
  BY <1>3, <1>4

(* What the handler leaves in the buffer *)
LEMMA OverType ==
  ASSUME NEW b \in Seq(InByte), pc = "get" => packet \in Seq(InByte)
  PROVE  Over(b) \in Seq(InByte)
<1>1. CASE pc = "get" /\ ~blocked
  <2>1. /\ Len(packet) \in Nat /\ Len(b) \in Nat
        /\ \A i \in 1..Len(packet) : packet[i] \in InByte
        /\ \A i \in 1..Len(b) : b[i] \in InByte
    BY <1>1, LenProperties, ElementOfSeq
  <2>2. \A i \in 1..Len(packet) : (IF i <= Len(b) THEN b[i] ELSE packet[i]) \in InByte
    BY <2>1
  <2> DEFINE o == [i \in 1..Len(packet) |-> IF i <= Len(b) THEN b[i] ELSE packet[i]]
  <2>3. o \in [1..Len(packet) -> InByte]
    BY <2>2
  <2>4. Over(b) = o
    BY <1>1 DEF Over
  <2> HIDE DEF o
  <2>5. o \in Seq(InByte)
    BY <2>1, <2>3, IsASeq
  <2> QED
    BY <2>4, <2>5
<1>2. CASE ~(pc = "get" /\ ~blocked)
  BY <1>2 DEF Over
<1> QED
  BY <1>1, <1>2

(* The handler reads into the buffer, and the interrupted recv fails. *)
LEMMA BaseCtrlC ==
  ASSUME BaseInv, gdbwrap_ctrl_c
  PROVE  BaseInv'
<1> USE DEF gdbwrap_ctrl_c
<1>0. s2c \in Seq(InByte) /\ packet \in Seq(AnyByte) /\ (pc = "get" => packet \in Seq(InByte))
  BY DEF BaseInv, Wires
<1>1. /\ s2c' \in Seq(InByte) /\ packet' \in Seq(AnyByte) /\ (pc = "get" => packet' \in Seq(InByte))
      /\ upset' \subseteq {"cut", "signal"}
  <2>1. PICK n \in 0..Len(s2c) :
          /\ s2c' = SubSeq(s2c, n + 1, Len(s2c))
          /\ packet' = IF n = 0 THEN packet ELSE Over(SubSeq(s2c, 1, n))
          /\ upset' = IF n < Len(s2c) THEN upset \union {"cut"} ELSE upset
    OBVIOUS
  <2>2. SubSeq(s2c, n + 1, Len(s2c)) \in Seq(InByte) /\ SubSeq(s2c, 1, n) \in Seq(InByte)
    BY <1>0, Pieces
  <2>3. \A x \in Seq(InByte) : x \in Seq(AnyByte)
    BY DEF AnyByte
  <2>4. upset' \subseteq {"cut", "signal"}
    BY <2>1 DEF BaseInv, Shape
  <2>5. Over(SubSeq(s2c, 1, n)) \in Seq(InByte)
    BY <1>0, <2>2, OverType
  <2> QED
    BY <1>0, <2>1, <2>2, <2>3, <2>4, <2>5
<1>2. handler' \in BOOLEAN
  OBVIOUS
<1>3. CASE link = "reset" /\ pc' = "killed" /\ UNCHANGED <<c2s, link, eintr, ret, interrupted>>
  <2>1. Shape'
    BY <1>1, <1>2, <1>3 DEF BaseInv, Shape, server
  <2>2. Wires'
    BY <1>1, <1>3 DEF BaseInv, Wires, server
  <2>3. Numbers'
    BY <1>3 DEF BaseInv, Numbers, Busy
  <2>4. EndNoticed'
    BY <1>3 DEF EndNoticed
  <2> QED
    BY <2>1, <2>2, <2>3, <2>4 DEF BaseInv
<1>4. CASE link # "reset" /\ Sent(Ack) /\ Poked /\ Resume
  <2>1. /\ c2s' \in Seq(Message) /\ link' \in {"up", "closed", "reset"}
        /\ link' # "up" => link # "up" /\ c2s' = <<>> /\ job = NULL
    <3>1. Ack \in Message
      BY DEF Message
    <3> QED
      BY <1>4, <3>1, SentType
  <2>2. /\ eintr' \in BOOLEAN /\ interrupted' \in BOOLEAN
        /\ (pc' = pc /\ ret' = ret)
             \/ (pc = "ack" /\ pc' = "send" /\ ret' = ret)
             \/ (pc = "get" /\ pc' = "back" /\ ret' = [id |-> 0, k |-> "raw"])
    BY <1>4 DEF BaseInv, Shape, Resume
  <2>3. Shape'
    BY <1>1, <1>2, <2>1, <2>2 DEF BaseInv, Shape, server
  <2>4. Wires'
    BY <1>1, <2>1, <2>2 DEF BaseInv, Wires, server
  <2>5. Numbers'
    BY <2>2 DEF BaseInv, Shape, Numbers, Busy
  <2>6. EndNoticed'
    BY <2>2 DEF BaseInv, EndNoticed
  <2> QED
    BY <2>3, <2>4, <2>5, <2>6 DEF BaseInv
<1> QED
  BY <1>3, <1>4
(* The bytes of a reply are bytes that a server sends. *)
LEMMA ReplyBytes ==
  ASSUME NEW r \in Replies, NEW s \in Seq(InByte)
  PROVE  /\ s \o Bytes(r) \in Seq(InByte) /\ Len(s \o Bytes(r)) = Len(s) + Length(r)
         /\ \A i \in 1..(Len(s) + Length(r)) :
              (s \o Bytes(r))[i] = IF i <= Len(s) THEN s[i] ELSE Bytes(r)[i - Len(s)]
<1>1. r.id \in Ids /\ r.k \in Kinds
  BY DEF Replies, Kinds
<1>2. Bytes(r) \in Seq(ReplyByte) /\ Len(Bytes(r)) = Length(r)
  BY <1>1, BytesShape
<1>3. Bytes(r) \in Seq(InByte)
  <2>1. \A x \in Seq(ReplyByte) : x \in Seq(InByte)
    BY DEF InByte
  <2> QED
    BY <1>2, <2>1
<1> QED
  BY <1>2, <1>3, ConcatProperties

(* The server reads. *)
LEMMA BaseReceive ==
  ASSUME BaseInv, Receive
  PROVE  BaseInv'
<1> USE DEF Receive
<1>0. /\ c2s \in Seq(Message) /\ c2s # <<>> /\ s2c \in Seq(InByte) /\ link = "up"
      /\ job \in Queries \union {NULL} /\ exec \in [Ids -> Nat] /\ naks \in 0..MaxNaks
  BY DEF BaseInv, Wires, Shape
<1>1. Tail(c2s) \in Seq(Message) /\ Head(c2s) \in Message
  BY <1>0, HeadTailProperties
<1>2. Sign("+") \in InByte /\ Sign("-") \in InByte
  BY DEF InByte
<1>3. /\ s2c' \in Seq(InByte) /\ job' \in Queries \union {NULL} /\ exec' \in [Ids -> Nat]
      /\ naks' \in 0..MaxNaks
  <2>1. CASE UNCHANGED <<s2c, job, exec, naks>>
    BY <1>0, <2>1
  <2>2. CASE job # NULL /\ s2c' = s2c \o Bytes([id |-> job.id, k |-> "stop"])
             /\ job' = NULL /\ UNCHANGED <<exec, naks>>
    <3>1. [id |-> job.id, k |-> "stop"] \in Replies
      BY <1>0, <2>2 DEF Queries, Replies
    <3>2. s2c' \in Seq(InByte)
      BY <1>0, <2>2, <3>1, ReplyBytes
    <3> QED
      BY <1>0, <2>2, <3>2
  <2>3. CASE naks < MaxNaks /\ s2c' = Append(s2c, Sign("-")) /\ naks' = naks + 1
             /\ UNCHANGED <<job, exec>>
    <3>1. s2c' \in Seq(InByte)
      BY <1>0, <1>2, <2>3, AppendProperties
    <3>2. naks' \in 0..MaxNaks
      BY <1>0, <2>3, Nulls
    <3> QED
      BY <1>0, <2>3, <3>1, <3>2
  <2>4. CASE /\ Head(c2s).t = "query" /\ s2c' = Append(s2c, Sign("+")) /\ job' = Head(c2s).q
             /\ exec' = [exec EXCEPT ![job'.id] = @ + 1] /\ UNCHANGED naks
    <3>1. s2c' \in Seq(InByte)
      BY <1>0, <1>2, <2>4, AppendProperties
    <3>2. job' \in Queries
      BY <1>1, <2>4 DEF Message, Ack, Break
    <3>3. job'.id \in Ids
      BY <3>2 DEF Queries
    <3>4. exec' \in [Ids -> Nat]
      BY <1>0, <2>4, <3>3
    <3> QED
      BY <1>0, <2>4, <3>1, <3>2, <3>4
  <2> QED
    BY <2>1, <2>2, <2>3, <2>4
<1>4. Shape'
  BY <1>3 DEF BaseInv, Shape, client
<1>5. Wires'
  BY <1>0, <1>1, <1>3 DEF BaseInv, Wires, client
<1>6. Numbers'
  BY DEF BaseInv, Numbers, Busy, client
<1>7. EndNoticed'
  BY DEF BaseInv, EndNoticed, client
<1> QED
  BY <1>4, <1>5, <1>6, <1>7 DEF BaseInv

(* The server replies with the bytes of a reply. *)
LEMMA BaseReply ==
  ASSUME BaseInv, Reply
  PROVE  BaseInv' /\ \E a \in Answers(job.k) :
           [id |-> job.id, k |-> a] \in Replies /\ s2c' = s2c \o Bytes([id |-> job.id, k |-> a])
<1> USE DEF Reply
<1>0. job \in Queries /\ s2c \in Seq(InByte) /\ link = "up"
  BY DEF BaseInv, Wires, Shape
<1>1. PICK a \in Answers(job.k) : s2c' = s2c \o Bytes([id |-> job.id, k |-> a])
  OBVIOUS
<1>2. [id |-> job.id, k |-> a] \in Replies
  <2>1. job.id \in Ids
    BY <1>0 DEF Queries
  <2>2. a \in {"stop", "exit", "data", "err", "OK", "none"}
    BY <1>1 DEF Answers
  <2> QED
    BY <2>1, <2>2 DEF Replies
<1>3. s2c' \in Seq(InByte)
  BY <1>0, <1>1, <1>2, ReplyBytes
<1>4. Shape'
  BY DEF BaseInv, Shape, client, faults
<1>5. Wires'
  BY <1>0, <1>3 DEF BaseInv, Wires, client
<1>6. Numbers'
  BY DEF BaseInv, Numbers, Busy, client
<1>7. EndNoticed'
  BY DEF BaseInv, EndNoticed, client
<1> QED
  BY <1>1, <1>2, <1>4, <1>5, <1>6, <1>7 DEF BaseInv

(* What was on its way to the server is lost. *)
LEMMA BaseDie ==
  ASSUME BaseInv, Die
  PROVE  BaseInv'
<1> USE DEF Die
<1>1. Shape'
  BY DEF BaseInv, Shape, client, faults
<1>2. Wires'
  BY DEF BaseInv, Wires, client
<1>3. Numbers'
  BY DEF BaseInv, Numbers, Busy, client
<1>4. EndNoticed'
  BY DEF BaseInv, EndNoticed, client
<1> QED
  BY <1>1, <1>2, <1>3, <1>4 DEF BaseInv

(* A step of nobody *)
LEMMA BaseStutter ==
  ASSUME BaseInv, UNCHANGED vars
  PROVE  BaseInv'
<1>1. Shape'
  BY DEF BaseInv, Shape, vars, client, server, faults
<1>2. Wires'
  BY DEF BaseInv, Wires, vars, client, server, faults
<1>3. Numbers'
  BY DEF BaseInv, Numbers, Busy, vars, client, server, faults
<1>4. EndNoticed'
  BY DEF BaseInv, EndNoticed, vars, client, server, faults
<1> QED
  BY <1>1, <1>2, <1>3, <1>4 DEF BaseInv

(* BaseInv is inductive. *)
LEMMA BaseStep ==
  BaseInv /\ [Next]_vars => BaseInv'
<1> SUFFICES ASSUME BaseInv, [Next]_vars
             PROVE  BaseInv'
  OBVIOUS
<1>1. CASE \E k \in Calls : Call(k)
  BY <1>1, BaseCall
<1>2. CASE gdbwrap_make_message
  BY <1>2, BaseSend
<1>3. CASE gdbwrap_check_ack
  BY <1>3, BaseCheckAck
<1>4. CASE gdbwrap_get_packet
  BY <1>4, BaseGetPacket
<1>5. CASE Return
  BY <1>5, BaseReturn
<1>6. CASE SigInt
  BY <1>6, BaseSigInt
<1>7. CASE gdbwrap_ctrl_c
  BY <1>7, BaseCtrlC
<1>8. CASE Receive
  BY <1>8, BaseReceive
<1>9. CASE Reply
  BY <1>9, BaseReply
<1>10. CASE Die
  BY <1>10, BaseDie
<1>11. CASE UNCHANGED vars
  BY <1>11, BaseStutter
<1> QED
  BY <1>1, <1>2, <1>3, <1>4, <1>5, <1>6, <1>7, <1>8, <1>9, <1>10, <1>11 DEF Next, Client, User

(* The bytes on the wires and in the buffer are bytes of replies and signs,
   the numbers of the queries count up, and a session whose end the server
   announced is over for the client, disturbed or not. *)
THEOREM Base == Spec => []BaseInv
<1>1. Init => BaseInv
  BY BaseInit
<1>2. BaseInv /\ [Next]_vars => BaseInv'
  BY BaseStep
<1> QED
  BY <1>1, <1>2, PTL DEF Spec

(* EndNoticed holds of every behaviour: whatever pieces the reply came in and
   whatever the interrupt handler took before it, a W or X reply that a call
   returns has ended the session. *)
THEOREM EndSeen == Spec => []EndNoticed
<1>1. BaseInv => EndNoticed
  BY DEF BaseInv
<1> QED
  BY <1>1, Base, PTL
-----------------------------------------------------------------------------
(* The phases of an exchange *)

(* Reading adds no query. *)
LEMMA NoQueryTail ==
  ASSUME BaseInv, NoQuery, c2s # <<>>, c2s' = Tail(c2s)
  PROVE  NoQuery'
<1>1. c2s \in Seq(Message)
  BY DEF BaseInv, Wires
<1>2. Len(c2s) \in Nat /\ Len(Tail(c2s)) = Len(c2s) - 1 /\ \A i \in 1..Len(Tail(c2s)) : Tail(c2s)[i] = c2s[i + 1]
  BY <1>1, HeadTailProperties, LenProperties
<1>3. \A i \in 1..Len(Tail(c2s)) : i + 1 \in 1..Len(c2s)
  BY <1>2
<1> QED
  BY <1>2, <1>3 DEF NoQuery

(* Neither does sending an acknowledgement or an interrupt. *)
LEMMA NoQuerySent ==
  ASSUME BaseInv, NoQuery, NEW m, m.t # "query", Sent(m), m \in Message
  PROVE  NoQuery'
<1>1. c2s \in Seq(Message)
  BY DEF BaseInv, Wires
<1>2. /\ Len(c2s) \in Nat /\ Len(Append(c2s, m)) = Len(c2s) + 1
      /\ \A i \in 1..Len(c2s) : Append(c2s, m)[i] = c2s[i]
      /\ Append(c2s, m)[Len(c2s) + 1] = m
  BY <1>1, AppendProperties, LenProperties
<1>3. \A i \in 1..(Len(c2s) + 1) : i \in 1..Len(c2s) \/ i = Len(c2s) + 1
  BY <1>2
<1>4. CASE c2s' = c2s
  BY <1>4 DEF NoQuery
<1>5. CASE c2s' = Append(c2s, m)
  BY <1>2, <1>3, <1>5 DEF NoQuery
<1> QED
  BY <1>4, <1>5 DEF Sent

(* Facts about an undisturbed exchange *)
LEMMA Calm ==
  ASSUME BaseInv, PhaseInv, upset = {}
  PROVE  /\ Phases /\ (ints = 0 => Writes)
         /\ calls \in Nat
         /\ \A i \in Ids : exec[i] \in Nat
         /\ calls > 0 => q.id \in Ids
BY DEF BaseInv, Shape, Numbers, PhaseInv, Queries

(* A call begins between two exchanges, with a query nobody has executed. *)
LEMMA PhaseCall ==
  ASSUME BaseInv, BaseInv', PhaseInv, NEW k \in Calls, Call(k), upset' = {}
  PROVE  Phases' /\ (ints' = 0 => Writes')
<1> USE DEF Call, Start
<1>0. /\ upset = {} /\ ints' = ints /\ exec' = exec /\ link' = link /\ job' = job /\ caps' = caps
      /\ s2c' = s2c /\ c2s' = c2s /\ packet' = packet /\ is_active' = is_active /\ handler' = handler /\ blocked' = blocked
      /\ choice' = choice /\ pc = "idle" /\ ~handler
  BY DEF faults, server
<1>1. Phases /\ (ints = 0 => Writes) /\ calls \in Nat
  BY <1>0, Calm
<1>2. calls' = calls + 1 /\ q'.id = calls' /\ ret' = NULL /\ q'.id \in Ids /\ exec[q'.id] = 0
  <2>1. calls' = calls + 1 /\ calls' > 0 /\ q'.id = calls' /\ ret' = NULL
    BY <1>1
  <2>2. q'.id \in Ids
    BY <2>1 DEF BaseInv, Numbers, Queries
  <2>3. calls' > calls
    BY <1>1, <2>1
  <2> QED
    BY <1>1, <2>1, <2>2, <2>3 DEF Phases
<1>3. Idle'
  BY <1>0, <1>1 DEF Phases, Returned, Idle, NoQuery
<1>4. \A i \in Ids : i > calls' => i > calls
  BY <1>1, <1>2, Nulls DEF Ids
<1>5. pc' \in {"send", "back"} /\ (pc' = "back" => ~is_active) /\ (~is_active => pc' = "back")
  OBVIOUS
<1>6. Phases'
  <2>1. (\A i \in Ids : exec[i] <= 1 /\ (i > calls => exec[i] = 0))'
    BY <1>0, <1>1, <1>4 DEF Phases
  <2>2. pc' = "back" => Returned'
    BY <1>2, <1>3 DEF Returned
  <2>3. ~is_active /\ link = "up" => packet # <<>>
    BY <1>1 DEF Phases
  <2>4. Len(packet) <= 6
    BY <1>1 DEF Phases
  <2> QED
    BY <1>0, <1>2, <1>3, <1>5, <2>1, <2>2, <2>3, <2>4 DEF Phases
<1>7. ints' = 0 => Writes'
  BY <1>0, <1>1, <1>5 DEF Writes
<1> QED
  BY <1>6, <1>7

(* The query is on its way, and it is the only one. *)
LEMMA PhaseSend ==
  ASSUME BaseInv, BaseInv', PhaseInv, gdbwrap_make_message, upset' = {}
  PROVE  Phases' /\ (ints' = 0 => Writes')
<1> USE DEF gdbwrap_make_message
<1>0. /\ upset = {} /\ ints' = ints /\ exec' = exec /\ job' = job /\ caps' = caps /\ calls' = calls
      /\ s2c' = s2c /\ is_active' = is_active /\ handler' = handler /\ blocked' = blocked /\ q' = q
      /\ choice' = choice /\ pc = "send"
  BY DEF server
<1>1. Phases /\ (ints = 0 => Writes)
  BY <1>0, Calm
<1>2. Idle /\ exec[q.id] = 0 /\ ~handler
  BY <1>0, <1>1 DEF Phases
<1>3. ~is_active => link # "up"
  BY <1>0, <1>1 DEF Phases
<1>4. \A i \in Ids : exec[i] <= 1 /\ (i > calls => exec[i] = 0)
  BY <1>1 DEF Phases
<1>5. CASE link = "reset" /\ pc' = "killed" /\ UNCHANGED <<packet, c2s, link>>
  <2>1. Idle'
    BY <1>0, <1>2, <1>5 DEF Idle, NoQuery
  <2>2. Len(packet) <= 6
    BY <1>1 DEF Phases
  <2>3. Phases'
    BY <1>0, <1>2, <1>3, <1>4, <1>5, <2>1, <2>2 DEF Phases
  <2>4. ints' = 0 => Writes'
    BY <1>0, <1>1, <1>5 DEF Writes
  <2> QED
    BY <2>3, <2>4
<1>6. CASE link # "reset" /\ pc' = "ack" /\ packet' = <<Sign("$")>> /\ Sent(Query) /\ Poked
  <2>1. Len(packet') <= 6
    BY <1>6
  <2>2. Asked'
    <3>1. (\A i \in 1..Len(c2s) : c2s[i].t = "query" => i = Len(c2s) /\ c2s[i].q = q)'
      <4>1. CASE link = "up"
        <5>1. c2s \in Seq(Message) /\ Query \in Message /\ c2s' = Append(c2s, Query)
          <6>1. q \in Queries
            BY <1>0 DEF BaseInv, Shape, Numbers, Busy
          <6> QED
            BY <1>6, <4>1, <6>1 DEF BaseInv, Wires, Sent, Query, Message
        <5>2. /\ Len(c2s) \in Nat /\ Len(c2s') = Len(c2s) + 1
              /\ \A i \in 1..Len(c2s) : c2s'[i] = c2s[i]
              /\ c2s'[Len(c2s) + 1] = Query
          BY <5>1, AppendProperties, LenProperties
        <5>3. \A i \in 1..(Len(c2s) + 1) : i \in 1..Len(c2s) \/ i = Len(c2s) + 1
          BY <5>2
        <5>4. Query.q = q
          BY DEF Query
        <5> QED
          BY <1>0, <1>2, <5>2, <5>3, <5>4 DEF Idle, NoQuery
      <4>2. CASE link # "up"
        <5>1. c2s' = <<>>
          BY <1>6, <4>2 DEF BaseInv, Wires, Sent
        <5> QED
          BY <5>1
      <4> QED
        BY <4>1, <4>2
    <3> QED
      BY <1>0, <1>2, <3>1 DEF Idle, Asked
  <2>3. link' = "up" => link = "up"
    BY <1>6 DEF Poked
  <2>4. Phases'
    BY <1>0, <1>2, <1>3, <1>4, <1>6, <2>1, <2>2, <2>3 DEF Phases
  <2>5. ints' = 0 => Writes'
    BY <1>0, <1>1, <1>6, <2>3 DEF Writes
  <2> QED
    BY <2>4, <2>5
<1> QED
  BY <1>5, <1>6

(* A refusal leads back to sending with nothing on its way, an
   acknowledgement to waiting for the reply, which may already be there. *)
LEMMA PhaseCheckAck ==
  ASSUME BaseInv, BaseInv', PhaseInv, gdbwrap_check_ack, upset' = {}
  PROVE  Phases' /\ (ints' = 0 => Writes')
<1> USE DEF gdbwrap_check_ack
<1>0. /\ upset = {} /\ ints' = ints /\ exec' = exec /\ job' = job /\ caps' = caps /\ calls' = calls
      /\ c2s' = c2s /\ handler' = handler /\ blocked' = blocked /\ q' = q /\ link' = link
      /\ choice' = choice /\ pc = "ack" /\ ~handler /\ pc' \in {"get", "send"}
  BY DEF server, faults
<1>1. Phases /\ (ints = 0 => Writes)
  BY <1>0, Calm
<1>2. Asked /\ (~is_active => link # "up")
  BY <1>0, <1>1 DEF Phases
<1>3. \A i \in Ids : exec[i] <= 1 /\ (i > calls => exec[i] = 0)
  BY <1>1 DEF Phases
<1>4. ints' = 0 => Writes'
  BY <1>0, <1>1 DEF Writes
<1>5. /\ Sign("+").c = "+" /\ Sign("-").c = "-"
  BY DEF Sign
<1>6. CASE s2c = <<>> /\ link # "up" /\ pc' = "send" /\ UNCHANGED <<s2c, packet>>
  <2>1. exec[q.id] = 0 /\ job = NULL
    <3>1. Len(s2c) = 0 /\ Len(<<Sign("-")>>) = 1 /\ Len(<<Sign("+")>>) = 1
      BY <1>6
    <3>2. \A r \in Replies : 1 + Length(r) # 0
      BY DEF Length
    <3> QED
      BY <1>2, <3>1, <3>2 DEF Asked
  <2>2. c2s = <<>>
    BY <1>6 DEF BaseInv, Wires
  <2>3. Idle'
    BY <1>0, <1>6, <2>1, <2>2 DEF Idle, NoQuery
  <2>4. Len(packet) <= 6
    BY <1>1 DEF Phases
  <2>5. Phases'
    BY <1>0, <1>3, <1>6, <2>1, <2>3, <2>4 DEF Phases
  <2> QED
    BY <1>4, <2>5
<1>7. CASE /\ s2c # <<>> /\ s2c' = Tail(s2c) /\ UNCHANGED is_active
           /\ IF IsAck(Head(s2c)) THEN pc' = "get" /\ packet' = <<>>
              ELSE pc' = "send" /\ packet' = <<Head(s2c)>>
  <2>0. Len(packet') <= 6
    <3>1. CASE packet' = <<>>
      BY <3>1
    <3>2. CASE packet' = <<Head(s2c)>>
      BY <3>2
    <3> QED
      BY <1>7, <3>1, <3>2
  <2>1. CASE s2c = <<Sign("-")>> /\ job = NULL /\ exec[q.id] = 0 /\ NoQuery
    <3>1. Head(s2c) = Sign("-") /\ Tail(s2c) = <<>>
      BY <2>1
    <3>2. pc' = "send" /\ s2c' = <<>>
      BY <1>5, <1>7, <3>1 DEF IsAck
    <3>3. Idle'
      BY <1>0, <2>1, <3>2 DEF Idle, NoQuery
    <3>4. Phases'
      BY <1>0, <1>2, <1>3, <1>7, <2>0, <2>1, <3>2, <3>3 DEF Phases
    <3> QED
      BY <1>4, <3>4
  <2>2. CASE s2c = <<Sign("+")>> /\ Running /\ exec[q.id] = 1 /\ NoQuery
    <3>1. Head(s2c) = Sign("+") /\ Tail(s2c) = <<>>
      BY <2>2
    <3>2. pc' = "get" /\ s2c' = <<>> /\ packet' = <<>>
      BY <1>5, <1>7, <3>1 DEF IsAck
    <3>3. Getting'
      BY <1>0, <2>2, <3>2 DEF Getting, NoQuery, Running
    <3>4. Phases'
      BY <1>0, <1>2, <1>3, <1>7, <2>0, <3>2, <3>3 DEF Phases
    <3> QED
      BY <1>4, <3>4
  <2>3. ASSUME job = NULL, exec[q.id] = 1, NoQuery, NEW r \in Replies, Answering(r),
               Len(s2c) = 1 + Length(r), s2c[1] = Sign("+"), Part(Tail(s2c), r, 0)
        PROVE  Phases'
    <3>0. s2c \in Seq(InByte) /\ Length(r) \in {4, 6}
      BY DEF BaseInv, Wires, Length
    <3>1. Head(s2c) = Sign("+") /\ Len(Tail(s2c)) = Length(r)
      BY <1>7, <2>3, <3>0, HeadTailProperties
    <3>2. pc' = "get" /\ packet' = <<>> /\ s2c' = Tail(s2c)
      BY <1>5, <1>7, <3>1 DEF IsAck
    <3>3. Getting'
      <4>1. s2c' # <<>>
        <5>1. Len(s2c') # 0
          BY <3>0, <3>1, <3>2
        <5> QED
          BY <5>1
      <4>2. Len(packet') = 0 /\ Len(packet') + Len(s2c') = Length(r)
        BY <3>0, <3>1, <3>2
      <4>3. Part(packet', r, 0) /\ Part(s2c', r, Len(packet'))
        BY <2>3, <3>2, <4>2 DEF Part
      <4>4. Answering(r)'
        BY <1>0, <2>3 DEF Answering, Answers
      <4>5. NoQuery' /\ exec'[q'.id] = 1 /\ job' = NULL
        BY <1>0, <2>3 DEF NoQuery
      <4> QED
        BY <3>2, <4>1, <4>2, <4>3, <4>4, <4>5 DEF Getting
    <3> QED
      BY <1>0, <1>2, <1>3, <1>7, <2>0, <3>2, <3>3 DEF Phases
  <2> QED
    BY <1>2, <1>4, <1>7, <2>1, <2>2, <2>3 DEF Asked
<1> QED
  BY <1>6, <1>7

(* What a piece makes of a reply that has begun to arrive *)
LEMMA PartPieces ==
  ASSUME packet \in Seq(InByte), s2c \in Seq(InByte), NEW n \in 0..Len(s2c), NEW r,
         NEW p, p = packet \o SubSeq(s2c, 1, n), s2c' = SubSeq(s2c, n + 1, Len(s2c)),
         Part(packet, r, 0), Part(s2c, r, Len(packet)), Length(r) \in Nat, Len(packet) + Len(s2c) = Length(r)
  PROVE  /\ p \in Seq(InByte) /\ Len(p) = Len(packet) + n /\ Len(p) + Len(s2c') = Length(r)
         /\ Part(p, r, 0) /\ Part(s2c', r, Len(p))
         /\ Len(p) <= Length(r) /\ (Len(p) = Length(r) <=> s2c' = <<>>)
<1>1. Len(packet) \in Nat /\ Len(s2c) \in Nat /\ n \in 0..Len(s2c)
  BY LenProperties
<1>2. /\ s2c' \in Seq(InByte) /\ Len(s2c') = Len(s2c) - n
      /\ \A i \in 1..(Len(s2c) - n) : s2c'[i] = s2c[n + i]
      /\ p \in Seq(InByte) /\ Len(p) = Len(packet) + n
      /\ \A i \in 1..(Len(packet) + n) : p[i] = IF i <= Len(packet) THEN packet[i] ELSE s2c[i - Len(packet)]
  BY Pieces
<1> DEFINE f == Bytes(r)
           lb == Len(packet)
           ls == Len(s2c)
<1>3. /\ \A i \in 1..lb : packet[i] = f[0 + i]
      /\ \A i \in 1..ls : s2c[i] = f[lb + i]
  BY DEF Part
<1>4. lb \in Nat /\ ls \in Nat /\ n \in 0..ls
  BY <1>1
<1> HIDE DEF f, lb, ls
<1>5. \A i \in 1..(lb + n) : p[i] = f[0 + i]
  <2> SUFFICES ASSUME NEW i \in 1..(lb + n) PROVE p[i] = f[0 + i]
    OBVIOUS
  <2>1. CASE i <= lb
    <3>1. i \in 1..lb
      BY <1>4, <2>1
    <3> QED
      BY <1>2, <1>3, <2>1, <3>1 DEF lb
  <2>2. CASE ~(i <= lb)
    <3>1. i - lb \in 1..ls /\ lb + (i - lb) = 0 + i
      BY <1>4, <2>2
    <3>2. p[i] = s2c[i - lb]
      BY <1>2, <2>2 DEF lb
    <3>3. s2c[i - lb] = f[lb + (i - lb)]
      BY <1>3, <3>1
    <3> QED
      BY <3>1, <3>2, <3>3
  <2> QED
    BY <2>1, <2>2
<1>6. \A i \in 1..(ls - n) : s2c'[i] = f[(lb + n) + i]
  <2> SUFFICES ASSUME NEW i \in 1..(ls - n) PROVE s2c'[i] = f[(lb + n) + i]
    OBVIOUS
  <2>1. n + i \in 1..ls /\ lb + (n + i) = (lb + n) + i
    BY <1>4
  <2>2. s2c'[i] = s2c[n + i]
    BY <1>2 DEF ls
  <2>3. s2c[n + i] = f[lb + (n + i)]
    BY <1>3, <2>1
  <2> QED
    BY <2>1, <2>2, <2>3
<1>7. Part(p, r, 0) /\ Part(s2c', r, Len(p))
  BY <1>2, <1>5, <1>6 DEF Part, f, lb, ls
<1>8. Len(p) + Len(s2c') = Length(r) /\ Len(p) <= Length(r) /\ (Len(p) = Length(r) <=> Len(s2c') = 0)
  <2> DEFINE lr == Length(r)
             lp == Len(p)
             lz == Len(s2c')
  <2>1. lr \in Nat /\ lb + ls = lr /\ lp = lb + n /\ lz = ls - n
    BY <1>2 DEF lb, ls
  <2> HIDE DEF lr, lp, lz
  <2>2. lp + lz = lr /\ lp <= lr /\ (lp = lr <=> lz = 0)
    BY <1>4, <2>1
  <2> QED
    BY <2>2 DEF lr, lp, lz
<1>9. Len(s2c') = 0 <=> s2c' = <<>>
  BY <1>2, EmptySeq
<1> QED
  BY <1>2, <1>7, <1>8, <1>9
(* The reply that a phase speaks of *)
LEMMA AnsweringFacts ==
  ASSUME NEW r \in Replies, Answering(r)
  PROVE  /\ r.id \in Ids /\ r.k \in Kinds /\ r.id = q.id
         /\ Length(r) \in {4, 6} /\ Length(r) \in Nat
         /\ q.k \in {"X", "M"} => (r.k = "none" <=> q.k \notin caps)
<1>1. r.id \in Ids /\ r.k \in Kinds /\ r.id = q.id
  BY DEF Answering, Replies, Kinds
<1>2. Length(r) \in {4, 6}
  BY DEF Length
<1>3. q.k \in {"X", "M"} => (r.k = "none" <=> q.k \notin caps)
  BY DEF Answering, Answers
<1> QED
  BY <1>1, <1>2, <1>3

(* A piece of the reply: the loop goes on until all of it is in the buffer;
   a loop that stops earlier has been cut short. *)
LEMMA PhaseGetPacket ==
  ASSUME BaseInv, BaseInv', PhaseInv, gdbwrap_get_packet, upset' = {}
  PROVE  Phases' /\ (ints' = 0 => Writes')
<1> USE DEF gdbwrap_get_packet
<1>0. /\ upset = {} /\ ints' = ints /\ exec' = exec /\ job' = job /\ caps' = caps /\ calls' = calls
      /\ handler' = handler /\ blocked' = blocked /\ q' = q /\ choice' = choice /\ pc = "get" /\ ~handler
  BY DEF server
<1>1. Phases /\ (ints = 0 => Writes)
  BY <1>0, Calm
<1>2. Getting /\ (~is_active => link # "up") /\ Len(packet) <= 6
  BY <1>0, <1>1 DEF Phases
<1>3. \A i \in Ids : exec[i] <= 1 /\ (i > calls => exec[i] = 0)
  BY <1>1 DEF Phases
<1>4. CASE s2c = <<>> /\ link # "up" /\ is_active' = FALSE /\ ret' = NULL /\ pc' = "back"
           /\ UNCHANGED <<packet, interrupted, c2s, s2c, link, upset>>
  <2>1. job = NULL /\ c2s = <<>>
    BY <1>4 DEF BaseInv, Wires
  <2>2. Returned'
    BY <1>0, <1>4, <2>1 DEF Returned, Idle, NoQuery
  <2>3. Phases'
    BY <1>0, <1>2, <1>3, <1>4, <2>2 DEF Phases
  <2>4. ints' = 0 => Writes'
    BY <1>4 DEF Writes
  <2> QED
    BY <2>3, <2>4
<1>5. ASSUME NEW n \in 1..Len(s2c), NEW p, p = packet \o SubSeq(s2c, 1, n),
             s2c' = SubSeq(s2c, n + 1, Len(s2c)),
             ~Cut(p),
             \/ /\ Unfinished(p)
                /\ packet' = p
                /\ UNCHANGED <<pc, ret, is_active, interrupted, c2s, link>>
             \/ /\ ~Unfinished(p) /\ Good(p)
                /\ packet' = Payload(p) /\ pc' = "back"
                /\ ret' = [id |-> p[Len(p)].id, k |-> p[Len(p)].k]
                /\ is_active' = StillActive(Payload(p))
                /\ Sent(Ack) /\ Poked
             \/ ~Unfinished(p) /\ ~Good(p)
      PROVE  Phases' /\ (ints' = 0 => Writes')
  <2>0. packet \in Seq(InByte) /\ s2c \in Seq(InByte) /\ n \in 0..Len(s2c) /\ s2c # <<>>
    <3>1. packet \in Seq(InByte) /\ s2c \in Seq(InByte)
      BY <1>0 DEF BaseInv, Wires
    <3>2. Len(s2c) # 0
      BY <3>1
    <3> QED
      BY <3>1, <3>2
  <2>1. PICK r \in Replies : /\ Answering(r) /\ Len(packet) + Len(s2c) = Length(r)
                             /\ Part(packet, r, 0) /\ Part(s2c, r, Len(packet))
    BY <1>2, <2>0 DEF Getting
  <2>2. job = NULL /\ exec[q.id] = 1 /\ NoQuery
    BY <1>2, <2>0 DEF Getting
  <2>3. /\ r.id \in Ids /\ r.k \in Kinds /\ r.id = q.id /\ Length(r) \in {4, 6} /\ Length(r) \in Nat
        /\ q.k \in {"X", "M"} => (r.k = "none" <=> q.k \notin caps)
    BY <2>1, AnsweringFacts
  <2>4. /\ p \in Seq(InByte) /\ Len(p) = Len(packet) + n /\ Len(p) + Len(s2c') = Length(r)
        /\ Part(p, r, 0) /\ Part(s2c', r, Len(p))
        /\ Len(p) <= Length(r) /\ (Len(p) = Length(r) <=> s2c' = <<>>)
    BY <1>5, <2>0, <2>1, <2>3, PartPieces, ZenonT(60)
  <2>5. Len(p) \in Nat /\ Len(p) >= 1
    BY <2>0, <2>4, LenProperties
  <2>6. CASE Len(p) = Length(r)
    <3>1. /\ Good(p) /\ Len(p) >= 3 /\ Len(p) <= 6 /\ p[Len(p) - 2].c = "#"
          /\ p[Len(p)].id = r.id /\ p[Len(p)].k = r.k
          /\ Payload(p) = <<>> <=> r.k = "none"
          /\ Len(Payload(p)) <= 2
          /\ Exited(Payload(p)) => r.k = "exit"
      BY <2>3, <2>4, <2>6, WholePacket
    <3>2. /\ packet' = Payload(p) /\ pc' = "back"
          /\ ret' = [id |-> r.id, k |-> r.k]
          /\ is_active' = (is_active /\ ~Exited(Payload(p)))
          /\ Sent(Ack) /\ Poked
      BY <1>5, <3>1 DEF Unfinished, StillActive
    <3>3. NoQuery'
      <4>1. Ack \in Message /\ Ack.t # "query"
        BY DEF Message, Ack
      <4> QED
        BY <2>2, <3>2, <4>1, NoQuerySent
    <3>4. s2c' = <<>>
      BY <2>4, <2>6
    <3>5. Returned'
      <4>1. ret'.id = q'.id /\ ret'.k # "raw"
        BY <1>0, <2>3, <3>2 DEF Kinds
      <4> QED
        BY <1>0, <2>2, <3>3, <3>4, <4>1 DEF Returned, Idle
    <3>6. link' = "up" => link = "up"
      BY <3>2 DEF Poked
    <3>7. Len(packet') <= 6
      <4>1. packet' \in Seq(AnyByte)
        BY DEF BaseInv, Wires
      <4>2. Len(packet') \in Nat /\ Len(packet') <= 2
        BY <3>1, <3>2, <4>1, LenProperties
      <4> QED
        BY <4>2
    <3>8. ~is_active' /\ link' = "up" => packet' # <<>>
      <4>1. Exited(Payload(p)) => Payload(p) # <<>>
        BY DEF Exited
      <4> QED
        BY <1>2, <3>2, <3>6, <4>1
    <3>9. Phases'
      BY <1>0, <1>3, <3>2, <3>5, <3>7, <3>8 DEF Phases
    <3>10. ints' = 0 => Writes'
      <4> SUFFICES ASSUME ints' = 0 PROVE Writes'
        OBVIOUS
      <4>1. choice > 0 => "X" \notin caps \/ link # "up"
        BY <1>0, <1>1 DEF Writes
      <4>2. q.k \in {"X", "M"} => IF packet' = <<>> THEN q.k \notin caps ELSE q.k \in caps
        BY <2>3, <3>1, <3>2
      <4> QED
        BY <1>0, <2>2, <3>6, <4>1, <4>2 DEF Writes
    <3> QED
      BY <3>9, <3>10
  <2>7. CASE Len(p) # Length(r)
    <3>0. Len(p) < Length(r)
      BY <2>3, <2>4, <2>5, <2>7
    <3>1. ~Good(p) /\ (Len(p) >= 3 => p[Len(p) - 2].c # "#")
      BY <2>3, <2>4, <2>5, <3>0, PartPacket
    <3>2. Unfinished(p)
      <4>1. Unfinished(p) \/ (Len(p) >= 3 /\ ~eintr)
        BY <1>5, <2>5, <3>1 DEF Cut
      <4> QED
        BY <3>1, <4>1 DEF Unfinished
    <3>3. packet' = p /\ UNCHANGED <<pc, ret, is_active, interrupted, c2s, link>>
      BY <1>5, <3>2
    <3>4. Getting'
      <4>1. Answering(r)'
        BY <1>0, <2>1 DEF Answering, Answers
      <4>2. NoQuery' /\ exec'[q'.id] = 1 /\ job' = NULL /\ s2c' # <<>> /\ ~handler'
        BY <1>0, <2>2, <2>4, <2>7, <3>3 DEF NoQuery
      <4> QED
        BY <2>4, <3>3, <4>1, <4>2 DEF Getting
    <3>5. Len(packet') <= 6
      BY <2>3, <2>5, <3>0, <3>3
    <3>6. Phases'
      BY <1>0, <1>2, <1>3, <3>3, <3>4, <3>5 DEF Phases
    <3>7. ints' = 0 => Writes'
      BY <1>0, <1>1, <3>3 DEF Writes
    <3> QED
      BY <3>6, <3>7
  <2> QED
    BY <2>6, <2>7
<1>6. ~(s2c = <<>> /\ link # "up" /\ is_active' = FALSE /\ ret' = NULL /\ pc' = "back"
           /\ UNCHANGED <<packet, interrupted, c2s, s2c, link, upset>>)
      => \E n \in 1..Len(s2c) :
             LET p == packet \o SubSeq(s2c, 1, n)
             IN  /\ s2c' = SubSeq(s2c, n + 1, Len(s2c))
                 /\ ~Cut(p)
                 /\ \/ /\ Unfinished(p)
                       /\ packet' = p
                       /\ UNCHANGED <<pc, ret, is_active, interrupted, c2s, link>>
                    \/ /\ ~Unfinished(p) /\ Good(p)
                       /\ packet' = Payload(p) /\ pc' = "back"
                       /\ ret' = [id |-> p[Len(p)].id, k |-> p[Len(p)].k]
                       /\ is_active' = StillActive(Payload(p))
                       /\ Sent(Ack) /\ Poked
                    \/ ~Unfinished(p) /\ ~Good(p)
  <2>1. \A S : S \union {"cut"} # {}
    OBVIOUS
  <2> QED
    BY <1>0, <2>1
<1> QED
  BY <1>4, <1>5, <1>6

(* The second command of gdbwrap_writemem is a new exchange; it is tried
   only when the first one is not supported or the server has gone. *)
LEMMA PhaseReturn ==
  ASSUME BaseInv, BaseInv', PhaseInv, Return, upset' = {}
  PROVE  Phases' /\ (ints' = 0 => Writes')
<1> USE DEF Return
<1>0. /\ upset = {} /\ ints' = ints /\ exec' = exec /\ job' = job /\ caps' = caps
      /\ c2s' = c2s /\ s2c' = s2c /\ handler' = handler /\ blocked' = blocked /\ link' = link
      /\ is_active' = is_active /\ pc = "back"
  BY DEF server, faults
<1>1. Phases /\ (ints = 0 => Writes) /\ calls \in Nat
  BY <1>0, Calm
<1>2. Returned /\ ~handler /\ Len(packet) <= 6 /\ (~is_active /\ link = "up" => packet # <<>>)
  BY <1>0, <1>1 DEF Phases
<1>3. \A i \in Ids : exec[i] <= 1 /\ (i > calls => exec[i] = 0)
  BY <1>1 DEF Phases
<1>4. Idle'
  BY <1>0, <1>2 DEF Returned, Idle, NoQuery
<1>5. (q.k = "X" => choice = 0) /\ (q.k = "M" => choice = 1) /\ choice \in 0..2
  BY <1>0 DEF BaseInv, Shape, Numbers, Busy
<1>6. CASE pc' \in {"idle", "crashed"} /\ UNCHANGED <<q, calls, packet, ret>>
           /\ (choice' = choice \/ choice # 0)
  <2>1. Returned'
    BY <1>0, <1>2, <1>4, <1>6 DEF Returned
  <2>2. Phases'
    BY <1>0, <1>2, <1>3, <1>6, <2>1 DEF Phases
  <2>3. choice' > 0 => choice > 0
    BY <1>5, <1>6
  <2>4. ints' = 0 => Writes'
    BY <1>0, <1>1, <1>6, <2>3 DEF Writes
  <2> QED
    BY <2>2, <2>4
<1>7. CASE q.k \in {"X", "M"} /\ gdbwrap_cmdnotsup /\ choice' = choice + 1 /\ choice = 0
           /\ Start("M", packet)
  <2>1. /\ calls' = calls + 1 /\ q'.id = calls' /\ ret' = NULL /\ packet' = packet
        /\ pc' = (IF is_active THEN "send" ELSE "back") /\ q.k = "X" /\ calls' > 0
    BY <1>1, <1>5, <1>7 DEF Start
  <2>2. q'.id \in Ids
    BY <2>1 DEF BaseInv, Numbers, Queries
  <2>3. exec[q'.id] = 0
    BY <1>1, <1>3, <2>1, <2>2
  <2>4. \A i \in Ids : i > calls' => i > calls
    BY <1>1, <2>1, Nulls DEF Ids
  <2>5. Returned'
    BY <1>4, <2>1 DEF Returned
  <2>6. Phases'
    BY <1>0, <1>2, <1>3, <1>4, <2>1, <2>3, <2>4, <2>5 DEF Phases
  <2>7. ints' = 0 => Writes'
    <3> SUFFICES ASSUME ints' = 0 PROVE Writes'
      OBVIOUS
    <3>1. packet = <<>>
      BY <1>7 DEF gdbwrap_cmdnotsup
    <3>2. "X" \notin caps \/ link # "up"
      BY <1>0, <1>1, <1>2, <2>1, <3>1 DEF Writes
    <3>3. pc' = "back" => ~is_active'
      BY <1>0, <2>1
    <3> QED
      BY <1>0, <3>2, <3>3 DEF Writes
  <2> QED
    BY <2>6, <2>7
<1> QED
  BY <1>6, <1>7

(* An interrupt during the wait for a reply finds an empty buffer. *)
LEMMA PhaseSigInt ==
  ASSUME BaseInv, BaseInv', PhaseInv, SigInt, upset' = {}
  PROVE  Phases' /\ (ints' = 0 => Writes')
<1> USE DEF SigInt
<1>0. pc = "get" /\ upset = {} /\ s2c = <<>> /\ link = "up" /\ blocked'
  <2>1. \A S : S \union {"signal"} # {}
    OBVIOUS
  <2>2. blocked' /\ pc = "get" /\ upset = {}
    BY <2>1
  <2>3. Waiting
    BY <2>2
  <2> QED
    BY <2>2, <2>3 DEF Waiting
<1>1. /\ exec' = exec /\ job' = job /\ caps' = caps /\ calls' = calls /\ q' = q /\ s2c' = s2c
      /\ packet' = packet /\ is_active' = is_active /\ ret' = ret
      /\ ints' = ints + 1 /\ Sent(Break) /\ Poked /\ pc' = pc
  BY <1>0 DEF server
<1>2. Phases
  BY <1>0, Calm
<1>3. ints' > 0 /\ ints' # 0 /\ link' = "up"
  BY <1>0, <1>1 DEF BaseInv, Shape, Poked
<1>4. Getting /\ is_active /\ Len(packet) <= 6
      /\ \A i \in Ids : exec[i] <= 1 /\ (i > calls => exec[i] = 0)
  BY <1>0, <1>2 DEF Phases
<1>5. NoQuery'
  <2>1. Break \in Message /\ Break.t # "query"
    BY DEF Message, Break
  <2> QED
    BY <1>1, <1>4, <2>1, NoQuerySent DEF Getting
<1>6. Getting'
  <2>1. packet = <<>> /\ Running /\ exec[q.id] = 1
    BY <1>0, <1>4 DEF Getting
  <2>2. Running'
    BY <1>0, <1>1, <1>3, <2>1 DEF Running
  <2> QED
    BY <1>0, <1>1, <1>5, <2>1, <2>2 DEF Getting
<1>7. Phases'
  BY <1>0, <1>1, <1>3, <1>4, <1>6 DEF Phases
<1> QED
  BY <1>3, <1>7

(* The handler takes the whole reply, and the interrupted call returns it. *)
LEMMA PhaseCtrlC ==
  ASSUME BaseInv, BaseInv', PhaseInv, gdbwrap_ctrl_c, upset' = {}
  PROVE  Phases' /\ (ints' = 0 => Writes')
<1> USE DEF gdbwrap_ctrl_c
<1>0. PICK n \in 0..Len(s2c) : /\ n = 0 <=> s2c = <<>>
                               /\ s2c' = SubSeq(s2c, n + 1, Len(s2c))
                               /\ packet' = IF n = 0 THEN packet ELSE Over(SubSeq(s2c, 1, n))
                               /\ ~(n < Len(s2c)) /\ upset = {}
  <2>1. \A S : S \union {"cut"} # {}
    OBVIOUS
  <2> QED
    BY <2>1
<1>1. Phases
  BY <1>0, Calm
<1>2. /\ pc = "get" /\ blocked /\ ints > 0 /\ Getting /\ (~is_active => link # "up") /\ Len(packet) <= 6
      /\ \A i \in Ids : exec[i] <= 1 /\ (i > calls => exec[i] = 0)
  BY <1>1 DEF Phases
<1>3. /\ exec' = exec /\ job' = job /\ caps' = caps /\ calls' = calls /\ q' = q
      /\ is_active' = is_active /\ ints' = ints /\ ~handler' /\ ints' # 0
  BY <1>2 DEF server, BaseInv, Shape
<1>4. s2c \in Seq(InByte) /\ n \in 0..Len(s2c) /\ Len(s2c) \in Nat
  BY LenProperties DEF BaseInv, Wires
<1>5. n = Len(s2c)
  BY <1>0, <1>4
<1>6. s2c' = <<>>
  <2>1. s2c' \in Seq(InByte)
    BY DEF BaseInv, Wires
  <2>2. Len(SubSeq(s2c, n + 1, Len(s2c))) = Len(s2c) - n
    BY <1>4, Pieces
  <2>a. s2c' = SubSeq(s2c, n + 1, Len(s2c)) /\ Len(s2c) - n = 0
    BY <1>0, <1>4, <1>5
  <2>3. Len(s2c') = 0
    BY <2>2, <2>a
  <2> QED
    BY <2>1, <2>3, EmptySeq
<1>7. job = NULL /\ exec[q.id] = 1 /\ NoQuery
  BY <1>2 DEF Getting, BaseInv, Wires
<1>8. Len(packet') <= 6 /\ (packet' # <<>> => packet'[1].id = q.id)
  <2>1. CASE s2c = <<>>
    <3>1. packet' = packet /\ packet = <<>>
      BY <1>0, <1>2, <2>1 DEF Getting
    <3> QED
      BY <1>2, <3>1
  <2>2. CASE s2c # <<>>
    <3>1. packet' = SubSeq(s2c, 1, n) /\ n # 0
      BY <1>0, <1>2, <2>2 DEF Over
    <3>2. packet = <<>>
      BY <1>2, <2>2 DEF Getting
    <3>3. PICK r \in Replies : /\ Answering(r) /\ Len(packet) + Len(s2c) = Length(r)
                               /\ Part(s2c, r, Len(packet))
      BY <1>2, <2>2 DEF Getting
    <3>4. Len(packet) = 0
      BY <3>2
    <3>5. r.id \in Ids /\ r.k \in Kinds /\ r.id = q.id /\ Length(r) \in {4, 6}
      BY <3>3, AnsweringFacts
    <3>6. Part(s2c, r, 0) /\ Len(s2c) >= 1 /\ Len(s2c) <= 6
      BY <1>4, <3>3, <3>4, <3>5
    <3>7. s2c[1].id = r.id
      BY <1>4, <3>5, <3>6, PartStart
    <3>8. Len(SubSeq(s2c, 1, n)) = n /\ \A i \in 1..n : SubSeq(s2c, 1, n)[i] = s2c[i]
      BY <1>4, Pieces
    <3>9. 1 \in 1..n /\ n <= 6
      BY <1>4, <1>5, <3>1, <3>6
    <3> QED
      BY <3>1, <3>5, <3>7, <3>8, <3>9
  <2> QED
    BY <2>1, <2>2
<1>9. CASE link = "reset" /\ pc' = "killed" /\ UNCHANGED <<c2s, link, eintr, ret, interrupted>>
  <2>1. Idle'
    BY <1>3, <1>6, <1>7, <1>9 DEF Idle, NoQuery
  <2>2. Phases'
    BY <1>2, <1>3, <1>8, <1>9, <2>1 DEF Phases
  <2> QED
    BY <1>3, <2>2
<1>10. CASE link # "reset" /\ Sent(Ack) /\ Poked /\ Resume
  <2>1. pc' = "back" /\ ret' = [id |-> 0, k |-> "raw"]
    BY <1>2, <1>10 DEF Resume
  <2>2. NoQuery'
    <3>1. Ack \in Message /\ Ack.t # "query"
      BY DEF Message, Ack
    <3> QED
      BY <1>7, <1>10, <3>1, NoQuerySent
  <2>3. Returned'
    BY <1>3, <1>6, <1>7, <1>8, <2>1, <2>2 DEF Returned, Idle
  <2>4. link' = "up" => link = "up"
    BY <1>10 DEF Poked
  <2>5. Phases'
    BY <1>2, <1>3, <1>8, <2>1, <2>3, <2>4 DEF Phases
  <2> QED
    BY <1>3, <2>5
<1> QED
  BY <1>9, <1>10
(* The first message of several is not a query. *)
LEMMA HeadNoQuery ==
  ASSUME BaseInv, NoQuery, c2s # <<>>
  PROVE  Head(c2s).t # "query"
<1>1. c2s \in Seq(Message)
  BY DEF BaseInv, Wires
<1>2. Len(c2s) \in Nat /\ Len(c2s) # 0
  BY <1>1, EmptySeq
<1>3. 1 \in 1..Len(c2s) /\ Head(c2s) = c2s[1]
  BY <1>1, <1>2, HeadTailProperties
<1> QED
  BY <1>3 DEF NoQuery

(* The server reads what it has no use for. *)
LEMMA PhaseDrop ==
  ASSUME BaseInv, BaseInv', PhaseInv, upset = {}, link = "up", c2s # <<>>, c2s' = Tail(c2s),
         Head(c2s).t # "query", UNCHANGED <<client, s2c, caps, job, exec, link, ints>>
  PROVE  Phases' /\ (ints' = 0 => Writes')
<1>0. /\ pc' = pc /\ q' = q /\ calls' = calls /\ packet' = packet /\ is_active' = is_active
      /\ handler' = handler /\ blocked' = blocked /\ choice' = choice /\ ret' = ret
      /\ s2c' = s2c /\ caps' = caps /\ job' = job /\ exec' = exec /\ link' = link /\ ints' = ints
  BY DEF client
<1>1. Phases /\ (ints = 0 => Writes)
  BY Calm
<1>2. NoQuery => NoQuery'
  BY NoQueryTail
<1>3. Idle => Idle'
  BY <1>0, <1>2 DEF Idle
<1>4. Returned => Returned'
  BY <1>0, <1>3 DEF Returned
<1>5. \A r : Answering(r) <=> Answering(r)'
  BY <1>0 DEF Answering, Answers
<1>6. Running => Running'
  BY <1>0 DEF Running
<1>7. Getting => Getting'
  BY <1>0, <1>2, <1>5, <1>6 DEF Getting
<1>8. Asked => Asked'
  <2>1. c2s \in Seq(Message)
    BY DEF BaseInv, Wires
  <2>2. Len(c2s) \in Nat /\ Len(c2s') = Len(c2s) - 1 /\ \A i \in 1..Len(c2s') : c2s'[i] = c2s[i + 1]
    BY <2>1, HeadTailProperties, LenProperties
  <2>3. \A i \in 1..Len(c2s') : i + 1 \in 1..Len(c2s) /\ (i + 1 = Len(c2s) => i = Len(c2s'))
    <3> DEFINE m == Len(c2s)
               t == Len(c2s')
    <3>1. m \in Nat /\ t = m - 1
      BY <2>2
    <3> HIDE DEF m, t
    <3>2. \A i \in 1..t : i + 1 \in 1..m /\ (i + 1 = m => i = t)
      BY <3>1
    <3> QED
      BY <3>2 DEF m, t
  <2>4. (\A i \in 1..Len(c2s) : c2s[i].t = "query" => i = Len(c2s) /\ c2s[i].q = q)
        => (\A i \in 1..Len(c2s) : c2s[i].t = "query" => i = Len(c2s) /\ c2s[i].q = q)'
    BY <1>0, <2>2, <2>3
  <2> QED
    BY <1>0, <1>2, <1>5, <1>6, <2>4 DEF Asked
<1>9. Phases'
  BY <1>0, <1>1, <1>3, <1>4, <1>7, <1>8 DEF Phases
<1>10. ints' = 0 => Writes'
  BY <1>0, <1>1 DEF Writes
<1> QED
  BY <1>9, <1>10

(* Where a query can be executing *)
LEMMA JobAt ==
  ASSUME BaseInv, PhaseInv, upset = {}, job # NULL
  PROVE  /\ job = q /\ link = "up" /\ exec[q.id] = 1 /\ NoQuery
         /\ (pc = "ack" /\ s2c = <<Sign("+")>>) \/ (pc = "get" /\ s2c = <<>> /\ packet = <<>>)
<1>1. Phases
  BY Calm
<1>2. pc \in {"ack", "get"}
  BY <1>1 DEF Phases, Returned, Idle, BaseInv, Shape
<1>3. link = "up"
  BY DEF BaseInv, Wires
<1>4. CASE pc = "ack"
  BY <1>1, <1>3, <1>4 DEF Phases, Asked, Running
<1>5. CASE pc = "get"
  BY <1>1, <1>3, <1>5 DEF Phases, Getting, Running
<1> QED
  BY <1>2, <1>3, <1>4, <1>5

(* The server answers: the reply is on the wire, the query is done. *)
LEMMA PhaseAnswer ==
  ASSUME BaseInv, BaseInv', PhaseInv, upset = {}, job # NULL, NEW a \in Answers(job.k),
         s2c' = s2c \o Bytes([id |-> job.id, k |-> a]), [id |-> job.id, k |-> a] \in Replies,
         job' = NULL, NoQuery => NoQuery', UNCHANGED <<client, caps, exec, link, ints>>
  PROVE  Phases' /\ (ints' = 0 => Writes')
<1>0. /\ pc' = pc /\ q' = q /\ calls' = calls /\ packet' = packet /\ is_active' = is_active
      /\ handler' = handler /\ blocked' = blocked /\ choice' = choice /\ ret' = ret
      /\ caps' = caps /\ exec' = exec /\ link' = link /\ ints' = ints
  BY DEF client
<1>1. Phases /\ (ints = 0 => Writes)
  BY Calm
<1>2. /\ job = q /\ link = "up" /\ exec[q.id] = 1 /\ NoQuery
      /\ (pc = "ack" /\ s2c = <<Sign("+")>>) \/ (pc = "get" /\ s2c = <<>> /\ packet = <<>>)
  BY JobAt
<1>r. PICK r : r = [id |-> job.id, k |-> a]
  OBVIOUS
<1>3. r \in Replies /\ r.id = q.id /\ r.k = a /\ s2c \in Seq(InByte)
  BY <1>r, <1>2 DEF BaseInv, Wires
<1>4. Answering(r)'
  BY <1>0, <1>2, <1>3 DEF Answering, Answers
<1>5. Length(r) \in {4, 6}
  BY DEF Length
<1>6. s2c' = s2c \o Bytes(r)
  BY <1>r
<1>7. /\ s2c' \in Seq(InByte) /\ Len(s2c') = Len(s2c) + Length(r)
      /\ \A i \in 1..(Len(s2c) + Length(r)) :
           s2c'[i] = IF i <= Len(s2c) THEN s2c[i] ELSE Bytes(r)[i - Len(s2c)]
  <2>1. /\ s2c \o Bytes(r) \in Seq(InByte) /\ Len(s2c \o Bytes(r)) = Len(s2c) + Length(r)
        /\ \A i \in 1..(Len(s2c) + Length(r)) :
             (s2c \o Bytes(r))[i] = IF i <= Len(s2c) THEN s2c[i] ELSE Bytes(r)[i - Len(s2c)]
    BY <1>3, ReplyBytes
  <2> QED
    BY <1>6, <2>1, Zenon
<1>8. CASE pc = "ack" /\ s2c = <<Sign("+")>>
  <2>1. Len(s2c) = 1 /\ s2c[1] = Sign("+")
    BY <1>8
  <2>a. /\ Len(s2c') = 1 + Length(r)
        /\ \A i \in 1..(1 + Length(r)) : s2c'[i] = IF i <= 1 THEN s2c[i] ELSE Bytes(r)[i - 1]
    BY <1>7, <2>1
  <2>2. Len(s2c') = 1 + Length(r) /\ s2c'[1] = Sign("+") /\ s2c' # <<>>
    <3>1. 1 \in 1..(1 + Length(r))
      BY <1>5
    <3>2. Len(s2c') # 0
      BY <1>5, <1>7, <2>1
    <3>3. s2c'[1] = s2c[1]
      BY <2>a, <3>1
    <3> QED
      BY <2>1, <2>a, <3>2, <3>3
  <2>3. Part(Tail(s2c'), r, 0)
    <3>1. Len(Tail(s2c')) = Length(r) /\ \A i \in 1..Len(Tail(s2c')) : Tail(s2c')[i] = s2c'[i + 1]
      BY <1>5, <1>7, <2>2, HeadTailProperties
    <3>2. \A i \in 1..Length(r) : i + 1 \in 1..(1 + Length(r)) /\ ~(i + 1 <= 1)
                                  /\ (i + 1) - 1 = 0 + i
      BY <1>5
    <3>3. \A i \in 1..Length(r) : s2c'[i + 1] = Bytes(r)[0 + i]
      BY <2>a, <3>2
    <3> QED
      BY <3>1, <3>3 DEF Part
  <2>4. Asked'
    BY <1>0, <1>2, <1>3, <1>4, <2>2, <2>3 DEF Asked
  <2>5. Phases'
    BY <1>0, <1>1, <1>8, <2>4 DEF Phases
  <2>6. ints' = 0 => Writes'
    BY <1>0, <1>1 DEF Writes
  <2> QED
    BY <2>5, <2>6
<1>9. CASE pc = "get" /\ s2c = <<>> /\ packet = <<>>
  <2>1. Len(s2c) = 0 /\ Len(packet') = 0
    BY <1>0, <1>9
  <2>2. Len(packet') + Len(s2c') = Length(r) /\ s2c' # <<>>
    <3>1. Len(s2c') = Length(r) /\ Len(s2c') # 0
      BY <1>5, <1>7, <2>1
    <3> QED
      BY <1>5, <2>1, <3>1
  <2>3. Part(packet', r, 0) /\ Part(s2c', r, Len(packet'))
    <3>1. \A i \in 1..Length(r) : i \in 1..(0 + Length(r)) /\ ~(i <= 0) /\ i - 0 = 0 + i
      BY <1>5
    <3>2. Len(s2c') = Length(r)
      BY <1>5, <1>7, <2>1
    <3> QED
      BY <1>7, <2>1, <3>1, <3>2 DEF Part
  <2>4. Getting'
    BY <1>0, <1>2, <1>3, <1>4, <1>9, <2>2, <2>3 DEF Getting
  <2>5. Phases'
    BY <1>0, <1>1, <1>9, <2>4 DEF Phases
  <2>6. ints' = 0 => Writes'
    BY <1>0, <1>1 DEF Writes
  <2> QED
    BY <2>5, <2>6
<1> QED
  BY <1>2, <1>8, <1>9

(* The first element of a sequence *)
LEMMA AppendEmpty ==
  ASSUME NEW x
  PROVE  Append(<<>>, x) = <<x>>
OBVIOUS

(* The server reads a query only while the client waits for the sign. *)
LEMMA PhaseReceive ==
  ASSUME BaseInv, BaseInv', PhaseInv, Receive, upset' = {}
  PROVE  Phases' /\ (ints' = 0 => Writes')
<1> USE DEF Receive
<1>0. /\ pc' = pc /\ q' = q /\ calls' = calls /\ packet' = packet /\ is_active' = is_active
      /\ handler' = handler /\ blocked' = blocked /\ choice' = choice /\ ret' = ret
      /\ caps' = caps /\ link' = link /\ ints' = ints /\ link = "up" /\ c2s # <<>>
      /\ c2s' = Tail(c2s) /\ upset = {}
  BY DEF client
<1>1. Phases /\ (ints = 0 => Writes) /\ \A i \in Ids : exec[i] \in Nat
  BY <1>0, Calm
<1>2. c2s \in Seq(Message) /\ Len(c2s) \in Nat /\ Len(c2s) # 0 /\ Head(c2s) = c2s[1]
      /\ Len(Tail(c2s)) = Len(c2s) - 1 /\ 1 \in 1..Len(c2s)
  <2>1. c2s \in Seq(Message)
    BY DEF BaseInv, Wires
  <2>2. Len(c2s) \in Nat /\ Len(c2s) # 0
    BY <1>0, <2>1, EmptySeq
  <2> QED
    BY <1>0, <2>1, <2>2, HeadTailProperties
<1>3. CASE /\ Head(c2s).t = "+" \/ (Head(c2s).t = "int" /\ job = NULL)
           /\ UNCHANGED <<s2c, job, exec, naks>>
  <2>1. Head(c2s).t # "query"
    BY <1>3
  <2>2. UNCHANGED <<client, s2c, caps, job, exec, link, ints>>
    BY <1>3
  <2> QED
    BY <1>0, <2>1, <2>2, PhaseDrop
<1>4. CASE /\ Head(c2s).t = "int" /\ job # NULL /\ job.k = "c"
           /\ s2c' = s2c \o Bytes([id |-> job.id, k |-> "stop"])
           /\ job' = NULL /\ UNCHANGED <<exec, naks>>
  <2>1. "stop" \in Answers(job.k)
    BY <1>4 DEF Answers
  <2>2. [id |-> job.id, k |-> "stop"] \in Replies
    BY <1>4 DEF BaseInv, Shape, Queries, Replies
  <2>3. NoQuery => NoQuery'
    BY <1>0, NoQueryTail
  <2>4. UNCHANGED <<client, caps, exec, link, ints>>
    BY <1>4
  <2> QED
    BY <1>0, <1>4, <2>1, <2>2, <2>3, <2>4, PhaseAnswer
<1>5. ASSUME Head(c2s).t = "query"
      PROVE  /\ pc = "ack" /\ s2c = <<>> /\ job = NULL /\ exec[q.id] = 0 /\ c2s' = <<>>
             /\ Head(c2s).q = q
  <2>1. ~NoQuery
    BY <1>0, <1>5, HeadNoQuery
  <2>2. pc = "ack"
    <3>1. pc \notin {"idle", "back", "crashed", "send", "killed", "get"}
      BY <1>1, <2>1 DEF Phases, Returned, Idle, Getting
    <3> QED
      BY <3>1 DEF BaseInv, Shape
  <2>3. Asked
    BY <1>1, <2>2 DEF Phases
  <2>4. /\ s2c = <<>> /\ job = NULL /\ exec[q.id] = 0
        /\ \A i \in 1..Len(c2s) : c2s[i].t = "query" => i = Len(c2s) /\ c2s[i].q = q
    BY <2>1, <2>3 DEF Asked
  <2>5. Len(c2s) = 1 /\ c2s[1].q = q
    BY <1>2, <1>5, <2>4
  <2>6. c2s' = <<>>
    <3>1. c2s' \in Seq(Message) /\ Len(c2s') = 0
      BY <1>0, <1>2, <2>5 DEF BaseInv, Wires
    <3> QED
      BY <3>1, EmptySeq
  <2> QED
    BY <1>2, <2>2, <2>4, <2>5, <2>6
<1>6. CASE /\ Head(c2s).t = "query" /\ s2c' = Append(s2c, Sign("-")) /\ UNCHANGED <<job, exec>>
  <2>0. s2c' = Append(<<>>, Sign("-")) /\ c2s' = <<>> /\ job' = NULL /\ exec'[q'.id] = 0
    BY <1>0, <1>5, <1>6
  <2>1. s2c' = <<Sign("-")>>
    BY <2>0, AppendEmpty
  <2>a. NoQuery'
    BY <2>0 DEF NoQuery
  <2>2. Asked'
    BY <2>0, <2>1, <2>a DEF Asked
  <2>3. Phases'
    BY <1>0, <1>1, <1>5, <1>6, <2>2 DEF Phases
  <2>4. ints' = 0 => Writes'
    BY <1>0, <1>1, <1>5, <1>6 DEF Writes
  <2> QED
    BY <2>3, <2>4
<1>7. CASE /\ Head(c2s).t = "query" /\ s2c' = Append(s2c, Sign("+")) /\ job' = Head(c2s).q
           /\ exec' = [exec EXCEPT ![job'.id] = @ + 1]
  <2>0. s2c' = Append(<<>>, Sign("+")) /\ c2s' = <<>> /\ job' = q /\ pc = "ack"
    BY <1>5, <1>7
  <2>1. s2c' = <<Sign("+")>> /\ job' = q /\ pc = "ack"
    BY <2>0, AppendEmpty
  <2>a. NoQuery'
    BY <2>0 DEF NoQuery
  <2>2. exec \in [Ids -> Nat] /\ q.id \in Ids /\ q.id = calls /\ exec[q.id] = 0
    BY <1>5, <1>7, <2>1 DEF BaseInv, Shape, Numbers, Busy, Queries
  <2>3. exec' = [exec EXCEPT ![q.id] = exec[q.id] + 1]
    BY <1>7, <2>1
  <2>4. exec'[q.id] = 1 /\ \A i \in Ids : i # q.id => exec'[i] = exec[i]
    BY <2>2, <2>3
  <2>5. Asked'
    BY <1>0, <2>1, <2>4, <2>a DEF Asked, Running
  <2>6. (\A i \in Ids : exec[i] <= 1 /\ (i > calls => exec[i] = 0))'
    <3> SUFFICES ASSUME NEW i \in Ids
                 PROVE  exec'[i] <= 1 /\ (i > calls => exec'[i] = 0)
      BY <1>0
    <3>1. CASE i = q.id
      <4>1. ~(i > calls)
        BY <2>2, <3>1 DEF BaseInv, Shape
      <4> QED
        BY <2>4, <3>1, <4>1
    <3>2. CASE i # q.id
      BY <1>1, <2>4, <3>2 DEF Phases
    <3> QED
      BY <3>1, <3>2
  <2>7. Phases'
    BY <1>0, <1>1, <2>1, <2>5, <2>6 DEF Phases
  <2>8. ints' = 0 => Writes'
    BY <1>0, <1>1, <2>1 DEF Writes
  <2> QED
    BY <2>7, <2>8
<1> QED
  BY <1>3, <1>4, <1>6, <1>7

(* The server replies to the query it executes. *)
LEMMA PhaseReply ==
  ASSUME BaseInv, BaseInv', PhaseInv, Reply, upset' = {}
  PROVE  Phases' /\ (ints' = 0 => Writes')
<1>1. PICK a \in Answers(job.k) :
        [id |-> job.id, k |-> a] \in Replies /\ s2c' = s2c \o Bytes([id |-> job.id, k |-> a])
  BY BaseReply
<1>2. /\ upset = {} /\ job # NULL /\ job' = NULL /\ c2s' = c2s
      /\ UNCHANGED <<client, caps, exec, link, ints>>
  BY DEF Reply, faults
<1>3. NoQuery => NoQuery'
  BY <1>2 DEF NoQuery
<1> QED
  BY <1>1, <1>2, <1>3, PhaseAnswer

(* The end of the server leaves the exchange in its phase. *)
LEMMA PhaseDie ==
  ASSUME BaseInv, BaseInv', PhaseInv, Die, upset' = {}
  PROVE  Phases' /\ (ints' = 0 => Writes')
<1>0. /\ pc' = pc /\ q' = q /\ calls' = calls /\ packet' = packet /\ is_active' = is_active
      /\ handler' = handler /\ blocked' = blocked /\ choice' = choice /\ ret' = ret /\ s2c' = s2c /\ exec' = exec
      /\ caps' = caps /\ ints' = ints /\ upset = {}
      /\ link' = "closed" /\ c2s' = <<>> /\ job' = NULL
  BY DEF Die, client, faults
<1>1. Phases /\ (ints = 0 => Writes)
  BY <1>0, Calm
<1>2. NoQuery'
  BY <1>0 DEF NoQuery
<1>3. Idle => Idle'
  BY <1>0, <1>2 DEF Idle
<1>4. Returned => Returned'
  BY <1>0, <1>3 DEF Returned
<1>5. \A r : Answering(r) <=> Answering(r)'
  BY <1>0 DEF Answering, Answers
<1>6. Running'
  BY <1>0 DEF Running
<1>7. Getting => Getting'
  BY <1>0, <1>2, <1>5, <1>6 DEF Getting
<1>8. Asked => Asked'
  <2>1. (\A i \in 1..Len(c2s) : c2s[i].t = "query" => i = Len(c2s) /\ c2s[i].q = q)'
    BY <1>0
  <2> QED
    BY <1>0, <1>2, <1>5, <1>6, <2>1 DEF Asked
<1>9. Phases'
  BY <1>0, <1>1, <1>3, <1>4, <1>7, <1>8 DEF Phases
<1>10. ints' = 0 => Writes'
  BY <1>0, <1>1 DEF Writes
<1> QED
  BY <1>9, <1>10

(* A step of nobody *)
LEMMA PhaseStutter ==
  ASSUME PhaseInv, UNCHANGED vars
  PROVE  PhaseInv'
<1>0. /\ pc' = pc /\ q' = q /\ calls' = calls /\ packet' = packet /\ is_active' = is_active
      /\ handler' = handler /\ blocked' = blocked /\ choice' = choice /\ ret' = ret /\ s2c' = s2c /\ exec' = exec
      /\ caps' = caps /\ ints' = ints /\ upset' = upset /\ link' = link /\ c2s' = c2s /\ job' = job
  BY DEF vars, client, server, faults
<1>1. (NoQuery <=> NoQuery') /\ (Idle <=> Idle') /\ (Running <=> Running')
  BY <1>0 DEF NoQuery, Idle, Running
<1>2. \A r : Answering(r) <=> Answering(r)'
  BY <1>0 DEF Answering, Answers
<1>3. (Returned <=> Returned') /\ (Getting <=> Getting') /\ (Asked <=> Asked')
  BY <1>0, <1>1, <1>2 DEF Returned, Getting, Asked
<1>4. (Phases <=> Phases') /\ (Writes <=> Writes')
  BY <1>0, <1>1, <1>3 DEF Phases, Writes
<1> QED
  BY <1>0, <1>4 DEF PhaseInv

(* Before the first call the exchange is idle. *)
LEMMA PhaseInit ==
  Init => PhaseInv
<1> SUFFICES ASSUME Init PROVE PhaseInv
  OBVIOUS
<1>1. Returned /\ Idle
  BY DEF Init, Returned, Idle, NoQuery
<1>2. \A i \in Ids : exec[i] = 0
  BY DEF Init
<1>3. Len(packet) <= 6 /\ pc = "idle" /\ is_active /\ ~handler /\ choice = 0
  BY DEF Init
<1>4. Phases
  BY <1>1, <1>2, <1>3 DEF Phases
<1>5. Writes
  BY <1>3 DEF Writes
<1> QED
  BY <1>4, <1>5 DEF PhaseInv

(* PhaseInv is inductive relative to BaseInv. *)
LEMMA PhaseStep ==
  BaseInv /\ BaseInv' /\ PhaseInv /\ [Next]_vars => PhaseInv'
<1> SUFFICES ASSUME BaseInv, BaseInv', PhaseInv, [Next]_vars
             PROVE  PhaseInv'
  OBVIOUS
<1>1. CASE UNCHANGED vars
  BY <1>1, PhaseStutter
<1>2. CASE Next
  <2> SUFFICES ASSUME upset' = {}
               PROVE  Phases' /\ (ints' = 0 => Writes')
    BY DEF PhaseInv
  <2>1. CASE \E k \in Calls : Call(k)
    BY <2>1, PhaseCall
  <2>2. CASE gdbwrap_make_message
    BY <2>2, PhaseSend
  <2>3. CASE gdbwrap_check_ack
    BY <2>3, PhaseCheckAck
  <2>4. CASE gdbwrap_get_packet
    BY <2>4, PhaseGetPacket
  <2>5. CASE Return
    BY <2>5, PhaseReturn
  <2>6. CASE SigInt
    BY <2>6, PhaseSigInt
  <2>7. CASE gdbwrap_ctrl_c
    BY <2>7, PhaseCtrlC
  <2>8. CASE Receive
    BY <2>8, PhaseReceive
  <2>9. CASE Reply
    BY <2>9, PhaseReply
  <2>10. CASE Die
    BY <2>10, PhaseDie
  <2> QED
    BY <1>2, <2>1, <2>2, <2>3, <2>4, <2>5, <2>6, <2>7, <2>8, <2>9, <2>10 DEF Next, Client, User
<1> QED
  BY <1>1, <1>2

(* An undisturbed exchange is always in one of its phases: what the client
   waits for, what is on either wire and what the server does fit together. *)
THEOREM Exchange == Spec => [](BaseInv /\ PhaseInv)
<1>1. Init => PhaseInv
  BY PhaseInit
<1>2. BaseInv /\ BaseInv' /\ PhaseInv /\ [Next]_vars => PhaseInv'
  BY PhaseStep
<1> QED
  BY <1>1, <1>2, Base, PTL DEF Spec

(* No more than one query is ever on its way and no more than one reply
   between the server and the caller, whatever the network refuses and the
   user interrupts, as long as gdbwrap_get_packet is not cut short. *)
LEMMA Room ==
  ASSUME BaseInv, PhaseInv, upset = {}
  PROVE  /\ Cardinality({i \in 1..Len(c2s) : c2s[i].t = "query"}) <= 1
         /\ Len(packet) <= 6 /\ Len(s2c) <= 7
<1>0. Phases /\ pc \in {"idle", "send", "ack", "get", "back", "killed", "crashed"}
      /\ s2c \in Seq(InByte) /\ packet \in Seq(AnyByte)
  BY Calm DEF BaseInv, Shape, Wires
<1> DEFINE T == {i \in 1..Len(c2s) : c2s[i].t = "query"}
<1>1. T \subseteq {Len(c2s)}
  <2>1. CASE NoQuery
    BY <2>1 DEF NoQuery
  <2>2. CASE ~NoQuery
    <3>1. Asked
      BY <1>0, <2>2 DEF Phases, Returned, Idle, Getting
    <3> QED
      BY <2>2, <3>1 DEF Asked
  <2> QED
    BY <2>1, <2>2
<1>2. Cardinality(T) <= 1
  <2>1. IsFiniteSet({Len(c2s)}) /\ Cardinality({Len(c2s)}) = 1
    BY FS_Singleton
  <2> HIDE DEF T
  <2> QED
    BY <1>1, <2>1, FS_Subset
<1>3. Len(s2c) <= 7
  <2>1. CASE s2c = <<>>
    <3>1. Len(s2c) = 0
      BY <2>1
    <3> QED
      BY <3>1
  <2>2. CASE \E x : s2c = <<x>>
    <3>1. Len(s2c) = 1
      BY <2>2
    <3> QED
      BY <3>1
  <2>3. CASE \E r \in Replies : Len(s2c) = 1 + Length(r) \/ Len(packet) + Len(s2c) = Length(r)
    <3>1. PICK r \in Replies : Len(s2c) = 1 + Length(r) \/ Len(packet) + Len(s2c) = Length(r)
      BY <2>3
    <3>2. Length(r) \in {4, 6}
      BY DEF Length
    <3>3. Len(s2c) \in Nat /\ Len(packet) \in Nat
      BY <1>0, LenProperties
    <3> QED
      BY <3>1, <3>2, <3>3
  <2>4. \/ s2c = <<>>
        \/ s2c = <<Sign("+")>> \/ s2c = <<Sign("-")>>
        \/ \E r \in Replies : Len(s2c) = 1 + Length(r) \/ Len(packet) + Len(s2c) = Length(r)
    BY <1>0 DEF Phases, Returned, Idle, Getting, Asked
  <2> QED
    BY <2>1, <2>2, <2>3, <2>4
<1>4. Len(packet) <= 6
  BY <1>0 DEF Phases
<1> QED
  BY <1>2, <1>3, <1>4

(* TypeOK: the variables hold values of their types; while the exchange is
   undisturbed one query is on its way at most, and the replies on the wire
   and in desc->packet are no more than one. *)
THEOREM Types == Spec => []TypeOK
<1>1. BaseInv /\ PhaseInv => TypeOK
  <2> SUFFICES ASSUME BaseInv, PhaseInv PROVE TypeOK
    OBVIOUS
  <2>1. upset = {} =>
          /\ Cardinality({i \in 1..Len(c2s) : c2s[i].t = "query"}) <= 1
          /\ Len(packet) <= 6 /\ Len(s2c) <= 7
    BY Room
  <2>2. q \in Queries \/ calls = 0
    BY DEF BaseInv, Shape, Numbers
  <2>3. {is_active, interrupted, eintr, handler, blocked} \subseteq BOOLEAN
    BY DEF BaseInv, Shape
  <2> QED
    BY <2>1, <2>2, <2>3 DEF BaseInv, Shape, TypeOK
<1> QED
  BY <1>1, Exchange, PTL

(* CallsMatch: a query that is refused is sent again and executed once, and
   the reply that gdbwrap_send_data returns answers the query of that call,
   for any number of calls, refusals and interrupts and for every way in
   which recv cuts the bytes. *)
THEOREM Matching == Spec => []CallsMatch
<1>1. BaseInv /\ PhaseInv => CallsMatch
  <2> SUFFICES ASSUME BaseInv, PhaseInv, upset = {}
               PROVE  /\ \A i \in Ids : exec[i] <= 1
                      /\ ret # NULL /\ pc \in {"back", "idle"} =>
                           /\ exec[q.id] = 1
                           /\ ret.k # "raw" => ret.id = q.id
                           /\ ret.k = "raw" /\ packet # <<>> => packet[1].id = q.id
    BY DEF CallsMatch
  <2>1. Phases
    BY Calm
  <2> QED
    BY <2>1 DEF Phases, Returned
<1> QED
  BY <1>1, Exchange, PTL

(* InStep: between two calls nothing of an earlier exchange is on either wire
   and the server executes nothing. *)
THEOREM Stepwise == Spec => []InStep
<1>1. BaseInv /\ PhaseInv => InStep
  <2> SUFFICES ASSUME BaseInv, PhaseInv, upset = {}, pc = "idle"
               PROVE  Quiet
    BY DEF InStep
  <2>1. Phases
    BY Calm
  <2> QED
    BY <2>1 DEF Phases, Returned, Idle, NoQuery, Quiet
<1> QED
  BY <1>1, Exchange, PTL

(* WriteDone: gdbwrap_writemem gives up a command only when the server does
   not support it or has gone, and a write that it reports was executed. *)
THEOREM Written == Spec => []WriteDone
<1>1. BaseInv /\ PhaseInv => WriteDone
  <2> SUFFICES ASSUME BaseInv, PhaseInv, ints = 0, upset = {}
               PROVE  /\ choice > 0 => "X" \notin caps \/ link # "up"
                      /\ (pc = "back" /\ q.k \in {"X", "M"} /\ ~gdbwrap_cmdnotsup /\ is_active)
                           => q.k \in caps /\ exec[q.id] = 1
    BY DEF WriteDone
  <2>1. Writes
    BY Calm
  <2> QED
    BY <2>1 DEF Writes, gdbwrap_cmdnotsup
<1> QED
  BY <1>1, Exchange, PTL
=============================================================================
