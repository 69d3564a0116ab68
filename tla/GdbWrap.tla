------------------------------ MODULE GdbWrap ------------------------------
(***************************************************************************)
(* The client of the GDB remote protocol, libgdbwrap/gdbwrapper.c: a call  *)
(* sends a query, resends it until it is acknowledged, and waits for the   *)
(* reply, which arrives in pieces; memory writes fall back to a second     *)
(* command; SIGINT runs gdbwrap_ctrl_c, which reads from the same socket   *)
(* into the same buffer as the call it interrupts.                         *)
(*                                                                         *)
(* The server and the connection are external.  The server acknowledges a  *)
(* query or asks for it again, executes it once per reception and replies; *)
(* it ignores an interrupt while the target is stopped.  It may die.  The  *)
(* connection keeps bytes in order and hands them out in any pieces.       *)
(***************************************************************************)
EXTENDS Integers, Sequences, FiniteSets

CONSTANTS
  MaxCalls,  \* bound: calls of the library
  MaxNaks,   \* bound: queries that reach the server damaged
  MaxStray,  \* bound: queries sent after the exchange was disturbed
  MaxInts,   \* bound: interrupts that the user types
  NULL

ASSUME GdbWrapAssumption == {MaxCalls, MaxNaks, MaxStray, MaxInts} \subseteq Nat

VARIABLES
  pc,          \* where the library is; "idle": not called
  q,           \* the query of the call: its number and command
  calls,       \* queries so far
  packet,      \* desc->packet
  is_active,   \* desc->is_active
  interrupted, \* desc->interrupted
  eintr,       \* errno is EINTR
  handler,     \* gdbwrap_ctrl_c has sent its byte and waits in recv
  blocked,     \* the signal that it handles came in the middle of a system call
  choice,      \* static variable of gdbwrap_writemem
  ret,         \* what gdbwrap_send_data returned
  c2s, s2c,    \* bytes on their way
  link,        \* the connection as the client's kernel sees it
  caps,        \* commands that write memory and that the server supports
  job,         \* the query that the server executes
  exec,        \* exec[i]: how often query i was executed
  stray,       \* queries sent after the exchange was disturbed
  naks, ints,  \* faults so far
  upset        \* history: what disturbed the exchange, see below

client == <<pc, q, calls, packet, is_active, interrupted, eintr, handler, blocked, choice, ret>>
server == <<caps, job, exec>>
faults == <<stray, naks, ints, upset>>
vars   == <<client, c2s, s2c, link, server, faults>>

Ids     == 1..(MaxCalls + 1)
Calls   == {"c", "s", "m", "w"}   \* continue, stepi, readmem, writemem
Queries == [id : Ids, k : {"c", "s", "m", "X", "M"}]
Replies == [id : Ids, k : {"stop", "exit", "data", "err", "OK", "none"}]

ASSUME NullAssumption == NULL \notin Queries \union Replies \union {[id |-> 0, k |-> "raw"]}

(* One byte of what the server sends: an acknowledgement, or a byte of a
   packet, which knows the reply it belongs to. *)
Byte(c, r) == [c |-> c, id |-> r.id, k |-> r.k]
Sign(c)    == [c |-> c, id |-> 0, k |-> "ack"]

(* $packet-data#checksum; the shortest replies, but for the empty one, have
   two characters. *)
Bytes(r) ==
  LET open == <<Byte("$", r)>>
      data == IF r.k = "none" THEN <<>> ELSE <<Byte("d", r), Byte("d", r)>>
      end  == <<Byte("#", r), Byte("x", r), Byte("x", r)>>
  IN  open \o data \o end

First(p, c) == CHOOSE i \in 1..Len(p) : p[i].c = c /\ \A j \in 1..(i - 1) : p[j].c # c
Has(p, c)   == \E i \in 1..Len(p) : p[i].c = c

(* The checksum that follows the first # is that of the data between the
   first $ and the # after it. *)
Good(p) ==
  /\ Has(p, "$")
  /\ LET i == First(p, "$")
     IN  /\ \A j \in 1..(i - 1) : p[j].c # "#"
         /\ SubSeq(p, i, Len(p)) = Bytes(p[i])

(* gdbwrap_calc_checksum leaves the data of the packet in desc->packet. *)
Payload(p) ==
  IF /\ Has(p, "$")
     /\ Has(SubSeq(p, First(p, "$"), Len(p)), "#")
  THEN LET t == SubSeq(p, First(p, "$") + 1, Len(p)) IN SubSeq(t, 1, First(t, "#") - 1)
  ELSE p

(* gdbwrap_errorhandler: W and X replies *)
Exited(p) == p # <<>> /\ p[1].c = "d" /\ p[1].k = "exit"

(* send: the first one after the peer has closed provokes a reset, the next
   one kills the process (SIGPIPE). *)
Sent(m) == c2s' = IF link = "up" THEN Append(c2s, m) ELSE c2s
Poked   == link' = IF link = "up" THEN "up" ELSE "reset"

Query == [t |-> "query", q |-> q]
Ack   == [t |-> "+", q |-> NULL]
Break == [t |-> "int", q |-> NULL]

----------------------------------------------------------------------------
(* gdbwrap_send_data *)

(* A query that is not sent because the session is over *)
Start(query, pkt) ==
  /\ calls' = calls + 1
  /\ q' = [id |-> calls + 1, k |-> query]
  /\ ret' = NULL
  /\ pc' = IF is_active THEN "send" ELSE "back"
  /\ packet' = pkt

Write == IF choice = 0 THEN "X" ELSE "M"

(* errno keeps its value until another call of the program fails. *)
Call(k) ==
  /\ pc = "idle" /\ ~handler /\ calls < MaxCalls
  /\ k = "c" => is_active
  /\ k = "w" => choice < 2
  /\ Start(IF k = "w" THEN Write ELSE k, packet)
  /\ eintr' \in {eintr, FALSE}
  /\ UNCHANGED <<is_active, interrupted, handler, blocked, choice, c2s, s2c, link, server, faults>>

(* gdbwrap_make_message builds the query in desc->packet. *)
gdbwrap_make_message ==
  /\ pc = "send" /\ ~handler
  /\ stray' = (IF upset = {} THEN 0 ELSE stray + 1) /\ stray' <= MaxStray
  /\ IF link = "reset" THEN pc' = "killed" /\ UNCHANGED <<packet, c2s, link>>
     ELSE /\ pc' = "ack" /\ packet' = <<Sign("$")>>
          /\ Sent(Query) /\ Poked
  /\ UNCHANGED <<q, calls, is_active, interrupted, eintr, handler, blocked, choice, ret,
                 s2c, server, naks, ints, upset>>

(* Mutant: whatever arrives is taken for an acknowledgement. *)
AnyAck(b) == TRUE

(* Mutant: the two signs are exchanged. *)
SwappedAck(b) == b.c = "-"

IsAck(b) == b.c = "+"

gdbwrap_check_ack ==
  /\ pc = "ack" /\ ~handler
  /\ \/ /\ s2c # <<>>
        /\ s2c' = Tail(s2c)
        /\ IF IsAck(Head(s2c)) THEN pc' = "get" /\ packet' = <<>>
           ELSE pc' = "send" /\ packet' = <<Head(s2c)>>
        /\ UNCHANGED is_active
     \/ /\ s2c = <<>> /\ link # "up"
        /\ is_active' = (is_active /\ link = "reset")
        /\ pc' = "send"
        /\ UNCHANGED <<s2c, packet>>
  /\ UNCHANGED <<q, calls, interrupted, eintr, handler, blocked, choice, ret, c2s, link,
                 server, faults>>

(* Mutant: the first piece is the packet. *)
OnePiece(p) == FALSE

(* The loop of gdbwrap_get_packet goes on. *)
Unfinished(p) == ~eintr /\ Len(p) >= 3 /\ p[Len(p) - 2].c # "#"

(* Mutant: a reply is not acknowledged as the end of the session. *)
StaysActive(p) == is_active

StillActive(p) == is_active /\ ~Exited(p)

Cut(p) == ~Unfinished(p) /\ (Len(p) < 3 \/ (eintr /\ ~Good(p)))

gdbwrap_get_packet ==
  /\ pc = "get" /\ ~handler
  /\ \/ \E n \in 1..Len(s2c) :
          LET p == packet \o SubSeq(s2c, 1, n)
          IN  /\ s2c' = SubSeq(s2c, n + 1, Len(s2c))
              /\ upset' = IF Cut(p) THEN upset \union {"cut"} ELSE upset
              /\ \/ /\ Unfinished(p)
                    /\ packet' = p
                    /\ UNCHANGED <<pc, ret, is_active, interrupted, c2s, link>>
                 \/ /\ ~Unfinished(p) /\ Good(p)
                    /\ packet' = Payload(p) /\ pc' = "back"
                    /\ ret' = [id |-> p[Len(p)].id, k |-> p[Len(p)].k]
                    /\ is_active' = StillActive(Payload(p))
                    /\ Sent(Ack) /\ Poked
                    /\ UNCHANGED interrupted
                 \/ /\ ~Unfinished(p) /\ ~Good(p)
                    /\ packet' = Payload(p) /\ pc' = "back"
                    /\ ret' = IF interrupted THEN [id |-> 0, k |-> "raw"] ELSE NULL
                    /\ is_active' = (is_active /\ ~(interrupted /\ Exited(Payload(p))))
                    /\ interrupted' = FALSE
                    /\ UNCHANGED <<c2s, link>>
     \/ /\ s2c = <<>> /\ link # "up"
        /\ is_active' = FALSE /\ ret' = NULL /\ pc' = "back"
        /\ UNCHANGED <<packet, interrupted, c2s, s2c, link, upset>>
  /\ UNCHANGED <<q, calls, eintr, handler, blocked, choice, server, stray, naks, ints>>

(* Mutant: the buffer is not looked at. *)
Supported == FALSE

gdbwrap_cmdnotsup == packet = <<>>

(* Back in the caller: gdbwrap_stepi parses the reply if the session goes
   on, gdbwrap_writemem tries the other command. *)
Return ==
  /\ pc = "back" /\ ~handler
  /\ \/ /\ q.k = "s"
        /\ pc' = IF is_active /\ ret = NULL THEN "crashed" ELSE "idle"
        /\ UNCHANGED <<q, calls, packet, choice, ret>>
     \/ /\ q.k \in {"c", "m"} \/ (q.k \in {"X", "M"} /\ ~gdbwrap_cmdnotsup)
        /\ pc' = "idle" /\ UNCHANGED <<q, calls, packet, choice, ret>>
     \/ /\ q.k \in {"X", "M"} /\ gdbwrap_cmdnotsup
        /\ choice' = choice + 1
        /\ IF choice = 0 THEN Start("M", packet)
           ELSE pc' = "idle" /\ UNCHANGED <<q, calls, packet, ret>>
  /\ UNCHANGED <<is_active, interrupted, eintr, handler, blocked, c2s, s2c, link, server, faults>>

----------------------------------------------------------------------------
(* gdbwrap_ctrl_c, the handler of SIGINT.  The signal comes at any moment:
   while the process is blocked, in recv or at the prompt, or between two of
   its system calls, when what the call waits for may have arrived or not. *)
Waiting == pc = "idle" \/ (pc \in {"ack", "get"} /\ s2c = <<>> /\ link = "up")

SigInt ==
  /\ ints < MaxInts /\ ~handler /\ pc \notin {"killed", "crashed"}
  /\ ints' = ints + 1
  /\ interrupted' = TRUE
  /\ blocked' \in {FALSE, Waiting}
  /\ upset' = IF blocked' /\ pc = "get" THEN upset ELSE upset \union {"signal"}
  /\ IF link = "reset" THEN pc' = "killed" /\ UNCHANGED <<handler, c2s, link>>
     ELSE handler' = TRUE /\ Sent(Break) /\ Poked /\ UNCHANGED pc
  /\ UNCHANGED <<q, calls, packet, is_active, eintr, choice, ret, s2c, server, stray, naks>>

(* Mutant: recv is restarted, as with SA_RESTART. *)
Restarted == UNCHANGED <<pc, ret, interrupted, eintr>>

(* The system call that was interrupted fails: no acknowledgement, or,
   because interrupted is set, whatever the handler has read.  A signal
   between two system calls fails none: the recv that follows waits. *)
Resume ==
  \/ /\ ~blocked
     /\ UNCHANGED <<pc, ret, interrupted, eintr>>
  \/ /\ blocked /\ eintr' = TRUE
     /\ \/ pc = "idle" /\ UNCHANGED <<pc, ret, interrupted>>
        \/ pc = "ack" /\ pc' = "send" /\ UNCHANGED <<ret, interrupted>>
        \/ pc = "get" /\ pc' = "back" /\ interrupted' = FALSE
             /\ ret' = [id |-> 0, k |-> "raw"]

(* The handler reads to the start of desc->packet; gdbwrap_get_packet, in the
   middle of its loop, goes on behind the bytes that it had counted. *)
Over(b) ==
  IF pc = "get" /\ ~blocked
  THEN [i \in 1..Len(packet) |-> IF i <= Len(b) THEN b[i] ELSE packet[i]]
  ELSE b

gdbwrap_ctrl_c ==
  /\ handler /\ (s2c # <<>> \/ link # "up")
  /\ \E n \in 0..Len(s2c) :
       /\ n = 0 <=> s2c = <<>>
       /\ s2c' = SubSeq(s2c, n + 1, Len(s2c))
       /\ packet' = IF n = 0 THEN packet ELSE Over(SubSeq(s2c, 1, n))
       /\ upset' = IF n < Len(s2c) THEN upset \union {"cut"} ELSE upset
  /\ handler' = FALSE
  /\ IF link = "reset" THEN pc' = "killed" /\ UNCHANGED <<c2s, link, eintr, ret, interrupted>>
     ELSE Sent(Ack) /\ Poked /\ Resume
  /\ UNCHANGED <<q, calls, blocked, is_active, choice, server, stray, naks, ints>>

----------------------------------------------------------------------------
(* The server *)

(* It reads: an acknowledgement, an interrupt, or a query. *)
Receive ==
  /\ link = "up" /\ c2s # <<>>
  /\ c2s' = Tail(c2s)
  /\ \/ /\ Head(c2s).t = "+" \/ (Head(c2s).t = "int" /\ job = NULL)
        /\ UNCHANGED <<s2c, job, exec, naks>>
     \/ /\ Head(c2s).t = "int" /\ job # NULL /\ job.k = "c"
        /\ s2c' = s2c \o Bytes([id |-> job.id, k |-> "stop"])
        /\ job' = NULL /\ UNCHANGED <<exec, naks>>
     \/ /\ Head(c2s).t = "query" /\ job = NULL /\ naks < MaxNaks
        /\ s2c' = Append(s2c, Sign("-"))
        /\ naks' = naks + 1 /\ UNCHANGED <<job, exec>>
     \/ /\ Head(c2s).t = "query" /\ job = NULL
        /\ s2c' = Append(s2c, Sign("+"))
        /\ job' = Head(c2s).q
        /\ exec' = [exec EXCEPT ![job'.id] = @ + 1]
        /\ UNCHANGED naks
  /\ UNCHANGED <<client, caps, link, stray, ints, upset>>

Answers(k) ==
  IF k \in {"c", "s"} THEN {"stop", "exit"}
  ELSE IF k = "m" THEN {"data", "err"}
  ELSE IF k \in caps THEN {"OK", "err"} ELSE {"none"}

Reply ==
  /\ link = "up" /\ job # NULL
  /\ \E a \in Answers(job.k) : s2c' = s2c \o Bytes([id |-> job.id, k |-> a])
  /\ job' = NULL
  /\ UNCHANGED <<client, caps, c2s, link, exec, faults>>

(* What was sent still arrives. *)
Die ==
  /\ link = "up"
  /\ link' = "closed" /\ c2s' = <<>> /\ job' = NULL
  /\ UNCHANGED <<client, caps, s2c, exec, faults>>

----------------------------------------------------------------------------
(* gdbwrap_init *)
Init ==
  /\ pc = "idle" /\ q = [id |-> 0, k |-> "none"] /\ calls = 0
  /\ packet = <<>>
  /\ is_active = TRUE /\ interrupted = FALSE /\ eintr = FALSE
  /\ handler = FALSE /\ blocked = FALSE
  /\ choice = 0 /\ ret = NULL
  /\ c2s = <<>> /\ s2c = <<>> /\ link = "up"
  /\ caps \in SUBSET {"X", "M"} /\ job = NULL /\ exec = [i \in Ids |-> 0]
  /\ stray = 0 /\ naks = 0 /\ ints = 0 /\ upset = {}

Client == gdbwrap_make_message \/ gdbwrap_check_ack \/ gdbwrap_get_packet
            \/ Return \/ gdbwrap_ctrl_c
User   == SigInt \/ \E k \in Calls : Call(k)
Answer == job # NULL /\ job.k # "c" /\ Reply

Next == Client \/ User \/ Receive \/ Reply \/ Die

Spec == Init /\ [][Next]_vars

(* The client's process runs; the server reads what it is sent and answers
   every query but continue, which takes as long as the target runs. *)
FairSpec == Spec /\ WF_vars(Client) /\ WF_vars(Receive) /\ WF_vars(Answer)

----------------------------------------------------------------------------
Quiet == s2c = <<>> /\ job = NULL /\ \A i \in 1..Len(c2s) : c2s[i].t # "query"

(* Variables hold values of their types; no more than one query is ever on
   its way, and desc->packet never holds more than one reply, unless the
   exchange was disturbed. *)
TypeOK ==
  /\ pc \in {"idle", "send", "ack", "get", "back", "killed", "crashed"}
  /\ q \in Queries \/ calls = 0
  /\ calls \in 0..(MaxCalls + 1)
  /\ {is_active, interrupted, eintr, handler, blocked} \subseteq BOOLEAN
  /\ choice \in 0..2
  /\ ret \in Replies \union {NULL, [id |-> 0, k |-> "raw"]}
  /\ link \in {"up", "closed", "reset"}
  /\ caps \subseteq {"X", "M"}
  /\ job \in Queries \union {NULL}
  /\ exec \in [Ids -> Nat]
  /\ stray \in 0..MaxStray /\ naks \in 0..MaxNaks /\ ints \in 0..MaxInts
  /\ upset \subseteq {"cut", "signal"}
  /\ upset = {} =>
       /\ Cardinality({i \in 1..Len(c2s) : c2s[i].t = "query"}) <= 1
       /\ Len(packet) <= 6 /\ Len(s2c) <= 7

(* A query that was acknowledged is executed once, one that was refused is
   sent again, and the reply that a call returns is the reply to its own
   query, unless a reply was cut or a signal came outside of the wait for a
   reply: a query that was damaged, a reply that came in pieces, an
   interrupt and the end of the server do not make the two sides disagree. *)
CallsMatch ==
  upset = {} =>
    /\ \A i \in Ids : exec[i] <= 1
    /\ ret # NULL /\ pc \in {"back", "idle"} =>
         /\ exec[q.id] = 1
         /\ ret.k # "raw" => ret.id = q.id
         /\ ret.k = "raw" /\ packet # <<>> => packet[1].id = q.id

(* Between two calls nothing that belongs to an earlier one is on its way. *)
InStep == upset = {} /\ pc = "idle" /\ ~handler => Quiet

(* A session whose end the server announced is over for the client, unless
   the interrupt handler took the announcement. *)
EndNoticed ==
  (pc \in {"back", "idle"} /\ ret # NULL /\ ret.k = "exit") => ~is_active

(* The library concludes that a write is not supported only when the server
   said so or has gone, and believes a write was made only when the server
   made or refused it, unless the user interrupted the write. *)
WriteDone ==
  ints = 0 /\ upset = {} =>
    /\ choice > 0 => "X" \notin caps \/ link # "up"
    /\ (pc = "back" /\ q.k \in {"X", "M"} /\ ~gdbwrap_cmdnotsup /\ is_active)
         => q.k \in caps /\ exec[q.id] = 1

(* Every call returns, or the process is killed by a write to a server that
   has gone; a continue returns once the user interrupts it while it is
   blocked in recv.  No claim is made once a reply was cut or a signal came
   outside of that recv: the handler then waits for a reply that nobody owes
   it, or takes the only one, for which the call waits for ever. *)
CallReturns ==
  (pc \in {"send", "ack", "get"} /\ (q.k # "c" \/ handler))
    ~> (pc \in {"back", "killed"} \/ upset # {})

============================================================================
