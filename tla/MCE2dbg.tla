------------------------------ MODULE MCE2dbg ------------------------------
(* Instances of E2dbg: small programs and the threads that run them.       *)
EXTENDS E2dbg

\* Two byte instructions, in a loop of six.
LoopInstr == {1, 3, 5, 7, 9, 11}
LoopSucc == [a \in LoopInstr |-> IF a = 11 THEN {1} ELSE {a + 2}]
Spaced == {1, 7}
Adjacent == {3, 5}

\* The same loop for one thread, a loop of one instruction for the others.
ApartInstr == LoopInstr \cup {21}
ApartSucc == [a \in ApartInstr |-> IF a = 21 THEN {21} ELSE LoopSucc[a]]

CONSTANT Breaker
ApartStart == [t \in Threads |-> IF t = Breaker THEN 1 ELSE 21]
=============================================================================
