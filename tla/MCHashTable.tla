---------------------------- MODULE MCHashTable ----------------------------
(* Instances of HashTable: k1 and k2 collide, k3 has its own chain; one table
   was created with a type, the other without. *)
EXTENDS HashTable, TLC

CONSTANTS k1, k2, k3, d1, d2, ta, tb, str

Colliding == (k1 :> 1) @@ (k2 :> 3) @@ (k3 :> 4)

Created == (ta :> UNKNOW) @@ (tb :> str)

(* Which string an entry points to matters only as far as other tables point
   to the same one: states that differ otherwise are explored once. *)
Sharing == <<[t \in Tables |-> [type |-> table[t].type, elmnbr |-> table[t].elmnbr,
               ent |-> [i \in Index |-> [n \in DOMAIN table[t].ent[i] |->
                 LET e == table[t].ent[i][n]
                 IN  <<e.key, e.data, {s \in Tables : StrOf(e) \in Strings(table[s])}>>]]]],
             named, stale # {}>>

Symmetric == Permutations({k1, k2}) \union Permutations(Data)
=============================================================================
