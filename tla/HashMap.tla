------------------------------ MODULE HashMap ------------------------------
(***************************************************************************)
(* What the hash tables of libaspect promise their callers: every table    *)
(* that has a name is a partial function from keys to data, and the set    *)
(* operations of the ERESI language (union, inter, add and del of a whole  *)
(* table, set, empty) combine two of them.  Nothing is said of buckets,    *)
(* chains, element counts or key strings.                                  *)
(***************************************************************************)

CONSTANTS Tables,    \* the names tables can be registered under
          Keys,      \* the keys
          Data,      \* the data pointers callers store
          NULL       \* what hash_get answers for an absent key

VARIABLES map,       \* the contents of each table
          defined    \* the names that denote a table

vars == <<map, defined>>

Nothing == [k \in Keys |-> NULL]

(* The keys the table f holds. *)
Support(f) == {k \in Keys : f[k] # NULL}

Init == /\ map = [t \in Tables |-> Nothing]
        /\ defined \in SUBSET Tables \ {{}}

(* What an operation on a table that holds f, with one that holds g as its
   second operand, may turn f into. *)
Stored(f)      == {[f EXCEPT ![k] = d] : k \in Keys, d \in Data}
Removed(f)     == {[f EXCEPT ![k] = NULL] : k \in Keys}
Union(f, g)     == [k \in Keys |-> IF f[k] # NULL THEN f[k] ELSE g[k]]
Subtract(f, g)  == [k \in Keys |-> IF g[k] # NULL THEN NULL ELSE f[k]]
Intersect(f, g) == [k \in Keys |-> IF g[k] # NULL THEN f[k] ELSE NULL]

(* The elements of g replace those of f, which may be what set does. *)
Results(f, g) == {Union(f, g), Subtract(f, g), Intersect(f, g), g}

(* One table changes; a table set to itself, or emptied, holds nothing. *)
Operate(t) == /\ t \in defined
              /\ LET f == map[t]
                 IN  map'[t] \in Stored(f) \union Removed(f) \union {Nothing}
                                 \union UNION {Results(f, map[s]) : s \in defined}
              /\ \A s \in Tables \ {t} : map'[s] = map[s]
              /\ UNCHANGED defined

(* A name that denotes no table yet gets an empty one. *)
Define(t) == /\ t \notin defined
             /\ defined' = defined \union {t}
             /\ UNCHANGED map

Next == \E t \in Tables : Operate(t) \/ Define(t)

Spec == Init /\ [][Next]_vars
=============================================================================
