----------------------------- MODULE HashTable -----------------------------
(***************************************************************************)
(* The hash tables of libaspect (libaspect/libhash.c): an array of chains, *)
(* an element count kept beside it, and keys that are pointers to strings  *)
(* the tables share.  The ERESI commands reach them through librevm        *)
(* (revm_hash_add, revm_hash_del, revm_hash_set) and libstderesi (union,   *)
(* inter, empty); the interpreter runs one command at a time, so that each *)
(* operation is one step.                                                  *)
(*                                                                         *)
(* A chain is the sequence of its entries: its first entry is the slot of  *)
(* the array itself, the others are allocated nodes.  An entry is          *)
(* [key, str, data]: the text of the key, which of the strings with that   *)
(* text it points to, and the data pointer.  Reading through a pointer to  *)
(* freed memory has no meaning, so nothing happens after a key string that *)
(* another entry uses has been freed (stale is not empty).                 *)
(***************************************************************************)
EXTENDS Integers, Sequences, FiniteSets, SequencesExt

CONSTANTS Tables,    \* the names of hash_hash
          Keys,      \* texts of keys
          Data,      \* data pointers callers store
          NULL,      \* the null pointer
          Size,      \* h->size, the number of chains
          HashOf,    \* the sum of a key's characters
          Types,     \* element types
          UNKNOW,    \* ASPECT_TYPE_UNKNOW
          TypeOf,    \* the type each table is created with
          MaxStr     \* bound: strings with the same text alive at one time

ASSUME HashAssumption == /\ Size \in Nat \ {0}
                         /\ HashOf \in [Keys -> Nat]
                         /\ MaxStr \in Nat
                         /\ TypeOf \in [Tables -> Types \union {UNKNOW}]

VARIABLES table,     \* the hash_t of each name
          named,     \* the names hash_find knows
          stale      \* freed key strings some entry still points to

vars == <<table, named, stale>>

Index  == 0 .. Size - 1
Entry  == [key : Keys, str : 1 .. MaxStr, data : Data \union {NULL}]

-----------------------------------------------------------------------------
(* Looking up. *)

hash_get_head(k) == HashOf[k] % Size

(* The position of key k in its chain, 0 if it has no entry. *)
hash_get_ent(h, k) == SelectInSeq(h.ent[hash_get_head(k)], LAMBDA e : e.key = k)

(* Mutant: the first entry of the chain only. *)
FirstOnly(h, k) == LET c == h.ent[hash_get_head(k)]
                   IN  IF c = <<>> \/ Head(c).key # k THEN NULL ELSE Head(c).data

hash_get(h, k) == LET i == hash_get_ent(h, k)
                  IN  IF i = 0 THEN NULL ELSE h.ent[hash_get_head(k)][i].data

(* The entries in the order every loop over a table meets them. *)
Traverse(h) == FlattenSeq([i \in 1 .. Size |-> h.ent[i - 1]])

(* The array hash_get_keys fills, as the entries it takes the keys from; its
   callers read the first h.elmnbr of them. *)
hash_get_keys(h) == IF h.elmnbr = 0 THEN <<>> ELSE Traverse(h)

-----------------------------------------------------------------------------
(* Changing one table; every operator gives the new hash_t. *)

Overwrite(h, k, d) ==
    [h EXCEPT !.ent[hash_get_head(k)][hash_get_ent(h, k)].data = d]

AppendEntry(h, e) ==
    [h EXCEPT !.ent[hash_get_head(e.key)] = Append(@, e), !.elmnbr = @ + 1]

(* An element that hash_get does not find goes to the end of its chain.
   Otherwise hash_set changes the data and the new key string is dropped. *)
hash_add(h, e) == IF hash_get(h, e.key) # NULL THEN Overwrite(h, e.key, e.data)
                                               ELSE AppendEntry(h, e)

hash_set(h, e) == IF hash_get_ent(h, e.key) # 0 THEN Overwrite(h, e.key, e.data)
                                                ELSE hash_add(h, e)

(* Mutant: the slot of the array is cleared and the next node not moved up. *)
DropChain(h, k) ==
    LET i == hash_get_ent(h, k)
    IN  IF i = 0 THEN h
        ELSE [h EXCEPT !.ent[hash_get_head(k)] = IF i = 1 THEN <<>> ELSE RemoveAt(@, i),
                       !.elmnbr = @ - 1]

(* Mutant: the count goes down even if the key is not found. *)
CountDown(h, k) ==
    LET i == hash_get_ent(h, k)
    IN  [h EXCEPT !.ent[hash_get_head(k)] = IF i = 0 THEN @ ELSE RemoveAt(@, i),
                  !.elmnbr = @ - 1]

hash_del(h, k) ==
    LET i == hash_get_ent(h, k)
    IN  IF i = 0 THEN h
        ELSE [h EXCEPT !.ent[hash_get_head(k)] = RemoveAt(@, i), !.elmnbr = @ - 1]

(* The entries of src that dst lacks, with their key strings. *)
hash_merge(dst, src) ==
    IF src.elmnbr = 0 THEN dst
    ELSE FoldLeft(LAMBDA h, e : IF hash_get(h, e.key) = NULL THEN hash_add(h, e) ELSE h,
                  dst, Traverse(src))

(* Mutant: the test on src is the wrong way round. *)
InterSwapped(dst, src) ==
    IF src.elmnbr = 0 \/ dst.elmnbr = 0 THEN dst
    ELSE FoldLeft(LAMBDA h, e : IF hash_get(src, e.key) # NULL THEN hash_del(h, e.key)
                                                               ELSE h,
                  dst, hash_get_keys(dst))

hash_inter(dst, src) ==
    IF src.elmnbr = 0 \/ dst.elmnbr = 0 THEN dst
    ELSE FoldLeft(LAMBDA h, e : IF hash_get(src, e.key) = NULL THEN hash_del(h, e.key)
                                                               ELSE h,
                  dst, hash_get_keys(dst))

hash_unmerge(dst, src) ==
    IF src.elmnbr = 0 THEN dst
    ELSE FoldLeft(LAMBDA h, e : IF hash_get(h, e.key) # NULL THEN hash_del(h, e.key)
                                                             ELSE h,
                  dst, Traverse(src))

(* hash_init of a table that is not initialized yet. *)
hash_init(type) == [ent |-> [i \in Index |-> <<>>], elmnbr |-> 0, type |-> type]

-----------------------------------------------------------------------------
(* Key strings. *)

StrOf(e) == <<e.key, e.str>>

Strings(h) == {StrOf(e) : e \in UNION {ToSet(h.ent[i]) : i \in Index}}

(* strdup: a string with text k that no entry points to.  Which one it is does
   not matter. *)
Unused(k) == {n \in 1 .. MaxStr : \A t \in Tables : <<k, n>> \notin Strings(table[t])}
strdup(k) == Min(Unused(k) \union {MaxStr + 1})

(* The bound on strings: one is left for k, or the new one is not kept. *)
Room(t, k) == Unused(k) # {} \/ hash_get(table[t], k) # NULL

(* hash_destroy frees the strings hash_get_keys returns for h. *)
Destroyed(h) == {StrOf(e) : e \in ToSet(hash_get_keys(h))}

(* The freed strings the tables tt still point to. *)
Dangling(freed, tt) == freed \intersect UNION {Strings(tt[t]) : t \in Tables}

-----------------------------------------------------------------------------
(* The operations. *)

Init == /\ named \in SUBSET Tables \ {{}}
        /\ table = [t \in Tables |-> hash_init(TypeOf[t])]
        /\ stale = {}

(* Only the table t changes, to h. *)
Replace(t, h) == /\ t \in named
                 /\ table' = [table EXCEPT ![t] = h]
                 /\ UNCHANGED <<named, stale>>

(* add <table> <object>: revm_hash_add duplicates the key and gives a table
   without an element type the type of the object.  An object of another type
   is converted, or refused, which changes nothing. *)
Add(t, k, d, type) ==
    /\ Room(t, k)
    /\ LET h == [table[t] EXCEPT !.type = IF @ = UNKNOW THEN type ELSE @]
       IN  Replace(t, hash_add(h, [key |-> k, str |-> strdup(k), data |-> d]))

(* hash_set and hash_del as the libraries call them; revm_hash_del asks
   hash_get first. *)
Set(t, k, d) ==
    /\ Room(t, k)
    /\ Replace(t, hash_set(table[t], [key |-> k, str |-> strdup(k), data |-> d]))

Del(t, k) == Replace(t, hash_del(table[t], k))

(* union and add of a table, inter, del of a table. *)
Merge(t, s)   == s \in named \ {t} /\ Replace(t, hash_merge(table[t], table[s]))
Inter(t, s)   == s \in named \ {t} /\ Replace(t, hash_inter(table[t], table[s]))
Unmerge(t, s) == s \in named \ {t} /\ Replace(t, hash_unmerge(table[t], table[s]))

(* empty <table>: hash_destroy frees the key strings and the array, hash_init
   allocates an empty one under the same name. *)
hash_empty(t) == /\ t \in named
                 /\ table' = [table EXCEPT ![t] = hash_init(@.type)]
                 /\ stale' = Dangling(Destroyed(table[t]), table')
                 /\ UNCHANGED named

(* set of a table variable: the table that has the name is emptied and takes
   the elements of s, if the element types agree. *)
hash_register(t, s) ==
    /\ {t, s} \subseteq named
    /\ LET type == IF table[t].type = UNKNOW THEN table[s].type ELSE table[t].type
           old  == [table EXCEPT ![t].type = type]
           dst  == hash_init(type)
       IN  IF type # table[s].type
           THEN /\ table' = old
                /\ UNCHANGED stale
           ELSE /\ table' = [old EXCEPT ![t] = hash_merge(dst, IF s = t THEN dst ELSE old[s])]
                /\ stale' = Dangling(Destroyed(table[t]), table')
    /\ UNCHANGED named

(* The same for a new name: a table of the same type, without the elements. *)
RegisterNew(t, s) == /\ t \notin named /\ s \in named
                     /\ table' = [table EXCEPT ![t] = hash_init(table[s].type)]
                     /\ named' = named \union {t}
                     /\ UNCHANGED stale

Next == /\ stale = {}
        /\ \E t \in Tables :
              \/ \E k \in Keys : \/ Del(t, k)
                                 \/ \E d \in Data : \/ Set(t, k, d)
                                                   \/ \E ty \in Types : Add(t, k, d, ty)
              \/ \E s \in Tables : \/ Merge(t, s)
                                   \/ Inter(t, s)
                                   \/ Unmerge(t, s)
                                   \/ hash_register(t, s)
                                   \/ RegisterNew(t, s)
              \/ hash_empty(t)

Spec == Init /\ [][Next]_vars
-----------------------------------------------------------------------------
(* Properties. *)

(* The fields of every table have the types of hash_t. *)
TypeOK == /\ named \subseteq Tables
          /\ stale \subseteq Keys \X (1 .. MaxStr)
          /\ \A t \in Tables :
                /\ table[t].type \in Types \union {UNKNOW}
                /\ table[t].elmnbr \in Nat
                /\ \A i \in Index : ToSet(table[t].ent[i]) \subseteq Entry

(* h->elmnbr is the number of entries: hash_get_keys allocates elmnbr + 1
   pointers and then stores one per entry and a NULL, and hash_inter and
   hash_destroy read elmnbr of them. *)
CountMatches == \A t \in Tables : Len(Traverse(table[t])) = table[t].elmnbr

(* A key has at most one entry: hash_add says "If the element already exist,
   make sure we erase the existing one". *)
KeyOnce == \A t \in Tables, i, j \in Index :
              \A m \in DOMAIN table[t].ent[i], n \in DOMAIN table[t].ent[j] :
                 table[t].ent[i][m].key = table[t].ent[j][n].key => i = j /\ m = n

(* What hash_get answers for every key of a table. *)
View(h) == [k \in Keys |-> hash_get(h, k)]

(* The tables behave like the maps of HashMap, whatever their chains look
   like: what hash_get answers changes in one table at a time, and to what some
   operation makes of it.  An inter that leaves its table alone because the
   other one is empty is a step that changes nothing here; InterCorrect is about
   that. *)
Promise == INSTANCE HashMap WITH map <- [t \in Tables |-> View(table[t])],
                                 defined <- named
RefinesMap == Promise!Spec

(* "Intersect hash tables in the first one": hash_inter leaves in the first
   table the keys the other one has too, also when the other one has none. *)
InterCorrect ==
    \A t, s \in named :
       s # t => View(hash_inter(table[t], table[s]))
                  = Promise!Intersect(View(table[t]), View(table[s]))

(* From every state that can be reached, hash_merge, hash_inter with a table
   that holds something, hash_unmerge, hash_del and hash_add do to the answers
   of hash_get exactly what their map counterparts do. *)
OperationsCorrect ==
    \A t, s \in named :
       LET h == table[t]  f == View(h)  g == View(table[s])
       IN  /\ s # t => /\ View(hash_merge(h, table[s])) = Promise!Union(f, g)
                       /\ Promise!Support(g) # {} =>
                             View(hash_inter(h, table[s])) = Promise!Intersect(f, g)
                       /\ View(hash_unmerge(h, table[s])) = Promise!Subtract(f, g)
           /\ \A k \in Keys :
                 /\ View(hash_del(h, k)) = [f EXCEPT ![k] = NULL]
                 /\ \A d \in Data : LET e == [key |-> k, str |-> 1, data |-> d]
                                    IN  View(hash_add(h, e)) = [f EXCEPT ![k] = d]
=============================================================================
