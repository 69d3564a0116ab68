-------------------------- MODULE HashTable_proofs --------------------------
(***************************************************************************)
(* Proofs about HashTable, for any keys, tables, hash function and number  *)
(* of chains: what the loops of libhash.c over the chains compute, that    *)
(* the element count is right, that a key has one entry, and that the      *)
(* tables implement the maps of HashMap.                                   *)
(*                                                                         *)
(* The loops are folds over the entries of a table.  What they compute is  *)
(* shown by looking at the first iteration that could break the claim      *)
(* (LeastNat) instead of by an induction principle.                        *)
(***************************************************************************)
EXTENDS HashTable, Extrema, SequenceTheorems, TLAPS

(* Entries whose key strings are taken from N, and hash_t structures that
   hold such entries.  Entry is Cell(1 .. MaxStr). *)
Cell(N) == [key : Keys, str : N, data : Data \union {NULL}]

HashT(N) == [ent : [Index -> Seq(Cell(N))], elmnbr : Int, type : Types \union {UNKNOW}]

-----------------------------------------------------------------------------
(* Sequences: concatenating a sequence of sequences, removing an element. *)

(* The sequences FlattenSeq goes through: f[n] is the first n of the
   sequences concatenated. *)
Concatenates(f, seqs, n) ==
    f = [i \in 1 .. n |-> IF i = 1 THEN seqs[i] ELSE f[i - 1] \o seqs[i]]

(* A function that concatenates the first n sequences is extended by one. *)
LEMMA ConcatenatesNext ==
  ASSUME NEW seqs, NEW n \in Nat \ {0}, NEW f, Concatenates(f, seqs, n)
  PROVE  \E g : Concatenates(g, seqs, n + 1)
<1> DEFINE g == [i \in 1 .. n + 1 |-> IF i = n + 1 THEN f[n] \o seqs[n + 1] ELSE f[i]]
<1>1. \A i \in 1 .. n : f[i] = IF i = 1 THEN seqs[i] ELSE f[i - 1] \o seqs[i]
  BY DEF Concatenates
<1>2. \A i \in 1 .. n : g[i] = f[i]
  OBVIOUS
<1>3. g[n + 1] = f[n] \o seqs[n + 1]
  <2>1. n + 1 \in 1 .. n + 1
    OBVIOUS
  <2> QED
    BY <2>1, Zenon
<1>4. \A i \in 1 .. n + 1 : g[i] = IF i = 1 THEN seqs[i] ELSE g[i - 1] \o seqs[i]
  <2> SUFFICES ASSUME NEW i \in 1 .. n + 1
               PROVE  g[i] = IF i = 1 THEN seqs[i] ELSE g[i - 1] \o seqs[i]
    OBVIOUS
  <2>1. CASE i = n + 1
    <3>1. g[n] = f[n] /\ i # 1 /\ i - 1 = n
      BY <2>1, <1>2
    <3> HIDE DEF g
    <3> QED
      BY <2>1, <3>1, <1>3
  <2>2. CASE i # n + 1
    <3>1. i \in 1 .. n /\ g[i] = f[i] /\ (i # 1 => i - 1 \in 1 .. n /\ g[i - 1] = f[i - 1])
      BY <2>2, <1>2
    <3> HIDE DEF g
    <3> QED
      BY <3>1, <1>1
  <2> QED
    BY <2>1, <2>2
<1>5. g = [i \in 1 .. n + 1 |-> g[i]]
  OBVIOUS
<1>6. Concatenates(g, seqs, n + 1)
  <2> HIDE DEF g
  <2> QED
    BY <1>4, <1>5 DEF Concatenates
<1> QED
  BY <1>6

(* The recursive function inside FlattenSeq exists. *)
LEMMA ConcatenatesExists ==
  ASSUME NEW seqs, NEW n \in Nat \ {0}
  PROVE  \E f : Concatenates(f, seqs, n)
<1> DEFINE Bad == {m \in Nat \ {0} : ~ \E f : Concatenates(f, seqs, m)}
<1>1. SUFFICES Bad = {}
  OBVIOUS
<1>2. SUFFICES ASSUME Bad # {}
               PROVE  FALSE
  OBVIOUS
<1>3. PICK m \in Bad : \A j \in Bad : m <= j
  <2>1. Bad \subseteq Nat
    OBVIOUS
  <2> HIDE DEF Bad
  <2> QED
    BY <2>1, <1>2, LeastNat
<1>4. m # 1
  <2> DEFINE f == [i \in 1 .. 1 |-> seqs[1]]
  <2>1. f = [i \in 1 .. 1 |-> IF i = 1 THEN seqs[i] ELSE f[i - 1] \o seqs[i]]
    OBVIOUS
  <2>2. Concatenates(f, seqs, 1)
    BY <2>1 DEF Concatenates
  <2> QED
    BY <2>2
<1>5. m - 1 \in Nat \ {0} /\ m - 1 \notin Bad
  BY <1>3, <1>4
<1>6. PICK f : Concatenates(f, seqs, m - 1)
  BY <1>5
<1>7. \E g : Concatenates(g, seqs, (m - 1) + 1)
  BY <1>5, <1>6, ConcatenatesNext
<1>8. (m - 1) + 1 = m
  BY <1>3
<1> QED
  BY <1>3, <1>7, <1>8

(* FlattenSeq is the last value of such a function. *)
LEMMA FlattenIs ==
  ASSUME NEW S, NEW seqs \in Seq(S), Len(seqs) # 0
  PROVE  \E f : Concatenates(f, seqs, Len(seqs)) /\ FlattenSeq(seqs) = f[Len(seqs)]
<1> DEFINE n == Len(seqs)
<1> DEFINE f == CHOOSE g : Concatenates(g, seqs, n)
<1>1. n \in Nat \ {0}
  BY LenProperties
<1>2. Concatenates(f, seqs, n)
  BY <1>1, ConcatenatesExists
<1>3. f = CHOOSE g : g = [i \in 1 .. n |-> IF i = 1 THEN seqs[i] ELSE g[i - 1] \o seqs[i]]
  BY DEF Concatenates
<1>4. FlattenSeq(seqs) = f[n]
  BY <1>3 DEF FlattenSeq
<1> QED
  BY <1>2, <1>4

(* Removing element i shortens a sequence by one and moves up what follows. *)
LEMMA RemoveAtIs ==
  ASSUME NEW S, NEW s \in Seq(S), NEW i \in 1 .. Len(s)
  PROVE  /\ RemoveAt(s, i) \in Seq(S)
         /\ Len(RemoveAt(s, i)) = Len(s) - 1
         /\ \A j \in 1 .. Len(s) - 1 : RemoveAt(s, i)[j] = s[IF j < i THEN j ELSE j + 1]
<1> DEFINE n == Len(s)
<1> DEFINE a == SubSeq(s, 1, i - 1)
<1> DEFINE b == SubSeq(s, i + 1, n)
<1>1. n \in Nat /\ \A j \in 1 .. n : s[j] \in S
  BY LenProperties, ElementOfSeq
<1>2. i \in Int /\ 1 <= i /\ i <= n
  BY <1>1
<1>3. /\ a \in Seq(S)
      /\ Len(a) = i - 1
      /\ \A j \in 1 .. i - 1 : a[j] = s[j]
  <2>1. \A j \in 1 .. i - 1 : s[j] \in S
    BY <1>1, <1>2
  <2>2. 1 \in Int /\ i - 1 \in Int
    BY <1>2
  <2>3. /\ SubSeq(s, 1, i - 1) \in Seq(S)
        /\ Len(SubSeq(s, 1, i - 1)) = IF 1 <= i - 1 THEN (i - 1) - 1 + 1 ELSE 0
        /\ \A j \in 1 .. (i - 1) - 1 + 1 : SubSeq(s, 1, i - 1)[j] = s[1 + j - 1]
    BY <2>1, <2>2, SubSeqProperties
  <2> HIDE DEF n
  <2>4. a \in Seq(S)
    BY <2>3
  <2>5. Len(a) = i - 1
    BY <2>3, <1>2
  <2>6. \A j \in 1 .. i - 1 : j \in 1 .. (i - 1) - 1 + 1 /\ 1 + j - 1 = j
    BY <1>2
  <2>7. \A j \in 1 .. i - 1 : a[j] = s[j]
    BY <2>3, <2>6
  <2> QED
    BY <2>4, <2>5, <2>7
<1>4. /\ b \in Seq(S)
      /\ Len(b) = n - i
      /\ \A j \in 1 .. n - i : b[j] = s[i + j]
  <2>1. \A j \in i + 1 .. n : s[j] \in S
    BY <1>1, <1>2
  <2>2. i + 1 \in Int /\ n \in Int
    BY <1>1, <1>2
  <2> HIDE DEF n
  <2>3. /\ SubSeq(s, i + 1, n) \in Seq(S)
        /\ Len(SubSeq(s, i + 1, n)) = IF i + 1 <= n THEN n - (i + 1) + 1 ELSE 0
        /\ \A j \in 1 .. n - (i + 1) + 1 : SubSeq(s, i + 1, n)[j] = s[i + 1 + j - 1]
    BY <2>1, <2>2, SubSeqProperties
  <2>4. b \in Seq(S)
    BY <2>3
  <2>5. Len(b) = n - i
    BY <2>3, <1>1, <1>2
  <2>6. \A j \in 1 .. n - i : j \in 1 .. n - (i + 1) + 1 /\ i + 1 + j - 1 = i + j
    BY <1>1, <1>2
  <2>7. \A j \in 1 .. n - i : b[j] = s[i + j]
    BY <2>3, <2>6
  <2> QED
    BY <2>4, <2>5, <2>7
<1>5. RemoveAt(s, i) = a \o b
  BY DEF RemoveAt
<1> HIDE DEF a, b, n
<1>6. /\ a \o b \in Seq(S)
      /\ Len(a \o b) = Len(a) + Len(b)
      /\ \A j \in 1 .. Len(a) + Len(b) : (a \o b)[j] = IF j <= Len(a) THEN a[j]
                                                                    ELSE b[j - Len(a)]
  BY <1>3, <1>4, ConcatProperties
<1>7. Len(a \o b) = n - 1
  BY <1>3, <1>4, <1>6, <1>1, <1>2
<1>8. ASSUME NEW j \in 1 .. n - 1
      PROVE  (a \o b)[j] = s[IF j < i THEN j ELSE j + 1]
  <2>1. j \in 1 .. Len(a) + Len(b)
    BY <1>3, <1>4, <1>1, <1>2
  <2>2. CASE j < i
    <3>1. j <= Len(a) /\ j \in 1 .. i - 1
      BY <2>2, <1>2, <1>3
    <3> QED
      BY <2>1, <2>2, <3>1, <1>3, <1>6
  <2>3. CASE ~ (j < i)
    <3>1. ~ (j <= Len(a)) /\ j - Len(a) = j - (i - 1) /\ j - (i - 1) \in 1 .. n - i
          /\ i + (j - (i - 1)) = j + 1
      BY <2>3, <1>1, <1>2, <1>3
    <3>2. (a \o b)[j] = b[j - (i - 1)]
      BY <2>1, <3>1, <1>6
    <3>3. b[j - (i - 1)] = s[i + (j - (i - 1))]
      BY <3>1, <1>4
    <3> QED
      BY <2>3, <3>1, <3>2, <3>3
  <2> QED
    BY <2>2, <2>3
<1> QED
  BY <1>5, <1>6, <1>7, <1>8 DEF n

-----------------------------------------------------------------------------
(* Traversing a table. *)

(* The sequence f is what a loop over the chains of h has met after each. *)
ChainPrefixes(N, h, f) ==
    /\ f \in [1 .. Size -> Seq(Cell(N))]
    /\ f[1] = h.ent[0]
    /\ \A i \in 2 .. Size : f[i] = f[i - 1] \o h.ent[i - 1]
    /\ Traverse(h) = f[Size]

(* Every table has such a sequence. *)
LEMMA PrefixesExist ==
  ASSUME NEW N, NEW h \in HashT(N)
  PROVE  \E f : ChainPrefixes(N, h, f)
<1> DEFINE seqs == [i \in 1 .. Size |-> h.ent[i - 1]]
<1>1. Size \in Nat \ {0}
  BY HashAssumption
<1>2. \A i \in 1 .. Size : i - 1 \in Index
  BY <1>1 DEF Index
<1>3. h.ent \in [Index -> Seq(Cell(N))]
  BY DEF HashT
<1>4. seqs \in [1 .. Size -> Seq(Cell(N))]
  BY <1>2, <1>3
<1>5. seqs \in Seq(Seq(Cell(N))) /\ Len(seqs) = Size
  BY <1>1, <1>4
<1>6. \A i \in 1 .. Size : seqs[i] = h.ent[i - 1] /\ seqs[i] \in Seq(Cell(N))
  BY <1>4
<1>7. Traverse(h) = FlattenSeq(seqs)
  BY DEF Traverse
<1> HIDE DEF seqs
<1>8. PICK f : Concatenates(f, seqs, Size) /\ Traverse(h) = f[Size]
  BY <1>1, <1>5, <1>7, FlattenIs
<1>9. /\ f = [i \in 1 .. Size |-> f[i]]
      /\ \A i \in 1 .. Size : f[i] = IF i = 1 THEN seqs[i] ELSE f[i - 1] \o seqs[i]
  BY <1>8 DEF Concatenates
<1>10. \A i \in 1 .. Size : f[i] \in Seq(Cell(N))
  <2> DEFINE Bad == {i \in 1 .. Size : f[i] \notin Seq(Cell(N))}
  <2>1. SUFFICES ASSUME Bad # {}
                 PROVE  FALSE
    OBVIOUS
  <2>2. PICK m \in Bad : \A j \in Bad : m <= j
    <3>1. Bad \subseteq Nat
      OBVIOUS
    <3> HIDE DEF Bad
    <3> QED
      BY <3>1, <2>1, LeastNat
  <2>3. m \in 1 .. Size
    BY <2>2
  <2>4. m # 1
    BY <2>2, <2>3, <1>6, <1>9
  <2>5. m - 1 \in 1 .. Size /\ m - 1 \notin Bad
    <3> HIDE DEF Bad
    <3>1. m - 1 \in 1 .. Size /\ m - 1 < m
      BY <2>3, <2>4, <1>1
    <3> QED
      BY <2>2, <2>3, <3>1
  <2>6. f[m - 1] \in Seq(Cell(N))
    BY <2>5
  <2>7. f[m - 1] \o seqs[m] \in Seq(Cell(N))
    BY <2>3, <2>6, <1>6, ConcatProperties
  <2> QED
    BY <2>2, <2>3, <2>4, <2>7, <1>9
<1>11. f \in [1 .. Size -> Seq(Cell(N))]
  BY <1>9, <1>10
<1>12. f[1] = h.ent[0]
  <2>1. 1 \in 1 .. Size /\ 1 - 1 = 0
    BY <1>1
  <2> QED
    BY <1>6, <1>9, <2>1
<1>13. \A i \in 2 .. Size : f[i] = f[i - 1] \o h.ent[i - 1]
  <2>1. \A i \in 2 .. Size : i \in 1 .. Size /\ i # 1
    BY <1>1
  <2> QED
    BY <1>6, <1>9, <2>1
<1> QED
  BY <1>8, <1>11, <1>12, <1>13 DEF ChainPrefixes

(* The entries of a traversal are entries of the table. *)
LEMMA TraverseType ==
  ASSUME NEW N, NEW h \in HashT(N)
  PROVE  Traverse(h) \in Seq(Cell(N))
<1>1. PICK f : ChainPrefixes(N, h, f)
  BY PrefixesExist
<1> QED
  BY <1>1, HashAssumption DEF ChainPrefixes

(* All elements of s are entries of h; all entries of the first n chains of h
   are elements of s. *)
MetOnly(h, s) == \A j \in 1 .. Len(s) :
                    \E b \in Index : \E m \in 1 .. Len(h.ent[b]) : s[j] = h.ent[b][m]
MetAll(h, s, n) == \A b \in 0 .. n - 1 : \A m \in 1 .. Len(h.ent[b]) :
                      \E j \in 1 .. Len(s) : s[j] = h.ent[b][m]

(* The first i chains hold what a loop has met after i of them. *)
LEMMA PrefixEntries ==
  ASSUME NEW N, NEW h \in HashT(N), NEW f, ChainPrefixes(N, h, f), NEW i \in 1 .. Size
  PROVE  MetOnly(h, f[i]) /\ MetAll(h, f[i], i)
<1> DEFINE Met(n) == MetOnly(h, f[n])
<1> DEFINE All(n) == MetAll(h, f[n], n)
<1> DEFINE Bad == {n \in 1 .. Size : ~ (Met(n) /\ All(n))}
<1>1. SUFFICES ASSUME Bad # {}
               PROVE  FALSE
  OBVIOUS
<1>2. PICK n \in Bad : \A j \in Bad : n <= j
  <2>1. Bad \subseteq Nat
    OBVIOUS
  <2> HIDE DEF Bad
  <2> QED
    BY <2>1, <1>1, LeastNat
<1>3. n \in 1 .. Size /\ ~ (Met(n) /\ All(n))
  BY <1>2
<1>4. Size \in Nat \ {0} /\ n - 1 \in Index /\ 0 \in Index /\ 0 .. Size - 1 = Index
  BY <1>3, HashAssumption DEF Index
<1>5. n # 1
  <2> SUFFICES ASSUME n = 1
               PROVE  FALSE
    OBVIOUS
  <2>1. f[n] = h.ent[0]
    BY DEF ChainPrefixes
  <2>2. Met(n)
    BY <2>1, <1>4 DEF MetOnly
  <2>3. \A b \in 0 .. n - 1 : b = 0
    OBVIOUS
  <2>4. All(n)
    BY <2>1, <2>3 DEF MetAll
  <2> HIDE DEF Met, All
  <2> QED
    BY <2>2, <2>4, <1>3
<1>6. n - 1 \in 1 .. Size /\ n - 1 \notin Bad
  <2> HIDE DEF Bad, Met, All
  <2>1. n - 1 \in 1 .. Size /\ n - 1 < n
    BY <1>3, <1>4, <1>5
  <2> QED
    BY <1>2, <1>3, <2>1
<1>7. Met(n - 1) /\ All(n - 1)
  <2> HIDE DEF Met, All
  <2> QED
    BY <1>6
<1>8. PICK p, c : p = f[n - 1] /\ c = h.ent[n - 1] /\ p \in Seq(Cell(N)) /\ c \in Seq(Cell(N))
  BY <1>4, <1>6 DEF ChainPrefixes, HashT
<1>9. f[n] = p \o c
  <2>1. n \in 2 .. Size
    BY <1>3, <1>4, <1>5
  <2> QED
    BY <2>1, <1>8 DEF ChainPrefixes
<1>10. /\ Len(p \o c) = Len(p) + Len(c)
       /\ \A j \in 1 .. Len(p) + Len(c) : (p \o c)[j] = IF j <= Len(p) THEN p[j]
                                                                   ELSE c[j - Len(p)]
  BY <1>8, ConcatProperties
<1>11. Len(p) \in Nat /\ Len(c) \in Nat
  BY <1>8, LenProperties
<1>12. Met(n)
  <2> SUFFICES ASSUME NEW j \in 1 .. Len(f[n])
               PROVE  \E b \in Index : \E m \in 1 .. Len(h.ent[b]) : f[n][j] = h.ent[b][m]
    BY DEF MetOnly
  <2>1. j \in 1 .. Len(p) + Len(c)
    BY <1>9, <1>10
  <2>2. CASE j <= Len(p)
    <3>1. f[n][j] = f[n - 1][j] /\ j \in 1 .. Len(f[n - 1])
      BY <1>8, <1>9, <1>10, <1>11, <2>1, <2>2
    <3> QED
      BY <3>1, <1>7 DEF MetOnly
  <2>3. CASE ~ (j <= Len(p))
    <3>1. f[n][j] = c[j - Len(p)]
      BY <1>9, <1>10, <2>1, <2>3
    <3>2. j - Len(p) \in 1 .. Len(c)
      BY <1>11, <2>1, <2>3
    <3>3. f[n][j] = h.ent[n - 1][j - Len(p)] /\ j - Len(p) \in 1 .. Len(h.ent[n - 1])
      BY <1>8, <3>1, <3>2
    <3> QED
      BY <3>3, <1>4
  <2> QED
    BY <2>2, <2>3
<1>13. All(n)
  <2> SUFFICES ASSUME NEW b \in 0 .. n - 1, NEW m \in 1 .. Len(h.ent[b])
               PROVE  \E j \in 1 .. Len(f[n]) : f[n][j] = h.ent[b][m]
    BY DEF MetAll
  <2>1. CASE b = n - 1
    <3>0. m \in 1 .. Len(c)
      BY <2>1, <1>8
    <3>1. /\ Len(p) + m \in 1 .. Len(p) + Len(c)
          /\ ~ (Len(p) + m <= Len(p)) /\ (Len(p) + m) - Len(p) = m
      <4> DEFINE lp == Len(p)
      <4> DEFINE lc == Len(c)
      <4>1. lp \in Nat /\ lc \in Nat /\ m \in 1 .. lc
        BY <3>0, <1>11
      <4> HIDE DEF lp, lc
      <4>2. lp + m \in 1 .. lp + lc /\ ~ (lp + m <= lp) /\ (lp + m) - lp = m
        BY <4>1
      <4> QED
        BY <4>2 DEF lp, lc
    <3>2. (p \o c)[Len(p) + m] = c[m]
      BY <3>1, <1>10
    <3> QED
      BY <2>1, <3>1, <3>2, <1>8, <1>9, <1>10
  <2>2. CASE b # n - 1
    <3>1. b \in 0 .. (n - 1) - 1
      BY <2>2, <1>3
    <3>2. PICK j \in 1 .. Len(f[n - 1]) : f[n - 1][j] = h.ent[b][m]
      BY <3>1, <1>7 DEF MetAll
    <3>3. j \in 1 .. Len(p) /\ p[j] = h.ent[b][m]
      BY <3>2, <1>8
    <3>4. j \in 1 .. Len(p) + Len(c) /\ j <= Len(p)
      BY <3>3, <1>11
    <3>5. (p \o c)[j] = h.ent[b][m]
      BY <3>3, <3>4, <1>10
    <3> QED
      BY <3>4, <3>5, <1>9, <1>10
  <2> QED
    BY <2>1, <2>2
<1> HIDE DEF Met, All
<1> QED
  BY <1>3, <1>12, <1>13

(* A traversal meets every entry of the table and nothing else. *)
LEMMA TraverseEntries ==
  ASSUME NEW N, NEW h \in HashT(N)
  PROVE  MetOnly(h, Traverse(h)) /\ MetAll(h, Traverse(h), Size)
<1>1. PICK f : ChainPrefixes(N, h, f)
  BY PrefixesExist
<1>2. Size \in 1 .. Size
  BY HashAssumption
<1>3. Traverse(h) = f[Size]
  BY <1>1 DEF ChainPrefixes
<1>4. MetOnly(h, f[Size]) /\ MetAll(h, f[Size], Size)
  BY <1>1, <1>2, PrefixEntries
<1> QED
  BY <1>3, <1>4

(* h2 differs from h1 in chain c only, which is longer by d. *)
Longer(h1, h2, c, d) == /\ Len(h2.ent[c]) = Len(h1.ent[c]) + d
                        /\ \A b \in Index \ {c} : h2.ent[b] = h1.ent[b]

LongerPrefixes(f1, f2, c, d) ==
    \A i \in 1 .. Size : Len(f2[i]) = Len(f1[i]) + (IF c < i THEN d ELSE 0)

(* Then the prefixes from that chain on are longer by d too. *)
LEMMA PrefixLengths ==
  ASSUME NEW N, NEW h1 \in HashT(N), NEW h2 \in HashT(N), NEW c \in Index, NEW d \in Int,
         Longer(h1, h2, c, d),
         NEW f1, ChainPrefixes(N, h1, f1), NEW f2, ChainPrefixes(N, h2, f2)
  PROVE  LongerPrefixes(f1, f2, c, d)
<1> DEFINE Same(n) == Len(f2[n]) = Len(f1[n]) + (IF c < n THEN d ELSE 0)
<1> DEFINE Bad == {n \in 1 .. Size : ~ Same(n)}
<1>1. SUFFICES ASSUME Bad # {}
               PROVE  FALSE
  BY DEF LongerPrefixes
<1>2. PICK n \in Bad : \A j \in Bad : n <= j
  <2> HIDE DEF Same
  <2>1. Bad \subseteq Nat
    OBVIOUS
  <2> HIDE DEF Bad
  <2> QED
    BY <2>1, <1>1, LeastNat
<1>3. n \in 1 .. Size /\ ~ Same(n)
  BY <1>2
<1>4. /\ Size \in Nat \ {0} /\ n - 1 \in Index /\ 0 \in Index
      /\ c \in Int /\ 0 <= c /\ n \in Int /\ 1 <= n
  BY <1>3, HashAssumption DEF Index
<1>5. n # 1
  <2> SUFFICES ASSUME n = 1
               PROVE  FALSE
    OBVIOUS
  <2>1. f1[n] = h1.ent[0] /\ f2[n] = h2.ent[0] /\ Len(h1.ent[0]) \in Nat
    BY <1>4, LenProperties DEF ChainPrefixes, HashT
  <2>2. c < n <=> c = 0
    BY <1>4
  <2>3. CASE c = 0
    <3>1. Len(h2.ent[0]) = Len(h1.ent[0]) + d
      BY <2>3 DEF Longer
    <3> QED
      BY <2>1, <2>2, <2>3, <3>1, <1>3
  <2>4. CASE c # 0
    <3>1. h2.ent[0] = h1.ent[0]
      BY <2>4, <1>4 DEF Longer
    <3> QED
      BY <2>1, <2>2, <2>4, <3>1, <1>3
  <2> QED
    BY <2>3, <2>4
<1>6. n - 1 \in 1 .. Size /\ n - 1 \notin Bad
  <2> HIDE DEF Bad, Same
  <2>1. n - 1 \in 1 .. Size /\ n - 1 < n
    BY <1>3, <1>4, <1>5
  <2> QED
    BY <1>2, <1>3, <2>1
<1>7. Same(n - 1)
  <2> HIDE DEF Same
  <2> QED
    BY <1>6
<1>8. n \in 2 .. Size
  BY <1>3, <1>4, <1>5
<1>9. PICK p1, c1 : p1 = f1[n - 1] /\ c1 = h1.ent[n - 1] /\ p1 \in Seq(Cell(N)) /\ c1 \in Seq(Cell(N))
  BY <1>4, <1>6 DEF ChainPrefixes, HashT
<1>10. PICK p2, c2 : p2 = f2[n - 1] /\ c2 = h2.ent[n - 1] /\ p2 \in Seq(Cell(N)) /\ c2 \in Seq(Cell(N))
  BY <1>4, <1>6 DEF ChainPrefixes, HashT
<1>11. f1[n] = p1 \o c1 /\ f2[n] = p2 \o c2
  BY <1>8, <1>9, <1>10 DEF ChainPrefixes
<1>12. Len(p1 \o c1) = Len(p1) + Len(c1) /\ Len(p2 \o c2) = Len(p2) + Len(c2)
  BY <1>9, <1>10, ConcatProperties
<1>13. Len(p1) \in Nat /\ Len(c1) \in Nat /\ Len(p2) \in Nat /\ Len(c2) \in Nat
  BY <1>9, <1>10, LenProperties
<1>14. Len(p2) = Len(p1) + (IF c < n - 1 THEN d ELSE 0)
  BY <1>7, <1>9, <1>10
<1>15. Len(c2) = Len(c1) + (IF c = n - 1 THEN d ELSE 0)
  <2>1. CASE c = n - 1
    BY <2>1, <1>9, <1>10 DEF Longer
  <2>2. CASE c # n - 1
    BY <2>2, <1>4, <1>9, <1>10, <1>13 DEF Longer
  <2> QED
    BY <2>1, <2>2
<1>16. Len(p2) + Len(c2) = (Len(p1) + Len(c1)) + (IF c < n THEN d ELSE 0)
  <2> DEFINE a1 == Len(p1)
  <2> DEFINE a2 == Len(p2)
  <2> DEFINE b1 == Len(c1)
  <2> DEFINE b2 == Len(c2)
  <2>1. /\ a2 = a1 + (IF c < n - 1 THEN d ELSE 0)
        /\ b2 = b1 + (IF c = n - 1 THEN d ELSE 0)
        /\ a1 \in Nat /\ b1 \in Nat
    BY <1>13, <1>14, <1>15
  <2> HIDE DEF a1, a2, b1, b2
  <2>2. a2 + b2 = (a1 + b1) + (IF c < n THEN d ELSE 0)
    BY <2>1, <1>4
  <2> QED
    BY <2>2 DEF a1, a2, b1, b2
<1>17. Same(n)
  BY <1>11, <1>12, <1>16
<1> HIDE DEF Same
<1> QED
  BY <1>3, <1>17

(* The count of a table is the number of its entries. *)
Counted(h) == Len(Traverse(h)) = h.elmnbr

(* The count stays right if it follows the length of the chain that changes. *)
LEMMA CountFollows ==
  ASSUME NEW N, NEW h1 \in HashT(N), NEW h2 \in HashT(N), NEW c \in Index, NEW d \in Int,
         Longer(h1, h2, c, d),
         h2.elmnbr = h1.elmnbr + d, Counted(h1)
  PROVE  Counted(h2)
<1>1. PICK f1 : ChainPrefixes(N, h1, f1)
  BY PrefixesExist
<1>2. PICK f2 : ChainPrefixes(N, h2, f2)
  BY PrefixesExist
<1>3. Size \in 1 .. Size /\ c < Size
  BY HashAssumption DEF Index
<1>4. LongerPrefixes(f1, f2, c, d)
  BY <1>1, <1>2, PrefixLengths
<1>5. Traverse(h1) = f1[Size] /\ Traverse(h2) = f2[Size]
  BY <1>1, <1>2 DEF ChainPrefixes
<1> QED
  BY <1>3, <1>4, <1>5 DEF Counted, LongerPrefixes

(* A table without entries is counted right, and the other way round: nothing
   is in a table whose count is zero. *)
LEMMA CountZero ==
  ASSUME NEW N, NEW h \in HashT(N), Counted(h)
  PROVE  /\ h.elmnbr \in Nat
         /\ h.elmnbr = 0 => \A b \in Index : Len(h.ent[b]) = 0
<1>1. Traverse(h) \in Seq(Cell(N))
  BY TraverseType
<1>2. Len(Traverse(h)) \in Nat
  BY <1>1, LenProperties
<1>3. MetAll(h, Traverse(h), Size)
  BY TraverseEntries
<1>4. ASSUME h.elmnbr = 0, NEW b \in Index
      PROVE  Len(h.ent[b]) = 0
  <2>1. 1 .. Len(Traverse(h)) = {}
    BY <1>4 DEF Counted
  <2>2. h.ent[b] \in Seq(Cell(N))
    BY DEF HashT
  <2>3. Len(h.ent[b]) \in Nat
    BY <2>2, LenProperties
  <2>4. ~ \E m \in 1 .. Len(h.ent[b]) : TRUE
    BY <1>3, <2>1 DEF MetAll, Index
  <2>5. Len(h.ent[b]) # 0 => 1 \in 1 .. Len(h.ent[b])
    BY <2>3
  <2> QED
    BY <2>4, <2>5
<1> QED
  BY <1>2, <1>4 DEF Counted

(* hash_init makes a table that is counted right. *)
LEMMA InitCounted ==
  ASSUME NEW N, NEW type \in Types \union {UNKNOW}
  PROVE  hash_init(type) \in HashT(N) /\ Counted(hash_init(type))
<1> DEFINE h == hash_init(type)
<1>1. [i \in Index |-> <<>>] \in [Index -> Seq(Cell(N))]
  <2>1. <<>> \in Seq(Cell(N))
    BY EmptySeq
  <2> QED
    BY <2>1
<1>2. h \in HashT(N)
  BY <1>1 DEF HashT, hash_init
<1>3. h.elmnbr = 0 /\ \A b \in Index : h.ent[b] = <<>>
  BY DEF hash_init
<1> HIDE DEF h
<1>4. Len(Traverse(h)) \in Nat
  BY <1>2, TraverseType, LenProperties
<1>5. ~ \E j \in 1 .. Len(Traverse(h)) : TRUE
  <2>1. MetOnly(h, Traverse(h))
    BY <1>2, TraverseEntries
  <2>2. \A b \in Index : 1 .. Len(h.ent[b]) = {}
    BY <1>3
  <2> QED
    BY <2>1, <2>2 DEF MetOnly
<1>6. Len(Traverse(h)) # 0 => 1 \in 1 .. Len(Traverse(h))
  BY <1>4
<1>7. Counted(h)
  BY <1>3, <1>5, <1>6 DEF Counted
<1> QED
  BY <1>2, <1>7 DEF h

-----------------------------------------------------------------------------
(* Changing one chain. *)

(* Position i is that of an entry of c for key k, or 0 if there is none. *)
Finds(c, k, i) == /\ i \in 0 .. Len(c)
                  /\ i # 0 => c[i].key = k
                  /\ i = 0 => \A j \in 1 .. Len(c) : c[j].key # k

(* hash_get_ent looks in the chain of the key, and finds it if it is there. *)
LEMMA GetEntFinds ==
  ASSUME NEW N, NEW h \in HashT(N), NEW k \in Keys
  PROVE  /\ hash_get_head(k) \in Index
         /\ h.ent[hash_get_head(k)] \in Seq(Cell(N))
         /\ Finds(h.ent[hash_get_head(k)], k, hash_get_ent(h, k))
<1>1. hash_get_head(k) \in Index
  <2>1. HashOf[k] \in Nat /\ Size \in Nat \ {0}
    BY HashAssumption
  <2>2. HashOf[k] % Size \in 0 .. Size - 1
    BY <2>1
  <2> QED
    BY <2>2 DEF hash_get_head, Index
<1>2. h.ent[hash_get_head(k)] \in Seq(Cell(N))
  BY <1>1 DEF HashT
<1> DEFINE c == h.ent[hash_get_head(k)]
<1> DEFINE I == {i \in 1 .. Len(c) : c[i].key = k}
<1>3. hash_get_ent(h, k) = IF I # {} THEN Min(I) ELSE 0
  BY DEF hash_get_ent, SelectInSeq
<1>4. Len(c) \in Nat
  BY <1>2, LenProperties
<1>5. CASE I = {}
  <2>1. hash_get_ent(h, k) = 0 /\ \A j \in 1 .. Len(c) : c[j].key # k
    BY <1>3, <1>5
  <2>2. Finds(c, k, 0)
    BY <2>1, <1>4 DEF Finds
  <2> QED
    BY <2>1, <2>2, <1>1, <1>2
<1>6. CASE I # {}
  <2>1. \E m \in I : \A n \in I : m <= n
    <3>1. I \subseteq Nat
      OBVIOUS
    <3> HIDE DEF I
    <3> QED
      BY <3>1, <1>6, LeastNat
  <2>2. Min(I) \in I
    <3> HIDE DEF I
    <3> QED
      BY <2>1 DEF Min
  <2>3. Min(I) \in 1 .. Len(c) /\ c[Min(I)].key = k
    BY <2>2
  <2> HIDE DEF I, c
  <2>4. hash_get_ent(h, k) \in 1 .. Len(c) /\ c[hash_get_ent(h, k)].key = k
    BY <1>3, <1>6, <2>3
  <2>5. hash_get_ent(h, k) \in 0 .. Len(c) /\ hash_get_ent(h, k) # 0
    BY <2>4, <1>4
  <2>6. Finds(c, k, hash_get_ent(h, k))
    BY <2>4, <2>5 DEF Finds
  <2> QED
    BY <2>6, <1>1, <1>2 DEF c
<1> QED
  BY <1>1, <1>2, <1>5, <1>6

(* Chain c2 is chain c with the data of entry i set to d. *)
Rewritten(c, c2, i, d) ==
    /\ Len(c2) = Len(c)
    /\ \A j \in 1 .. Len(c) : /\ c2[j].key = c[j].key
                              /\ c2[j].data = IF j = i THEN d ELSE c[j].data

(* Chain c2 is chain c with entry e at its end. *)
Extended(c, c2, e) == /\ Len(c2) = Len(c) + 1
                      /\ \A j \in 1 .. Len(c) : c2[j] = c[j]
                      /\ c2[Len(c) + 1] = e

(* Chain c2 is chain c without entry i. *)
Shortened(c, c2, i) == /\ Len(c2) = Len(c) - 1
                       /\ \A j \in 1 .. Len(c) - 1 : c2[j] = c[IF j < i THEN j ELSE j + 1]

(* Overwriting the data of a key that has an entry. *)
LEMMA OverwriteIs ==
  ASSUME NEW N, NEW h \in HashT(N), NEW k \in Keys, NEW d \in Data \union {NULL},
         hash_get_ent(h, k) # 0, NEW h2, h2 = Overwrite(h, k, d)
  PROVE  /\ h2 \in HashT(N) /\ h2.elmnbr = h.elmnbr
         /\ Longer(h, h2, hash_get_head(k), 0)
         /\ Rewritten(h.ent[hash_get_head(k)], h2.ent[hash_get_head(k)], hash_get_ent(h, k), d)
<1>1. PICK b : b = hash_get_head(k)
  OBVIOUS
<1>2. PICK i : i = hash_get_ent(h, k)
  OBVIOUS
<1>3. PICK c : c = h.ent[b]
  OBVIOUS
<1>4. b \in Index /\ c \in Seq(Cell(N)) /\ Len(c) \in Nat /\ i \in 1 .. Len(c)
  BY <1>1, <1>2, <1>3, GetEntFinds, LenProperties DEF Finds
<1>5. c[i] \in Cell(N)
  BY <1>4, ElementOfSeq
<1> DEFINE e == [c[i] EXCEPT !.data = d]
<1>6. e \in Cell(N) /\ e.key = c[i].key /\ e.data = d
  BY <1>5 DEF Cell
<1> HIDE DEF e
<1> DEFINE c2 == [c EXCEPT ![i] = e]
<1>7. /\ c2 \in Seq(Cell(N))
      /\ Len(c2) = Len(c)
      /\ \A j \in 1 .. Len(c) : c2[j] = IF j = i THEN e ELSE c[j]
  BY <1>4, <1>6, ExceptSeq
<1>8. h2 = [h EXCEPT !.ent = [h.ent EXCEPT ![b] = c2]]
  BY <1>1, <1>2, <1>3 DEF Overwrite, e
<1> HIDE DEF c2
<1>9. h.ent \in [Index -> Seq(Cell(N))]
  BY DEF HashT
<1>10. [h.ent EXCEPT ![b] = c2] \in [Index -> Seq(Cell(N))]
  BY <1>7, <1>9
<1>11. h2 \in HashT(N) /\ h2.elmnbr = h.elmnbr
  BY <1>8, <1>10 DEF HashT
<1>12. h2.ent = [h.ent EXCEPT ![b] = c2]
  BY <1>8 DEF HashT
<1>13. h2.ent[b] = c2 /\ \A j \in Index \ {b} : h2.ent[j] = h.ent[j]
  BY <1>4, <1>9, <1>12
<1>14. Longer(h, h2, b, 0)
  BY <1>3, <1>4, <1>7, <1>13 DEF Longer
<1>15. Rewritten(c, c2, i, d)
  BY <1>6, <1>7 DEF Rewritten
<1> QED
  BY <1>1, <1>2, <1>3, <1>11, <1>13, <1>14, <1>15

(* Setting the chains and the count of a hash_t. *)
WithChains(h, x, n) == [h EXCEPT !.ent = x, !.elmnbr = n]

(* The result is a hash_t. *)
LEMMA TwoFields ==
  ASSUME NEW N, NEW h \in HashT(N), NEW x \in [Index -> Seq(Cell(N))], NEW n \in Int
  PROVE  /\ WithChains(h, x, n) \in HashT(N)
         /\ WithChains(h, x, n).ent = x
         /\ WithChains(h, x, n).elmnbr = n
<1> DEFINE h2 == [h EXCEPT !.ent = x, !.elmnbr = n]
<1> DEFINE X == [Index -> Seq(Cell(N))]
<1>1. h \in [ent : X, elmnbr : Int, type : Types \union {UNKNOW}] /\ x \in X
  BY DEF HashT
<1> HIDE DEF X
<1>2. [h EXCEPT !.ent = x] \in [ent : X, elmnbr : Int, type : Types \union {UNKNOW}]
  BY <1>1
<1>3. h2 \in [ent : X, elmnbr : Int, type : Types \union {UNKNOW}]
  BY <1>1, <1>2
<1>4. h2.ent = x /\ h2.elmnbr = n
  BY <1>1
<1> QED
  BY <1>3, <1>4 DEF HashT, X, WithChains

(* Appending an entry to the chain of its key. *)
LEMMA AppendEntryIs ==
  ASSUME NEW N, NEW h \in HashT(N), NEW e \in Cell(N), NEW h2, h2 = AppendEntry(h, e)
  PROVE  /\ h2 \in HashT(N) /\ h2.elmnbr = h.elmnbr + 1
         /\ Longer(h, h2, hash_get_head(e.key), 1)
         /\ Extended(h.ent[hash_get_head(e.key)], h2.ent[hash_get_head(e.key)], e)
<1>1. PICK b : b = hash_get_head(e.key)
  OBVIOUS
<1>2. PICK c : c = h.ent[b]
  OBVIOUS
<1>3. e.key \in Keys
  BY DEF Cell
<1>4. b \in Index /\ c \in Seq(Cell(N)) /\ Len(c) \in Nat
  BY <1>1, <1>2, <1>3, GetEntFinds, LenProperties
<1> DEFINE c2 == Append(c, e)
<1>5. /\ c2 \in Seq(Cell(N))
      /\ Len(c2) = Len(c) + 1
      /\ \A j \in 1 .. Len(c) : c2[j] = c[j]
      /\ c2[Len(c) + 1] = e
  BY <1>4, AppendProperties
<1>6. h2 = [h EXCEPT !.ent = [h.ent EXCEPT ![b] = c2], !.elmnbr = h.elmnbr + 1]
  BY <1>1, <1>2 DEF AppendEntry
<1> HIDE DEF c2
<1>7. h.ent \in [Index -> Seq(Cell(N))]
  BY DEF HashT
<1>8. [h.ent EXCEPT ![b] = c2] \in [Index -> Seq(Cell(N))]
  BY <1>5, <1>7
<1>9. h.elmnbr + 1 \in Int /\ h.type \in Types \union {UNKNOW}
  BY DEF HashT
<1>10. /\ h2 \in HashT(N) /\ h2.elmnbr = h.elmnbr + 1
       /\ h2.ent = [h.ent EXCEPT ![b] = c2]
  <2>1. PICK x, n : x = [h.ent EXCEPT ![b] = c2] /\ n = h.elmnbr + 1
    OBVIOUS
  <2>2. x \in [Index -> Seq(Cell(N))] /\ n \in Int /\ h2 = WithChains(h, x, n)
    BY <2>1, <1>6, <1>8, <1>9 DEF WithChains
  <2>3. h2 \in HashT(N) /\ h2.ent = x /\ h2.elmnbr = n
    BY <2>2, TwoFields
  <2> QED
    BY <2>1, <2>3
<1>11. h2.ent[b] = c2 /\ \A j \in Index \ {b} : h2.ent[j] = h.ent[j]
  BY <1>4, <1>7, <1>10
<1>12. Longer(h, h2, b, 1)
  BY <1>2, <1>4, <1>5, <1>11 DEF Longer
<1>13. Extended(c, c2, e)
  BY <1>5 DEF Extended
<1> QED
  BY <1>1, <1>2, <1>10, <1>11, <1>12, <1>13

(* hash_del of a key that has an entry. *)
LEMMA DelIs ==
  ASSUME NEW N, NEW h \in HashT(N), NEW k \in Keys, hash_get_ent(h, k) # 0,
         NEW h2, h2 = hash_del(h, k)
  PROVE  /\ h2 \in HashT(N) /\ h2.elmnbr = h.elmnbr + (-1)
         /\ Longer(h, h2, hash_get_head(k), -1)
         /\ Shortened(h.ent[hash_get_head(k)], h2.ent[hash_get_head(k)], hash_get_ent(h, k))
<1>1. PICK b : b = hash_get_head(k)
  OBVIOUS
<1>2. PICK i : i = hash_get_ent(h, k)
  OBVIOUS
<1>3. PICK c : c = h.ent[b]
  OBVIOUS
<1>4. b \in Index /\ c \in Seq(Cell(N)) /\ Len(c) \in Nat /\ i \in 1 .. Len(c) /\ i # 0
  BY <1>1, <1>2, <1>3, GetEntFinds, LenProperties DEF Finds
<1> DEFINE c2 == RemoveAt(c, i)
<1>5. /\ c2 \in Seq(Cell(N))
      /\ Len(c2) = Len(c) - 1
      /\ \A j \in 1 .. Len(c) - 1 : c2[j] = c[IF j < i THEN j ELSE j + 1]
  BY <1>4, RemoveAtIs
<1>6. h2 = [h EXCEPT !.ent = [h.ent EXCEPT ![b] = c2], !.elmnbr = h.elmnbr - 1]
  BY <1>1, <1>2, <1>3, <1>4 DEF hash_del
<1> HIDE DEF c2
<1>7. h.ent \in [Index -> Seq(Cell(N))] /\ h.elmnbr \in Int
  BY DEF HashT
<1>8. [h.ent EXCEPT ![b] = c2] \in [Index -> Seq(Cell(N))]
  BY <1>5, <1>7
<1>9. h.elmnbr - 1 \in Int /\ h.elmnbr + (-1) = h.elmnbr - 1
  BY <1>7
<1>10. /\ h2 \in HashT(N) /\ h2.elmnbr = h.elmnbr - 1
       /\ h2.ent = [h.ent EXCEPT ![b] = c2]
  <2>1. PICK x, n : x = [h.ent EXCEPT ![b] = c2] /\ n = h.elmnbr - 1
    OBVIOUS
  <2>2. x \in [Index -> Seq(Cell(N))] /\ n \in Int /\ h2 = WithChains(h, x, n)
    BY <2>1, <1>6, <1>8, <1>9 DEF WithChains
  <2>3. h2 \in HashT(N) /\ h2.ent = x /\ h2.elmnbr = n
    BY <2>2, TwoFields
  <2> QED
    BY <2>1, <2>3
<1>11. h2.ent[b] = c2 /\ \A j \in Index \ {b} : h2.ent[j] = h.ent[j]
  BY <1>4, <1>7, <1>10
<1>12. Longer(h, h2, b, -1)
  BY <1>3, <1>4, <1>5, <1>11 DEF Longer
<1>13. Shortened(c, c2, i)
  BY <1>5 DEF Shortened
<1> QED
  BY <1>1, <1>2, <1>3, <1>9, <1>10, <1>11, <1>12, <1>13

-----------------------------------------------------------------------------
(* What hash_get answers, one chain at a time. *)

(* Chain c, at index b of the array, holds keys that belong there, each of
   them once, and no null data. *)
SaneChain(c, b) ==
    \A m \in 1 .. Len(c) : /\ hash_get_head(c[m].key) = b
                           /\ c[m].data # NULL
                           /\ \A n \in 1 .. Len(c) : c[n].key = c[m].key => n = m

Sane(h) == \A b \in Index : SaneChain(h.ent[b], b)

(* Looking for k in chain c gives d. *)
Answers(c, k, d) == \/ \E m \in 1 .. Len(c) : c[m].key = k /\ c[m].data = d
                    \/ (\A m \in 1 .. Len(c) : c[m].key # k) /\ d = NULL

(* hash_get gives the only answer of the chain of the key. *)
LEMMA GetAnswers ==
  ASSUME NEW N, NEW h \in HashT(N), Sane(h), NEW k \in Keys
  PROVE  /\ Answers(h.ent[hash_get_head(k)], k, hash_get(h, k))
         /\ \A d : Answers(h.ent[hash_get_head(k)], k, d) => d = hash_get(h, k)
         /\ hash_get(h, k) = NULL <=> hash_get_ent(h, k) = 0
<1>1. PICK b : b = hash_get_head(k)
  OBVIOUS
<1>2. PICK i : i = hash_get_ent(h, k)
  OBVIOUS
<1>3. PICK c : c = h.ent[b]
  OBVIOUS
<1>4. b \in Index /\ c \in Seq(Cell(N)) /\ Finds(c, k, i) /\ Len(c) \in Nat
  BY <1>1, <1>2, <1>3, GetEntFinds, LenProperties
<1>5. SaneChain(c, b)
  BY <1>3, <1>4 DEF Sane
<1>6. hash_get(h, k) = IF i = 0 THEN NULL ELSE c[i].data
  BY <1>1, <1>2, <1>3 DEF hash_get
<1>7. CASE i = 0
  <2>1. \A m \in 1 .. Len(c) : c[m].key # k
    BY <1>4, <1>7 DEF Finds
  <2> QED
    BY <1>1, <1>2, <1>3, <1>6, <1>7, <2>1 DEF Answers
<1>8. CASE i # 0
  <2>1. i \in 1 .. Len(c) /\ c[i].key = k
    BY <1>4, <1>8 DEF Finds
  <2>2. c[i].data # NULL /\ \A n \in 1 .. Len(c) : c[n].key = k => n = i
    BY <1>5, <2>1 DEF SaneChain
  <2> QED
    BY <1>1, <1>2, <1>3, <1>6, <1>8, <2>1, <2>2 DEF Answers
<1> QED
  BY <1>7, <1>8

(* Overwriting an entry of a sane chain. *)
LEMMA RewrittenChain ==
  ASSUME NEW c, NEW b, SaneChain(c, b), NEW c2, NEW i, NEW d, d # NULL,
         Rewritten(c, c2, i, d), NEW k, i # 0, Finds(c, k, i)
  PROVE  /\ SaneChain(c2, b)
         /\ Answers(c2, k, d)
         /\ \A k2, d2 : k2 # k /\ Answers(c, k2, d2) => Answers(c2, k2, d2)
<1> DEFINE D == 1 .. Len(c)
<1>1. /\ \A j \in D : /\ c2[j].key = c[j].key
                      /\ c2[j].data = IF j = i THEN d ELSE c[j].data
      /\ 1 .. Len(c2) = D
  BY DEF Rewritten
<1>2. i \in D /\ c[i].key = k
  <2>1. i \in 0 .. Len(c) /\ c[i].key = k
    BY DEF Finds
  <2> QED
    BY <2>1
<1>3. \A m \in D : /\ hash_get_head(c[m].key) = b
                   /\ c[m].data # NULL
                   /\ \A n \in D : c[n].key = c[m].key => n = m
  BY DEF SaneChain
<1> HIDE DEF D
<1>4. SaneChain(c2, b)
  BY <1>1, <1>3 DEF SaneChain
<1>5. Answers(c2, k, d)
  BY <1>1, <1>2 DEF Answers
<1>6. ASSUME NEW k2, NEW d2, k2 # k, Answers(c, k2, d2)
      PROVE  Answers(c2, k2, d2)
  <2>1. \/ \E m \in D : c[m].key = k2 /\ c[m].data = d2
        \/ (\A m \in D : c[m].key # k2) /\ d2 = NULL
    BY <1>6 DEF Answers, D
  <2> QED
    BY <1>1, <1>2, <1>6, <2>1 DEF Answers
<1> QED
  BY <1>4, <1>5, <1>6

(* Appending an entry for a key that is not in a sane chain. *)
LEMMA ExtendedChain ==
  ASSUME NEW c, NEW b, SaneChain(c, b), Len(c) \in Nat, NEW c2, NEW e, Extended(c, c2, e),
         hash_get_head(e.key) = b, e.data # NULL, Finds(c, e.key, 0)
  PROVE  /\ SaneChain(c2, b)
         /\ Answers(c2, e.key, e.data)
         /\ \A k2, d2 : k2 # e.key /\ Answers(c, k2, d2) => Answers(c2, k2, d2)
<1> DEFINE D == 1 .. Len(c)
<1>1. PICK z : z = Len(c) + 1
  OBVIOUS
<1>2. /\ \A j \in D : c2[j] = c[j]
      /\ 1 .. Len(c2) = D \union {z} /\ z \notin D
      /\ c2[z] = e
  <2>1. Len(c2) = Len(c) + 1 /\ c2[Len(c) + 1] = e /\ \A j \in 1 .. Len(c) : c2[j] = c[j]
    BY DEF Extended
  <2> QED
    BY <1>1, <2>1
<1>3. \A m \in D : /\ hash_get_head(c[m].key) = b
                   /\ c[m].data # NULL
                   /\ \A n \in D : c[n].key = c[m].key => n = m
  BY DEF SaneChain
<1>4. \A m \in D : c[m].key # e.key
  BY DEF Finds
<1> HIDE DEF D
<1>5. SaneChain(c2, b)
  <2> SUFFICES ASSUME NEW m \in D \union {z}
               PROVE  /\ hash_get_head(c2[m].key) = b
                      /\ c2[m].data # NULL
                      /\ \A n \in D \union {z} : c2[n].key = c2[m].key => n = m
    BY <1>2 DEF SaneChain
  <2>1. CASE m \in D
    BY <2>1, <1>2, <1>3, <1>4
  <2>2. CASE m = z
    BY <2>2, <1>2, <1>4
  <2> QED
    BY <2>1, <2>2
<1>6. Answers(c2, e.key, e.data)
  BY <1>2 DEF Answers
<1>7. ASSUME NEW k2, NEW d2, k2 # e.key, Answers(c, k2, d2)
      PROVE  Answers(c2, k2, d2)
  <2>1. \/ \E m \in D : c[m].key = k2 /\ c[m].data = d2
        \/ (\A m \in D : c[m].key # k2) /\ d2 = NULL
    BY <1>7 DEF Answers, D
  <2> QED
    BY <1>2, <1>7, <2>1 DEF Answers
<1> QED
  BY <1>5, <1>6, <1>7

(* Removing an entry of a sane chain. *)
LEMMA ShortenedChain ==
  ASSUME NEW c, NEW b, SaneChain(c, b), Len(c) \in Nat, NEW c2, NEW i, Shortened(c, c2, i),
         NEW k, i # 0, Finds(c, k, i)
  PROVE  /\ SaneChain(c2, b)
         /\ Answers(c2, k, NULL)
         /\ \A k2, d2 : k2 # k /\ Answers(c, k2, d2) => Answers(c2, k2, d2)
<1> DEFINE D == 1 .. Len(c)
<1> DEFINE D2 == 1 .. Len(c) - 1
<1> DEFINE At(j) == IF j < i THEN j ELSE j + 1
<1>1. i \in D /\ c[i].key = k
  <2>1. i \in 0 .. Len(c) /\ c[i].key = k
    BY DEF Finds
  <2> QED
    BY <2>1
<1>2. (\A j \in D2 : c2[j] = c[At(j)]) /\ 1 .. Len(c2) = D2
  BY DEF Shortened
<1>3. /\ \A j \in D2 : At(j) \in D \ {i}
      /\ \A j1, j2 \in D2 : At(j1) = At(j2) => j1 = j2
  BY <1>1
<1>4. \A m \in D \ {i} : \E j \in D2 : At(j) = m
  <2> SUFFICES ASSUME NEW m \in D \ {i}
               PROVE  \E j \in D2 : At(j) = m
    OBVIOUS
  <2>1. CASE m < i
    <3>1. m \in D2 /\ At(m) = m
      BY <2>1, <1>1
    <3> QED
      BY <3>1
  <2>2. CASE ~ (m < i)
    <3>1. m - 1 \in D2 /\ At(m - 1) = m
      BY <2>2, <1>1
    <3> QED
      BY <3>1
  <2> QED
    BY <2>1, <2>2
<1>5. \A m \in D : /\ hash_get_head(c[m].key) = b
                   /\ c[m].data # NULL
                   /\ \A n \in D : c[n].key = c[m].key => n = m
  BY DEF SaneChain
<1>6. (\A j \in D2 : c2[j] = c[At(j)]) /\ 1 .. Len(c2) = D2
  BY <1>2
<1> HIDE DEF D, D2, At
<1>7. SaneChain(c2, b)
  BY <1>3, <1>5, <1>6 DEF SaneChain
<1>8. Answers(c2, k, NULL)
  <2>1. \A j \in D2 : c2[j].key # k
    BY <1>1, <1>3, <1>5, <1>6
  <2> QED
    BY <2>1, <1>6 DEF Answers
<1>9. ASSUME NEW k2, NEW d2, k2 # k, Answers(c, k2, d2)
      PROVE  Answers(c2, k2, d2)
  <2>1. \/ \E m \in D : c[m].key = k2 /\ c[m].data = d2
        \/ (\A m \in D : c[m].key # k2) /\ d2 = NULL
    BY <1>9 DEF Answers, D
  <2>2. CASE \E m \in D : c[m].key = k2 /\ c[m].data = d2
    <3>1. PICK m \in D : c[m].key = k2 /\ c[m].data = d2
      BY <2>2
    <3>2. PICK j \in D2 : At(j) = m
      BY <3>1, <1>1, <1>4, <1>9
    <3> QED
      BY <3>1, <3>2, <1>6 DEF Answers
  <2>3. CASE (\A m \in D : c[m].key # k2) /\ d2 = NULL
    BY <2>3, <1>3, <1>6 DEF Answers
  <2> QED
    BY <2>1, <2>2, <2>3
<1> QED
  BY <1>7, <1>8, <1>9

-----------------------------------------------------------------------------
(* hash_add, hash_set and hash_del. *)

(* A hash_t with a right count. *)
Well(N, h) == h \in HashT(N) /\ Counted(h)

(* hash_get answers d for k in h2, and what it answered in h for other keys. *)
Stores(h, h2, k, d) ==
    \A k2 \in Keys : hash_get(h2, k2) = IF k2 = k THEN d ELSE hash_get(h, k2)

(* What a chain answers for the other keys carries over to the table. *)
LEMMA OneChain ==
  ASSUME NEW N, NEW h \in HashT(N), NEW h2 \in HashT(N), Sane(h), NEW k \in Keys, NEW n,
         Longer(h, h2, hash_get_head(k), n), NEW d,
         SaneChain(h2.ent[hash_get_head(k)], hash_get_head(k)),
         Answers(h2.ent[hash_get_head(k)], k, d),
         \A k2, d2 : k2 # k /\ Answers(h.ent[hash_get_head(k)], k2, d2)
                        => Answers(h2.ent[hash_get_head(k)], k2, d2)
  PROVE  Sane(h2) /\ Stores(h, h2, k, d)
<1>1. Sane(h2)
  BY DEF Sane, Longer
<1>2. ASSUME NEW k2 \in Keys
      PROVE  hash_get(h2, k2) = IF k2 = k THEN d ELSE hash_get(h, k2)
  <2>1. PICK b : b = hash_get_head(k2)
    OBVIOUS
  <2>2. b \in Index
    BY <2>1, GetEntFinds
  <2>3. Answers(h.ent[b], k2, hash_get(h, k2))
    BY <2>1, GetAnswers
  <2>4. \A d2 : Answers(h2.ent[b], k2, d2) => d2 = hash_get(h2, k2)
    BY <1>1, <2>1, GetAnswers
  <2>5. CASE k2 = k
    BY <2>1, <2>4, <2>5
  <2>6. CASE k2 # k
    <3>1. Answers(h2.ent[b], k2, hash_get(h, k2))
      <4>1. CASE b = hash_get_head(k)
        BY <4>1, <2>3, <2>6
      <4>2. CASE b # hash_get_head(k)
        BY <4>2, <2>2, <2>3 DEF Longer
      <4> QED
        BY <4>1, <4>2
    <3> QED
      BY <3>1, <2>4, <2>6
  <2> QED
    BY <2>5, <2>6
<1> QED
  BY <1>1, <1>2 DEF Stores

(* Overwriting keeps the type and the count. *)
LEMMA OverwriteWell ==
  ASSUME NEW N, NEW h, Well(N, h), NEW k \in Keys, NEW d \in Data \union {NULL},
         hash_get_ent(h, k) # 0
  PROVE  Well(N, Overwrite(h, k, d))
<1>1. PICK h2 : h2 = Overwrite(h, k, d)
  OBVIOUS
<1>2. h \in HashT(N) /\ Counted(h) /\ hash_get_head(k) \in Index
  BY GetEntFinds DEF Well
<1>3. h2 \in HashT(N) /\ h2.elmnbr = h.elmnbr /\ Longer(h, h2, hash_get_head(k), 0)
  BY <1>1, <1>2, OverwriteIs
<1>4. h2.elmnbr = h.elmnbr + 0 /\ 0 \in Int
  BY <1>2, <1>3 DEF HashT
<1>5. Counted(h2)
  BY <1>2, <1>3, <1>4, CountFollows
<1> QED
  BY <1>1, <1>3, <1>5 DEF Well

(* Overwriting changes the answer for its key. *)
LEMMA OverwriteStores ==
  ASSUME NEW N, NEW h \in HashT(N), Sane(h), NEW k \in Keys, NEW d \in Data \union {NULL},
         d # NULL, hash_get_ent(h, k) # 0
  PROVE  Sane(Overwrite(h, k, d)) /\ Stores(h, Overwrite(h, k, d), k, d)
<1>1. PICK h2 : h2 = Overwrite(h, k, d)
  OBVIOUS
<1>2. PICK b, i : b = hash_get_head(k) /\ i = hash_get_ent(h, k)
  OBVIOUS
<1>3. b \in Index /\ Finds(h.ent[b], k, i) /\ i # 0 /\ SaneChain(h.ent[b], b)
  BY <1>2, GetEntFinds DEF Sane
<1>4. h2 \in HashT(N) /\ Longer(h, h2, b, 0) /\ Rewritten(h.ent[b], h2.ent[b], i, d)
  BY <1>1, <1>2, OverwriteIs
<1>5. /\ SaneChain(h2.ent[b], b)
      /\ Answers(h2.ent[b], k, d)
      /\ \A k2, d2 : k2 # k /\ Answers(h.ent[b], k2, d2) => Answers(h2.ent[b], k2, d2)
  BY <1>3, <1>4, RewrittenChain
<1> QED
  BY <1>1, <1>2, <1>4, <1>5, OneChain

(* Appending an entry keeps the type and the count. *)
LEMMA AppendWell ==
  ASSUME NEW N, NEW h, Well(N, h), NEW e \in Cell(N)
  PROVE  Well(N, AppendEntry(h, e))
<1>1. PICK h2 : h2 = AppendEntry(h, e)
  OBVIOUS
<1>2. h \in HashT(N) /\ Counted(h) /\ hash_get_head(e.key) \in Index
  BY GetEntFinds DEF Well, Cell
<1>3. h2 \in HashT(N) /\ h2.elmnbr = h.elmnbr + 1 /\ Longer(h, h2, hash_get_head(e.key), 1)
  BY <1>1, <1>2, AppendEntryIs
<1>4. Counted(h2)
  BY <1>2, <1>3, CountFollows
<1> QED
  BY <1>1, <1>3, <1>4 DEF Well

(* Appending an entry for a new key gives the key its data. *)
LEMMA AppendStores ==
  ASSUME NEW N, NEW h \in HashT(N), Sane(h), NEW e \in Cell(N),
         e.data # NULL, hash_get_ent(h, e.key) = 0
  PROVE  Sane(AppendEntry(h, e)) /\ Stores(h, AppendEntry(h, e), e.key, e.data)
<1>1. PICK h2 : h2 = AppendEntry(h, e)
  OBVIOUS
<1>2. PICK b, k : k = e.key /\ b = hash_get_head(k) /\ k \in Keys
  BY DEF Cell
<1>3. /\ b \in Index /\ Finds(h.ent[b], k, 0) /\ SaneChain(h.ent[b], b)
      /\ h.ent[b] \in Seq(Cell(N))
  BY <1>2, GetEntFinds DEF Sane
<1>4. Len(h.ent[b]) \in Nat
  BY <1>3, LenProperties
<1>5. h2 \in HashT(N) /\ Longer(h, h2, b, 1) /\ Extended(h.ent[b], h2.ent[b], e)
  BY <1>1, <1>2, AppendEntryIs
<1>6. /\ SaneChain(h2.ent[b], b)
      /\ Answers(h2.ent[b], k, e.data)
      /\ \A k2, d2 : k2 # k /\ Answers(h.ent[b], k2, d2) => Answers(h2.ent[b], k2, d2)
  BY <1>2, <1>3, <1>4, <1>5, ExtendedChain
<1> QED
  BY <1>1, <1>2, <1>5, <1>6, OneChain

(* hash_del keeps the type and the count. *)
LEMMA DelWell ==
  ASSUME NEW N, NEW h, Well(N, h), NEW k \in Keys
  PROVE  Well(N, hash_del(h, k))
<1>1. PICK h2 : h2 = hash_del(h, k)
  OBVIOUS
<1>2. h \in HashT(N) /\ Counted(h) /\ hash_get_head(k) \in Index
  BY GetEntFinds DEF Well
<1>3. CASE hash_get_ent(h, k) = 0
  BY <1>3 DEF hash_del
<1>4. CASE hash_get_ent(h, k) # 0
  <2>1. h2 \in HashT(N) /\ h2.elmnbr = h.elmnbr + (-1) /\ Longer(h, h2, hash_get_head(k), -1)
    BY <1>1, <1>2, <1>4, DelIs
  <2>2. PICK d \in Int : d = -1
    OBVIOUS
  <2>3. Counted(h2)
    BY <1>2, <2>1, <2>2, CountFollows
  <2> QED
    BY <1>1, <2>1, <2>3 DEF Well
<1> QED
  BY <1>3, <1>4

(* hash_del removes the key and nothing else. *)
LEMMA DelStores ==
  ASSUME NEW N, NEW h \in HashT(N), Sane(h), NEW k \in Keys
  PROVE  Sane(hash_del(h, k)) /\ Stores(h, hash_del(h, k), k, NULL)
<1>1. PICK h2 : h2 = hash_del(h, k)
  OBVIOUS
<1>2. PICK b, i : b = hash_get_head(k) /\ i = hash_get_ent(h, k)
  OBVIOUS
<1>3. /\ b \in Index /\ Finds(h.ent[b], k, i) /\ SaneChain(h.ent[b], b)
      /\ h.ent[b] \in Seq(Cell(N))
  BY <1>2, GetEntFinds DEF Sane
<1>4. CASE i = 0
  <2>1. h2 = h
    BY <1>1, <1>2, <1>4 DEF hash_del
  <2>2. hash_get(h, k) = NULL
    BY <1>2, <1>4, GetAnswers
  <2> QED
    BY <1>1, <2>1, <2>2 DEF Stores
<1>5. CASE i # 0
  <2>1. Len(h.ent[b]) \in Nat
    BY <1>3, LenProperties
  <2>2. h2 \in HashT(N) /\ Longer(h, h2, b, -1) /\ Shortened(h.ent[b], h2.ent[b], i)
    BY <1>1, <1>2, <1>5, DelIs
  <2>3. /\ SaneChain(h2.ent[b], b)
        /\ Answers(h2.ent[b], k, NULL)
        /\ \A k2, d2 : k2 # k /\ Answers(h.ent[b], k2, d2) => Answers(h2.ent[b], k2, d2)
    BY <1>3, <1>5, <2>1, <2>2, ShortenedChain
  <2> QED
    BY <1>1, <1>2, <2>2, <2>3, OneChain
<1> QED
  BY <1>4, <1>5

(* An entry with a key and data as callers give them; if the key is new the
   string is one of N. *)
Storable(N, h, e) == /\ e.key \in Keys
                     /\ e.data \in Data \union {NULL}
                     /\ hash_get(h, e.key) = NULL => e \in Cell(N)

(* hash_add and hash_set keep the type and the count. *)
LEMMA AddWell ==
  ASSUME NEW N, NEW h, Well(N, h), NEW e, Storable(N, h, e)
  PROVE  Well(N, hash_add(h, e)) /\ Well(N, hash_set(h, e))
<1>1. hash_get(h, e.key) # NULL => hash_get_ent(h, e.key) # 0
  BY DEF hash_get
<1>2. hash_get_ent(h, e.key) # 0 => Well(N, Overwrite(h, e.key, e.data))
  BY OverwriteWell DEF Storable
<1>3. hash_get(h, e.key) = NULL => Well(N, AppendEntry(h, e))
  BY AppendWell DEF Storable
<1>4. Well(N, hash_add(h, e))
  BY <1>1, <1>2, <1>3 DEF hash_add
<1> QED
  BY <1>2, <1>4 DEF hash_set

(* They give the key the data. *)
LEMMA AddStores ==
  ASSUME NEW N, NEW h \in HashT(N), Sane(h), NEW e, Storable(N, h, e), e.data # NULL
  PROVE  /\ Sane(hash_add(h, e)) /\ Stores(h, hash_add(h, e), e.key, e.data)
         /\ Sane(hash_set(h, e)) /\ Stores(h, hash_set(h, e), e.key, e.data)
<1>1. hash_get(h, e.key) = NULL <=> hash_get_ent(h, e.key) = 0
  BY GetAnswers DEF Storable
<1>2. hash_get_ent(h, e.key) # 0 => /\ Sane(Overwrite(h, e.key, e.data))
                                    /\ Stores(h, Overwrite(h, e.key, e.data), e.key, e.data)
  BY OverwriteStores DEF Storable
<1>3. hash_get_ent(h, e.key) = 0 => /\ Sane(AppendEntry(h, e))
                                    /\ Stores(h, AppendEntry(h, e), e.key, e.data)
  BY <1>1, AppendStores DEF Storable
<1>4. Sane(hash_add(h, e)) /\ Stores(h, hash_add(h, e), e.key, e.data)
  BY <1>1, <1>2, <1>3 DEF hash_add
<1> QED
  BY <1>2, <1>4 DEF hash_set

-----------------------------------------------------------------------------
(* The loops of hash_merge, hash_inter and hash_unmerge. *)

(* What an iteration for entry e makes of h. *)
Body(op, src, h, e) ==
    CASE op = "merge"   -> (IF hash_get(h, e.key) = NULL THEN hash_add(h, e) ELSE h)
      [] op = "inter"   -> (IF hash_get(src, e.key) = NULL THEN hash_del(h, e.key) ELSE h)
      [] op = "unmerge" -> (IF hash_get(h, e.key) # NULL THEN hash_del(h, e.key) ELSE h)

(* g is the function a fold over the entries T is defined with: its argument is
   the set of the positions met. *)
Folds(g, op, src, dst, T, D) ==
    g = [s \in SUBSET D |->
           IF s = {} THEN dst ELSE Body(op, src, g[s \ {Max(s)}], T[Max(s)])]

(* The greatest position of a set that has the last one. *)
LEMMA MaxIsLast ==
  ASSUME NEW n \in Nat, NEW s \in SUBSET (1 .. n + 1), n + 1 \in s
  PROVE  Max(s) = n + 1
<1>1. \A y \in s : n + 1 >= y /\ y \in Int
  OBVIOUS
<1>2. Max(s) \in s /\ \A y \in s : Max(s) >= y
  <2>1. \E x \in s : \A y \in s : x >= y
    BY <1>1
  <2> QED
    BY <2>1 DEF Max
<1>3. PICK m : m = Max(s)
  OBVIOUS
<1>4. m >= n + 1 /\ n + 1 >= m /\ m \in Int
  BY <1>1, <1>2, <1>3
<1> QED
  BY <1>3, <1>4

(* A fold over n positions extends to n + 1. *)
LEMMA FoldsNext ==
  ASSUME NEW op, NEW src, NEW dst, NEW T, NEW n \in Nat, NEW f, Folds(f, op, src, dst, T, 1 .. n)
  PROVE  \E g : Folds(g, op, src, dst, T, 1 .. n + 1)
<1> DEFINE z == n + 1
<1> DEFINE D == 1 .. n
<1> DEFINE E == 1 .. n + 1
<1> DEFINE B(x, i) == Body(op, src, x, T[i])
<1> DEFINE g == [s \in SUBSET E |-> IF z \in s THEN B(f[s \ {z}], z) ELSE f[s]]
<1>1. E = D \union {z} /\ z \notin D
  OBVIOUS
<1>2. \A s \in SUBSET E : z \in s => Max(s) = z
  BY MaxIsLast
<1>3. \A s \in SUBSET D : f[s] = IF s = {} THEN dst ELSE B(f[s \ {Max(s)}], Max(s))
  BY DEF Folds
<1> HIDE DEF z, D, E, B
<1>4. \A s \in SUBSET E : g[s] = IF z \in s THEN B(f[s \ {z}], z) ELSE f[s]
  OBVIOUS
<1>5. g = [s \in SUBSET E |-> g[s]]
  OBVIOUS
<1> HIDE DEF g
<1>6. ASSUME NEW s \in SUBSET E
      PROVE  g[s] = IF s = {} THEN dst ELSE B(g[s \ {Max(s)}], Max(s))
  <2>1. CASE z \in s
    <3>1. s \ {z} \in SUBSET E /\ z \notin s \ {z} /\ s # {}
      BY <2>1
    <3>2. g[s \ {z}] = f[s \ {z}]
      BY <3>1, <1>4
    <3> QED
      BY <2>1, <3>1, <3>2, <1>2, <1>4
  <2>2. CASE z \notin s
    <3>1. s \in SUBSET D /\ s \ {Max(s)} \in SUBSET E /\ z \notin s \ {Max(s)}
      BY <2>2, <1>1
    <3>2. g[s] = f[s] /\ g[s \ {Max(s)}] = f[s \ {Max(s)}]
      BY <2>2, <3>1, <1>4
    <3> QED
      BY <3>1, <3>2, <1>3
  <2> QED
    BY <2>1, <2>2
<1>7. g = [s \in SUBSET E |-> IF s = {} THEN dst ELSE B(g[s \ {Max(s)}], Max(s))]
  BY <1>5, <1>6
<1>8. Folds(g, op, src, dst, T, E)
  BY <1>7 DEF Folds, B
<1> QED
  BY <1>8 DEF E

(* So there is one for every number of positions. *)
LEMMA FoldsExists ==
  ASSUME NEW op, NEW src, NEW dst, NEW T, NEW n \in Nat
  PROVE  \E g : Folds(g, op, src, dst, T, 1 .. n)
<1> DEFINE P(m) == \E g : Folds(g, op, src, dst, T, 1 .. m)
<1> DEFINE Bad == {m \in Nat : ~ P(m)}
<1>1. SUFFICES ASSUME Bad # {}
               PROVE  FALSE
  OBVIOUS
<1>2. PICK m \in Bad : \A j \in Bad : m <= j
  <2> HIDE DEF P
  <2>1. Bad \subseteq Nat
    OBVIOUS
  <2> HIDE DEF Bad
  <2> QED
    BY <2>1, <1>1, LeastNat
<1>3. m # 0
  <2>1. 1 .. 0 = {}
    OBVIOUS
  <2> DEFINE g == [s \in SUBSET {} |-> dst]
  <2>2. g = [s \in SUBSET {} |->
               IF s = {} THEN dst ELSE Body(op, src, g[s \ {Max(s)}], T[Max(s)])]
    OBVIOUS
  <2>3. Folds(g, op, src, dst, T, {})
    BY <2>2 DEF Folds
  <2>4. P(0)
    BY <2>1, <2>3
  <2> HIDE DEF P
  <2> QED
    BY <2>4
<1>4. m - 1 \in Nat /\ m - 1 \notin Bad
  <2> HIDE DEF P
  <2> QED
    BY <1>2, <1>3
<1>5. P(m - 1)
  <2> HIDE DEF P
  <2> QED
    BY <1>4
<1>6. P((m - 1) + 1)
  BY <1>4, <1>5, FoldsNext
<1>7. (m - 1) + 1 = m
  BY <1>2
<1> HIDE DEF P
<1> QED
  BY <1>2, <1>6, <1>7

(* The states of dst during a loop over the entries T: run[n] is the one after
   n iterations. *)
Loop(run, op, src, dst, T, n) ==
    /\ run[0] = dst
    /\ \A i \in 1 .. n : run[i] = Body(op, src, run[i - 1], T[i])

(* A fold over positions is a loop. *)
LEMMA FoldIsLoop ==
  ASSUME NEW op, NEW src, NEW dst, NEW T, NEW n \in Nat, NEW g,
         Folds(g, op, src, dst, T, 1 .. n)
  PROVE  \E run : Loop(run, op, src, dst, T, n) /\ g[1 .. n] = run[n]
<1> DEFINE run == [i \in 0 .. n |-> g[1 .. i]]
<1>1. run[0] = dst
  <2>1. 1 .. 0 = {} /\ 0 \in 0 .. n /\ {} \in SUBSET (1 .. n)
    OBVIOUS
  <2> QED
    BY <2>1 DEF Folds
<1>2. ASSUME NEW i \in 1 .. n
      PROVE  run[i] = Body(op, src, run[i - 1], T[i])
  <2>1. /\ i \in 0 .. n /\ i - 1 \in 0 .. n /\ i - 1 \in Nat /\ (i - 1) + 1 = i
        /\ 1 .. i \in SUBSET (1 .. n) /\ i \in 1 .. i /\ (1 .. i) \ {i} = 1 .. i - 1
    OBVIOUS
  <2>2. 1 .. i \in SUBSET (1 .. (i - 1) + 1) /\ (i - 1) + 1 \in 1 .. i
    BY <2>1
  <2>3. Max(1 .. i) = (i - 1) + 1
    BY <2>1, <2>2, MaxIsLast
  <2>4. Max(1 .. i) = i /\ 1 .. i # {}
    BY <2>1, <2>3
  <2>5. \A s \in SUBSET (1 .. n) :
           g[s] = IF s = {} THEN dst ELSE Body(op, src, g[s \ {Max(s)}], T[Max(s)])
    BY DEF Folds
  <2>6. g[1 .. i] = Body(op, src, g[1 .. i - 1], T[i])
    BY <2>1, <2>4, <2>5
  <2>7. run[i] = g[1 .. i] /\ run[i - 1] = g[1 .. i - 1]
    BY <2>1
  <2> QED
    BY <2>6, <2>7
<1>3. run[n] = g[1 .. n]
  OBVIOUS
<1>4. Loop(run, op, src, dst, T, n)
  BY <1>1, <1>2 DEF Loop
<1> QED
  BY <1>3, <1>4

(* The loop op over the entries T turns dst into res. *)
Runs(op, src, dst, T, res) ==
    \E run : Loop(run, op, src, dst, T, Len(T)) /\ res = run[Len(T)]

(* A value defined as a fold is the result of a loop. *)
LEMMA FoldRuns ==
  ASSUME NEW op, NEW src, NEW dst, NEW S, NEW T \in Seq(S), NEW res,
         res = (CHOOSE g : Folds(g, op, src, dst, T, DOMAIN T))[DOMAIN T]
  PROVE  Runs(op, src, dst, T, res)
<1>1. Len(T) \in Nat /\ DOMAIN T = 1 .. Len(T)
  BY LenProperties
<1>2. PICK n : n = Len(T)
  OBVIOUS
<1>3. \E g : Folds(g, op, src, dst, T, 1 .. n)
  BY <1>1, <1>2, FoldsExists
<1>4. PICK g : Folds(g, op, src, dst, T, 1 .. n) /\ res = g[1 .. n]
  BY <1>1, <1>2, <1>3
<1>5. \E run : Loop(run, op, src, dst, T, n) /\ g[1 .. n] = run[n]
  BY <1>1, <1>2, <1>4, FoldIsLoop
<1> QED
  BY <1>2, <1>4, <1>5 DEF Runs

(* hash_merge is a loop over the entries of src. *)
LEMMA MergeRuns ==
  ASSUME NEW N, NEW src \in HashT(N), NEW dst, src.elmnbr # 0
  PROVE  Runs("merge", src, dst, Traverse(src), hash_merge(dst, src))
<1>1. PICK T : T = Traverse(src)
  OBVIOUS
<1>2. T \in Seq(Cell(N))
  BY <1>1, TraverseType
<1>3. hash_merge(dst, src) =
        LET iter[s \in SUBSET DOMAIN T] ==
              IF s = {} THEN dst
              ELSE LET h == iter[s \ {Max(s)}]
                       e == T[Max(s)]
                   IN  IF hash_get(h, e.key) = NULL THEN hash_add(h, e) ELSE h
        IN  iter[DOMAIN T]
  BY <1>1 DEF hash_merge, FoldLeft, MapThenFoldSet
<1>4. hash_merge(dst, src) = (CHOOSE g : Folds(g, "merge", src, dst, T, DOMAIN T))[DOMAIN T]
  BY <1>3 DEF Folds, Body
<1> QED
  BY <1>1, <1>2, <1>4, FoldRuns

(* hash_inter is a loop over the keys dst has before. *)
LEMMA InterRuns ==
  ASSUME NEW N, NEW src, NEW dst \in HashT(N), src.elmnbr # 0, dst.elmnbr # 0
  PROVE  Runs("inter", src, dst, Traverse(dst), hash_inter(dst, src))
<1>1. PICK T : T = Traverse(dst)
  OBVIOUS
<1>2. T \in Seq(Cell(N))
  BY <1>1, TraverseType
<1>3. hash_inter(dst, src) =
        LET iter[s \in SUBSET DOMAIN T] ==
              IF s = {} THEN dst
              ELSE LET h == iter[s \ {Max(s)}]
                       e == T[Max(s)]
                   IN  IF hash_get(src, e.key) = NULL THEN hash_del(h, e.key) ELSE h
        IN  iter[DOMAIN T]
  BY <1>1 DEF hash_inter, FoldLeft, MapThenFoldSet, hash_get_keys
<1>4. hash_inter(dst, src) = (CHOOSE g : Folds(g, "inter", src, dst, T, DOMAIN T))[DOMAIN T]
  BY <1>3 DEF Folds, Body
<1> QED
  BY <1>1, <1>2, <1>4, FoldRuns

(* hash_unmerge is a loop over the entries of src. *)
LEMMA UnmergeRuns ==
  ASSUME NEW N, NEW src \in HashT(N), NEW dst, src.elmnbr # 0
  PROVE  Runs("unmerge", src, dst, Traverse(src), hash_unmerge(dst, src))
<1>1. PICK T : T = Traverse(src)
  OBVIOUS
<1>2. T \in Seq(Cell(N))
  BY <1>1, TraverseType
<1>3. hash_unmerge(dst, src) =
        LET iter[s \in SUBSET DOMAIN T] ==
              IF s = {} THEN dst
              ELSE LET h == iter[s \ {Max(s)}]
                       e == T[Max(s)]
                   IN  IF hash_get(h, e.key) # NULL THEN hash_del(h, e.key) ELSE h
        IN  iter[DOMAIN T]
  BY <1>1 DEF hash_unmerge, FoldLeft, MapThenFoldSet
<1>4. hash_unmerge(dst, src) = (CHOOSE g : Folds(g, "unmerge", src, dst, T, DOMAIN T))[DOMAIN T]
  BY <1>3 DEF Folds, Body
<1> QED
  BY <1>1, <1>2, <1>4, FoldRuns

(* One iteration keeps the type and the count. *)
LEMMA BodyWell ==
  ASSUME NEW N, NEW op \in {"merge", "inter", "unmerge"}, NEW src, NEW h, Well(N, h),
         NEW e \in Cell(N)
  PROVE  Well(N, Body(op, src, h, e))
<1>1. e.key \in Keys /\ Storable(N, h, e)
  BY DEF Cell, Storable
<1>2. Well(N, hash_add(h, e)) /\ Well(N, hash_del(h, e.key))
  BY <1>1, AddWell, DelWell
<1>3. CASE op = "merge"
  BY <1>2, <1>3 DEF Body
<1>4. CASE op = "inter"
  BY <1>2, <1>4 DEF Body
<1>5. CASE op = "unmerge"
  BY <1>2, <1>5 DEF Body
<1> QED
  BY <1>3, <1>4, <1>5

(* So does the loop. *)
LEMMA LoopWell ==
  ASSUME NEW N, NEW op \in {"merge", "inter", "unmerge"}, NEW src, NEW dst, Well(N, dst),
         NEW T \in Seq(Cell(N)), NEW res, Runs(op, src, dst, T, res)
  PROVE  Well(N, res)
<1>1. PICK run : Loop(run, op, src, dst, T, Len(T)) /\ res = run[Len(T)]
  BY DEF Runs
<1>2. PICK L \in Nat : L = Len(T)
  BY LenProperties
<1> DEFINE Bad == {n \in 0 .. L : ~ Well(N, run[n])}
<1>3. SUFFICES ASSUME Bad # {}
               PROVE  FALSE
  BY <1>1, <1>2
<1>4. PICK n \in Bad : \A j \in Bad : n <= j
  <2>1. Bad \subseteq Nat
    OBVIOUS
  <2> HIDE DEF Bad
  <2> QED
    BY <2>1, <1>3, LeastNat
<1>5. n \in 0 .. L /\ ~ Well(N, run[n])
  BY <1>4
<1>6. n # 0
  BY <1>1, <1>5 DEF Loop
<1>7. n \in 1 .. L /\ n - 1 \in 0 .. L /\ n - 1 < n
  BY <1>5, <1>6
<1>8. Well(N, run[n - 1])
  BY <1>4, <1>7
<1>9. T[n] \in Cell(N)
  BY <1>2, <1>7, ElementOfSeq
<1>10. Well(N, Body(op, src, run[n - 1], T[n]))
  BY <1>8, <1>9, BodyWell
<1> QED
  BY <1>1, <1>2, <1>5, <1>7, <1>10 DEF Loop

(* What hash_get answers for k when the loop op has met the keys K. *)
After(op, src, dst, K, k) ==
    CASE op = "merge"   -> (IF hash_get(dst, k) # NULL THEN hash_get(dst, k)
                            ELSE IF k \in K THEN hash_get(src, k) ELSE NULL)
      [] op = "inter"   -> (IF k \in K /\ hash_get(src, k) = NULL THEN NULL
                            ELSE hash_get(dst, k))
      [] op = "unmerge" -> (IF k \in K THEN NULL ELSE hash_get(dst, k))

Tracks(N, op, src, dst, K, h) ==
    /\ h \in HashT(N) /\ Sane(h)
    /\ \A k \in Keys : hash_get(h, k) = After(op, src, dst, K, k)

(* The entries T are such that their data is what src holds for their keys. *)
Agrees(src, T) == \A j \in 1 .. Len(T) : T[j].data = hash_get(src, T[j].key)

(* One iteration meets one more key. *)
LEMMA BodyTracks ==
  ASSUME NEW N, NEW op \in {"merge", "inter", "unmerge"}, NEW src, NEW dst, NEW K, NEW h,
         Tracks(N, op, src, dst, K, h), NEW e \in Cell(N), e.data # NULL,
         op = "merge" => e.data = hash_get(src, e.key)
  PROVE  Tracks(N, op, src, dst, K \union {e.key}, Body(op, src, h, e))
<1>1. e.key \in Keys /\ Storable(N, h, e)
  BY DEF Cell, Storable
<1>2. h \in HashT(N) /\ Sane(h) /\ \A k \in Keys : hash_get(h, k) = After(op, src, dst, K, k)
  BY DEF Tracks
<1>3. PICK a : a = hash_add(h, e)
  OBVIOUS
<1>4. PICK r : r = hash_del(h, e.key)
  OBVIOUS
<1>5. /\ a \in HashT(N) /\ Sane(a)
      /\ \A k \in Keys : hash_get(a, k) = IF k = e.key THEN e.data ELSE hash_get(h, k)
  <2>1. a \in HashT(N)
    <3>1. hash_get(h, e.key) # NULL => hash_get_ent(h, e.key) # 0
      BY DEF hash_get
    <3>2. hash_get_ent(h, e.key) # 0 => Overwrite(h, e.key, e.data) \in HashT(N)
      BY <1>1, <1>2, OverwriteIs DEF Storable
    <3>3. AppendEntry(h, e) \in HashT(N)
      BY <1>2, AppendEntryIs
    <3> QED
      BY <1>3, <3>1, <3>2, <3>3 DEF hash_add
  <2> QED
    BY <1>1, <1>2, <1>3, <2>1, AddStores DEF Stores
<1>6. /\ r \in HashT(N) /\ Sane(r)
      /\ \A k \in Keys : hash_get(r, k) = IF k = e.key THEN NULL ELSE hash_get(h, k)
  <2>1. r \in HashT(N)
    BY <1>1, <1>2, <1>4, DelIs DEF hash_del
  <2> QED
    BY <1>1, <1>2, <1>4, <2>1, DelStores DEF Stores
<1>7. CASE op = "merge"
  <2>1. \A k \in Keys : hash_get(h, k) = IF hash_get(dst, k) # NULL THEN hash_get(dst, k)
                                         ELSE IF k \in K THEN hash_get(src, k) ELSE NULL
    BY <1>2, <1>7 DEF After
  <2>2. Body(op, src, h, e) = IF hash_get(h, e.key) = NULL THEN a ELSE h
    BY <1>3, <1>7 DEF Body
  <2>3. \A k \in Keys : After(op, src, dst, K \union {e.key}, k) =
                           IF hash_get(dst, k) # NULL THEN hash_get(dst, k)
                           ELSE IF k \in K \union {e.key} THEN hash_get(src, k) ELSE NULL
    BY <1>7 DEF After
  <2> QED
    BY <1>1, <1>2, <1>5, <1>7, <2>1, <2>2, <2>3 DEF Tracks
<1>8. CASE op = "inter"
  <2>1. \A k \in Keys : hash_get(h, k) = IF k \in K /\ hash_get(src, k) = NULL THEN NULL
                                         ELSE hash_get(dst, k)
    BY <1>2, <1>8 DEF After
  <2>2. Body(op, src, h, e) = IF hash_get(src, e.key) = NULL THEN r ELSE h
    BY <1>4, <1>8 DEF Body
  <2>3. \A k \in Keys : After(op, src, dst, K \union {e.key}, k) =
                           IF k \in K \union {e.key} /\ hash_get(src, k) = NULL THEN NULL
                           ELSE hash_get(dst, k)
    BY <1>8 DEF After
  <2> QED
    BY <1>1, <1>2, <1>6, <2>1, <2>2, <2>3 DEF Tracks
<1>9. CASE op = "unmerge"
  <2>1. \A k \in Keys : hash_get(h, k) = IF k \in K THEN NULL ELSE hash_get(dst, k)
    BY <1>2, <1>9 DEF After
  <2>2. Body(op, src, h, e) = IF hash_get(h, e.key) # NULL THEN r ELSE h
    BY <1>4, <1>9 DEF Body
  <2>3. \A k \in Keys : After(op, src, dst, K \union {e.key}, k) =
                           IF k \in K \union {e.key} THEN NULL ELSE hash_get(dst, k)
    BY <1>9 DEF After
  <2> QED
    BY <1>1, <1>2, <1>6, <2>1, <2>2, <2>3 DEF Tracks
<1> QED
  BY <1>7, <1>8, <1>9

(* The keys of the first n entries. *)
Met(T, n) == {T[j].key : j \in 1 .. n}

(* The loop meets all keys of T. *)
LEMMA LoopTracks ==
  ASSUME NEW N, NEW op \in {"merge", "inter", "unmerge"}, NEW src, NEW dst \in HashT(N),
         Sane(dst), NEW T \in Seq(Cell(N)), NEW res, Runs(op, src, dst, T, res),
         \A j \in 1 .. Len(T) : T[j].data # NULL, op = "merge" => Agrees(src, T)
  PROVE  Tracks(N, op, src, dst, Met(T, Len(T)), res)
<1>1. PICK run : Loop(run, op, src, dst, T, Len(T)) /\ res = run[Len(T)]
  BY DEF Runs
<1>2. PICK L \in Nat : L = Len(T)
  BY LenProperties
<1> DEFINE P(n) == Tracks(N, op, src, dst, Met(T, n), run[n])
<1> DEFINE Bad == {n \in 0 .. L : ~ P(n)}
<1>3. SUFFICES ASSUME Bad # {}
               PROVE  FALSE
  BY <1>1, <1>2
<1>4. PICK n \in Bad : \A j \in Bad : n <= j
  <2> HIDE DEF P
  <2>1. Bad \subseteq Nat
    OBVIOUS
  <2> HIDE DEF Bad
  <2> QED
    BY <2>1, <1>3, LeastNat
<1>5. n \in 0 .. L /\ ~ P(n)
  BY <1>4
<1>6. P(0)
  <2>1. Met(T, 0) = {}
    BY DEF Met
  <2>2. \A k \in Keys : After(op, src, dst, {}, k) = hash_get(dst, k)
    BY DEF After
  <2>3. run[0] = dst
    BY <1>1 DEF Loop
  <2> QED
    BY <2>1, <2>2, <2>3 DEF Tracks
<1>7. n \in 1 .. L /\ n - 1 \in 0 .. L /\ n - 1 < n
  <2>1. n # 0
    BY <1>5, <1>6
  <2> HIDE DEF P
  <2> QED
    BY <1>5, <2>1
<1>8. P(n - 1)
  <2> HIDE DEF P
  <2> QED
    BY <1>4, <1>7
<1>9. PICK e : e = T[n]
  OBVIOUS
<1>10. e \in Cell(N) /\ e.data # NULL /\ (op = "merge" => e.data = hash_get(src, e.key))
  BY <1>2, <1>7, <1>9, ElementOfSeq DEF Agrees
<1>11. Met(T, n) = Met(T, n - 1) \union {e.key}
  <2>1. 1 .. n = (1 .. n - 1) \union {n}
    BY <1>7
  <2> QED
    BY <1>9, <2>1 DEF Met
<1>12. run[n] = Body(op, src, run[n - 1], e)
  BY <1>1, <1>2, <1>7, <1>9 DEF Loop
<1>13. P(n)
  BY <1>8, <1>10, <1>11, <1>12, BodyTracks
<1> HIDE DEF P
<1> QED
  BY <1>5, <1>13

(* The entries a loop over a sane table meets are the answers of hash_get. *)
LEMMA TraverseAnswers ==
  ASSUME NEW N, NEW h \in HashT(N), Sane(h), NEW T, T = Traverse(h)
  PROVE  /\ T \in Seq(Cell(N))
         /\ Agrees(h, T)
         /\ \A j \in 1 .. Len(T) : T[j].data # NULL
         /\ \A k \in Keys : hash_get(h, k) # NULL <=> k \in Met(T, Len(T))
<1>1. T \in Seq(Cell(N)) /\ MetOnly(h, T) /\ MetAll(h, T, Size)
  BY TraverseType, TraverseEntries
<1>2. ASSUME NEW j \in 1 .. Len(T)
      PROVE  /\ T[j].key \in Keys
             /\ T[j].data = hash_get(h, T[j].key)
             /\ T[j].data # NULL
  <2>1. PICK e : e = T[j]
    OBVIOUS
  <2>2. e \in Cell(N)
    BY <1>1, <2>1, ElementOfSeq
  <2>3. e.key \in Keys
    BY <2>2 DEF Cell
  <2>4. PICK b \in Index : \E m \in 1 .. Len(h.ent[b]) : e = h.ent[b][m]
    BY <1>1, <2>1 DEF MetOnly
  <2>5. PICK m \in 1 .. Len(h.ent[b]) : e = h.ent[b][m]
    BY <2>4
  <2>6. hash_get_head(e.key) = b /\ e.data # NULL
    BY <2>4, <2>5 DEF Sane, SaneChain
  <2>7. Answers(h.ent[hash_get_head(e.key)], e.key, e.data)
    BY <2>5, <2>6 DEF Answers
  <2>8. e.data = hash_get(h, e.key)
    BY <2>3, <2>7, GetAnswers
  <2> QED
    BY <2>1, <2>3, <2>6, <2>8
<1>3. ASSUME NEW k \in Keys, hash_get(h, k) # NULL
      PROVE  k \in Met(T, Len(T))
  <2>1. PICK b : b = hash_get_head(k) /\ b \in Index
    BY GetEntFinds
  <2>2. Answers(h.ent[b], k, hash_get(h, k))
    BY <2>1, GetAnswers
  <2>3. PICK m \in 1 .. Len(h.ent[b]) : h.ent[b][m].key = k
    BY <1>3, <2>2 DEF Answers
  <2>4. PICK j \in 1 .. Len(T) : T[j] = h.ent[b][m]
    BY <1>1, <2>1, <2>3 DEF MetAll, Index
  <2> QED
    BY <2>3, <2>4 DEF Met
<1>4. ASSUME NEW k \in Keys, k \in Met(T, Len(T))
      PROVE  hash_get(h, k) # NULL
  BY <1>2, <1>4 DEF Met
<1> QED
  BY <1>1, <1>2, <1>3, <1>4 DEF Agrees

-----------------------------------------------------------------------------
(* hash_merge, hash_inter and hash_unmerge. *)

(* They keep the type and the count. *)
LEMMA SetOpsWell ==
  ASSUME NEW N, NEW dst, Well(N, dst), NEW src \in HashT(N)
  PROVE  /\ Well(N, hash_merge(dst, src))
         /\ Well(N, hash_inter(dst, src))
         /\ Well(N, hash_unmerge(dst, src))
<1>1. dst \in HashT(N)
  BY DEF Well
<1>2. Traverse(src) \in Seq(Cell(N)) /\ Traverse(dst) \in Seq(Cell(N))
  BY <1>1, TraverseType
<1>3. Well(N, hash_merge(dst, src))
  <2>1. CASE src.elmnbr = 0
    BY <2>1 DEF hash_merge
  <2>2. CASE src.elmnbr # 0
    BY <2>2, <1>2, MergeRuns, LoopWell
  <2> QED
    BY <2>1, <2>2
<1>4. Well(N, hash_inter(dst, src))
  <2>1. CASE src.elmnbr = 0 \/ dst.elmnbr = 0
    BY <2>1 DEF hash_inter
  <2>2. CASE src.elmnbr # 0 /\ dst.elmnbr # 0
    BY <2>2, <1>1, <1>2, InterRuns, LoopWell
  <2> QED
    BY <2>1, <2>2
<1>5. Well(N, hash_unmerge(dst, src))
  <2>1. CASE src.elmnbr = 0
    BY <2>1 DEF hash_unmerge
  <2>2. CASE src.elmnbr # 0
    BY <2>2, <1>2, UnmergeRuns, LoopWell
  <2> QED
    BY <2>1, <2>2
<1> QED
  BY <1>3, <1>4, <1>5

(* The count is zero exactly if hash_get finds nothing. *)
LEMMA ZeroAnswers ==
  ASSUME NEW N, NEW h, Well(N, h), Sane(h)
  PROVE  h.elmnbr = 0 <=> \A k \in Keys : hash_get(h, k) = NULL
<1>1. PICK T : T = Traverse(h)
  OBVIOUS
<1>2. h \in HashT(N) /\ Len(T) = h.elmnbr
  BY <1>1 DEF Well, Counted
<1>3. /\ T \in Seq(Cell(N))
      /\ \A k \in Keys : hash_get(h, k) # NULL <=> k \in Met(T, Len(T))
  BY <1>1, <1>2, TraverseAnswers
<1>4. Len(T) \in Nat
  BY <1>3, LenProperties
<1>5. CASE Len(T) = 0
  <2>1. Met(T, Len(T)) = {}
    BY <1>5 DEF Met
  <2> QED
    BY <2>1, <1>2, <1>3, <1>5
<1>6. CASE Len(T) # 0
  <2>1. 1 \in 1 .. Len(T)
    BY <1>4, <1>6
  <2>2. T[1] \in Cell(N)
    BY <1>3, <2>1, ElementOfSeq
  <2>3. T[1].key \in Keys /\ T[1].key \in Met(T, Len(T))
    BY <2>1, <2>2 DEF Cell, Met
  <2> QED
    BY <2>3, <1>2, <1>3, <1>6
<1> QED
  BY <1>5, <1>6

(* hash_merge adds what dst lacks and src has. *)
LEMMA MergeAnswers ==
  ASSUME NEW N, NEW dst, Well(N, dst), Sane(dst), NEW src, Well(N, src), Sane(src)
  PROVE  /\ Sane(hash_merge(dst, src))
         /\ \A k \in Keys : hash_get(hash_merge(dst, src), k) =
              IF hash_get(dst, k) # NULL THEN hash_get(dst, k) ELSE hash_get(src, k)
<1>1. dst \in HashT(N) /\ src \in HashT(N)
  BY DEF Well
<1>2. CASE src.elmnbr = 0
  <2>1. \A k \in Keys : hash_get(src, k) = NULL
    BY <1>2, ZeroAnswers
  <2> QED
    BY <1>2, <2>1 DEF hash_merge
<1>3. CASE src.elmnbr # 0
  <2>1. PICK T, r : T = Traverse(src) /\ r = hash_merge(dst, src)
    OBVIOUS
  <2>2. Runs("merge", src, dst, T, r)
    BY <1>1, <1>3, <2>1, MergeRuns
  <2>3. /\ T \in Seq(Cell(N))
        /\ Agrees(src, T)
        /\ \A j \in 1 .. Len(T) : T[j].data # NULL
        /\ \A k \in Keys : hash_get(src, k) # NULL <=> k \in Met(T, Len(T))
    BY <1>1, <2>1, TraverseAnswers
  <2>4. Tracks(N, "merge", src, dst, Met(T, Len(T)), r)
    BY <1>1, <2>2, <2>3, LoopTracks
  <2>5. Sane(r) /\ \A k \in Keys : hash_get(r, k) =
           IF hash_get(dst, k) # NULL THEN hash_get(dst, k)
           ELSE IF k \in Met(T, Len(T)) THEN hash_get(src, k) ELSE NULL
    BY <2>4 DEF Tracks, After
  <2> QED
    BY <2>1, <2>3, <2>5
<1> QED
  BY <1>2, <1>3

(* hash_inter keeps what src has too, unless src is empty. *)
LEMMA InterAnswers ==
  ASSUME NEW N, NEW dst, Well(N, dst), Sane(dst), NEW src, Well(N, src), Sane(src)
  PROVE  /\ Sane(hash_inter(dst, src))
         /\ \A k \in Keys : hash_get(hash_inter(dst, src), k) =
              IF \/ hash_get(src, k) # NULL
                 \/ \A k2 \in Keys : hash_get(src, k2) = NULL
              THEN hash_get(dst, k) ELSE NULL
<1>1. dst \in HashT(N) /\ src \in HashT(N)
  BY DEF Well
<1>2. CASE src.elmnbr = 0
  <2>1. \A k \in Keys : hash_get(src, k) = NULL
    BY <1>2, ZeroAnswers
  <2> QED
    BY <1>2, <2>1 DEF hash_inter
<1>3. CASE dst.elmnbr = 0
  <2>1. \A k \in Keys : hash_get(dst, k) = NULL
    BY <1>3, ZeroAnswers
  <2> QED
    BY <1>3, <2>1 DEF hash_inter
<1>4. CASE src.elmnbr # 0 /\ dst.elmnbr # 0
  <2>1. PICK T, r : T = Traverse(dst) /\ r = hash_inter(dst, src)
    OBVIOUS
  <2>2. Runs("inter", src, dst, T, r)
    BY <1>1, <1>4, <2>1, InterRuns
  <2>3. /\ T \in Seq(Cell(N))
        /\ \A j \in 1 .. Len(T) : T[j].data # NULL
        /\ \A k \in Keys : hash_get(dst, k) # NULL <=> k \in Met(T, Len(T))
    BY <1>1, <2>1, TraverseAnswers
  <2>4. Tracks(N, "inter", src, dst, Met(T, Len(T)), r)
    BY <1>1, <2>2, <2>3, LoopTracks
  <2>5. Sane(r) /\ \A k \in Keys : hash_get(r, k) =
           IF k \in Met(T, Len(T)) /\ hash_get(src, k) = NULL THEN NULL ELSE hash_get(dst, k)
    BY <2>4 DEF Tracks, After
  <2>6. ~ \A k2 \in Keys : hash_get(src, k2) = NULL
    BY <1>4, ZeroAnswers
  <2> QED
    BY <2>1, <2>3, <2>5, <2>6
<1> QED
  BY <1>2, <1>3, <1>4

(* hash_unmerge removes the keys of src. *)
LEMMA UnmergeAnswers ==
  ASSUME NEW N, NEW dst, Well(N, dst), Sane(dst), NEW src, Well(N, src), Sane(src)
  PROVE  /\ Sane(hash_unmerge(dst, src))
         /\ \A k \in Keys : hash_get(hash_unmerge(dst, src), k) =
              IF hash_get(src, k) # NULL THEN NULL ELSE hash_get(dst, k)
<1>1. dst \in HashT(N) /\ src \in HashT(N)
  BY DEF Well
<1>2. CASE src.elmnbr = 0
  <2>1. \A k \in Keys : hash_get(src, k) = NULL
    BY <1>2, ZeroAnswers
  <2> QED
    BY <1>2, <2>1 DEF hash_unmerge
<1>3. CASE src.elmnbr # 0
  <2>1. PICK T, r : T = Traverse(src) /\ r = hash_unmerge(dst, src)
    OBVIOUS
  <2>2. Runs("unmerge", src, dst, T, r)
    BY <1>1, <1>3, <2>1, UnmergeRuns
  <2>3. /\ T \in Seq(Cell(N))
        /\ \A j \in 1 .. Len(T) : T[j].data # NULL
        /\ \A k \in Keys : hash_get(src, k) # NULL <=> k \in Met(T, Len(T))
    BY <1>1, <2>1, TraverseAnswers
  <2>4. Tracks(N, "unmerge", src, dst, Met(T, Len(T)), r)
    BY <1>1, <2>2, <2>3, LoopTracks
  <2>5. Sane(r) /\ \A k \in Keys : hash_get(r, k) =
           IF k \in Met(T, Len(T)) THEN NULL ELSE hash_get(dst, k)
    BY <2>4 DEF Tracks, After
  <2> QED
    BY <2>1, <2>3, <2>5
<1> QED
  BY <1>2, <1>3

-----------------------------------------------------------------------------
(* hash_init and the element type. *)

(* hash_init makes a table that answers nothing. *)
LEMMA InitAnswers ==
  ASSUME NEW type \in Types \union {UNKNOW}
  PROVE  /\ Well(1 .. MaxStr, hash_init(type)) /\ Sane(hash_init(type))
         /\ \A k \in Keys : hash_get(hash_init(type), k) = NULL
<1>1. PICK h : h = hash_init(type)
  OBVIOUS
<1>2. Well(1 .. MaxStr, h)
  BY <1>1, InitCounted DEF Well
<1>3. h.elmnbr = 0 /\ \A b \in Index : h.ent[b] = <<>>
  BY <1>1 DEF hash_init
<1>4. Sane(h)
  BY <1>3 DEF Sane, SaneChain
<1> QED
  BY <1>1, <1>2, <1>3, <1>4, ZeroAnswers

(* Setting the element type changes nothing else. *)
Retyped(h, type) == [h EXCEPT !.type = type]

(* A retyped table has the same entries. *)
LEMMA RetypedIs ==
  ASSUME NEW N, NEW h, Well(N, h), NEW type \in Types \union {UNKNOW}
  PROVE  /\ Well(N, Retyped(h, type))
         /\ Sane(h) => Sane(Retyped(h, type))
         /\ \A k \in Keys : hash_get(Retyped(h, type), k) = hash_get(h, k)
<1>1. PICK h2 : h2 = Retyped(h, type)
  OBVIOUS
<1>2. h \in HashT(N)
  BY DEF Well
<1>3. h2 \in HashT(N) /\ h2.ent = h.ent /\ h2.elmnbr = h.elmnbr
  BY <1>1, <1>2 DEF HashT, Retyped
<1>4. Traverse(h2) = Traverse(h)
  BY <1>3 DEF Traverse
<1>5. Well(N, h2)
  BY <1>3, <1>4 DEF Well, Counted
<1>6. \A k : hash_get_ent(h2, k) = hash_get_ent(h, k)
  BY <1>3 DEF hash_get_ent
<1> QED
  BY <1>1, <1>3, <1>5, <1>6 DEF Sane, hash_get

-----------------------------------------------------------------------------
(* The invariants. *)

(* The type of the state, and the counts. *)
TypeInv == /\ named \subseteq Tables
           /\ stale \subseteq Keys \X (1 .. MaxStr)
           /\ table \in [Tables -> HashT(1 .. MaxStr)]
           /\ \A t \in Tables : Counted(table[t])

(* With it, the chains of every table are sane, and a name that denotes no
   table has nothing in it. *)
MapInv == /\ TypeInv
          /\ \A t \in Tables : Sane(table[t])
          /\ \A t \in Tables \ named : \A k \in Keys : hash_get(table[t], k) = NULL

(* No caller stores the null pointer. *)
NoNull == NULL \notin Data

(* The tables the type invariant describes. *)
LEMMA TypeInvWell ==
  ASSUME TypeInv, NEW t \in Tables
  PROVE  /\ Well(1 .. MaxStr, table[t])
         /\ table[t] \in HashT(1 .. MaxStr)
         /\ table[t].type \in Types \union {UNKNOW}
BY DEF TypeInv, Well, HashT

(* strdup finds one of the strings that are left. *)
LEMMA StrdupIs ==
  ASSUME NEW k \in Keys, Unused(k) # {}
  PROVE  strdup(k) \in 1 .. MaxStr
<1> DEFINE S == Unused(k) \union {MaxStr + 1}
<1>1. MaxStr \in Nat /\ Unused(k) \subseteq 1 .. MaxStr
  BY HashAssumption DEF Unused
<1>2. S \subseteq Nat /\ S # {}
  BY <1>1
<1>3. \E m \in S : \A n \in S : m <= n
  <2> HIDE DEF S
  <2> QED
    BY <1>2, LeastNat
<1>4. PICK m : m = Min(S)
  OBVIOUS
<1>5. m \in S /\ \A n \in S : m <= n
  <2> HIDE DEF S
  <2> QED
    BY <1>3, <1>4 DEF Min
<1>6. PICK u \in Unused(k) : TRUE
  OBVIOUS
<1>7. m <= u /\ u \in 1 .. MaxStr /\ m \in Nat
  BY <1>1, <1>2, <1>5, <1>6
<1>8. m # MaxStr + 1
  BY <1>1, <1>7
<1>9. strdup(k) = m
  BY <1>4 DEF strdup
<1> QED
  BY <1>1, <1>5, <1>8, <1>9

(* The key strings of a table. *)
LEMMA StringsType ==
  ASSUME NEW N, NEW h \in HashT(N)
  PROVE  Strings(h) \subseteq Keys \X N
<1> SUFFICES ASSUME NEW x \in Strings(h)
             PROVE  x \in Keys \X N
  OBVIOUS
<1>1. PICK e \in UNION {ToSet(h.ent[i]) : i \in Index} : x = StrOf(e)
  BY DEF Strings
<1>2. PICK i \in Index : e \in ToSet(h.ent[i])
  BY <1>1
<1>3. h.ent[i] \in Seq(Cell(N))
  BY <1>2 DEF HashT
<1>4. DOMAIN h.ent[i] = 1 .. Len(h.ent[i])
  BY <1>3, LenProperties
<1>5. PICK j \in 1 .. Len(h.ent[i]) : e = h.ent[i][j]
  BY <1>2, <1>4 DEF ToSet
<1>6. e \in Cell(N)
  BY <1>3, <1>5, ElementOfSeq
<1> QED
  BY <1>1, <1>6 DEF Cell, StrOf

-----------------------------------------------------------------------------
(* What each operation makes of the table it changes. *)

Put(tt, t, h) == [tt EXCEPT ![t] = h]

(* What an operation on the table t may make hash_get answer. *)
Allowed(t) ==
    LET f == View(table[t])
    IN  Promise!Stored(f) \union Promise!Removed(f) \union {Promise!Nothing}
          \union UNION {Promise!Results(f, View(table[s])) : s \in named}

(* h is a right outcome of an operation on t. *)
Outcome(t, h) == /\ Well(1 .. MaxStr, h)
                 /\ NoNull /\ MapInv => Sane(h) /\ View(h) \in Allowed(t)

(* A table with the answers of another has its view. *)
LEMMA SameView ==
  ASSUME NEW h, NEW h2, \A k \in Keys : hash_get(h2, k) = hash_get(h, k)
  PROVE  View(h2) = View(h)
BY DEF View

(* A view of a table that answers nothing. *)
LEMMA NothingView ==
  ASSUME NEW h, \A k \in Keys : hash_get(h, k) = NULL
  PROVE  View(h) = Promise!Nothing
BY DEF View, Promise!Nothing

(* Leaving the answers alone is allowed: it is a union of t with itself. *)
LEMMA SameAllowed ==
  ASSUME NEW t \in named
  PROVE  View(table[t]) \in Allowed(t)
<1>1. View(table[t]) \in Promise!Results(View(table[t]), View(table[t]))
  BY DEF Promise!Results
<1> QED
  BY <1>1 DEF Allowed

(* The entry that Add and Set build can be stored. *)
LEMMA EntryStorable ==
  ASSUME NEW t, NEW k \in Keys, NEW d \in Data, Room(t, k),
         NEW h, hash_get(h, k) = hash_get(table[t], k),
         NEW e, e = [key |-> k, str |-> strdup(k), data |-> d]
  PROVE  /\ e.key = k /\ e.data = d
         /\ Storable(1 .. MaxStr, h, e)
<1>1. e.key = k /\ e.data = d
  OBVIOUS
<1>2. ASSUME hash_get(h, k) = NULL
      PROVE  e \in Cell(1 .. MaxStr)
  <2>1. strdup(k) \in 1 .. MaxStr
    BY <1>2, StrdupIs DEF Room
  <2> QED
    BY <2>1 DEF Cell
<1> QED
  BY <1>1, <1>2 DEF Storable

(* Add. *)
LEMMA AddOutcome ==
  ASSUME TypeInv, NEW t \in Tables, NEW k \in Keys, NEW d \in Data, NEW ty \in Types,
         Add(t, k, d, ty)
  PROVE  \E h : Outcome(t, h) /\ table' = Put(table, t, h)
<1>1. PICK type : type = IF table[t].type = UNKNOW THEN ty ELSE table[t].type
  OBVIOUS
<1>2. PICK h : h = Retyped(table[t], type)
  OBVIOUS
<1>3. PICK e : e = [key |-> k, str |-> strdup(k), data |-> d]
  OBVIOUS
<1>4. PICK r : r = hash_add(h, e)
  OBVIOUS
<1>5. Room(t, k) /\ t \in named /\ table' = Put(table, t, r)
  BY <1>1, <1>2, <1>3, <1>4 DEF Add, Replace, Put, Retyped
<1>6. /\ Well(1 .. MaxStr, table[t])
      /\ type \in Types \union {UNKNOW}
  BY <1>1, TypeInvWell
<1>7. /\ Well(1 .. MaxStr, h)
      /\ Sane(table[t]) => Sane(h)
      /\ \A k2 \in Keys : hash_get(h, k2) = hash_get(table[t], k2)
  BY <1>2, <1>6, RetypedIs
<1>8. e.key = k /\ e.data = d /\ Storable(1 .. MaxStr, h, e)
  BY <1>3, <1>5, <1>7, EntryStorable
<1>9. Well(1 .. MaxStr, r)
  BY <1>4, <1>7, <1>8, AddWell
<1>10. ASSUME NoNull, MapInv
       PROVE  Sane(r) /\ View(r) \in Allowed(t)
  <2>1. h \in HashT(1 .. MaxStr) /\ Sane(h) /\ d # NULL
    BY <1>7, <1>10 DEF MapInv, NoNull, Well
  <2>2. Sane(r) /\ Stores(h, r, k, d)
    BY <1>4, <1>8, <2>1, AddStores
  <2>3. View(h) = View(table[t])
    BY <1>7, SameView
  <2>4. View(r) = [View(table[t]) EXCEPT ![k] = d]
    BY <2>2, <2>3 DEF Stores, View
  <2> QED
    BY <2>2, <2>4 DEF Allowed, Promise!Stored
<1> QED
  BY <1>5, <1>9, <1>10 DEF Outcome

(* Set. *)
LEMMA SetOutcome ==
  ASSUME TypeInv, NEW t \in Tables, NEW k \in Keys, NEW d \in Data, Set(t, k, d)
  PROVE  \E h : Outcome(t, h) /\ table' = Put(table, t, h)
<1>1. PICK h : h = table[t]
  OBVIOUS
<1>2. PICK e : e = [key |-> k, str |-> strdup(k), data |-> d]
  OBVIOUS
<1>3. PICK r : r = hash_set(h, e)
  OBVIOUS
<1>4. Room(t, k) /\ t \in named /\ table' = Put(table, t, r)
  BY <1>1, <1>2, <1>3 DEF Set, Replace, Put
<1>5. Well(1 .. MaxStr, h)
  BY <1>1, TypeInvWell
<1>6. e.key = k /\ e.data = d /\ Storable(1 .. MaxStr, h, e)
  BY <1>1, <1>2, <1>4, EntryStorable
<1>7. Well(1 .. MaxStr, r)
  BY <1>3, <1>5, <1>6, AddWell
<1>8. ASSUME NoNull, MapInv
      PROVE  Sane(r) /\ View(r) \in Allowed(t)
  <2>1. h \in HashT(1 .. MaxStr) /\ Sane(h) /\ d # NULL
    BY <1>1, <1>5, <1>8 DEF MapInv, NoNull, Well
  <2>2. Sane(r) /\ Stores(h, r, k, d)
    BY <1>3, <1>6, <2>1, AddStores
  <2>3. View(r) = [View(h) EXCEPT ![k] = d]
    BY <2>2 DEF Stores, View
  <2> QED
    BY <1>1, <2>2, <2>3 DEF Allowed, Promise!Stored
<1> QED
  BY <1>4, <1>7, <1>8 DEF Outcome

(* Del. *)
LEMMA DelOutcome ==
  ASSUME TypeInv, NEW t \in Tables, NEW k \in Keys, Del(t, k)
  PROVE  \E h : Outcome(t, h) /\ table' = Put(table, t, h)
<1>1. PICK h : h = table[t]
  OBVIOUS
<1>2. PICK r : r = hash_del(h, k)
  OBVIOUS
<1>3. table' = Put(table, t, r)
  BY <1>1, <1>2 DEF Del, Replace, Put
<1>4. Well(1 .. MaxStr, h)
  BY <1>1, TypeInvWell
<1>5. Well(1 .. MaxStr, r)
  BY <1>2, <1>4, DelWell
<1>6. ASSUME NoNull, MapInv
      PROVE  Sane(r) /\ View(r) \in Allowed(t)
  <2>1. h \in HashT(1 .. MaxStr) /\ Sane(h)
    BY <1>1, <1>4, <1>6 DEF MapInv, Well
  <2>2. Sane(r) /\ Stores(h, r, k, NULL)
    BY <1>2, <2>1, DelStores
  <2>3. View(r) = [View(h) EXCEPT ![k] = NULL]
    BY <2>2 DEF Stores, View
  <2> QED
    BY <1>1, <2>2, <2>3 DEF Allowed, Promise!Removed
<1> QED
  BY <1>3, <1>5, <1>6 DEF Outcome

(* The set operations on two tables are those on the two maps. *)
LEMMA SetOpsView ==
  ASSUME TypeInv, MapInv, NEW t \in Tables, NEW s \in Tables
  PROVE  /\ View(hash_merge(table[t], table[s])) = Promise!Union(View(table[t]), View(table[s]))
         /\ Promise!Support(View(table[s])) # {} =>
              View(hash_inter(table[t], table[s])) = Promise!Intersect(View(table[t]), View(table[s]))
         /\ Promise!Support(View(table[s])) = {} =>
              View(hash_inter(table[t], table[s])) = View(table[t])
         /\ View(hash_unmerge(table[t], table[s])) = Promise!Subtract(View(table[t]), View(table[s]))
         /\ Sane(hash_merge(table[t], table[s]))
         /\ Sane(hash_inter(table[t], table[s]))
         /\ Sane(hash_unmerge(table[t], table[s]))
<1>1. PICK h, g : h = table[t] /\ g = table[s]
  OBVIOUS
<1>2. Well(1 .. MaxStr, h) /\ Sane(h) /\ Well(1 .. MaxStr, g) /\ Sane(g)
  BY <1>1, TypeInvWell DEF MapInv
<1>3. Sane(hash_merge(h, g)) /\ View(hash_merge(h, g)) = Promise!Union(View(h), View(g))
  BY <1>2, MergeAnswers DEF View, Promise!Union
<1>4. Sane(hash_unmerge(h, g)) /\ View(hash_unmerge(h, g)) = Promise!Subtract(View(h), View(g))
  BY <1>2, UnmergeAnswers DEF View, Promise!Subtract
<1>5. /\ Sane(hash_inter(h, g))
      /\ Promise!Support(View(g)) # {} =>
           View(hash_inter(h, g)) = Promise!Intersect(View(h), View(g))
      /\ Promise!Support(View(g)) = {} => View(hash_inter(h, g)) = View(h)
  <2>1. PICK r : r = hash_inter(h, g)
    OBVIOUS
  <2>2. Sane(r) /\ \A k \in Keys : hash_get(r, k) =
              IF \/ hash_get(g, k) # NULL
                 \/ \A k2 \in Keys : hash_get(g, k2) = NULL
              THEN hash_get(h, k) ELSE NULL
    BY <1>2, <2>1, InterAnswers
  <2>3. Promise!Support(View(g)) = {} <=> \A k2 \in Keys : hash_get(g, k2) = NULL
    BY DEF Promise!Support, View
  <2>4. CASE \A k2 \in Keys : hash_get(g, k2) = NULL
    <3>1. View(r) = View(h)
      BY <2>2, <2>4, SameView
    <3> QED
      BY <2>1, <2>2, <2>3, <2>4, <3>1
  <2>5. CASE ~ \A k2 \in Keys : hash_get(g, k2) = NULL
    <3>1. View(r) = [k \in Keys |-> IF View(g)[k] # NULL THEN View(h)[k] ELSE NULL]
      BY <2>2, <2>5 DEF View
    <3> QED
      BY <2>1, <2>2, <2>3, <2>5, <3>1 DEF Promise!Intersect
  <2> QED
    BY <2>4, <2>5
<1> QED
  BY <1>1, <1>3, <1>4, <1>5

(* Merge, Inter and Unmerge. *)
LEMMA SetOpsOutcome ==
  ASSUME TypeInv, NEW t \in Tables, NEW s \in Tables,
         Merge(t, s) \/ Inter(t, s) \/ Unmerge(t, s)
  PROVE  \E h : Outcome(t, h) /\ table' = Put(table, t, h)
<1>1. PICK m, i, u : /\ m = hash_merge(table[t], table[s])
                     /\ i = hash_inter(table[t], table[s])
                     /\ u = hash_unmerge(table[t], table[s])
  OBVIOUS
<1>2. Well(1 .. MaxStr, m) /\ Well(1 .. MaxStr, i) /\ Well(1 .. MaxStr, u)
  BY <1>1, TypeInvWell, SetOpsWell
<1>3. {s, t} \subseteq named /\ (\/ table' = Put(table, t, m)
                                \/ table' = Put(table, t, i)
                                \/ table' = Put(table, t, u))
  BY <1>1 DEF Merge, Inter, Unmerge, Replace, Put
<1>4. ASSUME NoNull, MapInv
      PROVE  /\ Sane(m) /\ View(m) \in Allowed(t)
             /\ Sane(i) /\ View(i) \in Allowed(t)
             /\ Sane(u) /\ View(u) \in Allowed(t)
  <2>1. PICK R : R = Promise!Results(View(table[t]), View(table[s]))
    OBVIOUS
  <2>2. R \subseteq Allowed(t)
    BY <1>3, <2>1 DEF Allowed
  <2>3. View(m) \in R /\ View(u) \in R
    BY <1>1, <1>4, <2>1, SetOpsView DEF Promise!Results
  <2>4. View(i) \in Allowed(t)
    <3>1. CASE Promise!Support(View(table[s])) # {}
      <4>1. View(i) \in R
        BY <1>1, <1>4, <2>1, <3>1, SetOpsView DEF Promise!Results
      <4> QED
        BY <2>2, <4>1
    <3>2. CASE Promise!Support(View(table[s])) = {}
      <4>1. View(i) = View(table[t])
        BY <1>1, <1>4, <3>2, SetOpsView
      <4>2. View(i) \in Promise!Results(View(table[t]), View(table[t]))
        BY <4>1 DEF Promise!Results
      <4> QED
        BY <1>3, <4>2 DEF Allowed
    <3> QED
      BY <3>1, <3>2
  <2> QED
    BY <1>1, <1>4, <2>2, <2>3, <2>4, SetOpsView
<1> QED
  BY <1>2, <1>3, <1>4 DEF Outcome

(* hash_empty. *)
LEMMA EmptyOutcome ==
  ASSUME TypeInv, NEW t \in Tables, hash_empty(t)
  PROVE  \E h : Outcome(t, h) /\ table' = Put(table, t, h)
<1>1. PICK r : r = hash_init(table[t].type)
  OBVIOUS
<1>2. table' = Put(table, t, r)
  BY <1>1 DEF hash_empty, Put
<1>3. /\ Well(1 .. MaxStr, r) /\ Sane(r)
      /\ \A k \in Keys : hash_get(r, k) = NULL
  BY <1>1, TypeInvWell, InitAnswers
<1>4. View(r) = Promise!Nothing
  BY <1>3, NothingView
<1>5. View(r) \in Allowed(t)
  BY <1>4 DEF Allowed
<1> QED
  BY <1>2, <1>3, <1>5 DEF Outcome

(* hash_register. *)
LEMMA RegisterOutcome ==
  ASSUME TypeInv, NEW t \in Tables, NEW s \in Tables, hash_register(t, s)
  PROVE  \E h : Outcome(t, h) /\ table' = Put(table, t, h)
<1>1. PICK type : type = IF table[t].type = UNKNOW THEN table[s].type ELSE table[t].type
  OBVIOUS
<1>2. type \in Types \union {UNKNOW} /\ t \in named /\ s \in named
  BY <1>1, TypeInvWell DEF hash_register
<1>3. PICK o : o = Retyped(table[t], type)
  OBVIOUS
<1>4. PICK old : old = Put(table, t, o)
  OBVIOUS
<1>5. old = [table EXCEPT ![t].type = type]
  BY <1>3, <1>4 DEF Put, Retyped
<1>6. PICK dst : dst = hash_init(type)
  OBVIOUS
<1>7. /\ Well(1 .. MaxStr, dst) /\ Sane(dst)
      /\ \A k \in Keys : hash_get(dst, k) = NULL
  BY <1>2, <1>6, InitAnswers
<1>8. table \in [Tables -> HashT(1 .. MaxStr)]
  BY DEF TypeInv
<1>9. CASE type # table[s].type
  <2>1. table' = Put(table, t, o)
    BY <1>1, <1>3, <1>9 DEF hash_register, Put, Retyped
  <2>2. /\ Well(1 .. MaxStr, o)
        /\ Sane(table[t]) => Sane(o)
        /\ \A k \in Keys : hash_get(o, k) = hash_get(table[t], k)
    BY <1>2, <1>3, TypeInvWell, RetypedIs
  <2>3. View(o) \in Allowed(t)
    BY <1>2, <2>2, SameView, SameAllowed
  <2> QED
    BY <2>1, <2>2, <2>3 DEF Outcome, MapInv
<1>10. CASE type = table[s].type
  <2>1. PICK src : src = IF s = t THEN dst ELSE old[s]
    OBVIOUS
  <2>2. PICK r : r = hash_merge(dst, src)
    OBVIOUS
  <2>3. table' = [old EXCEPT ![t] = r]
    BY <1>1, <1>5, <1>6, <1>10, <2>1, <2>2 DEF hash_register
  <2>4. table' = Put(table, t, r)
    BY <1>4, <1>8, <2>3 DEF Put
  <2>5. s # t => src = table[s]
    BY <1>4, <1>8, <2>1 DEF Put
  <2>6. Well(1 .. MaxStr, src)
    BY <1>7, <2>1, <2>5, TypeInvWell
  <2>7. Well(1 .. MaxStr, r)
    BY <1>7, <2>2, <2>6, SetOpsWell DEF Well
  <2>8. ASSUME NoNull, MapInv
        PROVE  Sane(r) /\ View(r) \in Allowed(t)
    <3>1. Sane(src)
      BY <1>7, <2>1, <2>5, <2>8 DEF MapInv
    <3>2. Sane(r) /\ \A k \in Keys : hash_get(r, k) = hash_get(src, k)
      BY <1>7, <2>2, <2>6, <3>1, MergeAnswers
    <3>3. CASE s = t
      <4>1. View(r) = Promise!Nothing
        BY <1>7, <2>1, <3>2, <3>3, NothingView
      <4> QED
        BY <3>2, <4>1 DEF Allowed
    <3>4. CASE s # t
      <4>1. View(r) = View(table[s])
        BY <2>5, <3>2, <3>4, SameView
      <4>2. View(r) \in Promise!Results(View(table[t]), View(table[s]))
        BY <4>1 DEF Promise!Results
      <4> QED
        BY <1>2, <3>2, <4>2 DEF Allowed
    <3> QED
      BY <3>3, <3>4
  <2> QED
    BY <2>4, <2>7, <2>8 DEF Outcome
<1> QED
  BY <1>9, <1>10

(* Every step changes one table: one that has a name, in a way its map allows,
   or one that gets a name and holds nothing. *)
LEMMA StepOutcome ==
  ASSUME TypeInv, Next
  PROVE  \E t \in Tables : \E h :
           /\ Well(1 .. MaxStr, h)
           /\ table' = Put(table, t, h)
           /\ stale' = stale \/ \E F : stale' = Dangling(F, table')
           /\ \/ t \in named /\ named' = named /\ Outcome(t, h)
              \/ /\ t \notin named /\ named' = named \union {t}
                 /\ Sane(h) /\ \A k \in Keys : hash_get(h, k) = NULL
<1> DEFINE Changes(t, h) ==
             /\ Well(1 .. MaxStr, h)
             /\ table' = Put(table, t, h)
             /\ stale' = stale \/ \E F : stale' = Dangling(F, table')
             /\ \/ t \in named /\ named' = named /\ Outcome(t, h)
                \/ /\ t \notin named /\ named' = named \union {t}
                   /\ Sane(h) /\ \A k \in Keys : hash_get(h, k) = NULL
<1>1. PICK t \in Tables :
              \/ \E k \in Keys : \/ Del(t, k)
                                 \/ \E d \in Data : \/ Set(t, k, d)
                                                   \/ \E ty \in Types : Add(t, k, d, ty)
              \/ \E s \in Tables : \/ Merge(t, s)
                                   \/ Inter(t, s)
                                   \/ Unmerge(t, s)
                                   \/ hash_register(t, s)
                                   \/ RegisterNew(t, s)
              \/ hash_empty(t)
  BY DEF Next
<1> SUFFICES \E h : Changes(t, h)
  OBVIOUS
<1>2. ASSUME \E h : Outcome(t, h) /\ table' = Put(table, t, h), t \in named, named' = named,
             stale' = stale \/ \E F : stale' = Dangling(F, table')
      PROVE  \E h : Changes(t, h)
  <2>1. PICK h : Outcome(t, h) /\ table' = Put(table, t, h)
    BY <1>2
  <2>2. Changes(t, h)
    BY <1>2, <2>1 DEF Outcome
  <2> QED
    BY <2>2
<1>3. CASE \E k \in Keys : Del(t, k)
  <2>1. \E h : Outcome(t, h) /\ table' = Put(table, t, h)
    BY <1>3, DelOutcome
  <2>2. t \in named /\ named' = named /\ stale' = stale
    BY <1>3 DEF Del, Replace
  <2> QED
    BY <1>2, <2>1, <2>2
<1>4. CASE \E k \in Keys, d \in Data : Set(t, k, d)
  <2>1. \E h : Outcome(t, h) /\ table' = Put(table, t, h)
    BY <1>4, SetOutcome
  <2>2. t \in named /\ named' = named /\ stale' = stale
    BY <1>4 DEF Set, Replace
  <2> QED
    BY <1>2, <2>1, <2>2
<1>5. CASE \E k \in Keys, d \in Data, ty \in Types : Add(t, k, d, ty)
  <2>1. \E h : Outcome(t, h) /\ table' = Put(table, t, h)
    BY <1>5, AddOutcome
  <2>2. t \in named /\ named' = named /\ stale' = stale
    BY <1>5 DEF Add, Replace
  <2> QED
    BY <1>2, <2>1, <2>2
<1>6. CASE \E s \in Tables : Merge(t, s) \/ Inter(t, s) \/ Unmerge(t, s)
  <2>1. \E h : Outcome(t, h) /\ table' = Put(table, t, h)
    BY <1>6, SetOpsOutcome
  <2>2. t \in named /\ named' = named /\ stale' = stale
    BY <1>6 DEF Merge, Inter, Unmerge, Replace
  <2> QED
    BY <1>2, <2>1, <2>2
<1>7. CASE \E s \in Tables : hash_register(t, s)
  <2>1. \E h : Outcome(t, h) /\ table' = Put(table, t, h)
    BY <1>7, RegisterOutcome
  <2>2. t \in named /\ named' = named
    BY <1>7 DEF hash_register
  <2>3. stale' = stale \/ stale' = Dangling(Destroyed(table[t]), table')
    BY <1>7 DEF hash_register
  <2> QED
    BY <1>2, <2>1, <2>2, <2>3
<1>8. CASE hash_empty(t)
  <2>1. \E h : Outcome(t, h) /\ table' = Put(table, t, h)
    BY <1>8, EmptyOutcome
  <2>2. t \in named /\ named' = named /\ stale' = Dangling(Destroyed(table[t]), table')
    BY <1>8 DEF hash_empty
  <2> QED
    BY <1>2, <2>1, <2>2
<1>9. CASE \E s \in Tables : RegisterNew(t, s)
  <2>1. PICK s \in Tables : RegisterNew(t, s)
    BY <1>9
  <2>2. PICK h : h = hash_init(table[s].type)
    OBVIOUS
  <2>3. /\ table' = Put(table, t, h) /\ stale' = stale
        /\ t \notin named /\ named' = named \union {t}
    BY <2>1, <2>2 DEF RegisterNew, Put
  <2>4. Well(1 .. MaxStr, h) /\ Sane(h) /\ \A k \in Keys : hash_get(h, k) = NULL
    BY <2>2, TypeInvWell, InitAnswers
  <2>5. Changes(t, h)
    BY <2>3, <2>4
  <2> QED
    BY <2>5
<1> HIDE DEF Changes
<1> QED
  BY <1>1, <1>3, <1>4, <1>5, <1>6, <1>7, <1>8, <1>9

-----------------------------------------------------------------------------
(* The theorems. *)

(* The invariant holds initially. *)
LEMMA InitMapInv == Init => MapInv
<1> SUFFICES ASSUME Init
             PROVE  MapInv
  OBVIOUS
<1>1. \A t \in Tables : TypeOf[t] \in Types \union {UNKNOW}
  BY HashAssumption
<1>2. table = [t \in Tables |-> hash_init(TypeOf[t])] /\ named \subseteq Tables /\ stale = {}
  BY DEF Init
<1>3. ASSUME NEW t \in Tables
      PROVE  /\ table[t] \in HashT(1 .. MaxStr) /\ Counted(table[t]) /\ Sane(table[t])
             /\ \A k \in Keys : hash_get(table[t], k) = NULL
  <2>1. table[t] = hash_init(TypeOf[t])
    BY <1>2
  <2> QED
    BY <1>1, <2>1, InitAnswers DEF Well
<1>4. table \in [Tables -> HashT(1 .. MaxStr)]
  BY <1>2, <1>3
<1> QED
  BY <1>2, <1>3, <1>4 DEF MapInv, TypeInv

(* Every step preserves the types and the counts. *)
LEMMA TypeInvStep ==
  ASSUME TypeInv, [Next]_vars
  PROVE  TypeInv'
<1>1. CASE UNCHANGED vars
  BY <1>1 DEF TypeInv, vars, Counted, Traverse
<1>2. CASE Next
  <2>1. PICK t \in Tables : \E h :
           /\ Well(1 .. MaxStr, h)
           /\ table' = Put(table, t, h)
           /\ stale' = stale \/ \E F : stale' = Dangling(F, table')
           /\ named' = named \/ named' = named \union {t}
    BY <1>2, StepOutcome
  <2>2. PICK h :
           /\ Well(1 .. MaxStr, h)
           /\ table' = Put(table, t, h)
           /\ stale' = stale \/ \E F : stale' = Dangling(F, table')
           /\ named' = named \/ named' = named \union {t}
    BY <2>1
  <2>3. table \in [Tables -> HashT(1 .. MaxStr)] /\ named \subseteq Tables
    BY DEF TypeInv
  <2>4. h \in HashT(1 .. MaxStr) /\ Counted(h)
    BY <2>2 DEF Well
  <2>5. table' \in [Tables -> HashT(1 .. MaxStr)]
    BY <2>2, <2>3, <2>4 DEF Put
  <2>6. table'[t] = h /\ \A s \in Tables \ {t} : table'[s] = table[s]
    BY <2>2, <2>3 DEF Put
  <2>7. \A s \in Tables : Counted(table'[s])
    BY <2>4, <2>6 DEF TypeInv
  <2>8. named' \subseteq Tables
    BY <2>2, <2>3
  <2>9. stale' \subseteq Keys \X (1 .. MaxStr)
    <3>1. CASE stale' = stale
      BY <3>1 DEF TypeInv
    <3>2. CASE \E F : stale' = Dangling(F, table')
      <4>1. \A s \in Tables : Strings(table'[s]) \subseteq Keys \X (1 .. MaxStr)
        BY <2>5, StringsType
      <4> QED
        BY <3>2, <4>1 DEF Dangling
    <3> QED
      BY <2>2, <3>1, <3>2
  <2> QED
    BY <2>5, <2>7, <2>8, <2>9 DEF TypeInv, Counted, Traverse
<1> QED
  BY <1>1, <1>2

(* If nobody stores the null pointer, every step keeps the chains sane. *)
LEMMA MapInvStep ==
  ASSUME NoNull, MapInv, [Next]_vars
  PROVE  MapInv'
<1>0. TypeInv /\ TypeInv'
  BY TypeInvStep DEF MapInv
<1> DEFINE Empty(h) == \A k \in Keys : hash_get(h, k) = NULL
<1>1. CASE UNCHANGED vars
  <2>1. table' = table /\ named' = named
    BY <1>1 DEF vars
  <2>2. \A t \in Tables : Sane(table'[t])
    BY <2>1 DEF MapInv
  <2>3. \A t \in Tables \ named' : Empty(table'[t])
    BY <2>1 DEF MapInv
  <2> QED
    BY <1>0, <2>2, <2>3 DEF MapInv, Sane, SaneChain, hash_get, hash_get_ent, hash_get_head, SelectInSeq, Min
<1>2. CASE Next
  <2>1. PICK t \in Tables : \E h :
           /\ table' = Put(table, t, h)
           /\ Sane(h)
           /\ named' = named \union {t}
    BY <1>0, <1>2, StepOutcome DEF Outcome
  <2>2. PICK h : table' = Put(table, t, h) /\ Sane(h) /\ named' = named \union {t}
    BY <2>1
  <2>3. table \in [Tables -> HashT(1 .. MaxStr)]
    BY <1>0 DEF TypeInv
  <2>4. table'[t] = h /\ \A s \in Tables \ {t} : table'[s] = table[s]
    BY <2>2, <2>3 DEF Put
  <2>5. \A s \in Tables : Sane(table'[s])
    BY <2>2, <2>4 DEF MapInv
  <2>6. \A s \in Tables \ named' : Empty(table'[s])
    BY <2>2, <2>4 DEF MapInv
  <2> QED
    BY <1>0, <2>5, <2>6 DEF MapInv, Sane, SaneChain, hash_get, hash_get_ent, hash_get_head, SelectInSeq, Min
<1> QED
  BY <1>1, <1>2

(* The type invariant of the tables: names, strings and fields of hash_t stay
   in their types whatever the callers of libhash.c do, and the count is never
   negative. *)
THEOREM TypeCorrect == Spec => []TypeOK
<1>1. Init => TypeInv
  BY InitMapInv DEF MapInv
<1>2. TypeInv /\ [Next]_vars => TypeInv'
  BY TypeInvStep
<1>3. TypeInv => TypeOK
  <2> SUFFICES ASSUME TypeInv
               PROVE  TypeOK
    OBVIOUS
  <2>1. ASSUME NEW t \in Tables
        PROVE  /\ table[t].type \in Types \union {UNKNOW}
               /\ table[t].elmnbr \in Nat
    BY TypeInvWell, CountZero DEF Well
  <2>2. ASSUME NEW t \in Tables, NEW i \in Index
        PROVE  ToSet(table[t].ent[i]) \subseteq Entry
    <3>1. PICK c : c = table[t].ent[i]
      OBVIOUS
    <3>2. c \in Seq(Cell(1 .. MaxStr))
      BY <3>1, TypeInvWell DEF HashT
    <3>3. DOMAIN c = 1 .. Len(c) /\ \A j \in 1 .. Len(c) : c[j] \in Cell(1 .. MaxStr)
      BY <3>2, LenProperties, ElementOfSeq
    <3> QED
      BY <3>1, <3>3 DEF ToSet, Entry, Cell
  <2> QED
    BY <2>1, <2>2 DEF TypeOK, TypeInv
<1> QED
  BY <1>1, <1>2, <1>3, PTL DEF Spec

(* The count of hash_add, hash_del, hash_merge, hash_inter and hash_unmerge is
   the number of entries in every reachable state, for any number of chains:
   the array that hash_get_keys allocates from it holds all the keys. *)
THEOREM Counts == Spec => []CountMatches
<1>1. Init => TypeInv
  BY InitMapInv DEF MapInv
<1>2. TypeInv /\ [Next]_vars => TypeInv'
  BY TypeInvStep
<1>3. TypeInv => CountMatches
  BY DEF TypeInv, CountMatches, Counted
<1> QED
  BY <1>1, <1>2, <1>3, PTL DEF Spec

(* If no caller stores the null pointer, a key never has two entries in a
   table, not even in different chains: what hash_add's comment says. *)
THEOREM KeysOnce == NULL \notin Data => (Spec => []KeyOnce)
<1> SUFFICES ASSUME NULL \notin Data
             PROVE  Spec => []KeyOnce
  OBVIOUS
<1>1. Init => MapInv
  BY InitMapInv
<1>2. MapInv /\ [Next]_vars => MapInv'
  BY MapInvStep DEF NoNull
<1>3. MapInv => KeyOnce
  <2> SUFFICES ASSUME MapInv, NEW t \in Tables, NEW i \in Index, NEW j \in Index,
                      NEW m \in DOMAIN table[t].ent[i], NEW n \in DOMAIN table[t].ent[j],
                      table[t].ent[i][m].key = table[t].ent[j][n].key
               PROVE  i = j /\ m = n
    BY DEF KeyOnce
  <2>1. PICK c, d : c = table[t].ent[i] /\ d = table[t].ent[j]
    OBVIOUS
  <2>2. c \in Seq(Cell(1 .. MaxStr)) /\ d \in Seq(Cell(1 .. MaxStr))
    BY <2>1, TypeInvWell DEF HashT, MapInv
  <2>3. DOMAIN c = 1 .. Len(c) /\ DOMAIN d = 1 .. Len(d)
    BY <2>2, LenProperties
  <2>4. SaneChain(c, i) /\ SaneChain(d, j)
    BY <2>1 DEF MapInv, Sane
  <2>5. hash_get_head(c[m].key) = i /\ hash_get_head(d[n].key) = j
    BY <2>1, <2>3, <2>4 DEF SaneChain
  <2>6. i = j /\ c = d
    BY <2>1, <2>5
  <2> QED
    BY <2>1, <2>3, <2>4, <2>6 DEF SaneChain
<1> QED
  BY <1>1, <1>2, <1>3, PTL DEF Spec

(* Tables with strings from a larger set. *)
LEMMA HashTWider ==
  ASSUME NEW N, NEW M, N \subseteq M, NEW h \in HashT(N)
  PROVE  h \in HashT(M)
<1>1. Cell(N) \subseteq Cell(M)
  BY DEF Cell
<1>2. \A c \in Seq(Cell(N)) : c \in Seq(Cell(M))
  BY <1>1, SeqMonotonic
<1>3. h.ent \in [Index -> Seq(Cell(M))]
  BY <1>2 DEF HashT
<1> QED
  BY <1>3 DEF HashT

(* If no caller stores the null pointer, the operations on the chains do to the
   answers of hash_get what the operations on maps do: the loops of hash_merge,
   hash_inter and hash_unmerge, which change the table they look keys up in,
   miss no key and touch no other, and hash_del and hash_add change one key. *)
THEOREM Operations == NULL \notin Data => (Spec => []OperationsCorrect)
<1> SUFFICES ASSUME NULL \notin Data
             PROVE  Spec => []OperationsCorrect
  OBVIOUS
<1>1. Init => MapInv
  BY InitMapInv
<1>2. MapInv /\ [Next]_vars => MapInv'
  BY MapInvStep DEF NoNull
<1>3. MapInv => OperationsCorrect
  <2> SUFFICES ASSUME MapInv
               PROVE  OperationsCorrect
    OBVIOUS
  <2>1. TypeInv /\ named \subseteq Tables
    BY DEF MapInv, TypeInv
  <2>2. ASSUME NEW t \in named, NEW s \in named
        PROVE  LET f == View(table[t])  g == View(table[s])
               IN  /\ View(hash_merge(table[t], table[s])) = Promise!Union(f, g)
                   /\ Promise!Support(g) # {} =>
                        View(hash_inter(table[t], table[s])) = Promise!Intersect(f, g)
                   /\ View(hash_unmerge(table[t], table[s])) = Promise!Subtract(f, g)
    BY <2>1, SetOpsView
  <2>3. ASSUME NEW t \in named, NEW k \in Keys
        PROVE  View(hash_del(table[t], k)) = [View(table[t]) EXCEPT ![k] = NULL]
    <3>1. PICK h, r : h = table[t] /\ r = hash_del(h, k)
      OBVIOUS
    <3>2. h \in HashT(1 .. MaxStr) /\ Sane(h)
      BY <2>1, <3>1, TypeInvWell DEF MapInv
    <3>3. Stores(h, r, k, NULL)
      BY <3>1, <3>2, DelStores
    <3>4. View(r) = [View(h) EXCEPT ![k] = NULL]
      BY <3>3 DEF Stores, View
    <3> QED
      BY <3>1, <3>4
  <2>4. ASSUME NEW t \in named, NEW k \in Keys, NEW d \in Data
        PROVE  View(hash_add(table[t], [key |-> k, str |-> 1, data |-> d]))
                 = [View(table[t]) EXCEPT ![k] = d]
    <3>1. PICK e : e = [key |-> k, str |-> 1, data |-> d]
      OBVIOUS
    <3>2. PICK N : N = (1 .. MaxStr) \union {1}
      OBVIOUS
    <3>3. PICK h, r : h = table[t] /\ r = hash_add(h, e)
      OBVIOUS
    <3>4. h \in HashT(1 .. MaxStr) /\ Sane(h)
      BY <2>1, <3>3, TypeInvWell DEF MapInv
    <3>5. h \in HashT(N)
      BY <3>2, <3>4, HashTWider
    <3>6. e \in Cell(N) /\ e.key = k /\ e.data = d /\ d # NULL
      BY <3>1, <3>2 DEF Cell
    <3>7. Storable(N, h, e)
      BY <3>6 DEF Storable
    <3>8. Stores(h, r, k, d)
      BY <3>3, <3>4, <3>5, <3>6, <3>7, AddStores
    <3>9. View(r) = [View(h) EXCEPT ![k] = d]
      BY <3>8 DEF Stores, View
    <3> QED
      BY <3>1, <3>3, <3>9
  <2> QED
    BY <2>2, <2>3, <2>4 DEF OperationsCorrect
<1> QED
  BY <1>1, <1>2, <1>3, PTL DEF Spec

(* What hash_get answers in the next state. *)
LEMMA NextMap ==
  ([t \in Tables |-> View(table[t])])' = [t \in Tables |-> View(table'[t])]
BY DEF View, hash_get, hash_get_ent, hash_get_head, SelectInSeq, Min

(* A step of the tables is a step of the maps. *)
LEMMA PromiseStep ==
  ASSUME NoNull, MapInv, [Next]_vars
  PROVE  [Promise!Next]_Promise!vars
<1>1. CASE UNCHANGED vars
  <2>1. table' = table /\ named' = named
    BY <1>1 DEF vars
  <2>2. ([t \in Tables |-> View(table[t])])' = [t \in Tables |-> View(table[t])]
    BY <2>1, NextMap
  <2> QED
    BY <2>1, <2>2 DEF Promise!vars
<1>2. CASE Next
  <2>0. TypeInv /\ table \in [Tables -> HashT(1 .. MaxStr)]
    BY DEF MapInv, TypeInv
  <2>1. PICK t \in Tables : \E h :
           /\ table' = Put(table, t, h)
           /\ \/ t \in named /\ named' = named /\ View(h) \in Allowed(t)
              \/ /\ t \notin named /\ named' = named \union {t}
                 /\ \A k \in Keys : hash_get(h, k) = NULL
    BY <1>2, <2>0, StepOutcome DEF Outcome
  <2>2. PICK h :
           /\ table' = Put(table, t, h)
           /\ \/ t \in named /\ named' = named /\ View(h) \in Allowed(t)
              \/ /\ t \notin named /\ named' = named \union {t}
                 /\ \A k \in Keys : hash_get(h, k) = NULL
    BY <2>1
  <2>3. table'[t] = h /\ \A s \in Tables \ {t} : table'[s] = table[s]
    BY <2>0, <2>2 DEF Put
  <2>4. PICK m : m = ([s \in Tables |-> View(table[s])])'
    OBVIOUS
  <2>5. m = [s \in Tables |-> View(table'[s])]
    BY <2>4, NextMap
  <2>6. m[t] = View(h) /\ \A s \in Tables \ {t} : m[s] = View(table[s])
    BY <2>3, <2>5
  <2>7. CASE t \in named /\ named' = named /\ View(h) \in Allowed(t)
    <3>1. Promise!Operate(t)
      <4>1. named \subseteq Tables
        BY <2>0 DEF TypeInv
      <4>2. \A s \in Tables : ([u \in Tables |-> View(table[u])])[s] = View(table[s])
        OBVIOUS
      <4>3. m[t] \in LET f == ([u \in Tables |-> View(table[u])])[t]
                     IN  Promise!Stored(f) \union Promise!Removed(f) \union {Promise!Nothing}
                           \union UNION {Promise!Results(f, ([u \in Tables |-> View(table[u])])[s])
                                           : s \in named}
        BY <2>6, <2>7, <4>1, <4>2 DEF Allowed
      <4>4. \A s \in Tables \ {t} : m[s] = ([u \in Tables |-> View(table[u])])[s]
        BY <2>6, <4>2
      <4> QED
        BY <2>4, <2>7, <4>3, <4>4 DEF Promise!Operate
    <3> QED
      BY <3>1 DEF Promise!Next
  <2>8. CASE /\ t \notin named /\ named' = named \union {t}
             /\ \A k \in Keys : hash_get(h, k) = NULL
    <3>1. \A k \in Keys : hash_get(table[t], k) = hash_get(h, k)
      BY <2>8 DEF MapInv
    <3>2. View(h) = View(table[t])
      BY <3>1, SameView
    <3>3. \A s \in Tables : View(table'[s]) = View(table[s])
      BY <2>3, <3>2
    <3>4. m = [s \in Tables |-> View(table[s])]
      BY <2>5, <3>3
    <3>5. Promise!Define(t)
      BY <2>4, <2>8, <3>4 DEF Promise!Define
    <3> QED
      BY <3>5 DEF Promise!Next
  <2> QED
    BY <2>2, <2>7, <2>8
<1> QED
  BY <1>1, <1>2

(* The hash tables implement the maps their callers rely on: if no caller
   stores the null pointer, every behaviour of libhash.c, seen through
   hash_get, is a behaviour of HashMap. *)
THEOREM Implements == NULL \notin Data => (Spec => RefinesMap)
<1> SUFFICES ASSUME NULL \notin Data
             PROVE  Spec => RefinesMap
  OBVIOUS
<1>1. Init => MapInv
  BY InitMapInv
<1>2. MapInv /\ [Next]_vars => MapInv'
  BY MapInvStep DEF NoNull
<1>3. Init => Promise!Init
  <2> SUFFICES ASSUME Init
               PROVE  Promise!Init
    OBVIOUS
  <2>1. \A t \in Tables : View(table[t]) = Promise!Nothing
    <3> SUFFICES ASSUME NEW t \in Tables
                 PROVE  View(table[t]) = Promise!Nothing
      OBVIOUS
    <3>1. table[t] = hash_init(TypeOf[t]) /\ TypeOf[t] \in Types \union {UNKNOW}
      BY HashAssumption DEF Init
    <3> QED
      BY <3>1, InitAnswers, NothingView
  <2>2. [t \in Tables |-> View(table[t])] = [t \in Tables |-> Promise!Nothing]
    BY <2>1
  <2> QED
    BY <2>2 DEF Init, Promise!Init
<1>4. MapInv /\ [Next]_vars => [Promise!Next]_Promise!vars
  BY PromiseStep DEF NoNull
<1> QED
  BY <1>1, <1>2, <1>3, <1>4, PTL DEF Spec, RefinesMap, Promise!Spec
=============================================================================
