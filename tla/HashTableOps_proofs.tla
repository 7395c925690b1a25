------------------------ MODULE HashTableOps_proofs -------------------------
(***************************************************************************)
(* What the operations of hashtable.c and chained.c make of a memory, for  *)
(* any number of tables, keys, values and addresses.                       *)
(*                                                                         *)
(* A memory is Sound: every table that owns its buckets has an order of    *)
(* them.  In it next and prev lead to the neighbours, and the chains hang  *)
(* in the heads so that every link goes down a rank; no bucket is of two   *)
(* orders or of none; a copy that has not been written yet has the order   *)
(* of the table it was made from.  An operation is shown to make one Sound *)
(* memory of another and to say what becomes of the entries in order       *)
(* (Became).                                                               *)
(***************************************************************************)
EXTENDS HashTableOps, FiniteSetTheorems, SequenceTheorems, WellFoundedInduction, TLAPS

\* The list of a table's elements is one of dll.c: D has the lemmas about those.
D == INSTANCE DList_proofs WITH
         Cells <- Addresses, Data <- Keys \X Values, cell <- NULL, dll <- NULL

Links == Addresses \cup {NULL}

\* Where a link of a bucket leads.
Link(m, x, link) == m.bucket[x][link]

\* c are the l buckets of a way along a link.
Way(m, link, l, c) ==
    /\ l \in Nat /\ c \in [1 .. l -> DOMAIN m.bucket]
    /\ Cardinality(DOMAIN m.bucket) \in Nat /\ l <= Cardinality(DOMAIN m.bucket)
    /\ NULL \notin DOMAIN m.bucket /\ DOMAIN m.bucket \subseteq Addresses
    /\ \A i \in 1 .. l : Link(m, c[i], link) = At(c, i + 1)

\* What is walked along from its first bucket on is the way.
LEMMA AlongIs ==
  ASSUME NEW m, NEW link, NEW l, NEW c, Way(m, link, l, c)
  PROVE  Along(m, At(c, 1), link) = c
<1> DEFINE n == At(c, 1)
<1>0. /\ l \in Nat /\ c \in [1 .. l -> DOMAIN m.bucket]
      /\ Cardinality(DOMAIN m.bucket) \in Nat /\ l <= Cardinality(DOMAIN m.bucket)
      /\ NULL \notin DOMAIN m.bucket /\ DOMAIN m.bucket \subseteq Addresses
      /\ \A i \in 1 .. l : Link(m, c[i], link) = At(c, i + 1)
  BY DEF Way
<1> DEFINE K == 1 .. Cardinality(DOMAIN m.bucket) + 1
           behind == [x \in Addresses \cup {NULL} |->
                        IF x \in DOMAIN m.bucket THEN m.bucket[x][link] ELSE NULL]
           Walk(f) == [i \in K |-> IF i = 1 THEN n ELSE behind[f[i - 1]]]
           a == CHOOSE f : f = Walk(f)
           w == [i \in K |-> At(c, i)]
           met == {i \in DOMAIN a : a[i] \in DOMAIN m.bucket}
<1>1. Along(m, n, link) = [i \in 1 .. Cardinality(met) |-> a[i]]
  BY Zenon DEF Along
<1>2. ASSUME NEW i \in K PROVE w[i] = IF i = 1 THEN n ELSE behind[w[i - 1]]
  <2>1. CASE i = 1
    BY <1>0, <2>1
  <2>2. CASE i # 1 /\ i - 1 \in 1 .. l
    <3>1. w[i - 1] = c[i - 1] /\ c[i - 1] \in DOMAIN m.bucket /\ (i - 1) + 1 = i /\ i - 1 \in K
      BY <1>0, <2>2 DEF At
    <3>2. behind[w[i - 1]] = m.bucket[c[i - 1]][link]
      BY <1>0, <3>1
    <3>3. m.bucket[c[i - 1]][link] = At(c, (i - 1) + 1)
      BY <1>0, <2>2 DEF Link
    <3>. QED
      BY <1>0, <2>2, <3>1, <3>2, <3>3
  <2>3. CASE i # 1 /\ i - 1 \notin 1 .. l
    <3>1. i - 1 \in K /\ i \notin 1 .. l
      BY <1>0, <2>3
    <3>2. w[i - 1] = NULL /\ w[i] = NULL
      BY <1>0, <2>3, <3>1 DEF At
    <3>3. behind[NULL] = NULL
      BY <1>0
    <3>. QED
      BY <2>3, <3>2, <3>3
  <2>. QED
    BY <1>0, <2>1, <2>2, <2>3
<1>3. w = Walk(w)
  BY <1>0, <1>2
<1>4. \A f : \A i \in K : Walk(f)[i] = IF i = 1 THEN n ELSE behind[f[i - 1]]
  BY <1>0
<1>5. \A f : Walk(f) = [i \in K |-> Walk(f)[i]]
  BY <1>0
<1> HIDE DEF Walk
<1>6. a = Walk(a)
  BY <1>3, Zenon
<1> HIDE DEF a, behind
<1>7. \A i \in K : a[i] = IF i = 1 THEN n ELSE behind[a[i - 1]]
  BY <1>4, <1>6
<1> DEFINE T == {i \in K : a[i] # w[i]}
<1>8. T = {}
  <2>1. SUFFICES ASSUME T # {} PROVE FALSE
    BY <1>0
  <2>2. PICK x \in T : \A y \in T : x <= y
    <3>1. T \subseteq Nat
      BY <1>0
    <3> HIDE DEF T
    <3>. QED
      BY <2>1, <3>1, D!Least
  <2>3. x # 1 /\ x \in K
    BY <1>0, <1>2, <1>7
  <2>4. x - 1 \in K /\ ~ x <= x - 1
    BY <1>0, <2>3
  <2>5. a[x - 1] = w[x - 1]
    BY <1>0, <2>2, <2>4
  <2>6. a[x] = w[x]
    BY <1>0, <1>2, <1>7, <2>3, <2>5
  <2>. QED
    BY <1>0, <2>2, <2>6
<1>9. DOMAIN a = K
  BY <1>5, <1>6
<1>10. met = 1 .. l
  <2>1. ASSUME NEW i \in K PROVE a[i] \in DOMAIN m.bucket <=> i \in 1 .. l
    <3>1. a[i] = At(c, i)
      BY <1>0, <1>8
    <3>. QED
      BY <1>0, <3>1 DEF At
  <2>2. \A i \in 1 .. l : i \in K
    BY <1>0
  <2>. QED
    BY <1>0, <1>9, <2>1, <2>2
<1> HIDE DEF met
<1>11. Cardinality(met) = l
  <2>1. Cardinality(1 .. l) = IF 1 > l THEN 0 ELSE l - 1 + 1
    BY <1>0, FS_Interval
  <2>. QED
    BY <1>0, <1>10, <2>1
<1>12. \A i \in 1 .. l : a[i] = c[i]
  <2>1. \A i \in 1 .. l : i \in K /\ At(c, i) = c[i]
    BY <1>0 DEF At
  <2>. QED
    BY <1>8, <2>1
<1>13. Along(m, n, link) = [i \in 1 .. l |-> a[i]]
  BY <1>0, <1>1, <1>11
<1>14. c = [i \in 1 .. l |-> c[i]]
  BY <1>0
<1>. QED
  BY <1>0, <1>12, <1>13, <1>14

-----------------------------------------------------------------------------
(* Chains.                                                                 *)

SlotOf(b, n, x) == b[x].key % n

\* The elements S hang in the n chains of heads: every link leads to an element
\* of lower rank r with the same slot, and every element is the head of its slot
\* or behind another one.
Hung(b, heads, S, n, top, r) ==
    /\ n \in Nat \ {0} /\ top \in Nat
    /\ heads \in [0 .. n - 1 -> S \cup {NULL}]
    /\ \A h \in 0 .. n - 1 : heads[h] # NULL => SlotOf(b, n, heads[h]) = h
    /\ \A x \in S :
        /\ r[x] \in 0 .. top /\ SlotOf(b, n, x) \in 0 .. n - 1
        /\ b[x].chained \in S \cup {NULL}
        /\ b[x].chained # NULL =>
            r[b[x].chained] < r[x] /\ SlotOf(b, n, b[x].chained) = SlotOf(b, n, x)
        /\ heads[SlotOf(b, n, x)] = x \/ \E y \in S : b[y].chained = x

\* c is the chain from x on, of elements of S with the slot h.
ChainFrom(b, S, n, r, x, h, c) ==
    \E l \in Nat :
        /\ c \in [1 .. l -> S]
        /\ \A i, j \in 1 .. l : c[i] = c[j] => i = j
        /\ x = At(c, 1)
        /\ \A i \in 1 .. l :
            b[c[i]].chained = At(c, i + 1) /\ SlotOf(b, n, c[i]) = h /\ r[c[i]] <= r[x]

\* There is one from every element on.
LEMMA ChainFromElement ==
  ASSUME NEW b, NEW heads, NEW S, NEW n, NEW top, NEW r,
         Hung(b, heads, S, n, top, r), NULL \notin S, NEW x \in S
  PROVE  \E c : ChainFrom(b, S, n, r, x, SlotOf(b, n, x), c)
<1> DEFINE Good(y) == \E c : ChainFrom(b, S, n, r, y, SlotOf(b, n, y), c)
           T == {k \in Nat : \E y \in S : r[y] = k /\ ~ Good(y)}
<1>1. SUFFICES ASSUME ~ Good(x) PROVE FALSE
  OBVIOUS
<1>2. T # {} /\ T \subseteq Nat
  BY <1>1 DEF Hung
<1>3. PICK k \in T : \A j \in T : k <= j
  <2> HIDE DEF T
  <2>. QED
    BY <1>2, D!Least
<1>4. PICK y \in S : r[y] = k /\ ~ Good(y)
  BY <1>3
<1> DEFINE z == b[y].chained
           h == SlotOf(b, n, y)
<1>5. CASE z = NULL
  <2> DEFINE c == [i \in 1 .. 1 |-> y]
  <2>1. /\ c \in [1 .. 1 -> S] /\ \A i, j \in 1 .. 1 : c[i] = c[j] => i = j
        /\ y = At(c, 1) /\ At(c, 1 + 1) = NULL /\ \A i \in 1 .. 1 : i = 1 /\ c[i] = y
    BY DEF At
  <2>2. r[y] <= r[y]
    BY DEF Hung
  <2> HIDE DEF c
  <2>3. \A i \in 1 .. 1 : b[c[i]].chained = At(c, i + 1) /\ SlotOf(b, n, c[i]) = h /\ r[c[i]] <= r[y]
    BY <1>5, <2>1, <2>2
  <2>4. ChainFrom(b, S, n, r, y, h, c)
    BY <2>1, <2>3 DEF ChainFrom
  <2>. QED
    BY <1>4, <2>4
<1>6. CASE z # NULL
  <2>1. z \in S /\ r[z] < r[y] /\ SlotOf(b, n, z) = h /\ r[z] \in Nat /\ r[y] \in Nat
    BY <1>6 DEF Hung
  <2>2. Good(z)
    <3>1. r[z] \notin T
      BY <1>3, <1>4, <2>1
    <3>. QED
      BY <2>1, <3>1
  <2> PICK c : ChainFrom(b, S, n, r, z, h, c)
    BY <2>1, <2>2
  <2>3. PICK l \in Nat :
          /\ c \in [1 .. l -> S]
          /\ \A i, j \in 1 .. l : c[i] = c[j] => i = j
          /\ z = At(c, 1)
          /\ \A i \in 1 .. l : b[c[i]].chained = At(c, i + 1) /\ SlotOf(b, n, c[i]) = h /\ r[c[i]] <= r[z]
    BY DEF ChainFrom
  <2> DEFINE d == [i \in 1 .. l + 1 |-> IF i = 1 THEN y ELSE c[i - 1]]
  <2>4. \A i \in 1 .. l : r[c[i]] \in Nat /\ c[i] # y /\ r[c[i]] <= r[y]
    <3>1. \A i \in 1 .. l : c[i] \in S
      BY <2>3
    <3>2. \A i \in 1 .. l : r[c[i]] \in Nat
      BY <3>1 DEF Hung
    <3>. QED
      BY <2>1, <2>3, <3>2
  <2>5. d \in [1 .. l + 1 -> S]
    BY <2>3
  <2>6. \A i \in 1 .. l + 1 : d[i] = IF i = 1 THEN y ELSE c[i - 1]
    OBVIOUS
  <2> HIDE DEF d
  <2>7. \A i, j \in 1 .. l + 1 : d[i] = d[j] => i = j
    <3>1. \A i \in 1 .. l + 1 : i # 1 => i - 1 \in 1 .. l
      OBVIOUS
    <3>2. ASSUME NEW i \in 1 .. l + 1, NEW j \in 1 .. l + 1, d[i] = d[j], i # 1, j # 1
          PROVE  i = j
      <4>1. c[i - 1] = c[j - 1]
        BY <2>6, <3>2
      <4>2. i - 1 = j - 1
        BY <2>3, <3>1, <3>2, <4>1
      <4>. QED
        BY <4>2
    <3>3. \A i \in 1 .. l + 1 : d[i] = y => i = 1
      BY <2>4, <2>6, <3>1
    <3>4. d[1] = y
      BY <2>6
    <3>. QED
      BY <3>2, <3>3, <3>4
  <2>8. \A i \in 1 .. l + 1 : At(d, i + 1) = At(c, i)
    <3>1. \A i \in 1 .. l + 1 : i + 1 \in 1 .. l + 1 <=> i \in 1 .. l
      OBVIOUS
    <3>2. \A i \in 1 .. l : d[i + 1] = c[i]
      <4>1. \A i \in 1 .. l : i + 1 \in 1 .. l + 1 /\ i + 1 # 1 /\ (i + 1) - 1 = i
        OBVIOUS
      <4>. QED
        BY <2>6, <4>1
    <3>. QED
      BY <2>3, <2>5, <3>1, <3>2 DEF At
  <2>9. y = At(d, 1)
    BY <2>5, <2>6 DEF At
  <2>10. ASSUME NEW i \in 1 .. l + 1
         PROVE  b[d[i]].chained = At(d, i + 1) /\ SlotOf(b, n, d[i]) = h /\ r[d[i]] <= r[y]
    <3>1. CASE i = 1
      BY <2>1, <2>3, <2>6, <2>8, <3>1
    <3>2. CASE i # 1
      <4>1. i - 1 \in 1 .. l /\ (i - 1) + 1 = i
        BY <3>2
      <4>. QED
        BY <2>3, <2>4, <2>6, <2>8, <3>2, <4>1
    <3>. QED
      BY <3>1, <3>2
  <2>11. ChainFrom(b, S, n, r, y, h, d)
    <3>1. l + 1 \in Nat
      OBVIOUS
    <3>. QED
      BY <2>5, <2>7, <2>9, <2>10, <3>1 DEF ChainFrom
  <2>. QED
    BY <1>4, <2>11
<1>. QED
  BY <1>5, <1>6

\* The chains of the heads meet every element.
LEMMA EveryElementChained ==
  ASSUME NEW b, NEW heads, NEW S, NEW n, NEW top, NEW r,
         Hung(b, heads, S, n, top, r), NULL \notin S,
         NEW x \in S, NEW c, ChainFrom(b, S, n, r, heads[SlotOf(b, n, x)], SlotOf(b, n, x), c)
  PROVE  \E i \in DOMAIN c : c[i] = x
<1> DEFINE h == SlotOf(b, n, x)
           Met(y) == \E i \in DOMAIN c : c[i] = y
           T == {k \in Nat : \E y \in S : SlotOf(b, n, y) = h /\ top - r[y] = k /\ ~ Met(y)}
<1>1. SUFFICES ASSUME ~ Met(x) PROVE FALSE
  OBVIOUS
<1>2. PICK l \in Nat :
        /\ c \in [1 .. l -> S]
        /\ heads[h] = At(c, 1)
        /\ \A i \in 1 .. l : b[c[i]].chained = At(c, i + 1)
  BY DEF ChainFrom
<1>3. top \in Nat /\ \A y \in S : r[y] \in 0 .. top /\ top - r[y] \in Nat
  BY DEF Hung
<1>4. T # {} /\ T \subseteq Nat
  BY <1>1, <1>3
<1>5. PICK k \in T : \A j \in T : k <= j
  <2> HIDE DEF T
  <2>. QED
    BY <1>4, D!Least
<1>6. PICK y \in S : SlotOf(b, n, y) = h /\ top - r[y] = k /\ ~ Met(y)
  BY <1>5
<1>7. CASE heads[h] = y
  <2>1. 1 \in DOMAIN c /\ c[1] = y
    BY <1>2, <1>7 DEF At
  <2>. QED
    BY <1>6, <2>1
<1>8. CASE heads[h] # y
  <2>1. PICK z \in S : b[z].chained = y
    BY <1>6, <1>8 DEF Hung
  <2>2. r[y] < r[z] /\ SlotOf(b, n, z) = h
    <3>1. y # NULL
      OBVIOUS
    <3>. QED
      BY <1>6, <2>1, <3>1 DEF Hung
  <2>3. top - r[z] \in Nat /\ ~ k <= top - r[z]
    BY <1>3, <1>6, <2>2
  <2>4. Met(z)
    BY <1>5, <2>2, <2>3
  <2>5. PICK i \in 1 .. l : c[i] = z
    BY <1>2, <2>4
  <2>6. At(c, i + 1) = y
    BY <1>2, <2>1, <2>5
  <2>7. i + 1 \in DOMAIN c /\ c[i + 1] = y
    BY <2>6 DEF At
  <2>. QED
    BY <1>6, <2>7
<1>. QED
  BY <1>7, <1>8

-----------------------------------------------------------------------------
(* A table and its elements.                                               *)

Bucket == [key : Keys, value : Values, prev : Links, next : Links, chained : Links]
Table == [array : Tables, count : Nat, head : Links, tail : Links, cow : BOOLEAN]

\* Buckets as the elements of a list of dll.c, and a table as its ends and size.
View(b, s) == [x \in ToSet(s) |-> [data |-> <<b[x].key, b[x].value>>, prev |-> b[x].prev, next |-> b[x].next]]
Ends(table) == [head |-> table.head, tail |-> table.tail, size |-> table.count]

\* s are the elements of the table in their order.
InOrder(b, table, s) ==
    /\ table.count \in Nat /\ s \in [1 .. table.count -> DOMAIN b]
    /\ \A i, j \in 1 .. table.count : s[i] = s[j] => i = j
    /\ table.head = At(s, 1) /\ table.tail = At(s, table.count)
    /\ \A i \in 1 .. table.count : b[s[i]].next = At(s, i + 1) /\ b[s[i]].prev = At(s, i - 1)

\* An order is of every table with its ends and its count.
LEMMA SameEnds ==
  ASSUME NEW b, NEW s, NEW owner, InOrder(b, owner, s),
         NEW table, table.head = owner.head, table.tail = owner.tail, table.count = owner.count
  PROVE  InOrder(b, table, s)
<1>1. PICK k, head, tail : /\ k = owner.count /\ head = owner.head /\ tail = owner.tail
                          /\ k = table.count /\ head = table.head /\ tail = table.tail
  OBVIOUS
<1>2. /\ k \in Nat /\ s \in [1 .. k -> DOMAIN b] /\ head = At(s, 1) /\ tail = At(s, k)
      /\ \A i, j \in 1 .. k : s[i] = s[j] => i = j
      /\ \A i \in 1 .. k : b[s[i]].next = At(s, i + 1) /\ b[s[i]].prev = At(s, i - 1)
  BY <1>1, Zenon DEF InOrder
<1>. QED
  BY <1>1, <1>2, Zenon DEF InOrder

\* The elements are buckets.
LEMMA InOrderAllocated ==
  ASSUME NEW b, NEW table, NEW s, InOrder(b, table, s)
  PROVE  ToSet(s) \subseteq DOMAIN b
<1>1. PICK k \in Nat : k = table.count
  BY DEF InOrder
<1>2. s \in [1 .. k -> DOMAIN b]
  BY <1>1 DEF InOrder
<1>. QED
  BY <1>2 DEF ToSet

HungIn(b, heads, S) ==
    \E n, top, r : Hung(b, heads, S, n, top, r)

\* The table has the elements s, in this order and in its chains.
Whole(b, table, heads, s) == InOrder(b, table, s) /\ HungIn(b, heads, ToSet(s))

\* The buckets allocated.
Allocated(b) ==
    /\ DOMAIN b \subseteq Addresses
    /\ b = [x \in DOMAIN b |-> b[x]]
    /\ \A x \in DOMAIN b : b[x] \in Bucket

LEMMA AllocatedFinite ==
  ASSUME TablesAssumption, NEW b, Allocated(b)
  PROVE  /\ IsFiniteSet(DOMAIN b) /\ Cardinality(DOMAIN b) \in Nat /\ NULL \notin DOMAIN b
         /\ Cardinality(DOMAIN b) <= Cardinality(Addresses)
         /\ \A l \in Nat : \A c \in [1 .. l -> DOMAIN b] :
                (\A i, j \in 1 .. l : c[i] = c[j] => i = j) => l <= Cardinality(DOMAIN b)
<1>1. DOMAIN b \in SUBSET Addresses /\ IsFiniteSet(Addresses) /\ NULL \notin DOMAIN b
  BY DEF Allocated, TablesAssumption
<1>2. IsFiniteSet(DOMAIN b) /\ Cardinality(DOMAIN b) <= Cardinality(Addresses)
  BY <1>1, FS_Subset
<1>3. Cardinality(DOMAIN b) \in Nat
  BY <1>2, FS_CardinalityType
<1>4. ASSUME NEW l \in Nat, NEW c \in [1 .. l -> DOMAIN b], \A i, j \in 1 .. l : c[i] = c[j] => i = j
      PROVE  l <= Cardinality(DOMAIN b)
  <2>1. c \in Injection(1 .. l, DOMAIN b)
    BY <1>4 DEF Injection, IsInjective
  <2>2. Cardinality(1 .. l) <= Cardinality(DOMAIN b)
    BY <1>2, <2>1, FS_Injection
  <2>3. Cardinality(1 .. l) = IF 1 > l THEN 0 ELSE l - 1 + 1
    BY FS_Interval
  <2>. QED
    BY <2>2, <2>3
<1>. QED
  BY <1>1, <1>2, <1>3, <1>4

\* Read forwards and backwards the table is its order.
LEMMA OrderRead ==
  ASSUME TablesAssumption, NEW m, Allocated(m.bucket), NEW table, NEW s, InOrder(m.bucket, table, s)
  PROVE  /\ Along(m, table.head, "next") = s
         /\ Along(m, table.tail, "prev") = Reverse(s)
         /\ table.count <= Cardinality(DOMAIN m.bucket)
         /\ DOMAIN s = 1 .. table.count /\ Len(s) = table.count
         /\ s \in Seq(Addresses)
<1> DEFINE b == m.bucket
           k == table.count
           z == [i \in 1 .. k |-> s[k - i + 1]]
<1>1. /\ k \in Nat /\ s \in [1 .. k -> DOMAIN b]
      /\ \A i, j \in 1 .. k : s[i] = s[j] => i = j
      /\ table.head = At(s, 1) /\ table.tail = At(s, k)
      /\ \A i \in 1 .. k : b[s[i]].next = At(s, i + 1) /\ b[s[i]].prev = At(s, i - 1)
  BY DEF InOrder
<1>2. Cardinality(DOMAIN b) \in Nat /\ NULL \notin DOMAIN b /\ k <= Cardinality(DOMAIN b) /\ DOMAIN b \subseteq Addresses
  BY <1>1, AllocatedFinite DEF Allocated
<1>3. Along(m, table.head, "next") = s
  <2>1. \A i \in 1 .. k : Link(m, s[i], "next") = At(s, i + 1)
    BY <1>1 DEF Link
  <2>2. Way(m, "next", k, s)
    BY <1>1, <1>2, <2>1 DEF Way
  <2>. QED
    BY <1>1, <2>2, AlongIs
<1>4. Along(m, table.tail, "prev") = z
  <2>1. z \in [1 .. k -> DOMAIN b]
    BY <1>1
  <2>2. \A i \in 1 .. k : k - i + 1 \in 1 .. k /\ z[i] = s[k - i + 1]
    BY <1>1
  <2>3. \A i \in 0 .. k : At(z, i + 1) = At(s, k - i)
    <3>1. \A i \in 0 .. k : (i + 1 \in 1 .. k <=> k - i \in 1 .. k) /\ k - (i + 1) + 1 = k - i
      BY <1>1
    <3> HIDE DEF z
    <3>. QED
      BY <1>1, <2>1, <2>2, <3>1 DEF At
  <2> HIDE DEF z
  <2>4. table.tail = At(z, 1)
    <3>1. 0 \in 0 .. k /\ 0 + 1 = 1 /\ k - 0 = k
      BY <1>1
    <3>. QED
      BY <1>1, <2>3, <3>1
  <2>5. ASSUME NEW i \in 1 .. k PROVE Link(m, z[i], "prev") = At(z, i + 1)
    <3>1. k - i + 1 \in 1 .. k /\ (k - i + 1) - 1 = k - i /\ i \in 0 .. k
      BY <1>1
    <3>2. z[i] = s[k - i + 1] /\ At(z, i + 1) = At(s, k - i)
      BY <2>2, <2>3, <3>1
    <3>3. b[s[k - i + 1]].prev = At(s, (k - i + 1) - 1)
      BY <1>1, <3>1
    <3>. QED
      BY <3>1, <3>2, <3>3 DEF Link
  <2>6. Way(m, "prev", k, z)
    BY <1>1, <1>2, <2>1, <2>5 DEF Way
  <2>. QED
    BY <2>4, <2>6, AlongIs
<1>5. s \in Seq(Addresses) /\ Len(s) = k
  BY <1>1, <1>2, D!FunctionSeq
<1>6. z = Reverse(s)
  BY <1>5 DEF Reverse
<1>. QED
  BY <1>1, <1>2, <1>3, <1>4, <1>5, <1>6

\* The elements with a slot, and the chain read from a head.
InSlot(b, n, S, h) == {x \in S : SlotOf(b, n, x) = h}
Read(m, heads, h) == Along(m, heads[h], "chained")

Chained(m, heads, S, n) ==
    /\ Allocated(m.bucket) /\ S \subseteq DOMAIN m.bucket /\ n \in Nat \ {0}
    /\ \E top, r : Hung(m.bucket, heads, S, n, top, r)

\* Every chain of a table is read from its head on, ends, and has exactly the
\* elements of its slot.
LEMMA ChainsRead ==
  ASSUME TablesAssumption, NEW m, NEW heads, NEW S, NEW n, Chained(m, heads, S, n), NEW h \in 0 .. n - 1
  PROVE  /\ \E l \in Nat : Read(m, heads, h) \in [1 .. l -> S]
         /\ \A i \in DOMAIN Read(m, heads, h) :
                m.bucket[Read(m, heads, h)[i]].chained = At(Read(m, heads, h), i + 1)
         /\ heads[h] = At(Read(m, heads, h), 1)
         /\ ToSet(Read(m, heads, h)) = InSlot(m.bucket, n, S, h)
<1> DEFINE b == m.bucket
           e == heads[h]
<1>0. /\ Allocated(b) /\ S \subseteq DOMAIN b /\ n \in Nat \ {0}
      /\ \E top, r : Hung(b, heads, S, n, top, r)
  BY DEF Chained
<1> PICK top, r : Hung(b, heads, S, n, top, r)
  BY <1>0
<1>1. Cardinality(DOMAIN b) \in Nat /\ NULL \notin DOMAIN b /\ DOMAIN b \subseteq Addresses
  BY <1>0, AllocatedFinite DEF Allocated
<1>2. \E c : ChainFrom(b, S, n, r, e, h, c)
  <2>1. CASE e = NULL
    <3> DEFINE c == [i \in 1 .. 0 |-> NULL]
    <3>1. c \in [1 .. 0 -> S] /\ e = At(c, 1)
      BY <2>1 DEF At
    <3>2. \A i \in 1 .. 0 : FALSE
      OBVIOUS
    <3> HIDE DEF c
    <3>3. ChainFrom(b, S, n, r, e, h, c)
      BY <3>1, <3>2 DEF ChainFrom
    <3>. QED
      BY <3>3
  <2>2. CASE e # NULL
    <3>1. e \in S /\ SlotOf(b, n, e) = h
      BY <2>2 DEF Hung
    <3>2. NULL \notin S
      BY <1>0, <1>1
    <3>. QED
      BY <3>1, <3>2, ChainFromElement
  <2>. QED
    BY <2>1, <2>2
<1> PICK c : ChainFrom(b, S, n, r, e, h, c)
  BY <1>2
<1>3. PICK l \in Nat :
        /\ c \in [1 .. l -> S]
        /\ \A i, j \in 1 .. l : c[i] = c[j] => i = j
        /\ e = At(c, 1)
        /\ \A i \in 1 .. l : b[c[i]].chained = At(c, i + 1) /\ SlotOf(b, n, c[i]) = h
  BY DEF ChainFrom
<1>4. c \in [1 .. l -> DOMAIN b]
  BY <1>0, <1>3
<1>5. l <= Cardinality(DOMAIN b)
  BY <1>0, <1>3, <1>4, AllocatedFinite
<1>6. Along(m, e, "chained") = c
  <2>1. \A i \in 1 .. l : Link(m, c[i], "chained") = At(c, i + 1)
    BY <1>3 DEF Link
  <2>2. Way(m, "chained", l, c)
    BY <1>1, <1>3, <1>4, <1>5, <2>1 DEF Way
  <2>. QED
    BY <1>3, <2>2, AlongIs
<1>7. ToSet(c) = InSlot(b, n, S, h)
  <2>1. ASSUME NEW x \in S, SlotOf(b, n, x) = h PROVE \E i \in DOMAIN c : c[i] = x
    <3>1. NULL \notin S
      BY <1>0, <1>1
    <3>2. ChainFrom(b, S, n, r, heads[SlotOf(b, n, x)], SlotOf(b, n, x), c)
      BY <2>1
    <3>. QED
      BY <3>1, <3>2, EveryElementChained
  <2>2. \A i \in DOMAIN c : c[i] \in S /\ SlotOf(b, n, c[i]) = h
    BY <1>3
  <2>. QED
    BY <2>1, <2>2 DEF ToSet, InSlot
<1>. QED
  BY <1>3, <1>6, <1>7 DEF Read
-----------------------------------------------------------------------------
(* A memory and the orders of its tables.                                  *)

Owners(m) == {t \in DOMAIN m.table : ~m.table[t].cow}
Memory(b, arrays, tables) == [bucket |-> b, array |-> arrays, table |-> tables]

Typed(m) ==
    /\ m = Memory(m.bucket, m.array, m.table)
    /\ Allocated(m.bucket)
    /\ m.array = [t \in DOMAIN m.array |-> m.array[t]]
    /\ DOMAIN m.table \subseteq Tables /\ m.table \in [DOMAIN m.table -> Table]

\* A copy that has not been written yet looks like the table it was made from.
Borrows(m, ord, t) ==
    LET o == m.table[t].array
    IN t \in Copies /\ o \in Owners(m) /\ ord[t] = ord[o] /\ Ends(m.table[t]) = Ends(m.table[o])

Owns(m, ord, t) == m.table[t].array = t /\ Whole(m.bucket, m.table[t], m.array[t], ord[t])

\* Every bucket is an element of exactly one table that is no such copy.
Shared(m, ord) ==
    /\ \A t, u \in Owners(m) : t # u => ToSet(ord[t]) \cap ToSet(ord[u]) = {}
    /\ \A x \in DOMAIN m.bucket : \E t \in Owners(m) : x \in ToSet(ord[t])

\* The elements of the tables are, in their order, those of ord.
Sound(m, ord) ==
    /\ Typed(m)
    /\ ord = [t \in DOMAIN m.table |-> ord[t]]
    /\ DOMAIN m.array = Owners(m)
    /\ \A t \in Owners(m) : Owns(m, ord, t)
    /\ \A t \in DOMAIN m.table : m.table[t].cow => Borrows(m, ord, t)
    /\ Shared(m, ord)

\* Any table is in its order and its chains hold its elements.
LEMMA TableWhole ==
  ASSUME NEW m, NEW ord, Sound(m, ord), NEW t \in DOMAIN m.table
  PROVE  /\ m.table[t] \in Table
         /\ m.table[t].array \in Owners(m)
         /\ Whole(m.bucket, m.table[t], Heads(m, t), ord[t])
<1>1. m.table[t] \in Table
  BY DEF Sound, Typed
<1>2. CASE ~m.table[t].cow
  <2>1. t \in Owners(m)
    BY <1>2 DEF Owners
  <2>2. Owns(m, ord, t)
    BY <2>1 DEF Sound
  <2>. QED
    BY <1>1, <2>1, <2>2 DEF Owns, Heads
<1>3. CASE m.table[t].cow
  <2> PICK o, table, owner : o = m.table[t].array /\ table = m.table[t] /\ owner = m.table[o]
    OBVIOUS
  <2>1. o \in Owners(m) /\ ord[t] = ord[o] /\ Ends(table) = Ends(owner)
    BY <1>3 DEF Sound, Borrows
  <2>2. Whole(m.bucket, owner, m.array[o], ord[o])
    BY <2>1 DEF Sound, Owns
  <2>3. table.head = owner.head /\ table.tail = owner.tail /\ table.count = owner.count
    BY <2>1 DEF Ends
  <2>4. InOrder(m.bucket, owner, ord[t]) /\ HungIn(m.bucket, m.array[o], ToSet(ord[t]))
    BY <2>1, <2>2 DEF Whole
  <2>5. InOrder(m.bucket, table, ord[t])
    BY <2>3, <2>4, SameEnds, Zenon
  <2>6. Heads(m, t) = m.array[o]
    BY DEF Heads
  <2>. QED
    BY <1>1, <2>1, <2>4, <2>5, <2>6, Zenon DEF Whole
<1>. QED
  BY <1>2, <1>3

\* So it is read.
LEMMA ElementsRead ==
  ASSUME TablesAssumption, NEW m, NEW ord, Sound(m, ord), NEW t \in DOMAIN m.table
  PROVE  /\ Elements(m, t) = ord[t] /\ Len(ord[t]) = m.table[t].count
         /\ Along(m, m.table[t].tail, "prev") = Reverse(ord[t])
         /\ ord[t] \in [1 .. m.table[t].count -> DOMAIN m.bucket]
         /\ m.table[t].count \in 0 .. Cardinality(Addresses)
         /\ ord[t] \in Seq(Addresses)
<1>1. InOrder(m.bucket, m.table[t], ord[t]) /\ Allocated(m.bucket)
  BY TableWhole DEF Whole, Sound, Typed
<1>2. /\ Along(m, m.table[t].head, "next") = ord[t] /\ Len(ord[t]) = m.table[t].count
      /\ Along(m, m.table[t].tail, "prev") = Reverse(ord[t])
      /\ m.table[t].count <= Cardinality(DOMAIN m.bucket)
      /\ ord[t] \in Seq(Addresses)
  BY <1>1, OrderRead
<1>3. /\ Cardinality(DOMAIN m.bucket) <= Cardinality(Addresses) /\ Cardinality(DOMAIN m.bucket) \in Nat
      /\ Cardinality(Addresses) \in Nat
  BY <1>1, AllocatedFinite, FS_CardinalityType DEF TablesAssumption
<1>4. m.table[t].count \in Nat /\ ord[t] \in [1 .. m.table[t].count -> DOMAIN m.bucket]
  BY <1>1 DEF InOrder
<1>. QED
  BY <1>2, <1>3, <1>4 DEF Elements

\* There is one way to read it.
LEMMA OrdersRead ==
  ASSUME TablesAssumption, NEW m, NEW ord, Sound(m, ord)
  PROVE  ord = [t \in DOMAIN m.table |-> Elements(m, t)]
<1>1. \A t \in DOMAIN m.table : Elements(m, t) = ord[t]
  BY ElementsRead
<1>. QED
  BY <1>1 DEF Sound

\* There are as many slots as heads.
LEMMA SlotIs ==
  ASSUME NEW b, NEW heads, NEW S, NEW n, NEW top, NEW r, Hung(b, heads, S, n, top, r)
  PROVE  DOMAIN heads = 0 .. n - 1 /\ \A k : Slot(heads, k) = k % n
<1>1. DOMAIN heads = 0 .. n - 1
  BY DEF Hung
<1>0. n \in Nat \ {0}
  BY DEF Hung
<1>2. Cardinality(0 .. n - 1) = IF 0 > n - 1 THEN 0 ELSE (n - 1) - 0 + 1
  BY <1>0, FS_Interval
<1>. QED
  BY <1>0, <1>1, <1>2 DEF Slot

\* The chains of a table hold its elements, each in the chain of its key.
LEMMA ChainsHold ==
  ASSUME TablesAssumption, NEW m, NEW ord, Sound(m, ord), NEW t \in DOMAIN m.table
  PROVE  LET heads == Heads(m, t)
             Of(s) == Along(m, heads[s], "chained")
         IN /\ \A s \in DOMAIN heads : \A x \in ToSet(Of(s)) :
                 x \in ToSet(ord[t]) /\ Slot(heads, m.bucket[x].key) = s
            /\ \A x \in ToSet(ord[t]) : \E s \in DOMAIN heads : x \in ToSet(Of(s))
<1> DEFINE heads == Heads(m, t)
           Of(s) == Along(m, heads[s], "chained")
           S == ToSet(ord[t])
<1>1. /\ InOrder(m.bucket, m.table[t], ord[t]) /\ HungIn(m.bucket, heads, S)
      /\ Allocated(m.bucket)
  BY TableWhole DEF Whole, Sound, Typed
<1>2. S \subseteq DOMAIN m.bucket
  BY <1>1, InOrderAllocated
<1>3. PICK n, top, r : Hung(m.bucket, heads, S, n, top, r)
  BY <1>1 DEF HungIn
<1>4. n \in Nat \ {0}
  BY <1>3 DEF Hung
<1>5. DOMAIN heads = 0 .. n - 1 /\ \A k : Slot(heads, k) = k % n
  BY <1>3, SlotIs
<1> HIDE DEF heads, S
<1>6. \A s \in DOMAIN heads : ToSet(Of(s)) = {x \in S : SlotOf(m.bucket, n, x) = s}
  <2>1. \A s \in 0 .. n - 1 : ToSet(Read(m, heads, s)) = InSlot(m.bucket, n, S, s)
    <3>1. Chained(m, heads, S, n)
      BY <1>1, <1>2, <1>3, <1>4 DEF Chained
    <3>. QED
      BY <3>1, ChainsRead
  <2>. QED
    BY <1>5, <2>1 DEF Read, InSlot
<1>7. \A x \in S : SlotOf(m.bucket, n, x) \in DOMAIN heads
  BY <1>3, <1>5 DEF Hung
<1>8. \A x : SlotOf(m.bucket, n, x) = Slot(heads, m.bucket[x].key)
  BY <1>5 DEF SlotOf
<1>. QED
  BY <1>6, <1>7, <1>8 DEF heads, S

-----------------------------------------------------------------------------
(* One table is written.                                                   *)

\* A bucket that is not the table's is left alone.
LEMMA WholeKept ==
  ASSUME NEW b, NEW b2, NEW table, NEW heads, NEW s, Whole(b, table, heads, s),
         \A x \in ToSet(s) : x \in DOMAIN b2 /\ b2[x] = b[x]
  PROVE  Whole(b2, table, heads, s)
<1>1. \A i \in 1 .. table.count : s[i] \in ToSet(s) /\ s[i] \in DOMAIN b2 /\ b2[s[i]] = b[s[i]]
  BY DEF Whole, InOrder, ToSet
<1>2. InOrder(b2, table, s)
  <2>1. s \in [1 .. table.count -> DOMAIN b2]
    BY <1>1 DEF Whole, InOrder
  <2>. QED
    BY <1>1, <2>1 DEF Whole, InOrder
<1>3. HungIn(b2, heads, ToSet(s))
  <2>1. PICK n, top, r : Hung(b, heads, ToSet(s), n, top, r)
    BY DEF Whole, HungIn
  <2>2. \A x \in ToSet(s) : SlotOf(b2, n, x) = SlotOf(b, n, x) /\ b2[x].chained = b[x].chained
    BY DEF SlotOf
  <2>3. Hung(b2, heads, ToSet(s), n, top, r)
    <3> DEFINE S == ToSet(s)
    <3>0. \A x \in S : SlotOf(b2, n, x) = SlotOf(b, n, x) /\ b2[x].chained = b[x].chained
      BY <2>2
    <3>1. Hung(b, heads, S, n, top, r)
      BY <2>1
    <3> HIDE DEF S
    <3>2. \A h \in 0 .. n - 1 : heads[h] # NULL => SlotOf(b2, n, heads[h]) = h
      BY <3>0, <3>1 DEF Hung
    <3>. QED
      BY <3>0, <3>1, <3>2 DEF Hung, S
  <2>. QED
    BY <2>3 DEF HungIn
<1>. QED
  BY <1>2, <1>3 DEF Whole

\* What was the table's own.
Own(m, ord, t) == IF t \in Owners(m) THEN ToSet(ord[t]) ELSE {}

\* No copy waits that looks into the table.
Alone(m, t) == \A c \in DOMAIN m.table \ {t} : m.table[c].cow => m.table[c].array # t

\* In the memory m the table t gets elements s and the buckets b2, and the other
\* tables keep what they have.
Writes(m, ord, t, b2, heads, table, s) ==
    /\ Allocated(b2)
    /\ \A x \in DOMAIN m.bucket \ Own(m, ord, t) : x \in DOMAIN b2 /\ x \notin ToSet(s) /\ b2[x] = m.bucket[x]
    /\ \A x \in DOMAIN b2 : x \in ToSet(s) \/ x \in DOMAIN m.bucket \ Own(m, ord, t)
    /\ table \in Table /\ table.array = t /\ ~table.cow
    /\ Whole(b2, table, heads, s)

After(m, t, b2, heads, table) == Memory(b2, Bind(m.array, t, heads), Bind(m.table, t, table))

LEMMA OthersKept ==
  ASSUME NEW m, NEW ord, Sound(m, ord), NEW t, Alone(m, t), NEW u \in DOMAIN m.table \ {t}
  PROVE  ToSet(ord[u]) \subseteq DOMAIN m.bucket \ Own(m, ord, t)
<1>1. ToSet(ord[u]) \subseteq DOMAIN m.bucket
  <2>1. InOrder(m.bucket, m.table[u], ord[u])
    BY TableWhole DEF Whole
  <2>. QED
    BY <2>1 DEF InOrder, ToSet
<1>2. CASE m.table[u].cow
  <2>1. m.table[u].array \in Owners(m) /\ ord[u] = ord[m.table[u].array] /\ m.table[u].array # t
    BY <1>2 DEF Sound, Borrows, Alone
  <2>. QED
    BY <1>1, <2>1 DEF Sound, Shared, Own
<1>3. CASE ~m.table[u].cow
  <2>1. u \in Owners(m) /\ u # t
    BY <1>3 DEF Owners
  <2>. QED
    BY <1>1, <2>1 DEF Sound, Shared, Own
<1>. QED
  BY <1>2, <1>3

\* Then the memory is sound again.
LEMMA Written ==
  ASSUME NEW m, NEW ord, Sound(m, ord), NEW t \in Tables, Alone(m, t),
         NEW b2, NEW heads, NEW table, NEW s, Writes(m, ord, t, b2, heads, table, s)
  PROVE  Sound(After(m, t, b2, heads, table), Bind(ord, t, s))
<1> DEFINE m2 == After(m, t, b2, heads, table)
           ord2 == Bind(ord, t, s)
           O == DOMAIN m.bucket \ Own(m, ord, t)
<1>1. /\ m2 = Memory(m2.bucket, m2.array, m2.table) /\ m2.bucket = b2
      /\ m2.array = Bind(m.array, t, heads) /\ m2.table = Bind(m.table, t, table)
  BY DEF After, Memory
<1>2. /\ DOMAIN m2.table = DOMAIN m.table \cup {t} /\ m2.table[t] = table
      /\ \A u \in DOMAIN m.table \ {t} : m2.table[u] = m.table[u]
      /\ DOMAIN m2.array = DOMAIN m.array \cup {t} /\ m2.array[t] = heads
      /\ \A u \in DOMAIN m.array \ {t} : m2.array[u] = m.array[u]
      /\ m2.array = [u \in DOMAIN m2.array |-> m2.array[u]]
  BY <1>1 DEF Bind
<1>3. /\ ord2 = [u \in DOMAIN m2.table |-> ord2[u]] /\ ord2[t] = s
      /\ \A u \in DOMAIN m.table \ {t} : ord2[u] = ord[u]
  <2>1. DOMAIN ord = DOMAIN m.table
    BY DEF Sound
  <2>. QED
    BY <1>2, <2>1 DEF Bind
<1>4. \A u \in DOMAIN m.table \ {t} : \A x \in ToSet(ord[u]) : x \in O /\ x \in DOMAIN b2 /\ x \notin ToSet(s) /\ b2[x] = m.bucket[x]
  BY OthersKept DEF Writes
<1>5. Owners(m2) = Owners(m) \cup {t}
  BY <1>2 DEF Owners, Writes
<1> HIDE DEF m2, ord2
<1>6. Typed(m2)
  <2>1. DOMAIN m2.table \subseteq Tables /\ m2.table \in [DOMAIN m2.table -> Table]
    <3>1. \A u \in DOMAIN m2.table : m2.table[u] \in Table
      BY <1>2 DEF Sound, Typed, Writes
    <3>2. m2.table = [u \in DOMAIN m2.table |-> m2.table[u]]
      BY <1>1 DEF Bind
    <3>. QED
      BY <1>2, <3>1, <3>2 DEF Sound, Typed
  <2>. QED
    BY <1>1, <1>2, <2>1 DEF Typed, Writes
<1>7. DOMAIN m2.array = Owners(m2)
  BY <1>2, <1>5 DEF Sound
<1>8. ASSUME NEW u \in Owners(m2) PROVE Owns(m2, ord2, u)
  <2>1. CASE u = t
    BY <1>1, <1>2, <1>3, <2>1 DEF Owns, Writes
  <2>2. CASE u # t
    <3>1. u \in Owners(m) /\ u \in DOMAIN m.table \ {t} /\ u \in DOMAIN m.array \ {t}
      BY <1>5, <2>2 DEF Owners, Sound
    <3>2. m.table[u].array = u /\ Whole(m.bucket, m.table[u], m.array[u], ord[u])
      BY <3>1 DEF Sound, Owns
    <3>3. Whole(b2, m.table[u], m.array[u], ord[u])
      BY <1>4, <3>1, <3>2, WholeKept
    <3>. QED
      BY <1>1, <1>2, <1>3, <3>1, <3>2, <3>3 DEF Owns
  <2>. QED
    BY <2>1, <2>2
<1>9. ASSUME NEW u \in DOMAIN m2.table, m2.table[u].cow PROVE Borrows(m2, ord2, u)
  <2>1. u \in DOMAIN m.table \ {t} /\ m2.table[u] = m.table[u]
    BY <1>2, <1>9 DEF Writes
  <2> DEFINE o == m.table[u].array
  <2>2. u \in Copies /\ o \in Owners(m) /\ ord[u] = ord[o] /\ Ends(m.table[u]) = Ends(m.table[o]) /\ o # t
    BY <1>9, <2>1 DEF Sound, Borrows, Alone
  <2>3. o \in DOMAIN m.table \ {t}
    BY <2>2 DEF Owners
  <2>. QED
    BY <1>2, <1>3, <1>5, <2>1, <2>2, <2>3 DEF Borrows
<1>10. Shared(m2, ord2)
  <2>1. ASSUME NEW u \in Owners(m2), NEW w \in Owners(m2), u # w
        PROVE  ToSet(ord2[u]) \cap ToSet(ord2[w]) = {}
    <3>1. ASSUME NEW x \in Owners(m2), x # t PROVE x \in Owners(m) /\ x \in DOMAIN m.table \ {t} /\ ord2[x] = ord[x]
      BY <1>3, <1>5, <3>1 DEF Owners
    <3>2. CASE u # t /\ w # t
      BY <2>1, <3>1, <3>2 DEF Sound, Shared
    <3>3. CASE u = t
      BY <1>3, <1>4, <2>1, <3>1, <3>3
    <3>4. CASE w = t
      BY <1>3, <1>4, <2>1, <3>1, <3>4
    <3>. QED
      BY <3>2, <3>3, <3>4
  <2>2. ASSUME NEW x \in DOMAIN m2.bucket
        PROVE  \E u \in Owners(m2) : x \in ToSet(ord2[u])
    <3>1. CASE x \in ToSet(s)
      BY <1>3, <1>5, <3>1
    <3>2. CASE x \notin ToSet(s)
      <4>1. x \in DOMAIN m.bucket /\ x \notin Own(m, ord, t)
        BY <1>1, <3>2 DEF Writes
      <4>2. PICK u \in Owners(m) : x \in ToSet(ord[u])
        BY <4>1 DEF Sound, Shared
      <4>3. u # t /\ u \in DOMAIN m.table
        BY <4>1, <4>2 DEF Own, Owners
      <4>. QED
        BY <1>3, <1>5, <4>2, <4>3
    <3>. QED
      BY <3>1, <3>2
  <2>. QED
    BY <2>1, <2>2 DEF Shared
<1>11. Sound(m2, ord2)
  BY <1>3, <1>6, <1>7, <1>8, <1>9, <1>10 DEF Sound
<1>. QED
  BY <1>11 DEF m2, ord2

-----------------------------------------------------------------------------
(* Rehashing.                                                              *)

\* The latest of some elements.
LEMMA LatestIs ==
  ASSUME NEW k \in Nat, NEW s, NEW I \in SUBSET (1 .. k)
  PROVE  \/ I = {} /\ Latest(s, I) = NULL
         \/ \E i \in I : Latest(s, I) = s[i] /\ \A j \in I : j <= i
<1>1. CASE I = {}
  BY <1>1 DEF Latest
<1>2. CASE I # {}
  <2> DEFINE T == {k - i : i \in I}
  <2>1. T # {} /\ T \subseteq Nat
    <3>1. \A i \in I : k - i \in Nat
      OBVIOUS
    <3>. QED
      BY <1>2, <3>1
  <2>2. PICK d \in T : \A e \in T : d <= e
    <3> HIDE DEF T
    <3>. QED
      BY <2>1, D!Least
  <2>3. PICK i \in I : d = k - i
    BY <2>2
  <2>4. \A j \in I : j <= i
    BY <2>2, <2>3
  <2>5. \A j \in I : i >= j
    BY <2>4
  <2>6. Max(I) \in I /\ \A j \in I : Max(I) >= j
    BY <2>5 DEF Max
  <2>7. Latest(s, I) = s[Max(I)] /\ \A j \in I : j <= Max(I)
    BY <1>2, <2>6 DEF Latest
  <2>. QED
    BY <2>6, <2>7
<1>. QED
  BY <1>1, <1>2

\* Where an element is.
LEMMA PlaceIs ==
  ASSUME NEW k \in Nat, NEW S, NEW s \in [1 .. k -> S], \A i, j \in 1 .. k : s[i] = s[j] => i = j,
         NEW i \in 1 .. k
  PROVE  Place(s, s[i]) = i /\ s[i] \in ToSet(s)
BY DEF Place, ToSet

\* What Placed makes of the buckets and of the heads.
Before(b, s, n, p) == {j \in 1 .. p - 1 : SlotOf(b, n, s[j]) = SlotOf(b, n, s[p])}
With(b, s, n, h) == {i \in DOMAIN s : SlotOf(b, n, s[i]) = h}
Hanging(b, s, n) ==
    [x \in DOMAIN b |-> IF x \in ToSet(s) THEN [b[x] EXCEPT !.chained = Latest(s, Before(b, s, n, Place(s, x)))]
                        ELSE b[x]]
HeadsFor(b, s, n) == [h \in 0 .. n - 1 |-> Latest(s, With(b, s, n, h))]

LEMMA PlacedIs ==
  ASSUME NEW m, m = Memory(m.bucket, m.array, m.table), NEW t, NEW s, NEW n
  PROVE  Placed(m, t, s, n) =
            Memory(Hanging(m.bucket, s, n), Bind(m.array, t, HeadsFor(m.bucket, s, n)), m.table)
<1>1. \A i : {j \in 1 .. i - 1 : m.bucket[s[j]].key % n = m.bucket[s[i]].key % n} = Before(m.bucket, s, n, i)
  BY DEF Before, SlotOf
<1>2. \A h : {i \in DOMAIN s : m.bucket[s[i]].key % n = h} = With(m.bucket, s, n, h)
  BY DEF With, SlotOf
<1>3. Placed(m, t, s, n) =
        [m EXCEPT !.array = Bind(@, t, HeadsFor(m.bucket, s, n)), !.bucket = Hanging(m.bucket, s, n)]
  BY <1>1, <1>2 DEF Placed, HeadsFor, Hanging
<1>. QED
  BY <1>3 DEF Memory

\* Rehashed, the table is whole: a chain goes down the order.
LEMMA HangingWhole ==
  ASSUME TablesAssumption, NEW b, Allocated(b), NEW table, NEW s, InOrder(b, table, s), NEW n \in Nat \ {0}
  PROVE  LET b2 == Hanging(b, s, n)
         IN /\ Allocated(b2) /\ DOMAIN b2 = DOMAIN b
            /\ \A x \in DOMAIN b : /\ b2[x].key = b[x].key /\ b2[x].value = b[x].value
                                   /\ b2[x].prev = b[x].prev /\ b2[x].next = b[x].next
                                   /\ x \notin ToSet(s) => b2[x] = b[x]
            /\ Whole(b2, table, HeadsFor(b, s, n), s)
<1> DEFINE b2 == Hanging(b, s, n)
           heads == HeadsFor(b, s, n)
           k == table.count
           S == ToSet(s)
           r == [x \in S |-> Place(s, x)]
           slot(i) == SlotOf(b, n, s[i])
<1>1. /\ k \in Nat /\ s \in [1 .. k -> DOMAIN b] /\ DOMAIN s = 1 .. k
      /\ \A i, j \in 1 .. k : s[i] = s[j] => i = j
  BY DEF InOrder
<1>2. \A i \in 1 .. k : Place(s, s[i]) = i /\ s[i] \in S
  BY <1>1, PlaceIs
<1>3. \A x \in S : \E i \in 1 .. k : x = s[i]
  BY <1>1 DEF ToSet
<1>4. \A x \in DOMAIN b : x \in Addresses /\ x # NULL /\ b[x] \in Bucket /\ b[x].key \in Nat
  BY DEF Allocated, Bucket, TablesAssumption
<1>5. S \subseteq DOMAIN b
  BY <1>1 DEF ToSet
<1> HIDE DEF S
<1>6. \A i \in 1 .. k : Before(b, s, n, i) \in SUBSET (1 .. k)
  BY <1>1 DEF Before
<1>7. \A h : With(b, s, n, h) \in SUBSET (1 .. k)
  BY <1>1 DEF With
<1>8. \A i \in 1 .. k : b2[s[i]].chained = Latest(s, Before(b, s, n, i))
  <2> SUFFICES ASSUME NEW i \in 1 .. k
               PROVE  b2[s[i]].chained = Latest(s, Before(b, s, n, i))
    OBVIOUS
  <2>1. s[i] \in DOMAIN b /\ s[i] \in ToSet(s) /\ Place(s, s[i]) = i
    BY <1>1, <1>2 DEF S
  <2>2. b2[s[i]] = [b[s[i]] EXCEPT !.chained = Latest(s, Before(b, s, n, i))]
    BY <2>1 DEF Hanging
  <2>. QED
    BY <1>4, <2>1, <2>2 DEF Bucket
<1>9. \A i \in 1 .. k :
        \/ Before(b, s, n, i) = {} /\ b2[s[i]].chained = NULL
        \/ \E j \in Before(b, s, n, i) : b2[s[i]].chained = s[j] /\ \A l \in Before(b, s, n, i) : l <= j
  <2> SUFFICES ASSUME NEW i \in 1 .. k
               PROVE  \/ Before(b, s, n, i) = {} /\ b2[s[i]].chained = NULL
                      \/ \E j \in Before(b, s, n, i) :
                            b2[s[i]].chained = s[j] /\ \A l \in Before(b, s, n, i) : l <= j
    OBVIOUS
  <2>1. PICK I \in SUBSET (1 .. k) : I = Before(b, s, n, i)
    BY <1>6
  <2>2. \/ I = {} /\ Latest(s, I) = NULL
        \/ \E j \in I : Latest(s, I) = s[j] /\ \A l \in I : l <= j
    BY <1>1, LatestIs
  <2>. QED
    BY <1>8, <2>1, <2>2, Zenon
<1>10. \A h \in 0 .. n - 1 :
        \/ With(b, s, n, h) = {} /\ heads[h] = NULL
        \/ \E i \in With(b, s, n, h) : heads[h] = s[i] /\ \A l \in With(b, s, n, h) : l <= i
  <2> SUFFICES ASSUME NEW h \in 0 .. n - 1
               PROVE  \/ With(b, s, n, h) = {} /\ heads[h] = NULL
                      \/ \E i \in With(b, s, n, h) :
                            heads[h] = s[i] /\ \A l \in With(b, s, n, h) : l <= i
    OBVIOUS
  <2>1. heads[h] = Latest(s, With(b, s, n, h))
    BY DEF HeadsFor
  <2>2. PICK I \in SUBSET (1 .. k) : I = With(b, s, n, h)
    BY <1>7
  <2>3. \/ I = {} /\ Latest(s, I) = NULL
        \/ \E i \in I : Latest(s, I) = s[i] /\ \A l \in I : l <= i
    BY <1>1, LatestIs
  <2>. QED
    BY <2>1, <2>2, <2>3, Zenon
<1>11. /\ DOMAIN b2 = DOMAIN b /\ b2 = [x \in DOMAIN b2 |-> b2[x]]
       /\ \A x \in DOMAIN b : /\ b2[x].key = b[x].key /\ b2[x].value = b[x].value
                              /\ b2[x].prev = b[x].prev /\ b2[x].next = b[x].next
                              /\ x \notin S => b2[x] = b[x]
  BY <1>4 DEF Hanging, Bucket, S
<1>12. Allocated(b2)
  <2>1. ASSUME NEW x \in DOMAIN b PROVE b2[x] \in Bucket
    <3>1. CASE x \notin S
      BY <1>4, <1>11, <3>1
    <3>2. CASE x \in S
      <4>1. PICK i \in 1 .. k : x = s[i]
        BY <1>3, <3>2
      <4>2. b2[x].chained \in Links
        <5>1. \A j \in Before(b, s, n, i) : s[j] \in Addresses
          BY <1>1, <1>4, <1>6
        <5>. QED
          BY <1>9, <4>1, <5>1 DEF Links
      <4>3. b2[x] = [b[x] EXCEPT !.chained = b2[x].chained]
        BY <1>1, <1>2, <1>4, <1>8, <3>2, <4>1 DEF Hanging, S, Bucket
      <4>. QED
        BY <1>4, <4>2, <4>3 DEF Bucket
    <3>. QED
      BY <3>1, <3>2
  <2>. QED
    BY <1>11, <2>1 DEF Allocated
<1>13. InOrder(b2, table, s)
  BY <1>1, <1>11 DEF InOrder
<1>14. \A x \in S : SlotOf(b2, n, x) = SlotOf(b, n, x) /\ SlotOf(b, n, x) \in 0 .. n - 1
  <2>1. \A x \in S : b2[x].key = b[x].key /\ b[x].key \in Nat
    BY <1>4, <1>5, <1>11
  <2>. QED
    BY <2>1 DEF SlotOf
<1>15. DOMAIN heads = 0 .. n - 1 /\ heads = [h \in 0 .. n - 1 |-> heads[h]]
  BY DEF HeadsFor
<1> HIDE DEF b2, heads
<1>16. ASSUME NEW h \in 0 .. n - 1, heads[h] # NULL PROVE heads[h] \in S /\ SlotOf(b2, n, heads[h]) = h
  <2>1. PICK i \in With(b, s, n, h) : heads[h] = s[i]
    BY <1>10, <1>16
  <2>. QED
    BY <1>1, <1>2, <1>14, <2>1 DEF With
<1>17. ASSUME NEW i \in 1 .. k, b2[s[i]].chained # NULL
       PROVE  /\ b2[s[i]].chained \in S
              /\ r[b2[s[i]].chained] < r[s[i]] /\ SlotOf(b2, n, b2[s[i]].chained) = SlotOf(b2, n, s[i])
  <2>1. PICK j \in Before(b, s, n, i) : b2[s[i]].chained = s[j]
    BY <1>9, <1>17
  <2>2. j \in 1 .. k /\ j < i /\ SlotOf(b, n, s[j]) = SlotOf(b, n, s[i])
    BY <1>6, <2>1 DEF Before
  <2>3. r[s[j]] = j /\ r[s[i]] = i /\ s[j] \in S /\ s[i] \in S
    BY <1>2, <2>2
  <2>. QED
    BY <1>14, <2>1, <2>2, <2>3
<1>18. ASSUME NEW i \in 1 .. k
       PROVE  heads[slot(i)] = s[i] \/ \E y \in S : b2[y].chained = s[i]
  <2> DEFINE T == {q \in 1 .. k : q > i /\ slot(q) = slot(i)}
  <2>1. slot(i) \in 0 .. n - 1
    BY <1>2, <1>14
  <2>2. CASE T = {}
    <3>1. i \in With(b, s, n, slot(i))
      BY <1>1 DEF With
    <3>2. \A l \in With(b, s, n, slot(i)) : l <= i
      BY <1>1, <2>2 DEF With
    <3>3. PICK j \in With(b, s, n, slot(i)) : heads[slot(i)] = s[j] /\ \A l \in With(b, s, n, slot(i)) : l <= j
      BY <1>10, <2>1, <3>1
    <3>4. j = i
      BY <1>7, <3>1, <3>2, <3>3
    <3>. QED
      BY <3>3, <3>4
  <2>3. CASE T # {}
    <3>1. PICK q \in T : \A w \in T : q <= w
      <4>1. T \subseteq Nat
        OBVIOUS
      <4> HIDE DEF T
      <4>. QED
        BY <2>3, <4>1, D!Least
    <3>2. i \in Before(b, s, n, q)
      BY <3>1 DEF Before
    <3>3. \A l \in Before(b, s, n, q) : l <= i
      <4>1. SUFFICES ASSUME NEW l \in Before(b, s, n, q), ~ l <= i PROVE FALSE
        OBVIOUS
      <4>2. l \in T /\ l < q
        BY <1>6, <3>1, <4>1 DEF Before
      <4>. QED
        BY <3>1, <4>2
    <3>4. PICK j \in Before(b, s, n, q) : b2[s[q]].chained = s[j] /\ \A l \in Before(b, s, n, q) : l <= j
      BY <1>9, <3>1, <3>2
    <3>5. j = i
      BY <1>6, <3>1, <3>2, <3>3, <3>4
    <3>. QED
      BY <1>2, <3>1, <3>4, <3>5
  <2>. QED
    BY <2>2, <2>3
<1>19. Hung(b2, heads, S, n, k, r)
  <2>1. heads \in [0 .. n - 1 -> S \cup {NULL}]
    BY <1>15, <1>16
  <2>2. ASSUME NEW x \in S
        PROVE  /\ r[x] \in 0 .. k /\ SlotOf(b2, n, x) \in 0 .. n - 1
               /\ b2[x].chained \in S \cup {NULL}
               /\ b2[x].chained # NULL =>
                    r[b2[x].chained] < r[x] /\ SlotOf(b2, n, b2[x].chained) = SlotOf(b2, n, x)
               /\ heads[SlotOf(b2, n, x)] = x \/ \E y \in S : b2[y].chained = x
    <3>1. PICK i \in 1 .. k : x = s[i]
      BY <1>3
    <3>2. r[x] = i
      BY <1>2, <3>1
    <3>3. SlotOf(b2, n, x) = slot(i) /\ slot(i) \in 0 .. n - 1
      BY <1>14, <3>1
    <3>4. heads[SlotOf(b2, n, x)] = x \/ \E y \in S : b2[y].chained = x
      BY <1>18, <3>1, <3>3
    <3>5. r[x] \in 0 .. k
      BY <1>1, <3>2
    <3>. QED
      BY <1>17, <3>1, <3>3, <3>4, <3>5
  <2>. QED
    BY <1>1, <1>16, <2>1, <2>2 DEF Hung
<1>20. Whole(b2, table, heads, s)
  BY <1>13, <1>19 DEF Whole, HungIn, S
<1>. QED
  BY <1>11, <1>12, <1>20 DEF b2, heads, S

-----------------------------------------------------------------------------
(* What an operation on one table makes of the memory.                     *)

EntryIn(b, x) == <<b[x].key, b[x].value>>
Listed(b, s) == [i \in DOMAIN s |-> EntryIn(b, s[i])]
Shows(m, ord) == [t \in DOMAIN ord |-> Listed(m.bucket, ord[t])]

\* It has become m2: the table t has the elements s, shows e and is its own.
Became(m, ord, t, m2, s, e) ==
    /\ Sound(m2, Bind(ord, t, s))
    /\ Shows(m2, Bind(ord, t, s)) = Bind(Shows(m, ord), t, e)
    /\ m2.table = Bind(m.table, t, m2.table[t])
    /\ t \in Owners(m2)

LEMMA WrittenBecomes ==
  ASSUME NEW m, NEW ord, Sound(m, ord), NEW t \in Tables, Alone(m, t),
         NEW b2, NEW heads, NEW table, NEW s, Writes(m, ord, t, b2, heads, table, s)
  PROVE  Became(m, ord, t, After(m, t, b2, heads, table), s, Listed(b2, s))
<1> DEFINE m2 == After(m, t, b2, heads, table)
           ord2 == Bind(ord, t, s)
<1>1. Sound(m2, ord2)
  BY Written
<1>2. m2.bucket = b2 /\ m2.table = Bind(m.table, t, table)
  BY DEF After, Memory
<1>3. m2.table[t] = table /\ t \in DOMAIN m2.table
  BY <1>2 DEF Bind
<1>4. t \in Owners(m2)
  BY <1>3 DEF Owners, Writes
<1>5. DOMAIN ord = DOMAIN m.table
  BY DEF Sound
<1>6. DOMAIN ord2 = DOMAIN ord \cup {t} /\ ord2[t] = s /\ \A u \in DOMAIN ord \ {t} : ord2[u] = ord[u]
  BY DEF Bind
<1> HIDE DEF m2, ord2
<1>7. ASSUME NEW u \in DOMAIN ord \ {t} PROVE Listed(b2, ord[u]) = Listed(m.bucket, ord[u])
  <2>1. \A i \in DOMAIN ord[u] : ord[u][i] \in ToSet(ord[u])
    BY DEF ToSet
  <2>2. ToSet(ord[u]) \subseteq DOMAIN m.bucket \ Own(m, ord, t)
    BY <1>5, OthersKept
  <2>3. \A i \in DOMAIN ord[u] : b2[ord[u][i]] = m.bucket[ord[u][i]]
    BY <2>1, <2>2 DEF Writes
  <2>4. \A i \in DOMAIN ord[u] : EntryIn(b2, ord[u][i]) = EntryIn(m.bucket, ord[u][i])
    BY <2>3 DEF EntryIn
  <2>. QED
    BY <2>4 DEF Listed
<1>8. Shows(m2, ord2) = Bind(Shows(m, ord), t, Listed(b2, s))
  <2>1. /\ DOMAIN Shows(m2, ord2) = DOMAIN ord2 /\ DOMAIN Shows(m, ord) = DOMAIN ord
        /\ \A u \in DOMAIN ord2 : Shows(m2, ord2)[u] = Listed(b2, ord2[u])
        /\ \A u \in DOMAIN ord : Shows(m, ord)[u] = Listed(m.bucket, ord[u])
    BY <1>2 DEF Shows
  <2>2. Shows(m2, ord2) = [u \in DOMAIN ord2 |-> Shows(m2, ord2)[u]]
    BY <2>1 DEF Shows
  <2>. QED
    BY <1>6, <1>7, <2>1, <2>2 DEF Bind
<1>9. m2.table = Bind(m.table, t, m2.table[t])
  BY <1>2, <1>3
<1>. QED
  BY <1>1, <1>4, <1>8, <1>9 DEF Became, m2, ord2

\* After an operation nobody else looks into the table, if nobody did before.
LEMMA StaysAlone ==
  ASSUME NEW m, NEW ord, NEW t, NEW m2, NEW s, NEW e, Became(m, ord, t, m2, s, e), Alone(m, t)
  PROVE  Alone(m2, t)
<1>1. DOMAIN m2.table = DOMAIN m.table \cup {t} /\ \A u \in DOMAIN m.table \ {t} : m2.table[u] = m.table[u]
  BY DEF Became, Bind
<1>. QED
  BY <1>1 DEF Alone

\* Two operations, one after the other.
LEMMA BecameTwice ==
  ASSUME NEW m, NEW ord, NEW t, NEW m1, NEW s1, NEW e1, Became(m, ord, t, m1, s1, e1),
         NEW m2, NEW s2, NEW e2, Became(m1, Bind(ord, t, s1), t, m2, s2, e2)
  PROVE  Became(m, ord, t, m2, s2, e2)
<1>1. \A f, x, y : Bind(Bind(f, t, x), t, y) = Bind(f, t, y)
  BY DEF Bind
<1>. QED
  BY <1>1 DEF Became

\* Rehashed, a table is the same.
LEMMA RehashBecomes ==
  ASSUME TablesAssumption, NEW m, NEW ord, Sound(m, ord), NEW t \in Owners(m), Alone(m, t), NEW n \in Nat \ {0}
  PROVE  Became(m, ord, t, chf_resize(m, t, n), ord[t], Listed(m.bucket, ord[t]))
<1> DEFINE s == ord[t]
           b == m.bucket
           b2 == Hanging(b, s, n)
           heads == HeadsFor(b, s, n)
           table == m.table[t]
<1>1. t \in DOMAIN m.table /\ t \in Tables /\ table \in Table /\ ~table.cow /\ Elements(m, t) = s
  <2>1. t \in DOMAIN m.table
    BY DEF Owners
  <2>. QED
    BY <2>1, ElementsRead DEF Owners, Sound, Typed
<1>2. table.array = t /\ Whole(b, table, m.array[t], s) /\ InOrder(b, table, s) /\ Allocated(b)
  BY DEF Sound, Owns, Whole, Typed
<1>3. chf_resize(m, t, n) = Memory(b2, Bind(m.array, t, heads), m.table)
  <2>1. m = Memory(m.bucket, m.array, m.table)
    BY DEF Sound, Typed
  <2>. QED
    BY <1>1, <2>1, PlacedIs DEF chf_resize
<1>4. m.table = Bind(m.table, t, table)
  BY <1>1 DEF Bind, Sound, Typed
<1>5. chf_resize(m, t, n) = After(m, t, b2, heads, table)
  BY <1>3, <1>4 DEF After
<1>6. /\ Allocated(b2) /\ DOMAIN b2 = DOMAIN b
      /\ \A x \in DOMAIN b : /\ b2[x].key = b[x].key /\ b2[x].value = b[x].value
                             /\ x \notin ToSet(s) => b2[x] = b[x]
      /\ Whole(b2, table, heads, s)
  BY <1>2, HangingWhole
<1> HIDE DEF b2, heads
<1>7. Writes(m, ord, t, b2, heads, table, s)
  <2>1. Own(m, ord, t) = ToSet(s)
    BY DEF Own
  <2>. QED
    BY <1>1, <1>2, <1>6, <2>1 DEF Writes
<1>8. Listed(b2, s) = Listed(b, s)
  <2>1. \A i \in DOMAIN s : s[i] \in DOMAIN b
    BY <1>2 DEF InOrder
  <2>2. \A i \in DOMAIN s : EntryIn(b2, s[i]) = EntryIn(b, s[i])
    BY <1>6, <2>1 DEF EntryIn
  <2>. QED
    BY <2>2 DEF Listed
<1>9. Became(m, ord, t, After(m, t, b2, heads, table), s, Listed(b2, s))
  BY <1>1, <1>7, WrittenBecomes
<1>. QED
  BY <1>5, <1>8, <1>9

-----------------------------------------------------------------------------
(* A new element.                                                          *)

More(s2, k, S, s, x) ==
    s2 \in [1 .. k + 1 -> S \cup {x}] /\ s2[k + 1] = x /\ \A i \in 1 .. k : s2[i] = s[i]

LEMMA AppendIs ==
  ASSUME NEW k \in Nat, NEW S, NEW s \in [1 .. k -> S], NEW x
  PROVE  More(Append(s, x), k, S, s, x)
<1>1. s \in Seq(S \cup {x}) /\ Len(s) = k
  <2>1. s \in [1 .. k -> S \cup {x}]
    OBVIOUS
  <2>. QED
    BY <2>1, D!FunctionSeq
<1>2. /\ Append(s, x) \in Seq(S \cup {x}) /\ Len(Append(s, x)) = k + 1
      /\ \A i \in 1 .. k : Append(s, x)[i] = s[i]
      /\ Append(s, x)[k + 1] = x
  BY <1>1, AppendProperties
<1>3. Append(s, x) \in [1 .. k + 1 -> S \cup {x}]
  BY <1>2, LenProperties
<1>. QED
  BY <1>2, <1>3 DEF More

\* Free addresses are found while there are some.
LEMMA FreshIs ==
  ASSUME TablesAssumption, NEW b, NEW n \in Nat, Cardinality(Addresses \ DOMAIN b) >= n
  PROVE  /\ Fresh(b, n) \in [1 .. n -> Addresses \ DOMAIN b]
         /\ \A i, j \in 1 .. n : Fresh(b, n)[i] = Fresh(b, n)[j] => i = j
<1> DEFINE F == Addresses \ DOMAIN b
           c == Cardinality(F)
<1>1. IsFiniteSet(F)
  BY FS_Subset DEF TablesAssumption
<1>2. c \in Nat /\ ExistsBijection(1 .. c, F)
  BY <1>1, FS_CardinalityType
<1>3. PICK f : f \in Bijection(1 .. c, F)
  BY <1>2 DEF ExistsBijection
<1> HIDE DEF F, c
<1>4. f \in [1 .. c -> F] /\ \A i, j \in 1 .. c : f[i] = f[j] => i = j
  BY <1>3 DEF Bijection, Injection, IsInjective
<1> DEFINE q == [i \in 1 .. n |-> f[i]]
<1>5. \A i \in 1 .. n : i \in 1 .. c
  BY <1>2 DEF c, F
<1>6. q \in [1 .. n -> F] /\ \A i, j \in 1 .. n : q[i] = q[j] => i = j
  BY <1>4, <1>5
<1>7. q \in [1 .. n -> F] /\ IsInjective(q)
  BY <1>6 DEF IsInjective
<1>8. Fresh(b, n) \in [1 .. n -> F] /\ IsInjective(Fresh(b, n))
  <2> HIDE DEF q
  <2>. QED
    BY <1>7 DEF Fresh, F
<1>. QED
  BY <1>8 DEF IsInjective, F

\* The chain with the slot h ends with last, or is empty.
EndOfChain(b, heads, S, n, h, last) ==
    \/ heads[h] = NULL /\ last = NULL
    \/ heads[h] # NULL /\ last \in S /\ SlotOf(b, n, last) = h /\ b[last].chained = NULL

\* The heads with a new one if its slot was empty.
Headed(heads, n, h, new) == [i \in 0 .. n - 1 |-> IF i = h /\ heads[i] = NULL THEN new ELSE heads[i]]

\* It goes behind the last of its chain.
LEMMA HungMore ==
  ASSUME NEW b, NEW heads, NEW S, NEW n, NEW top, NEW r, Hung(b, heads, S, n, top, r),
         NEW new, new \notin S, new # NULL, NULL \notin S, NEW h \in 0 .. n - 1, NEW last,
         EndOfChain(b, heads, S, n, h, last), NEW b2, SlotOf(b2, n, new) = h, b2[new].chained = NULL,
         \A x \in S : /\ SlotOf(b2, n, x) = SlotOf(b, n, x)
                      /\ b2[x].chained = IF x = last THEN new ELSE b[x].chained
  PROVE  HungIn(b2, Headed(heads, n, h, new), S \cup {new})
<1> USE DEF EndOfChain
<1> DEFINE heads2 == Headed(heads, n, h, new)
           S2 == S \cup {new}
           r2 == [x \in S2 |-> IF x = new THEN 0 ELSE r[x] + 1]
<1>1. /\ n \in Nat \ {0} /\ top \in Nat
      /\ heads \in [0 .. n - 1 -> S \cup {NULL}]
      /\ \A s \in 0 .. n - 1 : heads[s] # NULL => SlotOf(b, n, heads[s]) = s
      /\ \A x \in S :
          /\ r[x] \in 0 .. top /\ SlotOf(b, n, x) \in 0 .. n - 1
          /\ b[x].chained \in S \cup {NULL}
          /\ b[x].chained # NULL =>
              r[b[x].chained] < r[x] /\ SlotOf(b, n, b[x].chained) = SlotOf(b, n, x)
          /\ heads[SlotOf(b, n, x)] = x \/ \E y \in S : b[y].chained = x
  BY DEF Hung
<1>2. r2[new] = 0 /\ \A x \in S : r2[x] = r[x] + 1 /\ r2[x] \in 1 .. top + 1
  BY <1>1
<1> HIDE DEF r2
<1>0. /\ heads2 = [i \in 0 .. n - 1 |-> heads2[i]]
      /\ \A s \in 0 .. n - 1 : heads2[s] = IF s = h /\ heads[s] = NULL THEN new ELSE heads[s]
  BY DEF Headed
<1> HIDE DEF heads2
<1>3. heads2 \in [0 .. n - 1 -> S2 \cup {NULL}] /\ \A s \in 0 .. n - 1 : heads2[s] # NULL => SlotOf(b2, n, heads2[s]) = s
  BY <1>0, <1>1
<1>4. ASSUME NEW x \in S2
      PROVE  /\ r2[x] \in 0 .. top + 1 /\ SlotOf(b2, n, x) \in 0 .. n - 1
             /\ b2[x].chained \in S2 \cup {NULL}
             /\ b2[x].chained # NULL =>
                 r2[b2[x].chained] < r2[x] /\ SlotOf(b2, n, b2[x].chained) = SlotOf(b2, n, x)
  <2>1. CASE x = new
    BY <1>1, <1>2, <2>1
  <2>2. CASE x \in S /\ x = last
    BY <1>1, <1>2, <2>2
  <2>3. CASE x \in S /\ x # last
    <3>1. b2[x].chained = b[x].chained /\ SlotOf(b2, n, x) = SlotOf(b, n, x)
      BY <2>3
    <3>2. b[x].chained # NULL => b[x].chained \in S /\ SlotOf(b2, n, b[x].chained) = SlotOf(b, n, x)
      BY <1>1, <2>3
    <3>3. b[x].chained # NULL => r2[b[x].chained] < r2[x]
      <4> DEFINE y == b[x].chained
      <4> SUFFICES ASSUME y # NULL PROVE r2[y] < r2[x]
        OBVIOUS
      <4>1. y \in S /\ r[y] < r[x]
        BY <1>1, <2>3, <3>2
      <4>2. r[y] \in Nat /\ r[x] \in Nat
        BY <1>1, <2>3, <4>1
      <4>3. r2[y] = r[y] + 1 /\ r2[x] = r[x] + 1
        BY <1>2, <2>3, <4>1
      <4>. QED
        BY <4>1, <4>2, <4>3
    <3>4. r2[x] \in 0 .. top + 1 /\ SlotOf(b2, n, x) \in 0 .. n - 1
      BY <1>1, <1>2, <2>3
    <3>5. b2[x].chained \in S2 \cup {NULL}
      BY <1>1, <2>3, <3>1
    <3>. QED
      BY <3>1, <3>2, <3>3, <3>4, <3>5
  <2>. QED
    BY <2>1, <2>2, <2>3
<1>5. ASSUME NEW x \in S2
      PROVE  heads2[SlotOf(b2, n, x)] = x \/ \E y \in S2 : b2[y].chained = x
  <2>1. CASE x = new
    <3>1. CASE heads[h] = NULL
      BY <1>0, <2>1, <3>1
    <3>2. CASE heads[h] # NULL
      BY <2>1, <3>2
    <3>. QED
      BY <3>1, <3>2
  <2>2. CASE x \in S /\ heads[SlotOf(b, n, x)] = x
    BY <1>0, <1>1, <2>2
  <2>3. CASE x \in S /\ heads[SlotOf(b, n, x)] # x
    <3>1. PICK y \in S : b[y].chained = x
      BY <1>1, <2>3
    <3>2. y # last
      BY <2>3, <3>1
    <3>. QED
      BY <3>1, <3>2
  <2>. QED
    BY <2>1, <2>2, <2>3
<1>6. Hung(b2, heads2, S2, n, top + 1, r2)
  <2>1. top + 1 \in Nat
    BY <1>1
  <2> HIDE DEF S2
  <2>. QED
    BY <1>1, <1>3, <1>4, <1>5, <2>1 DEF Hung
<1>. QED
  BY <1>6 DEF HungIn, heads2

\* It goes behind the last of the order.
LEMMA OrderMore ==
  ASSUME NEW b, NEW table, NEW s, InOrder(b, table, s), NULL \notin DOMAIN b,
         NEW new, new \notin DOMAIN b,
         NEW b2, DOMAIN b2 = DOMAIN b \cup {new}, b2[new].prev = table.tail, b2[new].next = NULL,
         \A x \in DOMAIN b : /\ b2[x].prev = b[x].prev
                             /\ b2[x].next = IF x = table.tail THEN new ELSE b[x].next,
         NEW table2, table2.count = table.count + 1, table2.tail = new,
         table2.head = IF table.head = NULL THEN new ELSE table.head
  PROVE  InOrder(b2, table2, Append(s, new))
<1> DEFINE k == table.count
           s2 == Append(s, new)
<1>1. /\ k \in Nat /\ s \in [1 .. k -> DOMAIN b]
      /\ \A i, j \in 1 .. k : s[i] = s[j] => i = j
      /\ table.head = At(s, 1) /\ table.tail = At(s, k)
      /\ \A i \in 1 .. k : b[s[i]].next = At(s, i + 1) /\ b[s[i]].prev = At(s, i - 1)
  BY DEF InOrder
<1> HIDE DEF k
<1>2. s2 \in [1 .. k + 1 -> DOMAIN b2] /\ s2[k + 1] = new /\ \A i \in 1 .. k : s2[i] = s[i]
  <2>1. s2 \in [1 .. k + 1 -> DOMAIN b \cup {new}] /\ s2[k + 1] = new /\ \A i \in 1 .. k : s2[i] = s[i]
    <3>1. More(Append(s, new), k, DOMAIN b, s, new)
      BY <1>1, AppendIs
    <3>. QED
      BY <3>1 DEF More
  <2> HIDE DEF s2
  <2>. QED
    BY <2>1
<1> HIDE DEF s2
<1>3. \A i \in 0 .. k : At(s2, i) = At(s, i)
  BY <1>1, <1>2 DEF At
<1>4. At(s2, k + 1) = new /\ At(s2, k + 2) = NULL
  BY <1>1, <1>2 DEF At
<1>5. \A i, j \in 1 .. k + 1 : s2[i] = s2[j] => i = j
  <2>1. \A i \in 1 .. k + 1 : i = k + 1 \/ (i \in 1 .. k /\ s2[i] = s[i] /\ s[i] \in DOMAIN b)
    BY <1>1, <1>2
  <2>2. ASSUME NEW i \in 1 .. k + 1, NEW j \in 1 .. k + 1, s2[i] = s2[j] PROVE i = j
    <3>1. CASE i = k + 1
      <4>1. j = k + 1 \/ s2[j] \in DOMAIN b
        BY <2>1
      <4>. QED
        BY <1>2, <2>2, <3>1, <4>1
    <3>2. CASE j = k + 1
      <4>1. i = k + 1 \/ s2[i] \in DOMAIN b
        BY <2>1
      <4>. QED
        BY <1>2, <2>2, <3>2, <4>1
    <3>3. CASE i # k + 1 /\ j # k + 1
      BY <1>1, <2>1, <2>2, <3>3
    <3>. QED
      BY <3>1, <3>2, <3>3
  <2>. QED
    BY <2>2
<1>6. table2.head = At(s2, 1)
  <2>1. CASE k = 0
    BY <1>1, <1>2, <2>1 DEF At
  <2>2. CASE k # 0
    BY <1>1, <1>3, <2>2 DEF At
  <2>. QED
    BY <2>1, <2>2
<1>7. ASSUME NEW i \in 1 .. k
      PROVE  b2[s2[i]].next = At(s2, i + 1) /\ b2[s2[i]].prev = At(s2, i - 1)
  <2>1. s2[i] = s[i] /\ s[i] \in DOMAIN b
    BY <1>1, <1>2
  <2>2. s[i] = table.tail <=> i = k
    BY <1>1, <2>1 DEF At
  <2>3. b2[s[i]].prev = At(s2, i - 1)
    <3>1. i - 1 \in 0 .. k
      BY <1>1
    <3>. QED
      BY <1>1, <1>3, <2>1, <3>1
  <2>4. CASE i = k
    BY <1>4, <2>1, <2>2, <2>3, <2>4
  <2>5. CASE i # k
    <3>1. i + 1 \in 0 .. k
      BY <1>1, <2>5
    <3>. QED
      BY <1>1, <1>3, <2>1, <2>2, <2>3, <2>5, <3>1
  <2>. QED
    BY <2>4, <2>5
<1>8. b2[s2[k + 1]].next = At(s2, (k + 1) + 1) /\ b2[s2[k + 1]].prev = At(s2, (k + 1) - 1)
  <2>1. k \in 0 .. k /\ (k + 1) - 1 = k /\ (k + 1) + 1 = k + 2
    BY <1>1
  <2>. QED
    BY <1>1, <1>2, <1>3, <1>4, <2>1
<1>9. \A i \in 1 .. k + 1 : b2[s2[i]].next = At(s2, i + 1) /\ b2[s2[i]].prev = At(s2, i - 1)
  <2>1. \A i \in 1 .. k + 1 : i = k + 1 \/ i \in 1 .. k
    BY <1>1
  <2>. QED
    BY <1>7, <1>8, <2>1
<1>10. table2.count \in Nat /\ table2.count = k + 1 /\ table2.tail = At(s2, k + 1)
  BY <1>1, <1>4 DEF k
<1>. QED
  BY <1>2, <1>5, <1>6, <1>9, <1>10 DEF InOrder, s2

\* The last bucket of a key's chain.
LEMMA LastOfChain ==
  ASSUME TablesAssumption, NEW m, NEW ord, Sound(m, ord), NEW t \in Owners(m),
         NEW n, NEW top, NEW r, Hung(m.bucket, m.array[t], ToSet(ord[t]), n, top, r), NEW k \in Keys
  PROVE  /\ EndOfChain(m.bucket, m.array[t], ToSet(ord[t]), n, k % n, At(Chain(m, t, k), Len(Chain(m, t, k))))
         /\ ToSet(Chain(m, t, k)) = InSlot(m.bucket, n, ToSet(ord[t]), k % n)
         /\ Chain(m, t, k) \in Seq(ToSet(ord[t]))
<1> DEFINE heads == m.array[t]
           S == ToSet(ord[t])
           h == k % n
           c == Chain(m, t, k)
           last == At(c, Len(c))
<1>1. t \in DOMAIN m.table /\ m.table[t].array = t /\ Whole(m.bucket, m.table[t], heads, ord[t]) /\ Allocated(m.bucket)
  BY DEF Sound, Owns, Typed, Owners
<1>2. Heads(m, t) = heads
  BY <1>1 DEF Heads
<1>3. n \in Nat \ {0} /\ k \in Nat /\ h \in 0 .. n - 1
  <2>1. n \in Nat \ {0}
    BY DEF Hung
  <2>2. k \in Nat
    BY DEF TablesAssumption
  <2>. QED
    BY <2>1, <2>2
<1>4. Slot(Heads(m, t), k) = h
  BY <1>2, SlotIs
<1>5. c = Read(m, heads, h)
  BY <1>2, <1>4 DEF Chain, Read
<1>6. Chained(m, heads, S, n)
  <2>1. S \subseteq DOMAIN m.bucket
    BY <1>1 DEF Whole, InOrder, ToSet
  <2>. QED
    BY <1>1, <1>3, <2>1 DEF Chained
<1> HIDE DEF c, S, heads, h
<1>7. /\ \E l \in Nat : c \in [1 .. l -> S]
      /\ \A i \in DOMAIN c : m.bucket[c[i]].chained = At(c, i + 1)
      /\ heads[h] = At(c, 1)
      /\ ToSet(c) = InSlot(m.bucket, n, S, h)
  BY <1>3, <1>5, <1>6, ChainsRead
<1>8. PICK l \in Nat : c \in [1 .. l -> S]
  BY <1>7
<1>9. c \in Seq(S) /\ Len(c) = l
  BY <1>8, D!FunctionSeq
<1>10. NULL \notin S
  <2>1. S \subseteq DOMAIN m.bucket /\ NULL \notin DOMAIN m.bucket
    BY <1>1, <1>6, AllocatedFinite DEF Chained
  <2>. QED
    BY <2>1
<1>11. EndOfChain(m.bucket, heads, S, n, h, last)
  <2>1. CASE l = 0
    BY <1>7, <1>8, <1>9, <2>1 DEF At, EndOfChain
  <2>2. CASE l # 0
    <3>1. l \in DOMAIN c /\ 1 \in DOMAIN c /\ l + 1 \notin DOMAIN c
      BY <1>8, <2>2
    <3>2. last = c[l] /\ c[l] \in ToSet(c) /\ heads[h] = c[1] /\ At(c, l + 1) = NULL
      BY <1>7, <1>9, <3>1 DEF At, ToSet
    <3>3. c[1] \in S /\ c[l] \in S
      BY <1>8, <3>1
    <3>. QED
      BY <1>7, <1>10, <3>1, <3>2, <3>3 DEF InSlot, EndOfChain
  <2>. QED
    BY <2>1, <2>2
<1>. QED
  BY <1>3, <1>4, <1>7, <1>9, <1>11 DEF c, S, heads, h

\* The buckets with a new one behind the last of the order and of a chain.
Extended(b, n, new, tail, last) ==
    [x \in DOMAIN b \cup {n} |->
        IF x = n THEN new
        ELSE [b[x] EXCEPT !.next = IF x = tail THEN n ELSE @, !.chained = IF x = last THEN n ELSE @]]

LEMMA ExtendedIs ==
  ASSUME NEW b, Allocated(b), NEW n \in Addresses \ DOMAIN b, NEW new \in Bucket, NEW tail, NEW last
  PROVE  LET b2 == Extended(b, n, new, tail, last)
         IN /\ Allocated(b2) /\ DOMAIN b2 = DOMAIN b \cup {n} /\ b2[n] = new
            /\ \A x \in DOMAIN b :
                /\ b2[x].key = b[x].key /\ b2[x].value = b[x].value /\ b2[x].prev = b[x].prev
                /\ b2[x].next = IF x = tail THEN n ELSE b[x].next
                /\ b2[x].chained = IF x = last THEN n ELSE b[x].chained
                /\ x # tail /\ x # last => b2[x] = b[x]
<1> DEFINE b2 == Extended(b, n, new, tail, last)
<1>1. DOMAIN b2 = DOMAIN b \cup {n} /\ b2[n] = new /\ b2 = [x \in DOMAIN b2 |-> b2[x]]
  BY DEF Extended
<1>2. ASSUME NEW x \in DOMAIN b
      PROVE  /\ b2[x].key = b[x].key /\ b2[x].value = b[x].value /\ b2[x].prev = b[x].prev
             /\ b2[x].next = IF x = tail THEN n ELSE b[x].next
             /\ b2[x].chained = IF x = last THEN n ELSE b[x].chained
             /\ x # tail /\ x # last => b2[x] = b[x]
             /\ b2[x] \in Bucket
  <2>1. b2[x] = [b[x] EXCEPT !.next = IF x = tail THEN n ELSE @, !.chained = IF x = last THEN n ELSE @]
    BY DEF Extended
  <2>2. b[x] \in Bucket /\ n \in Links
    BY DEF Allocated, Links
  <2> HIDE DEF b2
  <2>. QED
    BY <2>1, <2>2 DEF Bucket
<1>3. Allocated(b2)
  BY <1>1, <1>2 DEF Allocated
<1>. QED
  BY <1>1, <1>2, <1>3

SameEntries(b, b2) == \A x \in DOMAIN b : b2[x].key = b[x].key /\ b2[x].value = b[x].value

\* What a table shows with one more element.
LEMMA ListedMore ==
  ASSUME NEW b, NEW b2, NEW table, NEW s, InOrder(b, table, s), NEW n, SameEntries(b, b2)
  PROVE  Listed(b2, Append(s, n)) = Append(Listed(b, s), EntryIn(b2, n))
<1> PICK k \in Nat : k = table.count
  BY DEF InOrder
<1>0. s \in [1 .. k -> DOMAIN b]
  BY DEF InOrder
<1> DEFINE s2 == Append(s, n)
           e == Listed(b, s)
           e2 == Append(e, EntryIn(b2, n))
           E == {e[i] : i \in 1 .. k}
<1>1. s2 \in [1 .. k + 1 -> DOMAIN b \cup {n}] /\ s2[k + 1] = n /\ \A i \in 1 .. k : s2[i] = s[i]
  <2>1. More(Append(s, n), k, DOMAIN b, s, n)
    BY <1>0, AppendIs
  <2>. QED
    BY <2>1 DEF More
<1>2. e \in [1 .. k -> E]
  BY <1>0 DEF Listed
<1>3. e2 \in [1 .. k + 1 -> E \cup {EntryIn(b2, n)}] /\ e2[k + 1] = EntryIn(b2, n) /\ \A i \in 1 .. k : e2[i] = e[i]
  <2> HIDE DEF e, E
  <2>1. More(Append(e, EntryIn(b2, n)), k, E, e, EntryIn(b2, n))
    BY <1>2, AppendIs
  <2>. QED
    BY <2>1 DEF More
<1>4. \A i \in 1 .. k : e[i] = EntryIn(b2, s[i])
  BY <1>0 DEF Listed, EntryIn, SameEntries
<1> HIDE DEF s2, e, e2
<1>5. \A i \in 1 .. k + 1 : e2[i] = EntryIn(b2, s2[i])
  <2>1. \A i \in 1 .. k + 1 : i = k + 1 \/ i \in 1 .. k
    OBVIOUS
  <2>. QED
    BY <1>1, <1>3, <1>4, <2>1
<1>6. Listed(b2, s2) = [i \in 1 .. k + 1 |-> e2[i]]
  BY <1>1, <1>5 DEF Listed
<1>7. e2 = [i \in 1 .. k + 1 |-> e2[i]]
  BY <1>3
<1>. QED
  BY <1>6, <1>7 DEF s2, e, e2

\* A table that grows is the same.
LEMMA GrownBecomes ==
  ASSUME TablesAssumption, NEW m, NEW ord, Sound(m, ord), NEW t \in Owners(m), Alone(m, t)
  PROVE  Became(m, ord, t, Grown(m, t), ord[t], Listed(m.bucket, ord[t]))
<1> DEFINE n == Cardinality(DOMAIN Heads(m, t))
           g == (n * ResizeFactor) \div 100
           s == ord[t]
<1>1. /\ t \in DOMAIN m.table /\ t \in DOMAIN ord /\ m.table[t].array = t
      /\ Whole(m.bucket, m.table[t], m.array[t], s) /\ m.table = [u \in DOMAIN m.table |-> m.table[u]]
      /\ ord = [u \in DOMAIN ord |-> ord[u]]
  BY DEF Sound, Owns, Owners, Typed
<1>2. n \in Nat \ {0}
  <2>1. PICK c, top, r : Hung(m.bucket, m.array[t], ToSet(s), c, top, r)
    BY <1>1 DEF Whole, HungIn
  <2>2. DOMAIN m.array[t] = 0 .. c - 1 /\ c \in Nat \ {0}
    BY <2>1 DEF Hung
  <2>3. Cardinality(0 .. c - 1) = IF 0 > c - 1 THEN 0 ELSE (c - 1) - 0 + 1
    BY <2>2, FS_Interval
  <2>. QED
    BY <1>1, <2>2, <2>3 DEF Heads
<1> HIDE DEF n
<1>3. g \in Nat \ {0}
  <2>1. ResizeFactor \in Nat /\ ResizeFactor >= 100
    BY DEF TablesAssumption
  <2>2. n * ResizeFactor \in Nat /\ n * ResizeFactor >= ResizeFactor
    BY <1>2, <2>1
  <2>. QED
    BY <2>1, <2>2
<1>4. Became(m, ord, t, chf_resize(m, t, g), s, Listed(m.bucket, s))
  <2> HIDE DEF g
  <2>. QED
    BY <1>3, RehashBecomes
<1>5. Became(m, ord, t, m, s, Listed(m.bucket, s))
  <2>1. Bind(ord, t, s) = ord /\ Bind(m.table, t, m.table[t]) = m.table
    BY <1>1 DEF Bind
  <2>2. Bind(Shows(m, ord), t, Listed(m.bucket, s)) = Shows(m, ord)
    BY <1>1 DEF Bind, Shows
  <2>. QED
    BY <2>1, <2>2 DEF Became
<1>6. Grown(m, t) = chf_resize(m, t, g) \/ Grown(m, t) = m
  BY DEF Grown, n
<1>. QED
  BY <1>4, <1>5, <1>6

\* A new element is the last one.
LEMMA AddBecomes ==
  ASSUME TablesAssumption, NEW m, NEW ord, Sound(m, ord), NEW t \in Owners(m), Alone(m, t),
         HasRoom(m, 1), NEW k \in Keys, NEW v \in Values
  PROVE  \E n : Became(m, ord, t, chf_add(m, t, k, v),
                       Append(ord[t], n), Append(Listed(m.bucket, ord[t]), <<k, v>>))
<1> DEFINE b == m.bucket
           heads == m.array[t]
           table == m.table[t]
           s == ord[t]
           S == ToSet(s)
           new == Fresh(b, 1)[1]
           chain == Chain(m, t, k)
           last == At(chain, Len(chain))
           bucket == [key |-> k, value |-> v, prev |-> table.tail, next |-> NULL, chained |-> NULL]
           b2 == Extended(b, new, bucket, table.tail, last)
           table2 == [table EXCEPT !.head = IF @ = NULL THEN new ELSE @, !.tail = new, !.count = @ + 1]
<1>1. /\ t \in DOMAIN m.table /\ t \in Tables /\ table \in Table /\ ~table.cow /\ table.array = t
      /\ Whole(b, table, heads, s) /\ InOrder(b, table, s) /\ Allocated(b)
      /\ m = Memory(b, m.array, m.table) /\ m.table = [u \in DOMAIN m.table |-> m.table[u]]
      /\ m.array = [u \in DOMAIN m.array |-> m.array[u]] /\ t \in DOMAIN m.array
  <2>1. t \in DOMAIN m.table /\ t \in DOMAIN m.array /\ Owns(m, ord, t) /\ Typed(m) /\ ~table.cow
    BY DEF Sound, Owners
  <2>. QED
    BY <2>1 DEF Typed, Owns, Whole
<1>2. NULL \notin DOMAIN b /\ S \subseteq DOMAIN b
  <2>1. NULL \notin DOMAIN b
    BY <1>1, AllocatedFinite
  <2>2. S \subseteq DOMAIN b
    BY <1>1, InOrderAllocated
  <2>. QED
    BY <2>1, <2>2
<1>3. new \in Addresses \ DOMAIN b
  <2>1. Fresh(b, 1) \in [1 .. 1 -> Addresses \ DOMAIN b]
    BY FreshIs DEF HasRoom
  <2>. QED
    BY <2>1
<1>4. new # NULL /\ new \notin S
  BY <1>2, <1>3 DEF TablesAssumption
<1>5. bucket \in Bucket
  BY <1>1 DEF Bucket, Table, Links
<1>6. PICK n, top, r : Hung(b, heads, S, n, top, r)
  BY <1>1 DEF Whole, HungIn
<1> DEFINE h == k % n
<1>7. Slot(Heads(m, t), k) = h /\ h \in 0 .. n - 1 /\ EndOfChain(b, heads, S, n, h, last)
  <2>1. Slot(Heads(m, t), k) = k % n
    <3>1. Heads(m, t) = heads
      BY <1>1 DEF Heads
    <3>. QED
      BY <1>6, <3>1, SlotIs
  <2>2. k % n \in 0 .. n - 1
    <3>1. n \in Nat \ {0}
      BY <1>6 DEF Hung
    <3>2. k \in Nat
      BY DEF TablesAssumption
    <3>. QED
      BY <3>1, <3>2
  <2>3. EndOfChain(m.bucket, m.array[t], ToSet(ord[t]), n, k % n, At(Chain(m, t, k), Len(Chain(m, t, k))))
    BY <1>6, LastOfChain
  <2>. QED
    BY <2>1, <2>2, <2>3
<1> DEFINE heads2 == Headed(heads, n, h, new)
<1>8. chf_add(m, t, k, v) = Grown(After(m, t, b2, heads2, table2), t)
  <2> DEFINE base == [m EXCEPT
         !.bucket = [x \in DOMAIN m.bucket \cup {new} |->
            IF x = new THEN bucket
            ELSE [m.bucket[x] EXCEPT !.next = IF x = table.tail THEN new ELSE @,
                                     !.chained = IF x = last THEN new ELSE @]],
         !.table = Bind(@, t, [m.table[t] EXCEPT !.head = IF @ = NULL THEN new ELSE @,
                                                 !.tail = new, !.count = @ + 1]),
         !.array = Bind(@, m.table[t].array,
                        [Heads(m, t) EXCEPT ![Slot(Heads(m, t), k)] = IF @ = NULL THEN new ELSE @])]
  <2>1. chf_add(m, t, k, v) = Grown(base, t)
    BY DEF chf_add
  <2>2. base = [m EXCEPT !.bucket = b2, !.table = Bind(@, t, table2),
                         !.array = Bind(@, t, [heads EXCEPT ![h] = IF @ = NULL THEN new ELSE @])]
    BY <1>1, <1>7 DEF Extended, Heads
  <2> HIDE DEF b2, table2, new, h
  <2>3. [heads EXCEPT ![h] = IF @ = NULL THEN new ELSE @] = heads2
    <3>1. heads = [i \in 0 .. n - 1 |-> heads[i]]
      BY <1>6 DEF Hung
    <3>. QED
      BY <1>7, <3>1 DEF Headed
  <2>6. base = [m EXCEPT !.bucket = b2, !.table = Bind(m.table, t, table2), !.array = Bind(m.array, t, heads2)]
    <3> HIDE DEF base, heads2
    <3>. QED
      BY <2>2, <2>3
  <2>7. base = Memory(b2, Bind(m.array, t, heads2), Bind(m.table, t, table2))
    <3> HIDE DEF base, heads2
    <3>. QED
      BY <1>1, <2>6 DEF Memory
  <2>. QED
    BY <2>1, <2>7 DEF After
<1> HIDE DEF bucket, new, last, table2
<1>9. /\ Allocated(b2) /\ DOMAIN b2 = DOMAIN b \cup {new} /\ b2[new] = bucket
      /\ \A x \in DOMAIN b :
           /\ b2[x].key = b[x].key /\ b2[x].value = b[x].value /\ b2[x].prev = b[x].prev
           /\ b2[x].next = IF x = table.tail THEN new ELSE b[x].next
           /\ b2[x].chained = IF x = last THEN new ELSE b[x].chained
           /\ x # table.tail /\ x # last => b2[x] = b[x]
  BY <1>1, <1>3, <1>5, ExtendedIs
<1>10. bucket.key = k /\ bucket.value = v /\ bucket.prev = table.tail /\ bucket.next = NULL /\ bucket.chained = NULL
  BY DEF bucket
<1>11. /\ table2 \in Table /\ table2.array = t /\ ~table2.cow /\ table2.count = table.count + 1
       /\ table2.tail = new /\ table2.head = IF table.head = NULL THEN new ELSE table.head
  <2>1. PICK c \in Nat, f \in Links : c = table.count + 1 /\ f = IF table.head = NULL THEN new ELSE table.head
    <3>1. table.count + 1 \in Nat /\ table.head \in Links /\ new \in Links
      BY <1>1, <1>3 DEF Table, Links
    <3>. QED
      BY <3>1
  <2>2. table2 = [table EXCEPT !.head = IF table.head = NULL THEN new ELSE table.head,
                               !.tail = new, !.count = table.count + 1]
    BY DEF table2
  <2>3. table2 = [table EXCEPT !.head = f, !.tail = new, !.count = c]
    BY <2>1, <2>2
  <2>4. table \in Table /\ new \in Links
    BY <1>1, <1>3 DEF Links
  <2> HIDE DEF table, table2
  <2>. QED
    BY <1>1, <2>1, <2>3, <2>4 DEF Table
<1> HIDE DEF b2
<1>12. InOrder(b2, table2, Append(s, new))
  BY <1>1, <1>2, <1>3, <1>9, <1>10, <1>11, OrderMore
<1>13. HungIn(b2, heads2, S \cup {new})
  <2>1. SlotOf(b2, n, new) = h /\ b2[new].chained = NULL
    BY <1>9, <1>10 DEF SlotOf
  <2>2. \A x \in S : SlotOf(b2, n, x) = SlotOf(b, n, x) /\ b2[x].chained = IF x = last THEN new ELSE b[x].chained
    BY <1>2, <1>9 DEF SlotOf
  <2> HIDE DEF h, S
  <2>4. new \notin S /\ new # NULL /\ NULL \notin S
    BY <1>2, <1>4
  <2>. QED
    BY <1>6, <1>7, <2>1, <2>2, <2>4, HungMore
<1>14. ToSet(Append(s, new)) = S \cup {new}
  <2>1. table.count \in Nat /\ s \in [1 .. table.count -> DOMAIN b]
    BY <1>1 DEF InOrder
  <2>2. More(Append(s, new), table.count, DOMAIN b, s, new)
    BY <2>1, AppendIs
  <2> HIDE DEF table
  <2>3. \A i \in 1 .. table.count + 1 : i = table.count + 1 \/ i \in 1 .. table.count
    BY <2>1
  <2>4. /\ DOMAIN Append(s, new) = 1 .. table.count + 1 /\ DOMAIN s = 1 .. table.count
        /\ table.count + 1 \in 1 .. table.count + 1 /\ \A i \in 1 .. table.count : i \in 1 .. table.count + 1
    BY <2>1, <2>2 DEF More
  <2>. QED
    BY <2>2, <2>3, <2>4 DEF More, ToSet
<1>15. Writes(m, ord, t, b2, heads2, table2, Append(s, new))
  <2>1. Own(m, ord, t) = S
    BY DEF Own
  <2>2. Whole(b2, table2, heads2, Append(s, new))
    BY <1>12, <1>13, <1>14 DEF Whole
  <2>3. \A x \in DOMAIN b \ S : x # table.tail /\ x # last
    <3>1. table.tail \in S \cup {NULL}
      BY <1>1 DEF InOrder, At, ToSet
    <3>. QED
      BY <1>2, <1>7, <3>1 DEF EndOfChain
  <2> HIDE DEF heads2, S
  <2>4. \A x \in DOMAIN b \ S : x \in DOMAIN b2 /\ x \notin S \cup {new} /\ b2[x] = b[x]
    BY <1>3, <1>9, <2>3
  <2>5. \A x \in DOMAIN b2 : x \in S \cup {new} \/ x \in DOMAIN b \ S
    BY <1>9
  <2>. QED
    BY <1>9, <1>11, <1>14, <2>1, <2>2, <2>4, <2>5 DEF Writes
<1>16. Listed(b2, Append(s, new)) = Append(Listed(b, s), <<k, v>>)
  <2>1. EntryIn(b2, new) = <<k, v>>
    BY <1>9, <1>10 DEF EntryIn
  <2>2. SameEntries(b, b2)
    BY <1>9 DEF SameEntries
  <2>3. Listed(b2, Append(s, new)) = Append(Listed(b, s), EntryIn(b2, new))
    BY <1>1, <2>2, ListedMore
  <2>. QED
    BY <2>1, <2>3
<1> HIDE DEF heads2
<1> DEFINE m1 == After(m, t, b2, heads2, table2)
           s2 == Append(s, new)
           e2 == Append(Listed(b, s), <<k, v>>)
<1>17. Became(m, ord, t, m1, s2, e2)
  <2>1. Became(m, ord, t, m1, s2, Listed(b2, s2))
    <3> HIDE DEF s2
    <3>. QED
      BY <1>1, <1>15, WrittenBecomes DEF s2
  <2>. QED
    BY <1>16, <2>1
<1>18. Became(m1, Bind(ord, t, s2), t, Grown(m1, t), s2, e2)
  <2>1. /\ Sound(m1, Bind(ord, t, s2)) /\ t \in Owners(m1) /\ Alone(m1, t) /\ Bind(ord, t, s2)[t] = s2
    <3>1. Alone(m1, t)
      <4> HIDE DEF m1, s2, e2
      <4>. QED
        BY <1>17, StaysAlone
    <3>. QED
      BY <1>17, <3>1 DEF Became, Bind
  <2>2. Listed(m1.bucket, s2) = e2
    BY <1>16 DEF After, Memory
  <2> HIDE DEF m1, s2, e2
  <2>3. Became(m1, Bind(ord, t, s2), t, Grown(m1, t), Bind(ord, t, s2)[t], Listed(m1.bucket, Bind(ord, t, s2)[t]))
    BY <2>1, GrownBecomes
  <2>. QED
    BY <2>1, <2>2, <2>3
<1>19. Became(m, ord, t, Grown(m1, t), s2, e2)
  <2> HIDE DEF m1, s2, e2
  <2>. QED
    BY <1>17, <1>18, BecameTwice
<1>. QED
  BY <1>8, <1>19

-----------------------------------------------------------------------------
(* An element goes.                                                        *)

\* The sequence without its p-th element.
TakenOut(s, k, p) == [i \in 1 .. k - 1 |-> IF i < p THEN s[i] ELSE s[i + 1]]

LEMMA RemoveAtIs ==
  ASSUME NEW S, NEW k \in Nat, NEW s \in [1 .. k -> S], NEW p \in 1 .. k
  PROVE  RemoveAt(s, p) = TakenOut(s, k, p)
<1>1. RemoveAt(s, p) = D!TakenOut(s, k, p)
  <2>1. D!RemoveAt(s, p) = D!TakenOut(s, k, p)
    BY D!RemoveIs
  <2>2. RemoveAt(s, p) = D!RemoveAt(s, p)
    BY DEF RemoveAt, D!RemoveAt
  <2>. QED
    BY <2>1, <2>2
<1>. QED
  BY <1>1 DEF D!TakenOut, TakenOut

\* Without n the neighbours of n are each other's, and those that hung on it hang
\* where it hung.
Joined(b, n, b2) ==
    /\ DOMAIN b2 = DOMAIN b \ {n}
    /\ \A x \in DOMAIN b \ {n} :
        /\ b2[x].key = b[x].key /\ b2[x].value = b[x].value
        /\ b2[x].next = IF x = b[n].prev THEN b[n].next ELSE b[x].next
        /\ b2[x].prev = IF x = b[n].next THEN b[n].prev ELSE b[x].prev
        /\ b2[x].chained = IF b[x].chained = n THEN b[n].chained ELSE b[x].chained
        /\ x # b[n].prev /\ x # b[n].next /\ b[x].chained # n => b2[x] = b[x]

\* The table with one element less.
OneLess(b, n, table, table2) ==
    /\ table2.count = table.count - 1
    /\ table2.head = IF table.head = n THEN b[n].next ELSE table.head
    /\ table2.tail = IF table.tail = n THEN b[n].prev ELSE table.tail

Leaves(b, table, s, p, b2, table2) ==
    /\ p \in 1 .. table.count /\ NULL \notin DOMAIN b
    /\ Joined(b, s[p], b2) /\ OneLess(b, s[p], table, table2)

LEMMA OrderLess ==
  ASSUME NEW b, NEW table, NEW s, InOrder(b, table, s),
         NEW p, NEW b2, NEW table2, Leaves(b, table, s, p, b2, table2)
  PROVE  InOrder(b2, table2, TakenOut(s, table.count, p))
<1> PICK n : n = s[p]
  OBVIOUS
<1> USE DEF Leaves, Joined, OneLess
<1> DEFINE k == table.count
           s2 == TakenOut(s, k, p)
           J(i) == IF i < p THEN i ELSE i + 1
<1>1. /\ k \in Nat /\ s \in [1 .. k -> DOMAIN b] /\ DOMAIN s = 1 .. k
      /\ \A i, j \in 1 .. k : s[i] = s[j] => i = j
      /\ table.head = At(s, 1) /\ table.tail = At(s, k)
      /\ \A i \in 1 .. k : b[s[i]].next = At(s, i + 1) /\ b[s[i]].prev = At(s, i - 1)
  BY DEF InOrder
<1>2. p \in 1 .. k
  OBVIOUS
<1>3. b[n].next = At(s, p + 1) /\ b[n].prev = At(s, p - 1)
  BY <1>1
<1> HIDE DEF k
<1>4. \A i \in 1 .. k - 1 : J(i) \in 1 .. k /\ J(i) # p /\ s2[i] = s[J(i)] /\ s[J(i)] \in DOMAIN b \ {n}
  BY <1>1, <1>2 DEF TakenOut
<1>5. s2 \in [1 .. k - 1 -> DOMAIN b2] /\ DOMAIN s2 = 1 .. k - 1
  <2>1. DOMAIN s2 = 1 .. k - 1 /\ s2 = [i \in 1 .. k - 1 |-> s2[i]]
    BY DEF TakenOut
  <2> HIDE DEF s2, J
  <2>2. \A i \in 1 .. k - 1 : s2[i] \in DOMAIN b2
    BY <1>4
  <2>. QED
    BY <2>1, <2>2
<1> HIDE DEF s2
<1>6. \A i, j \in 1 .. k - 1 : s2[i] = s2[j] => i = j
  <2>1. \A i, j \in 1 .. k - 1 : J(i) = J(j) => i = j
    BY <1>1, <1>2
  <2> HIDE DEF J
  <2>. QED
    BY <1>1, <1>4, <2>1
<1>7. \A i \in 0 .. k : At(s2, i) = IF i < p THEN At(s, i) ELSE At(s, i + 1)
  <2> SUFFICES ASSUME NEW i \in 0 .. k PROVE At(s2, i) = IF i < p THEN At(s, i) ELSE At(s, i + 1)
    OBVIOUS
  <2>1. CASE i \in 1 .. k - 1
    BY <1>1, <1>4, <1>5, <2>1 DEF At
  <2>2. CASE i = 0
    BY <1>1, <1>2, <1>5, <2>2 DEF At
  <2>3. CASE i = k
    BY <1>1, <1>2, <1>5, <2>3 DEF At
  <2>. QED
    BY <1>1, <2>1, <2>2, <2>3
<1>8. \A i \in 1 .. k, j \in 0 .. k + 1 : s[i] = At(s, j) => i = j
  BY <1>1 DEF At
<1>9. ASSUME NEW i \in 1 .. k - 1
      PROVE  b2[s2[i]].next = At(s2, i + 1) /\ b2[s2[i]].prev = At(s2, i - 1)
  <2> DEFINE j == J(i)
             x == s[j]
  <2>1. j \in 1 .. k /\ j # p /\ s2[i] = x /\ x \in DOMAIN b \ {n} /\ j = IF i < p THEN i ELSE i + 1
    BY <1>4
  <2> HIDE DEF j
  <2>2. b[x].next = At(s, j + 1) /\ b[x].prev = At(s, j - 1)
    BY <1>1, <2>1
  <2>3. /\ b2[x].next = IF x = At(s, p - 1) THEN At(s, p + 1) ELSE At(s, j + 1)
        /\ b2[x].prev = IF x = At(s, p + 1) THEN At(s, p - 1) ELSE At(s, j - 1)
    BY <1>3, <2>1, <2>2
  <2>4. x = At(s, p - 1) <=> j = p - 1
    <3>1. p - 1 \in 0 .. k + 1
      BY <1>1, <1>2
    <3>. QED
      BY <1>1, <1>8, <2>1, <3>1 DEF At
  <2>5. x = At(s, p + 1) <=> j = p + 1
    <3>1. p + 1 \in 0 .. k + 1
      BY <1>1, <1>2
    <3>. QED
      BY <1>1, <1>8, <2>1, <3>1 DEF At
  <2>6. /\ At(s2, i + 1) = IF i + 1 < p THEN At(s, i + 1) ELSE At(s, i + 2)
        /\ At(s2, i - 1) = IF i - 1 < p THEN At(s, i - 1) ELSE At(s, i)
    <3>1. i + 1 \in 0 .. k /\ i - 1 \in 0 .. k /\ (i + 1) + 1 = i + 2 /\ (i - 1) + 1 = i
      BY <1>1
    <3>. QED
      BY <1>7, <3>1
  <2>7. b2[x].next = At(s2, i + 1)
    <3>1. CASE j = p - 1
      BY <1>1, <1>2, <2>1, <2>3, <2>4, <2>6, <3>1
    <3>2. CASE j # p - 1
      BY <1>1, <1>2, <2>1, <2>3, <2>4, <2>6, <3>2
    <3>. QED
      BY <3>1, <3>2
  <2>8. b2[x].prev = At(s2, i - 1)
    <3>1. CASE j = p + 1
      BY <1>1, <1>2, <2>1, <2>3, <2>5, <2>6, <3>1
    <3>2. CASE j # p + 1
      BY <1>1, <1>2, <2>1, <2>3, <2>5, <2>6, <3>2
    <3>. QED
      BY <3>1, <3>2
  <2>. QED
    BY <2>1, <2>7, <2>8
<1>10. table2.head = At(s2, 1)
  <2>1. table.head = n <=> p = 1
    BY <1>1, <1>2 DEF At
  <2>2. At(s2, 1) = IF 1 < p THEN At(s, 1) ELSE At(s, 2)
    <3>1. 1 \in 0 .. k /\ 1 + 1 = 2
      BY <1>1, <1>2
    <3>. QED
      BY <1>7, <3>1
  <2>. QED
    BY <1>1, <1>2, <1>3, <2>1, <2>2
<1>11. table2.tail = At(s2, k - 1)
  <2>1. table.tail = n <=> p = k
    BY <1>1, <1>2 DEF At
  <2>2. At(s2, k - 1) = IF k - 1 < p THEN At(s, k - 1) ELSE At(s, k)
    <3>1. k - 1 \in 0 .. k /\ (k - 1) + 1 = k
      BY <1>1, <1>2
    <3>. QED
      BY <1>7, <3>1
  <2>. QED
    BY <1>1, <1>2, <1>3, <2>1, <2>2
<1>12. table2.count = k - 1 /\ k - 1 \in Nat
  BY <1>1, <1>2 DEF k
<1>. QED
  BY <1>5, <1>6, <1>9, <1>10, <1>11, <1>12 DEF InOrder, s2, k

\* What hung on it hangs where it was.
LEMMA HungLess ==
  ASSUME NEW b, NEW heads, NEW S, NEW n, NEW top, NEW r, Hung(b, heads, S, n, top, r),
         NULL \notin S, NEW gone \in S,
         NEW b2,
         \A x \in S \ {gone} :
            /\ SlotOf(b2, n, x) = SlotOf(b, n, x)
            /\ b2[x].chained = IF b[x].chained = gone THEN b[gone].chained ELSE b[x].chained,
         NEW heads2, heads2 = [s \in DOMAIN heads |-> IF heads[s] = gone THEN b[gone].chained ELSE heads[s]]
  PROVE  HungIn(b2, heads2, S \ {gone})
<1> DEFINE S2 == S \ {gone}
           z == b[gone].chained
<1>1. /\ n \in Nat \ {0} /\ top \in Nat
      /\ heads \in [0 .. n - 1 -> S \cup {NULL}]
      /\ \A s \in 0 .. n - 1 : heads[s] # NULL => SlotOf(b, n, heads[s]) = s
      /\ \A x \in S :
          /\ r[x] \in 0 .. top /\ SlotOf(b, n, x) \in 0 .. n - 1
          /\ b[x].chained \in S \cup {NULL}
          /\ b[x].chained # NULL =>
              r[b[x].chained] < r[x] /\ SlotOf(b, n, b[x].chained) = SlotOf(b, n, x)
          /\ heads[SlotOf(b, n, x)] = x \/ \E y \in S : b[y].chained = x
  BY DEF Hung
<1>2. z \in S2 \cup {NULL} /\ (z # NULL => r[z] < r[gone] /\ SlotOf(b, n, z) = SlotOf(b, n, gone))
  <2>1. z # NULL => r[z] < r[gone] /\ r[z] \in Nat /\ r[gone] \in Nat
    BY <1>1
  <2>. QED
    BY <1>1, <2>1
<1> HIDE DEF z
<1>3. /\ heads2 = [s \in 0 .. n - 1 |-> heads2[s]]
      /\ \A s \in 0 .. n - 1 : heads2[s] = IF heads[s] = gone THEN z ELSE heads[s]
  BY <1>1 DEF z
<1>4. ASSUME NEW s \in 0 .. n - 1
      PROVE  heads2[s] \in S2 \cup {NULL} /\ (heads2[s] # NULL => SlotOf(b2, n, heads2[s]) = s)
  <2>1. CASE heads[s] = gone
    BY <1>1, <1>2, <1>3, <2>1
  <2>2. CASE heads[s] # gone
    BY <1>1, <1>3, <2>2
  <2>. QED
    BY <2>1, <2>2
<1>5. ASSUME NEW x \in S2
      PROVE  /\ r[x] \in 0 .. top /\ SlotOf(b2, n, x) \in 0 .. n - 1
             /\ b2[x].chained \in S2 \cup {NULL}
             /\ b2[x].chained # NULL =>
                 r[b2[x].chained] < r[x] /\ SlotOf(b2, n, b2[x].chained) = SlotOf(b2, n, x)
  <2>1. r[x] \in 0 .. top /\ SlotOf(b2, n, x) \in 0 .. n - 1
    BY <1>1
  <2>2. CASE b[x].chained = gone
    <3>1. b2[x].chained = z /\ r[gone] < r[x] /\ SlotOf(b, n, gone) = SlotOf(b, n, x)
      BY <1>1, <2>2 DEF z
    <3>2. z # NULL => r[z] < r[x]
      <4>1. z # NULL => r[z] \in Nat /\ r[gone] \in Nat /\ r[x] \in Nat
        BY <1>1, <1>2
      <4>. QED
        BY <1>2, <3>1, <4>1
    <3>. QED
      BY <1>2, <2>1, <3>1, <3>2
  <2>3. CASE b[x].chained # gone
    <3>1. b2[x].chained = b[x].chained /\ b[x].chained \in S2 \cup {NULL}
      BY <1>1, <2>3
    <3>. QED
      BY <1>1, <2>1, <3>1
  <2>. QED
    BY <2>2, <2>3
<1>6. ASSUME NEW x \in S2
      PROVE  heads2[SlotOf(b2, n, x)] = x \/ \E y \in S2 : b2[y].chained = x
  <2>1. SlotOf(b2, n, x) = SlotOf(b, n, x) /\ SlotOf(b, n, x) \in 0 .. n - 1
    BY <1>1
  <2>2. CASE x # z
    <3>1. CASE heads[SlotOf(b, n, x)] = x
      BY <1>3, <2>1, <3>1
    <3>2. CASE heads[SlotOf(b, n, x)] # x
      <4>1. PICK y \in S : b[y].chained = x
        BY <1>1, <3>2
      <4>2. y # gone
        BY <2>2, <4>1 DEF z
      <4>. QED
        BY <4>1, <4>2
    <3>. QED
      BY <3>1, <3>2
  <2>3. CASE x = z
    <3>1. SlotOf(b, n, gone) = SlotOf(b, n, x)
      BY <1>2, <2>3
    <3>2. CASE heads[SlotOf(b, n, gone)] = gone
      BY <1>3, <2>1, <2>3, <3>1, <3>2
    <3>3. CASE heads[SlotOf(b, n, gone)] # gone
      <4>1. PICK y \in S : b[y].chained = gone
        BY <1>1, <3>3
      <4>2. y # gone
        <5>1. r[gone] < r[y] /\ r[gone] \in Nat /\ r[y] \in Nat
          BY <1>1, <4>1
        <5>. QED
          BY <5>1
      <4>3. b2[y].chained = x
        BY <2>3, <4>1, <4>2 DEF z
      <4>. QED
        BY <4>2, <4>3
    <3>. QED
      BY <3>2, <3>3
  <2>. QED
    BY <2>2, <2>3
<1>7. Hung(b2, heads2, S2, n, top, r)
  <2>1. heads2 \in [0 .. n - 1 -> S2 \cup {NULL}]
    BY <1>3, <1>4
  <2> HIDE DEF S2
  <2>. QED
    BY <1>1, <1>4, <1>5, <1>6, <2>1 DEF Hung
<1>. QED
  BY <1>7 DEF HungIn

\* The buckets without n, its neighbours and those that hang on it joined.
Cut(b, n) ==
    [x \in DOMAIN b \ {n} |->
        [b[x] EXCEPT !.next = IF x = b[n].prev THEN b[n].next ELSE @,
                     !.prev = IF x = b[n].next THEN b[n].prev ELSE @,
                     !.chained = IF @ = n THEN b[n].chained ELSE @]]

LEMMA CutIs ==
  ASSUME NEW b, Allocated(b), NEW n \in DOMAIN b
  PROVE  Allocated(Cut(b, n)) /\ Joined(b, n, Cut(b, n))
<1> DEFINE b2 == Cut(b, n)
<1>1. DOMAIN b2 = DOMAIN b \ {n} /\ b2 = [x \in DOMAIN b2 |-> b2[x]]
  BY DEF Cut
<1>2. PICK before, after, below \in Links : before = b[n].prev /\ after = b[n].next /\ below = b[n].chained
  BY DEF Allocated, Bucket
<1>3. ASSUME NEW x \in DOMAIN b \ {n}
      PROVE  /\ b2[x].key = b[x].key /\ b2[x].value = b[x].value
             /\ b2[x].next = IF x = before THEN after ELSE b[x].next
             /\ b2[x].prev = IF x = after THEN before ELSE b[x].prev
             /\ b2[x].chained = IF b[x].chained = n THEN below ELSE b[x].chained
             /\ x # before /\ x # after /\ b[x].chained # n => b2[x] = b[x]
             /\ b2[x] \in Bucket
  <2>1. b2[x] = [b[x] EXCEPT !.next = IF x = before THEN after ELSE b[x].next,
                             !.prev = IF x = after THEN before ELSE b[x].prev,
                             !.chained = IF b[x].chained = n THEN below ELSE b[x].chained]
    BY <1>2 DEF Cut
  <2>2. b[x] \in Bucket
    BY DEF Allocated
  <2> HIDE DEF b2
  <2>. QED
    BY <2>1, <2>2 DEF Bucket
<1>4. Allocated(b2)
  BY <1>1, <1>3 DEF Allocated
<1>. QED
  BY <1>1, <1>2, <1>3, <1>4 DEF Joined

\* What a table shows without an element.
LEMMA ListedLess ==
  ASSUME NEW b, NEW b2, NEW table, NEW s, InOrder(b, table, s), NEW p \in 1 .. table.count,
         \A x \in DOMAIN b \ {s[p]} : b2[x].key = b[x].key /\ b2[x].value = b[x].value
  PROVE  Listed(b2, TakenOut(s, table.count, p)) = RemoveAt(Listed(b, s), p)
<1> PICK k \in Nat : k = table.count
  BY DEF InOrder
<1>0. s \in [1 .. k -> DOMAIN b] /\ p \in 1 .. k /\ \A i, j \in 1 .. k : s[i] = s[j] => i = j
  BY DEF InOrder
<1> DEFINE e == Listed(b, s)
           E == {e[i] : i \in 1 .. k}
           s2 == TakenOut(s, k, p)
           J(i) == IF i < p THEN i ELSE i + 1
<1>1. e \in [1 .. k -> E] /\ \A i \in 1 .. k : e[i] = EntryIn(b, s[i])
  BY <1>0 DEF Listed
<1>2. RemoveAt(e, p) = TakenOut(e, k, p)
  <2> HIDE DEF e, E
  <2>1. p \in 1 .. k /\ e \in [1 .. k -> E]
    BY <1>0, <1>1
  <2>. QED
    BY <2>1, RemoveAtIs
<1> HIDE DEF e
<1>3. \A i \in 1 .. k - 1 : J(i) \in 1 .. k /\ J(i) # p /\ s2[i] = s[J(i)] /\ TakenOut(e, k, p)[i] = e[J(i)]
  BY <1>0 DEF TakenOut
<1>4. DOMAIN s2 = 1 .. k - 1 /\ TakenOut(e, k, p) = [i \in 1 .. k - 1 |-> TakenOut(e, k, p)[i]]
  BY DEF TakenOut
<1> HIDE DEF s2, J
<1>5. \A i \in 1 .. k - 1 : EntryIn(b2, s2[i]) = TakenOut(e, k, p)[i]
  <2>1. \A i \in 1 .. k - 1 : s[J(i)] \in DOMAIN b \ {s[p]}
    BY <1>0, <1>3
  <2>2. \A x \in DOMAIN b \ {s[p]} : EntryIn(b2, x) = EntryIn(b, x)
    BY DEF EntryIn
  <2> HIDE DEF E
  <2>3. \A i \in 1 .. k - 1 : EntryIn(b2, s2[i]) = EntryIn(b, s[J(i)])
    BY <1>3, <2>1, <2>2
  <2>. QED
    BY <1>1, <1>3, <2>3
<1>6. Listed(b2, s2) = TakenOut(e, k, p)
  BY <1>4, <1>5 DEF Listed
<1>. QED
  BY <1>2, <1>6 DEF e, s2

\* An element goes.
LEMMA RemovedBecomes ==
  ASSUME TablesAssumption, NEW m, NEW ord, Sound(m, ord), NEW t \in Owners(m), Alone(m, t),
         NEW p \in 1 .. m.table[t].count
  PROVE  Became(m, ord, t, Removed(m, t, ord[t][p]), RemoveAt(ord[t], p), RemoveAt(Listed(m.bucket, ord[t]), p))
<1> DEFINE b == m.bucket
           heads == m.array[t]
           table == m.table[t]
           s == ord[t]
           S == ToSet(s)
           n == s[p]
           b2 == Cut(b, n)
           heads2 == [h \in DOMAIN heads |-> IF heads[h] = n THEN b[n].chained ELSE heads[h]]
           table2 == [table EXCEPT !.head = IF @ = n THEN b[n].next ELSE @,
                                   !.tail = IF @ = n THEN b[n].prev ELSE @, !.count = @ - 1]
           s2 == TakenOut(s, table.count, p)
<1>1. /\ t \in DOMAIN m.table /\ t \in Tables /\ table \in Table /\ ~table.cow /\ table.array = t
      /\ Whole(b, table, heads, s) /\ InOrder(b, table, s) /\ Allocated(b)
      /\ m = Memory(b, m.array, m.table) /\ m.table = [u \in DOMAIN m.table |-> m.table[u]]
      /\ m.array = [u \in DOMAIN m.array |-> m.array[u]] /\ t \in DOMAIN m.array
  <2>1. t \in DOMAIN m.table /\ t \in DOMAIN m.array /\ Owns(m, ord, t) /\ Typed(m) /\ ~table.cow
    BY DEF Sound, Owners
  <2>. QED
    BY <2>1 DEF Typed, Owns, Whole
<1>2. NULL \notin DOMAIN b /\ S \subseteq DOMAIN b /\ n \in S
  <2>1. NULL \notin DOMAIN b
    BY <1>1, AllocatedFinite
  <2>2. S \subseteq DOMAIN b /\ n \in S
    BY <1>1 DEF InOrder, ToSet
  <2>. QED
    BY <2>1, <2>2
<1>3. /\ table.count \in Nat /\ p \in 1 .. table.count /\ s \in [1 .. table.count -> DOMAIN b]
      /\ \A i, j \in 1 .. table.count : s[i] = s[j] => i = j
      /\ b[n].next \in S \cup {NULL} /\ b[n].prev \in S \cup {NULL}
  BY <1>1 DEF InOrder, At, ToSet
<1>4. PICK size, top, r : Hung(b, heads, S, size, top, r)
  BY <1>1 DEF Whole, HungIn
<1>5. /\ Allocated(b2) /\ DOMAIN b2 = DOMAIN b \ {n}
      /\ \A x \in DOMAIN b \ {n} :
          /\ b2[x].key = b[x].key /\ b2[x].value = b[x].value
          /\ b2[x].next = IF x = b[n].prev THEN b[n].next ELSE b[x].next
          /\ b2[x].prev = IF x = b[n].next THEN b[n].prev ELSE b[x].prev
          /\ b2[x].chained = IF b[x].chained = n THEN b[n].chained ELSE b[x].chained
          /\ x # b[n].prev /\ x # b[n].next /\ b[x].chained # n => b2[x] = b[x]
  <2>1. n \in DOMAIN b
    BY <1>2
  <2> HIDE DEF n
  <2>2. Allocated(Cut(b, n)) /\ Joined(b, n, Cut(b, n))
    BY <1>1, <2>1, CutIs
  <2>. QED
    BY <2>2 DEF Joined
<1>6. Removed(m, t, n) = After(m, t, b2, heads2, table2)
  <2>1. Removed(m, t, n) = [m EXCEPT !.bucket = b2, !.array = Bind(@, t, heads2), !.table = Bind(@, t, table2)]
    BY <1>1 DEF Removed, Cut, Heads
  <2> HIDE DEF b2, heads2, table2, n
  <2>. QED
    BY <1>1, <2>1 DEF After, Memory
<1>7. /\ table2 \in Table /\ table2.array = t /\ ~table2.cow /\ table2.count = table.count - 1
      /\ table2.head = IF table.head = n THEN b[n].next ELSE table.head
      /\ table2.tail = IF table.tail = n THEN b[n].prev ELSE table.tail
  <2>1. PICK c \in Nat, f, l \in Links :
            /\ c = table.count - 1 /\ f = IF table.head = n THEN b[n].next ELSE table.head
            /\ l = IF table.tail = n THEN b[n].prev ELSE table.tail
    <3>1. table.count - 1 \in Nat
      BY <1>3
    <3>2. table.head \in Links /\ table.tail \in Links
      BY <1>1 DEF Table
    <3>3. b[n].next \in Links /\ b[n].prev \in Links
      BY <1>1, <1>2 DEF Allocated, Bucket
    <3>. QED
      BY <3>1, <3>2, <3>3
  <2>2. table2 = [table EXCEPT !.head = IF table.head = n THEN b[n].next ELSE table.head,
                               !.tail = IF table.tail = n THEN b[n].prev ELSE table.tail, !.count = table.count - 1]
    BY DEF table2
  <2>3. table2 = [table EXCEPT !.head = f, !.tail = l, !.count = c]
    BY <2>1, <2>2
  <2> HIDE DEF table, table2
  <2>. QED
    BY <1>1, <2>1, <2>3 DEF Table
<1> HIDE DEF b2, table2
<1>8. InOrder(b2, table2, s2)
  <2>1. Leaves(b, table, s, p, b2, table2)
    BY <1>2, <1>3, <1>5, <1>7 DEF Leaves, Joined, OneLess
  <2>. QED
    BY <1>1, <2>1, OrderLess, Zenon
<1>9. HungIn(b2, heads2, S \ {n})
  <2>1. \A x \in S \ {n} : /\ SlotOf(b2, size, x) = SlotOf(b, size, x)
                           /\ b2[x].chained = IF b[x].chained = n THEN b[n].chained ELSE b[x].chained
    BY <1>2, <1>5 DEF SlotOf
  <2>2. NULL \notin S
    BY <1>2
  <2> HIDE DEF S, n
  <2>. QED
    BY <1>2, <1>4, <2>1, <2>2, HungLess
<1>10. ToSet(s2) = S \ {n}
  <2> PICK k \in Nat : k = table.count
    BY <1>3
  <2> DEFINE J(i) == IF i < p THEN i ELSE i + 1
             I(j) == IF j < p THEN j ELSE j - 1
  <2>1. \A i \in 1 .. k - 1 : J(i) \in 1 .. k /\ J(i) # p /\ s2[i] = s[J(i)]
    BY <1>3 DEF TakenOut
  <2>2. \A j \in 1 .. k : j # p => I(j) \in 1 .. k - 1 /\ J(I(j)) = j
    BY <1>3
  <2>3. DOMAIN s2 = 1 .. k - 1 /\ DOMAIN s = 1 .. k
    BY <1>3 DEF TakenOut
  <2> HIDE DEF s2, J, I
  <2>4. \A i \in 1 .. k - 1 : s2[i] \in S \ {n}
    <3>1. \A j \in 1 .. k : s[j] \in S
      BY <2>3 DEF ToSet
    <3>2. \A j \in 1 .. k : j # p => s[j] # n
      BY <1>3
    <3> HIDE DEF S, n
    <3>. QED
      BY <2>1, <3>1, <3>2
  <2>5. \A j \in 1 .. k : s[j] # n => \E i \in 1 .. k - 1 : s2[i] = s[j]
    BY <2>1, <2>2
  <2>6. \A x : x \in ToSet(s2) <=> x \in S \ {n}
    <3>1. ASSUME NEW x \in ToSet(s2) PROVE x \in S \ {n}
      BY <2>3, <2>4, <3>1 DEF ToSet
    <3>2. ASSUME NEW x \in S \ {n} PROVE x \in ToSet(s2)
      <4>1. PICK j \in 1 .. k : x = s[j]
        BY <2>3 DEF ToSet
      <4>2. PICK i \in 1 .. k - 1 : s2[i] = x
        BY <2>5, <4>1
      <4>. QED
        BY <2>3, <4>2 DEF ToSet
    <3>. QED
      BY <3>1, <3>2
  <2>. QED
    BY <2>6
<1>11. Writes(m, ord, t, b2, heads2, table2, s2)
  <2>1. Own(m, ord, t) = S
    BY DEF Own
  <2>2. Whole(b2, table2, heads2, s2)
    BY <1>8, <1>9, <1>10 DEF Whole
  <2>3. \A x \in DOMAIN b \ S : x # b[n].prev /\ x # b[n].next /\ b[x].chained # n
    <3> SUFFICES ASSUME NEW x \in DOMAIN b \ S PROVE x # b[n].prev /\ x # b[n].next /\ b[x].chained # n
      OBVIOUS
    <3>1. x # b[n].prev /\ x # b[n].next
      BY <1>2, <1>3
    <3>2. PICK u \in Owners(m) : x \in ToSet(ord[u])
      BY DEF Sound, Shared
    <3>3. u # t /\ ToSet(ord[u]) \cap S = {}
      BY <3>2 DEF Sound, Shared
    <3>4. HungIn(b, m.array[u], ToSet(ord[u]))
      BY DEF Sound, Owns, Whole
    <3>5. b[x].chained \in ToSet(ord[u]) \cup {NULL}
      BY <3>2, <3>4 DEF HungIn, Hung
    <3>. QED
      BY <1>2, <3>1, <3>3, <3>5
  <2> HIDE DEF heads2, S, n
  <2>4. \A x \in DOMAIN b \ S : x \in DOMAIN b2 /\ x \notin S \ {n} /\ b2[x] = b[x]
    BY <1>2, <1>5, <2>3
  <2>5. \A x \in DOMAIN b2 : x \in S \ {n} \/ x \in DOMAIN b \ S
    BY <1>5
  <2>. QED
    BY <1>5, <1>7, <1>10, <2>1, <2>2, <2>4, <2>5 DEF Writes
<1>12. Listed(b2, s2) = RemoveAt(Listed(b, s), p)
  BY <1>1, <1>3, <1>5, ListedLess
<1>13. s2 = RemoveAt(s, p)
  BY <1>3, RemoveAtIs
<1> HIDE DEF heads2
<1>14. Became(m, ord, t, After(m, t, b2, heads2, table2), s2, Listed(b2, s2))
  <2> HIDE DEF s2
  <2>. QED
    BY <1>1, <1>11, WrittenBecomes
<1>. QED
  BY <1>6, <1>12, <1>13, <1>14

\* Where nothing is done nothing changes.
LEMMA SameBecomes ==
  ASSUME NEW m, NEW ord, Sound(m, ord), NEW t \in Owners(m)
  PROVE  Became(m, ord, t, m, ord[t], Listed(m.bucket, ord[t]))
<1>1. t \in DOMAIN m.table /\ ord = [u \in DOMAIN m.table |-> ord[u]] /\ m.table = [u \in DOMAIN m.table |-> m.table[u]]
  BY DEF Owners, Sound, Typed
<1>2. Bind(ord, t, ord[t]) = ord /\ Bind(m.table, t, m.table[t]) = m.table
  BY <1>1 DEF Bind
<1>3. Shows(m, ord) = Bind(Shows(m, ord), t, Listed(m.bucket, ord[t]))
  BY <1>1 DEF Bind, Shows
<1>. QED
  BY <1>2, <1>3 DEF Became

\* The first of some elements.
LEMMA FirstIs ==
  ASSUME NEW k \in Nat, NEW s, NEW I \in SUBSET (1 .. k)
  PROVE  \/ I = {} /\ First(s, I) = NULL
         \/ \E i \in I : First(s, I) = s[i]
<1>1. CASE I = {}
  BY <1>1 DEF First
<1>2. CASE I # {}
  <2>1. I \subseteq Nat
    OBVIOUS
  <2>2. \E x \in I : \A y \in I : x <= y
    BY <1>2, <2>1, D!Least
  <2>3. Min(I) \in I
    BY <2>2 DEF Min
  <2>. QED
    BY <1>2, <2>3 DEF First
<1>. QED
  BY <1>1, <1>2

\* n is an element of t with the key k, or NULL and t has none.
Found(m, ord, t, k, n) ==
    \/ n = NULL /\ \A i \in 1 .. m.table[t].count : m.bucket[ord[t][i]].key # k
    \/ \E p \in 1 .. m.table[t].count : ord[t][p] = n /\ m.bucket[n].key = k

\* What is looked for in the chain of its key is found if the table has it.
LEMMA FoundIs ==
  ASSUME TablesAssumption, NEW m, NEW ord, Sound(m, ord), NEW t \in Owners(m), NEW k \in Keys \ ObjectKeys
  PROVE  find_bucket(m, t, k) = ToRemove(m, t, k) /\ Found(m, ord, t, k, ToRemove(m, t, k))
<1> DEFINE b == m.bucket
           s == ord[t]
           S == ToSet(s)
           chain == Chain(m, t, k)
           I == {i \in DOMAIN chain : b[chain[i]].key = k}
<1>1. /\ find_bucket(m, t, k) = First(chain, I) /\ ToRemove(m, t, k) = First(chain, I)
  BY DEF find_bucket, ToRemove
<1>2. /\ InOrder(b, m.table[t], s) /\ HungIn(b, m.array[t], S)
  BY DEF Sound, Owns, Whole
<1>3. m.table[t].count \in Nat /\ s \in [1 .. m.table[t].count -> DOMAIN b]
  BY <1>2 DEF InOrder
<1>4. PICK n, top, r : Hung(b, m.array[t], S, n, top, r)
  BY <1>2 DEF HungIn
<1>5. /\ ToSet(chain) = InSlot(b, n, S, k % n)
      /\ chain \in Seq(S)
  BY <1>4, LastOfChain
<1> HIDE DEF chain
<1>6. PICK l \in Nat : DOMAIN chain = 1 .. l
  <2>1. Len(chain) \in Nat /\ DOMAIN chain = 1 .. Len(chain)
    BY <1>5, LenProperties
  <2>. QED
    BY <2>1
<1>7. \/ I = {} /\ First(chain, I) = NULL
      \/ \E i \in I : First(chain, I) = chain[i]
  <2>1. I \in SUBSET (1 .. l)
    BY <1>6
  <2> HIDE DEF I
  <2>. QED
    BY <2>1, FirstIs
<1>8. CASE I = {} /\ First(chain, I) = NULL
  <2>1. ASSUME NEW i \in 1 .. m.table[t].count, b[s[i]].key = k PROVE FALSE
    <3>1. s[i] \in S
      BY <1>3 DEF ToSet
    <3>2. s[i] \in ToSet(chain)
      BY <1>5, <2>1, <3>1 DEF InSlot, SlotOf
    <3>3. PICK j \in DOMAIN chain : chain[j] = s[i]
      BY <3>2 DEF ToSet
    <3>. QED
      BY <1>8, <2>1, <3>3
  <2>. QED
    BY <1>1, <1>8, <2>1 DEF Found
<1>9. CASE \E i \in I : First(chain, I) = chain[i]
  <2>1. PICK i \in I : First(chain, I) = chain[i]
    BY <1>9
  <2>2. i \in DOMAIN chain /\ b[chain[i]].key = k
    OBVIOUS
  <2>3. chain[i] \in ToSet(chain)
    BY <2>2 DEF ToSet
  <2>4. chain[i] \in S
    BY <1>5, <2>3 DEF InSlot
  <2>5. PICK p \in 1 .. m.table[t].count : s[p] = chain[i]
    BY <1>3, <2>4 DEF ToSet
  <2>. QED
    BY <1>1, <2>1, <2>2, <2>5 DEF Found
<1>. QED
  BY <1>7, <1>8, <1>9

\* n is taken out of the elements s that show e, or is NULL and nothing of the
\* key is there.
Taken(s, e, k, n, s2, e2) ==
    \/ n = NULL /\ s2 = s /\ e2 = e /\ \A i \in DOMAIN e : e[i][1] # k
    \/ \E p \in DOMAIN e : p \in DOMAIN s /\ s[p] = n /\ e[p][1] = k /\ s2 = RemoveAt(s, p) /\ e2 = RemoveAt(e, p)

LEMMA RemoveBecomes ==
  ASSUME TablesAssumption, NEW m, NEW ord, Sound(m, ord), NEW t \in Owners(m), Alone(m, t), NEW k \in Keys \ ObjectKeys
  PROVE  \E s, e : /\ Became(m, ord, t, chf_remove(m, t, k), s, e)
                   /\ Taken(ord[t], Listed(m.bucket, ord[t]), k, ToRemove(m, t, k), s, e)
<1> DEFINE n == ToRemove(m, t, k)
           s == ord[t]
           e == Listed(m.bucket, s)
<1>1. Found(m, ord, t, k, n)
  BY FoundIs
<1>2. /\ InOrder(m.bucket, m.table[t], s) /\ Allocated(m.bucket) /\ NULL \notin DOMAIN m.bucket
  <2>1. InOrder(m.bucket, m.table[t], s) /\ Allocated(m.bucket)
    BY DEF Sound, Owns, Whole, Typed
  <2>. QED
    BY <2>1, AllocatedFinite
<1>3. m.table[t].count \in Nat /\ s \in [1 .. m.table[t].count -> DOMAIN m.bucket]
  BY <1>2 DEF InOrder
<1>4. DOMAIN e = 1 .. m.table[t].count /\ \A i \in DOMAIN e : e[i][1] = m.bucket[s[i]].key
  BY <1>3 DEF Listed, EntryIn
<1>5. chf_remove(m, t, k) = IF n = NULL THEN m ELSE Removed(m, t, n)
  BY DEF chf_remove
<1>6. CASE n = NULL
  <2>1. \A i \in 1 .. m.table[t].count : m.bucket[s[i]].key # k
    BY <1>1, <1>2, <1>3, <1>6 DEF Found
  <2>2. Became(m, ord, t, m, s, e)
    BY SameBecomes
  <2> HIDE DEF n, e
  <2>3. Taken(s, e, k, n, s, e)
    BY <1>4, <1>6, <2>1 DEF Taken
  <2>. QED
    BY <1>5, <1>6, <2>2, <2>3 DEF n, e
<1>7. CASE n # NULL
  <2>1. PICK p \in 1 .. m.table[t].count : s[p] = n /\ m.bucket[n].key = k
    BY <1>1, <1>7 DEF Found
  <2>2. Became(m, ord, t, Removed(m, t, ord[t][p]), RemoveAt(ord[t], p), RemoveAt(Listed(m.bucket, ord[t]), p))
    BY RemovedBecomes
  <2>3. Became(m, ord, t, chf_remove(m, t, k), RemoveAt(s, p), RemoveAt(e, p))
    BY <1>5, <1>7, <2>1, <2>2
  <2> HIDE DEF n, e
  <2>4. Taken(s, e, k, n, RemoveAt(s, p), RemoveAt(e, p))
    BY <1>3, <1>4, <2>1 DEF Taken
  <2>. QED
    BY <2>3, <2>4 DEF n, e
<1>. QED
  BY <1>6, <1>7

-----------------------------------------------------------------------------
(* A table gets buckets of its own.                                        *)

\* q are k different free addresses.
NewOnes(b, k, q) ==
    /\ q \in [1 .. k -> Addresses \ DOMAIN b]
    /\ \A i, j \in 1 .. k : q[i] = q[j] => i = j

\* The j-th of the copies of the elements old in the addresses new.
CopyOf(b, old, new, j) == [b[old[j]] EXCEPT !.prev = At(new, j - 1), !.next = At(new, j + 1)]
Duplicated(b, old, new) ==
    [x \in DOMAIN b \cup ToSet(new) |-> IF x \in ToSet(new) THEN CopyOf(b, old, new, Place(new, x)) ELSE b[x]]

\* The copies make up a table2 and the rest is as it was.
Twin(b, old, b2, table2, new) ==
    /\ Allocated(b2) /\ DOMAIN b2 = DOMAIN b \cup ToSet(new)
    /\ \A x \in DOMAIN b : x \notin ToSet(new) /\ b2[x] = b[x]
    /\ InOrder(b2, table2, new)
    /\ Listed(b2, new) = Listed(b, old)

TwinEnds(k, new, table2) == k \in Nat /\ table2.count = k /\ table2.head = At(new, 1) /\ table2.tail = At(new, k)

LEMMA DuplicatedIs ==
  ASSUME TablesAssumption, NEW b, Allocated(b), NEW k, NEW old \in [1 .. k -> DOMAIN b],
         NEW new, NewOnes(b, k, new), NEW table2, TwinEnds(k, new, table2)
  PROVE  Twin(b, old, Duplicated(b, old, new), table2, new)
<1> DEFINE b2 == Duplicated(b, old, new)
           N == ToSet(new)
<1>1. /\ k \in Nat /\ new \in [1 .. k -> Addresses \ DOMAIN b] /\ DOMAIN new = 1 .. k
      /\ \A i, j \in 1 .. k : new[i] = new[j] => i = j
  BY DEF NewOnes, TwinEnds
<1>2. \A j \in 1 .. k : Place(new, new[j]) = j /\ new[j] \in N
  BY <1>1, PlaceIs
<1>3. \A x \in N : x \in Addresses /\ x \notin DOMAIN b /\ \E j \in 1 .. k : x = new[j]
  BY <1>1 DEF ToSet
<1>4. DOMAIN b2 = DOMAIN b \cup N /\ b2 = [x \in DOMAIN b2 |-> b2[x]]
  BY DEF Duplicated
<1>5. \A x \in DOMAIN b : x \notin N /\ b2[x] = b[x]
  BY <1>3 DEF Duplicated
<1>6. \A j \in 1 .. k : b2[new[j]] = CopyOf(b, old, new, j)
  BY <1>2 DEF Duplicated
<1> HIDE DEF b2, N
<1>7. \A i : At(new, i) \in Links
  BY <1>1 DEF At, Links
<1>8. ASSUME NEW j \in 1 .. k
      PROVE  /\ b2[new[j]] \in Bucket /\ b2[new[j]].prev = At(new, j - 1) /\ b2[new[j]].next = At(new, j + 1)
             /\ b2[new[j]].key = b[old[j]].key /\ b2[new[j]].value = b[old[j]].value
  <2>1. PICK before, after \in Links : before = At(new, j - 1) /\ after = At(new, j + 1)
    BY <1>7
  <2>2. b[old[j]] \in Bucket
    BY DEF Allocated
  <2>3. b2[new[j]] = [b[old[j]] EXCEPT !.prev = before, !.next = after]
    BY <1>6, <2>1 DEF CopyOf
  <2>. QED
    BY <2>1, <2>2, <2>3 DEF Bucket
<1>9. Allocated(b2)
  <2>1. \A x \in DOMAIN b2 : x \in Addresses /\ b2[x] \in Bucket
    BY <1>3, <1>4, <1>5, <1>8 DEF Allocated
  <2>. QED
    BY <1>4, <2>1 DEF Allocated
<1>10. InOrder(b2, table2, new)
  <2>1. new \in [1 .. k -> DOMAIN b2]
    BY <1>1, <1>2, <1>4
  <2>2. \A i \in 1 .. k : b2[new[i]].next = At(new, i + 1) /\ b2[new[i]].prev = At(new, i - 1)
    BY <1>8
  <2>. QED
    BY <1>1, <2>1, <2>2 DEF InOrder, TwinEnds
<1>11. Listed(b2, new) = Listed(b, old)
  <2>1. \A i \in 1 .. k : EntryIn(b2, new[i]) = EntryIn(b, old[i])
    BY <1>8 DEF EntryIn
  <2>2. DOMAIN old = 1 .. k
    OBVIOUS
  <2>. QED
    BY <1>1, <2>1, <2>2 DEF Listed
<1>. QED
  BY <1>4, <1>5, <1>9, <1>10, <1>11 DEF Twin, b2, N

\* The table has the ends of o and its array.
LooksInto(m, o, table) == table \in Table /\ table.array = o /\ Ends(table) = Ends(m.table[o])

\* The buckets s are new in the memory.
TookRoom(m, k, m2, s) == NewOnes(m.bucket, k, s) /\ DOMAIN m2.bucket = DOMAIN m.bucket \cup ToSet(s)

LEMMA DeepCopyBecomes ==
  ASSUME TablesAssumption, NEW m, NEW ord, Sound(m, ord), NEW t \in Tables \ Owners(m),
         NEW o \in Owners(m), NEW table, LooksInto(m, o, table), HasRoom(m, table.count),
         NEW mm, mm = Memory(m.bucket, m.array, Bind(m.table, t, table))
  PROVE  \E s : /\ Became(m, ord, t, chf_deep_copy(mm, t), s, Listed(m.bucket, ord[o]))
                /\ TookRoom(m, table.count, chf_deep_copy(mm, t), s)
<1> DEFINE b == m.bucket
           old == ord[o]
           new == Fresh(b, table.count)
           b1 == Duplicated(b, old, new)
           table1 == [table EXCEPT !.cow = FALSE, !.array = t, !.head = At(new, 1), !.tail = At(new, table.count)]
           n == Cardinality(DOMAIN m.array[o])
           b2 == Hanging(b1, new, n)
           heads == HeadsFor(b1, new, n)
<1>1. /\ Whole(b, m.table[o], m.array[o], old) /\ InOrder(b, m.table[o], old) /\ Allocated(b)
      /\ m = Memory(b, m.array, m.table)
  BY DEF Sound, Owns, Whole, Typed
<1>2. table \in Table /\ table.array = o /\ InOrder(b, table, old)
  <2>1. table.head = m.table[o].head /\ table.tail = m.table[o].tail /\ table.count = m.table[o].count
    BY DEF LooksInto, Ends
  <2>. QED
    BY <1>1, <2>1 DEF InOrder, LooksInto
<1>3. mm.bucket = b /\ mm.array = m.array /\ mm.table = Bind(m.table, t, table) /\ mm.table[t] = table
  BY DEF Memory, Bind
<1>4. Elements(mm, t) = old /\ Len(old) = table.count
  <2>1. Along(mm, table.head, "next") = old /\ Len(old) = table.count
    <3>1. Allocated(mm.bucket) /\ InOrder(mm.bucket, table, old)
      BY <1>1, <1>2, <1>3
    <3> HIDE DEF old
    <3>. QED
      BY <3>1, OrderRead
  <2>. QED
    BY <1>3, <2>1 DEF Elements
<1>5. PICK k \in Nat : k = table.count /\ old \in [1 .. k -> DOMAIN b]
  BY <1>2 DEF InOrder
<1>6. NewOnes(b, k, new)
  <2>1. Cardinality(Addresses \ DOMAIN b) >= k
    BY <1>5 DEF HasRoom
  <2>2. NewOnes(b, k, Fresh(b, k))
    BY <2>1, FreshIs DEF NewOnes
  <2>. QED
    BY <1>5, <2>2
<1> HIDE DEF new
<1>7. Len(new) = table.count /\ \A i : At(new, i) \in Links
  <2>1. new \in [1 .. k -> Addresses \ DOMAIN b]
    BY <1>6 DEF NewOnes
  <2>2. Len(new) = k
    BY <2>1, D!FunctionSeq
  <2>. QED
    BY <1>5, <2>1, <2>2 DEF At, Links
<1>8. n \in Nat \ {0}
  <2>1. PICK c, top, r : Hung(b, m.array[o], ToSet(old), c, top, r)
    BY <1>1 DEF Whole, HungIn
  <2>2. DOMAIN m.array[o] = 0 .. c - 1 /\ c \in Nat \ {0}
    BY <2>1 DEF Hung
  <2>3. Cardinality(0 .. c - 1) = IF 0 > c - 1 THEN 0 ELSE (c - 1) - 0 + 1
    <3>1. 0 \in Int /\ c - 1 \in Int
      BY <2>2
    <3> HIDE DEF n
    <3>. QED
      BY <3>1, FS_Interval
  <2>. QED
    BY <2>2, <2>3
<1>9. table1 \in Table /\ ~table1.cow /\ table1.array = t /\ TwinEnds(k, new, table1)
  <2>1. PICK f, l \in Links : f = At(new, 1) /\ l = At(new, table.count)
    BY <1>7
  <2>2. table1 = [table EXCEPT !.cow = FALSE, !.array = t, !.head = f, !.tail = l]
    BY <2>1
  <2>3. table1 \in Table /\ table1.cow = FALSE /\ table1.array = t /\ table1.head = f /\ table1.tail = l /\ table1.count = table.count
    <3> HIDE DEF table1
    <3>. QED
      BY <1>2, <2>2 DEF Table
  <2> HIDE DEF table1
  <2>. QED
    BY <1>5, <2>1, <2>3 DEF TwinEnds
<1>10. chf_deep_copy(mm, t) = After(m, t, b2, heads, table1)
  <2> DEFINE CopiedTo(e, q) == [mm EXCEPT
            !.bucket = [x \in DOMAIN mm.bucket \cup ToSet(q) |->
                          IF x \in ToSet(q)
                          THEN [mm.bucket[e[Place(q, x)]] EXCEPT !.prev = At(q, Place(q, x) - 1),
                                                                 !.next = At(q, Place(q, x) + 1)]
                          ELSE mm.bucket[x]],
            !.table = Bind(@, t, [mm.table[t] EXCEPT !.cow = FALSE, !.array = t,
                                                     !.head = At(q, 1), !.tail = At(q, Len(q))])]
             copied == CopiedTo(old, new)
  <2>1. chf_deep_copy(mm, t) = Placed(copied, t, new, Cardinality(DOMAIN Heads(mm, t)))
    <3> DEFINE e == Elements(mm, t)
               q == Fresh(mm.bucket, Len(e))
    <3>1. chf_deep_copy(mm, t) = Placed(CopiedTo(e, q), t, q, Cardinality(DOMAIN Heads(mm, t)))
      BY DEF chf_deep_copy
    <3>2. e = old /\ q = new
      BY <1>3, <1>4 DEF new
    <3> HIDE DEF CopiedTo, e, q
    <3>. QED
      BY <3>1, <3>2
  <2>2. Heads(mm, t) = m.array[o]
    BY <1>2, <1>3 DEF Heads
  <2>3. copied = Memory(b1, m.array, Bind(m.table, t, table1))
    <3>1. copied = [mm EXCEPT !.bucket = b1, !.table = Bind(@, t, table1)]
      BY <1>3, <1>7 DEF Duplicated, CopyOf
    <3>2. Bind(mm.table, t, table1) = Bind(m.table, t, table1)
      BY <1>3 DEF Bind
    <3> HIDE DEF copied, b1, table1
    <3>. QED
      BY <1>3, <3>1, <3>2 DEF Memory
  <2> HIDE DEF copied, b1, table1, n
  <2>4. copied = Memory(copied.bucket, copied.array, copied.table) /\ copied.bucket = b1 /\ copied.array = m.array /\ copied.table = Bind(m.table, t, table1)
    BY <2>3 DEF Memory
  <2>5. Placed(copied, t, new, n) = Memory(b2, Bind(m.array, t, heads), Bind(m.table, t, table1))
    BY <2>4, PlacedIs
  <2>. QED
    BY <2>1, <2>2, <2>5 DEF After, n
<1>11. Twin(b, old, b1, table1, new)
  <2> HIDE DEF table1, b1, old
  <2>. QED
    BY <1>1, <1>5, <1>6, <1>9, DuplicatedIs DEF b1
<1> HIDE DEF n, b1, table1
<1>12. /\ Allocated(b1) /\ DOMAIN b1 = DOMAIN b \cup ToSet(new)
       /\ \A x \in DOMAIN b : x \notin ToSet(new) /\ b1[x] = b[x]
       /\ InOrder(b1, table1, new)
       /\ Listed(b1, new) = Listed(b, old)
  BY <1>11 DEF Twin
<1>13. /\ Allocated(b2) /\ DOMAIN b2 = DOMAIN b1
       /\ \A x \in DOMAIN b1 : /\ b2[x].key = b1[x].key /\ b2[x].value = b1[x].value
                               /\ x \notin ToSet(new) => b2[x] = b1[x]
       /\ Whole(b2, table1, heads, new)
  BY <1>8, <1>12, HangingWhole
<1> HIDE DEF b2, heads
<1>14. Writes(m, ord, t, b2, heads, table1, new)
  <2>1. Own(m, ord, t) = {}
    BY DEF Own
  <2>. QED
    BY <1>9, <1>12, <1>13, <2>1 DEF Writes
<1>15. Alone(m, t)
  BY DEF Alone, Sound, Borrows
<1>16. Listed(b2, new) = Listed(b, old)
  <2>1. \A i \in DOMAIN new : new[i] \in DOMAIN b1
    BY <1>12 DEF ToSet
  <2>2. \A i \in DOMAIN new : EntryIn(b2, new[i]) = EntryIn(b1, new[i])
    BY <1>13, <2>1 DEF EntryIn
  <2>. QED
    BY <1>12, <2>2 DEF Listed
<1>17. Became(m, ord, t, After(m, t, b2, heads, table1), new, Listed(b2, new))
  BY <1>14, <1>15, WrittenBecomes
<1>18. TookRoom(m, table.count, After(m, t, b2, heads, table1), new)
  BY <1>5, <1>6, <1>12, <1>13 DEF TookRoom, After, Memory
<1>. QED
  BY <1>10, <1>16, <1>17, <1>18

\* And there is as much room less.
LEMMA RoomLeft ==
  ASSUME TablesAssumption, NEW m, NEW k \in Nat, NEW n \in Nat, NEW m2, NEW s,
         TookRoom(m, k, m2, s), HasRoom(m, n + k)
  PROVE  HasRoom(m2, n)
<1> DEFINE F == Addresses \ DOMAIN m.bucket
           N == ToSet(s)
<1>1. IsFiniteSet(F) /\ Cardinality(F) \in Nat
  BY FS_Subset, FS_CardinalityType DEF TablesAssumption
<1>2. s \in [1 .. k -> F] /\ DOMAIN s = 1 .. k
  BY DEF TookRoom, NewOnes
<1>3. N \subseteq F /\ \A x \in N : \E i \in 1 .. k : s[i] = x
  BY <1>2 DEF ToSet
<1>4. IsFiniteSet(N) /\ Cardinality(N) \in Nat
  BY <1>1, <1>3, FS_Subset, FS_CardinalityType
<1>5. Cardinality(N) <= k
  <2>1. s \in Surjection(1 .. k, N)
    BY <1>2, <1>3 DEF Surjection, ToSet
  <2>2. IsFiniteSet(1 .. k) /\ Cardinality(1 .. k) = k
    <3>1. Cardinality(1 .. k) = IF 1 > k THEN 0 ELSE k - 1 + 1
      BY FS_Interval
    <3>. QED
      BY <3>1, FS_Interval
  <2> HIDE DEF N
  <2>3. Cardinality(N) <= Cardinality(1 .. k)
    BY <2>1, <2>2, FS_Surjection
  <2>. QED
    BY <2>2, <2>3
<1>6. Addresses \ DOMAIN m2.bucket = F \ N /\ F \cap N = N
  BY <1>3 DEF TookRoom
<1> HIDE DEF F, N
<1>7. Cardinality(F \ N) = Cardinality(F) - Cardinality(F \cap N)
  BY <1>1, FS_Difference
<1>8. Cardinality(F) >= n + k
  BY DEF HasRoom, F
<1>9. Cardinality(F \ N) >= n
  <2>1. Cardinality(F \ N) = Cardinality(F) - Cardinality(N)
    BY <1>6, <1>7
  <2>. QED
    BY <1>1, <1>4, <1>5, <1>8, <2>1
<1>. QED
  BY <1>6, <1>9 DEF HasRoom

-----------------------------------------------------------------------------
(* The operations of ht_.                                                  *)

\* Any table looks into a table of its own elements.
LEMMA LooksIntoIs ==
  ASSUME NEW m, NEW ord, Sound(m, ord), NEW t \in DOMAIN m.table
  PROVE  LET o == m.table[t].array
         IN /\ o \in Owners(m) /\ ord[t] = ord[o] /\ LooksInto(m, o, m.table[t])
            /\ o = t \/ m.table[t].cow
<1>1. CASE m.table[t].cow
  <2>1. Borrows(m, ord, t) /\ m.table[t] \in Table
    BY <1>1 DEF Sound, Typed
  <2>. QED
    BY <1>1, <2>1 DEF Borrows, LooksInto
<1>2. CASE ~m.table[t].cow
  <2>1. t \in Owners(m) /\ Owns(m, ord, t) /\ m.table[t] \in Table
    BY <1>2 DEF Sound, Typed, Owners
  <2>. QED
    BY <2>1 DEF Owns, LooksInto
<1>. QED
  BY <1>1, <1>2

\* What a write finds when the table is its own: s0 are its elements, and if they
\* were its own before nothing has happened.
Ready(m, ord, t, s0) ==
    /\ Became(m, ord, t, Owned(m, t), s0, Listed(m.bucket, ord[t]))
    /\ ~m.table[t].cow => s0 = ord[t] /\ Owned(m, t) = m

Needed(m, t) == IF m.table[t].cow THEN m.table[t].count ELSE 0

LEMMA OwnedBecomes ==
  ASSUME TablesAssumption, NEW m, NEW ord, Sound(m, ord), NEW t \in DOMAIN m.table,
         NEW n \in Nat, HasRoom(m, n + Needed(m, t))
  PROVE  \E s : Ready(m, ord, t, s) /\ HasRoom(Owned(m, t), n)
<1> DEFINE o == m.table[t].array
           table == m.table[t]
<1>1. CASE ~table.cow
  <2>1. Owned(m, t) = m /\ t \in Owners(m) /\ n + Needed(m, t) = n
    BY <1>1 DEF Owned, Owners, Needed
  <2>2. Became(m, ord, t, m, ord[t], Listed(m.bucket, ord[t]))
    BY <2>1, SameBecomes
  <2>. QED
    BY <2>1, <2>2 DEF Ready
<1>2. CASE table.cow
  <2>1. /\ t \in Tables \ Owners(m) /\ o \in Owners(m) /\ ord[t] = ord[o] /\ LooksInto(m, o, table)
        /\ Owned(m, t) = chf_deep_copy(m, t)
    BY <1>2, LooksIntoIs DEF Owned, Owners, Sound, Typed
  <2>2. PICK k \in Nat : k = table.count /\ Needed(m, t) = k
    BY <1>2, <2>1 DEF LooksInto, Table, Needed
  <2>3. HasRoom(m, table.count)
    <3>1. Cardinality(Addresses \ DOMAIN m.bucket) >= n + k
      BY <2>2 DEF HasRoom
    <3>2. Cardinality(Addresses \ DOMAIN m.bucket) \in Nat
      BY FS_Subset, FS_CardinalityType DEF TablesAssumption
    <3>. QED
      BY <2>2, <3>1, <3>2 DEF HasRoom
  <2>4. m = Memory(m.bucket, m.array, Bind(m.table, t, table))
    <3>1. m = Memory(m.bucket, m.array, m.table) /\ m.table = [u \in DOMAIN m.table |-> m.table[u]]
      BY DEF Sound, Typed
    <3>2. Bind(m.table, t, table) = m.table
      BY <3>1 DEF Bind
    <3>. QED
      BY <3>1, <3>2
  <2>5. PICK s : /\ Became(m, ord, t, Owned(m, t), s, Listed(m.bucket, ord[o]))
                 /\ TookRoom(m, table.count, Owned(m, t), s)
    <3> HIDE DEF o, table
    <3>. QED
      BY <2>1, <2>3, <2>4, DeepCopyBecomes
  <2>6. HasRoom(Owned(m, t), n)
    BY <2>2, <2>5, RoomLeft
  <2>. QED
    BY <1>2, <2>1, <2>5, <2>6 DEF Ready
<1>. QED
  BY <1>1, <1>2

\* Nobody else looks into the table when it is its own.
LEMMA ReadyIs ==
  ASSUME NEW m, NEW ord, Sound(m, ord), NEW t, Alone(m, t), NEW s, Ready(m, ord, t, s)
  PROVE  LET own == Owned(m, t)
         IN /\ Sound(own, Bind(ord, t, s)) /\ t \in Owners(own) /\ Alone(own, t)
            /\ Bind(ord, t, s)[t] = s
            /\ Listed(own.bucket, s) = Listed(m.bucket, ord[t])
<1> DEFINE own == Owned(m, t)
           ord1 == Bind(ord, t, s)
<1>1. Became(m, ord, t, own, s, Listed(m.bucket, ord[t]))
  BY DEF Ready
<1>2. Alone(own, t)
  BY <1>1, StaysAlone
<1>3. ord1[t] = s /\ t \in DOMAIN ord1
  BY DEF Bind
<1>4. Shows(own, ord1)[t] = Listed(own.bucket, s)
  BY <1>3 DEF Shows
<1>5. Shows(own, ord1)[t] = Listed(m.bucket, ord[t])
  BY <1>1 DEF Became, Bind
<1>. QED
  BY <1>1, <1>2, <1>3, <1>4, <1>5 DEF Became

LEMMA HtAddBecomes ==
  ASSUME TablesAssumption, NEW m, NEW ord, Sound(m, ord), NEW t \in DOMAIN m.table, Alone(m, t),
         HasRoom(m, 1 + Needed(m, t)), NEW k \in Keys, NEW v \in Values
  PROVE  \E s, n : /\ Ready(m, ord, t, s)
                   /\ Became(m, ord, t, ht_add(m, t, k, v), Append(s, n), Append(Listed(m.bucket, ord[t]), <<k, v>>))
<1>1. PICK s : Ready(m, ord, t, s) /\ HasRoom(Owned(m, t), 1)
  BY OwnedBecomes
<1> DEFINE own == Owned(m, t)
           ord1 == Bind(ord, t, s)
           e == Listed(m.bucket, ord[t])
<1>2. /\ Sound(own, ord1) /\ t \in Owners(own) /\ Alone(own, t) /\ ord1[t] = s
      /\ Listed(own.bucket, s) = e
  BY <1>1, ReadyIs
<1>3. Became(m, ord, t, own, s, e)
  BY <1>1 DEF Ready
<1>4. ht_add(m, t, k, v) = chf_add(own, t, k, v)
  BY DEF ht_add
<1> HIDE DEF own, ord1, e
<1>5. PICK n : Became(own, ord1, t, chf_add(own, t, k, v), Append(ord1[t], n), Append(Listed(own.bucket, ord1[t]), <<k, v>>))
  BY <1>1, <1>2, AddBecomes DEF own
<1>6. Became(own, ord1, t, chf_add(own, t, k, v), Append(s, n), Append(e, <<k, v>>))
  BY <1>2, <1>5
<1>7. Became(m, ord, t, chf_add(own, t, k, v), Append(s, n), Append(e, <<k, v>>))
  BY <1>3, <1>6, BecameTwice DEF ord1
<1>. QED
  BY <1>1, <1>4, <1>7 DEF e

LEMMA HtRemoveBecomes ==
  ASSUME TablesAssumption, NEW m, NEW ord, Sound(m, ord), NEW t \in DOMAIN m.table, Alone(m, t),
         HasRoom(m, 0 + Needed(m, t)), NEW k \in Keys \ ObjectKeys
  PROVE  \E s, s2, e2 : /\ Ready(m, ord, t, s)
                        /\ Became(m, ord, t, ht_remove(m, t, k), s2, e2)
                        /\ Taken(s, Listed(m.bucket, ord[t]), k, ToRemove(Owned(m, t), t, k), s2, e2)
<1>1. PICK s : Ready(m, ord, t, s) /\ HasRoom(Owned(m, t), 0)
  BY OwnedBecomes
<1> DEFINE own == Owned(m, t)
           ord1 == Bind(ord, t, s)
           e == Listed(m.bucket, ord[t])
<1>2. /\ Sound(own, ord1) /\ t \in Owners(own) /\ Alone(own, t) /\ ord1[t] = s
      /\ Listed(own.bucket, s) = e
  BY <1>1, ReadyIs
<1>3. Became(m, ord, t, own, s, e)
  BY <1>1 DEF Ready
<1>4. ht_remove(m, t, k) = chf_remove(own, t, k)
  BY DEF ht_remove
<1> HIDE DEF own, ord1, e
<1>5. PICK s2, e2 : /\ Became(own, ord1, t, chf_remove(own, t, k), s2, e2)
                    /\ Taken(ord1[t], Listed(own.bucket, ord1[t]), k, ToRemove(own, t, k), s2, e2)
  BY <1>2, RemoveBecomes
<1>6. Taken(s, e, k, ToRemove(own, t, k), s2, e2)
  BY <1>2, <1>5
<1>7. Became(m, ord, t, chf_remove(own, t, k), s2, e2)
  BY <1>3, <1>5, BecameTwice DEF ord1
<1>. QED
  BY <1>1, <1>4, <1>6, <1>7 DEF e, own

LEMMA HtReplaceBecomes ==
  ASSUME TablesAssumption, NEW m, NEW ord, Sound(m, ord), NEW t \in DOMAIN m.table, Alone(m, t),
         HasRoom(m, 1 + Needed(m, t)), NEW k \in Keys \ ObjectKeys, NEW v \in Values
  PROVE  \E s, s2, e2, n :
            /\ Ready(m, ord, t, s)
            /\ Became(m, ord, t, ht_replace(m, t, k, v), Append(s2, n), Append(e2, <<k, v>>))
            /\ Taken(s, Listed(m.bucket, ord[t]), k, ToRemove(Owned(m, t), t, k), s2, e2)
<1>1. PICK s : Ready(m, ord, t, s) /\ HasRoom(Owned(m, t), 1)
  BY OwnedBecomes
<1> DEFINE own == Owned(m, t)
           ord1 == Bind(ord, t, s)
           e == Listed(m.bucket, ord[t])
           rest == chf_remove(own, t, k)
<1>2. /\ Sound(own, ord1) /\ t \in Owners(own) /\ Alone(own, t) /\ ord1[t] = s
      /\ Listed(own.bucket, s) = e
  BY <1>1, ReadyIs
<1>3. Became(m, ord, t, own, s, e)
  BY <1>1 DEF Ready
<1>4. ht_replace(m, t, k, v) = chf_add(rest, t, k, v)
  <2>1. ht_replace(m, t, k, v) = chf_add(IF ht_exists(own, t, k) THEN chf_remove(own, t, k) ELSE own, t, k, v)
    BY DEF ht_replace
  <2> HIDE DEF own, ord1
  <2>2. find_bucket(own, t, k) = ToRemove(own, t, k)
    BY <1>2, FoundIs
  <2>3. rest = IF ToRemove(own, t, k) = NULL THEN own ELSE Removed(own, t, ToRemove(own, t, k))
    BY DEF chf_remove
  <2> HIDE DEF rest
  <2>. QED
    BY <2>1, <2>2, <2>3 DEF ht_exists, rest
<1>5. HasRoom(own, 1)
  BY <1>1
<1>6. HasRoom(rest, 1)
  <2> HIDE DEF own
  <2>1. DOMAIN rest.bucket \subseteq DOMAIN own.bucket
    <3>1. own = Memory(own.bucket, own.array, own.table)
      BY <1>2 DEF Sound, Typed
    <3>2. \A x : DOMAIN Removed(own, t, x).bucket \subseteq DOMAIN own.bucket
      BY <3>1 DEF Removed, Memory
    <3>. QED
      BY <3>2 DEF chf_remove
  <2> HIDE DEF rest
  <2>2. Addresses \ DOMAIN own.bucket \in SUBSET (Addresses \ DOMAIN rest.bucket)
    BY <2>1
  <2>3. IsFiniteSet(Addresses \ DOMAIN rest.bucket)
    BY FS_Subset DEF TablesAssumption
  <2>4. Cardinality(Addresses \ DOMAIN own.bucket) <= Cardinality(Addresses \ DOMAIN rest.bucket)
    BY <2>2, <2>3, FS_Subset
  <2>5. /\ Cardinality(Addresses \ DOMAIN own.bucket) \in Nat
        /\ Cardinality(Addresses \ DOMAIN rest.bucket) \in Nat
    BY <2>2, <2>3, FS_Subset, FS_CardinalityType
  <2>. QED
    BY <1>5, <2>4, <2>5 DEF HasRoom
<1> HIDE DEF own, ord1, e
<1>7. PICK s2, e2 : /\ Became(own, ord1, t, rest, s2, e2)
                    /\ Taken(ord1[t], Listed(own.bucket, ord1[t]), k, ToRemove(own, t, k), s2, e2)
  BY <1>2, RemoveBecomes
<1> HIDE DEF rest
<1>8. Taken(s, e, k, ToRemove(own, t, k), s2, e2)
  BY <1>2, <1>7
<1>9. Became(m, ord, t, rest, s2, e2)
  BY <1>3, <1>7, BecameTwice DEF ord1
<1> DEFINE ord2 == Bind(ord, t, s2)
<1>10. Alone(rest, t)
  BY <1>2, <1>7, StaysAlone
<1>11. Sound(rest, ord2) /\ t \in Owners(rest) /\ ord2[t] = s2 /\ Listed(rest.bucket, s2) = e2
  <2>1. ord2[t] = s2 /\ t \in DOMAIN ord2
    BY DEF Bind
  <2>2. Shows(rest, ord2)[t] = Listed(rest.bucket, s2)
    BY <2>1 DEF Shows
  <2>3. Shows(rest, ord2)[t] = e2
    BY <1>9 DEF Became, Bind
  <2>. QED
    BY <1>9, <2>1, <2>2, <2>3 DEF Became
<1> HIDE DEF ord2
<1>12. PICK n : Became(rest, ord2, t, chf_add(rest, t, k, v), Append(ord2[t], n), Append(Listed(rest.bucket, ord2[t]), <<k, v>>))
  BY <1>6, <1>10, <1>11, AddBecomes
<1>13. Became(rest, ord2, t, chf_add(rest, t, k, v), Append(s2, n), Append(e2, <<k, v>>))
  BY <1>11, <1>12
<1>14. Became(m, ord, t, chf_add(rest, t, k, v), Append(s2, n), Append(e2, <<k, v>>))
  BY <1>9, <1>13, BecameTwice DEF ord2
<1>. QED
  BY <1>1, <1>4, <1>8, <1>14 DEF e, own

LEMMA CreateBecomes ==
  ASSUME TablesAssumption, NEW m, NEW ord, Sound(m, ord), NEW t \in Tables \ DOMAIN m.table
  PROVE  Became(m, ord, t, ht_create(m, t), <<>>, <<>>)
<1> DEFINE b == m.bucket
           heads == EmptyHeads(Buckets)
           table == [array |-> t, count |-> 0, head |-> NULL, tail |-> NULL, cow |-> FALSE]
<1>1. Allocated(b) /\ m = Memory(b, m.array, m.table)
  BY DEF Sound, Typed
<1>2. table \in Table /\ table.array = t /\ ~table.cow /\ table.count = 0 /\ table.head = NULL /\ table.tail = NULL
  BY DEF Table, Links
<1>3. ht_create(m, t) = After(m, t, b, heads, table)
  <2> DEFINE arrays == Bind(m.array, t, heads)
             tables == Bind(m.table, t, table)
  <2>1. ht_create(m, t) = [m EXCEPT !.array = arrays, !.table = tables]
    BY DEF ht_create
  <2> HIDE DEF arrays, tables
  <2>2. ht_create(m, t) = Memory(b, arrays, tables)
    BY <1>1, <2>1 DEF Memory
  <2>. QED
    BY <2>2 DEF After, arrays, tables
<1> HIDE DEF table
<1>4. ToSet(<<>>) = {} /\ DOMAIN <<>> = {}
  BY DEF ToSet
<1>5. InOrder(b, table, <<>>)
  <2>1. <<>> \in [1 .. 0 -> DOMAIN b]
    BY <1>4
  <2>2. \A i : At(<<>>, i) = NULL
    BY <1>4 DEF At
  <2>. QED
    BY <1>2, <2>1, <2>2 DEF InOrder
<1>6. HungIn(b, heads, {})
  <2>1. Buckets \in Nat \ {0} /\ heads = [h \in 0 .. Buckets - 1 |-> NULL]
    BY DEF TablesAssumption, EmptyHeads
  <2> HIDE DEF heads
  <2>2. Hung(b, heads, {}, Buckets, 0, <<>>)
    BY <2>1 DEF Hung
  <2>. QED
    BY <2>2 DEF HungIn
<1> HIDE DEF heads
<1>7. Writes(m, ord, t, b, heads, table, <<>>)
  <2>1. Own(m, ord, t) = {}
    BY DEF Own, Owners
  <2>2. Whole(b, table, heads, <<>>)
    BY <1>4, <1>5, <1>6 DEF Whole
  <2>. QED
    BY <1>1, <1>2, <1>4, <2>1, <2>2 DEF Writes
<1>8. Alone(m, t)
  BY DEF Alone, Sound, Borrows, Owners
<1>9. Became(m, ord, t, After(m, t, b, heads, table), <<>>, Listed(b, <<>>))
  BY <1>7, <1>8, WrittenBecomes
<1>10. Listed(b, <<>>) = <<>>
  BY <1>4 DEF Listed
<1>. QED
  BY <1>3, <1>9, <1>10

\* A copy has its own buckets ...
LEMMA DeepCopied ==
  ASSUME TablesAssumption, NEW m, NEW ord, Sound(m, ord), NEW s \in DOMAIN m.table,
         NEW t \in Tables \ DOMAIN m.table, HasRoom(m, m.table[s].count)
  PROVE  \E q : Became(m, ord, t, ht_copy(m, s, t, FALSE), q, Listed(m.bucket, ord[s]))
<1> DEFINE o == m.table[s].array
           table == [m.table[s] EXCEPT !.cow = FALSE]
           copy == [m EXCEPT !.table = Bind(@, t, table)]
<1>1. m.table[s] \in Table /\ o \in Owners(m) /\ ord[s] = ord[o] /\ Ends(m.table[s]) = Ends(m.table[o])
  BY LooksIntoIs DEF LooksInto
<1>2. table \in Table /\ table.array = o /\ Ends(table) = Ends(m.table[s]) /\ table.count = m.table[s].count
  <2>1. PICK r \in Table : r = m.table[s]
    BY <1>1
  <2>2. table = [r EXCEPT !.cow = FALSE]
    BY <2>1
  <2> HIDE DEF table
  <2>. QED
    BY <2>1, <2>2 DEF Table, Ends
<1>3. LooksInto(m, o, table)
  BY <1>1, <1>2 DEF LooksInto
<1>4. copy = Memory(m.bucket, m.array, Bind(m.table, t, table))
  <2>1. m = Memory(m.bucket, m.array, m.table)
    BY DEF Sound, Typed
  <2>. QED
    BY <2>1 DEF Memory
<1>5. ht_copy(m, s, t, FALSE) = chf_deep_copy(copy, t)
  BY DEF ht_copy
<1>6. t \in Tables \ Owners(m)
  BY DEF Owners
<1> HIDE DEF copy, table, o
<1>7. HasRoom(m, table.count)
  BY <1>2
<1>8. \E q : /\ Became(m, ord, t, chf_deep_copy(copy, t), q, Listed(m.bucket, ord[o]))
             /\ TookRoom(m, table.count, chf_deep_copy(copy, t), q)
  BY <1>1, <1>3, <1>4, <1>6, <1>7, DeepCopyBecomes
<1>. QED
  BY <1>1, <1>5, <1>8

\* ... or shares those of the table until its first write.
Joins(m, ord, t, m2, s, e) ==
    /\ Sound(m2, Bind(ord, t, s))
    /\ Shows(m2, Bind(ord, t, s)) = Bind(Shows(m, ord), t, e)

LEMMA SharedCopied ==
  ASSUME NEW m, NEW ord, Sound(m, ord), NEW s \in DOMAIN m.table,
         NEW t \in (Tables \cap Copies) \ DOMAIN m.table
  PROVE  Joins(m, ord, t, ht_copy(m, s, t, TRUE), ord[s], Listed(m.bucket, ord[s]))
<1> DEFINE o == m.table[s].array
           table == [m.table[s] EXCEPT !.cow = TRUE]
           m2 == ht_copy(m, s, t, TRUE)
           ord2 == Bind(ord, t, ord[s])
<1>1. m.table[s] \in Table /\ o \in Owners(m) /\ ord[s] = ord[o] /\ Ends(m.table[s]) = Ends(m.table[o])
  BY LooksIntoIs DEF LooksInto
<1>2. table \in Table /\ table.array = o /\ Ends(table) = Ends(m.table[o]) /\ table.cow
  <2>1. PICK r \in Table : r = m.table[s]
    BY <1>1
  <2>2. table = [r EXCEPT !.cow = TRUE]
    BY <2>1
  <2> HIDE DEF table
  <2>. QED
    BY <1>1, <2>1, <2>2 DEF Table, Ends
<1>3. m2 = Memory(m.bucket, m.array, Bind(m.table, t, table))
  <2>1. m = Memory(m.bucket, m.array, m.table)
    BY DEF Sound, Typed
  <2>2. m2 = [m EXCEPT !.table = Bind(@, t, table)]
    BY DEF ht_copy
  <2> HIDE DEF m2, table
  <2>. QED
    BY <2>1, <2>2 DEF Memory
<1> HIDE DEF m2, table
<1>4. /\ m2.bucket = m.bucket /\ m2.array = m.array /\ m2.table = Bind(m.table, t, table)
      /\ m2 = Memory(m2.bucket, m2.array, m2.table)
  BY <1>3 DEF Memory
<1>5. /\ DOMAIN m2.table = DOMAIN m.table \cup {t} /\ m2.table[t] = table
      /\ \A u \in DOMAIN m.table : m2.table[u] = m.table[u]
      /\ m2.table = [u \in DOMAIN m2.table |-> m2.table[u]]
  BY <1>4 DEF Bind
<1>6. /\ DOMAIN ord = DOMAIN m.table /\ DOMAIN ord2 = DOMAIN m2.table /\ ord2 = [u \in DOMAIN m2.table |-> ord2[u]]
      /\ ord2[t] = ord[s] /\ \A u \in DOMAIN m.table : ord2[u] = ord[u]
  <2>1. DOMAIN ord = DOMAIN m.table
    BY DEF Sound
  <2>. QED
    BY <1>5, <2>1 DEF Bind
<1> HIDE DEF ord2, o
<1>7. Owners(m2) = Owners(m) /\ Owners(m) \subseteq DOMAIN m.table
  BY <1>2, <1>5 DEF Owners
<1>8. Typed(m2)
  <2>1. DOMAIN m2.table \subseteq Tables /\ \A u \in DOMAIN m2.table : m2.table[u] \in Table
    BY <1>2, <1>5 DEF Sound, Typed
  <2>. QED
    BY <1>4, <1>5, <2>1 DEF Sound, Typed
<1>9. \A u \in Owners(m2) : Owns(m2, ord2, u)
  <2>1. \A u \in Owners(m) : Owns(m, ord, u)
    BY DEF Sound
  <2>. QED
    BY <1>4, <1>5, <1>6, <1>7, <2>1 DEF Owns
<1>10. ASSUME NEW u \in DOMAIN m2.table, m2.table[u].cow PROVE Borrows(m2, ord2, u)
  <2>1. CASE u = t
    <3>1. o \in DOMAIN m.table
      BY <1>1, <1>7
    <3>. QED
      BY <1>1, <1>2, <1>5, <1>6, <1>7, <2>1, <3>1 DEF Borrows
  <2>2. CASE u # t
    <3>1. u \in DOMAIN m.table /\ Borrows(m, ord, u) /\ m2.table[u] = m.table[u]
      BY <1>5, <1>10, <2>2 DEF Sound
    <3> DEFINE w == m.table[u].array
    <3>2. u \in Copies /\ w \in Owners(m) /\ ord[u] = ord[w] /\ Ends(m.table[u]) = Ends(m.table[w])
      BY <3>1 DEF Borrows
    <3>. QED
      BY <1>5, <1>6, <1>7, <3>1, <3>2 DEF Borrows
  <2>. QED
    BY <2>1, <2>2
<1>11. Shared(m2, ord2)
  BY <1>4, <1>6, <1>7 DEF Sound, Shared
<1>12. Sound(m2, ord2)
  BY <1>4, <1>6, <1>7, <1>8, <1>9, <1>10, <1>11 DEF Sound
<1>13. Shows(m2, ord2) = Bind(Shows(m, ord), t, Listed(m.bucket, ord[s]))
  <2>1. Shows(m2, ord2) = [u \in DOMAIN m.table \cup {t} |-> Listed(m.bucket, ord2[u])]
    BY <1>4, <1>5, <1>6 DEF Shows
  <2>2. Shows(m, ord) = [u \in DOMAIN m.table |-> Listed(m.bucket, ord[u])]
    BY <1>6 DEF Shows
  <2>. QED
    BY <1>6, <2>1, <2>2 DEF Bind
<1>. QED
  BY <1>12, <1>13 DEF Joins, m2, ord2

\* A table goes with what is its own.
LEMMA DestroyedSound ==
  ASSUME TablesAssumption, NEW m, NEW ord, Sound(m, ord), NEW t \in DOMAIN m.table, Alone(m, t)
  PROVE  /\ Sound(ht_destroy(m, t), Free(ord, {t}))
         /\ Shows(ht_destroy(m, t), Free(ord, {t})) = Free(Shows(m, ord), {t})
<1> DEFINE m2 == ht_destroy(m, t)
           ord2 == Free(ord, {t})
           gone == Own(m, ord, t)
<1>1. /\ m = Memory(m.bucket, m.array, m.table) /\ m.array = [u \in DOMAIN m.array |-> m.array[u]]
      /\ Allocated(m.bucket) /\ DOMAIN m.array = Owners(m) /\ DOMAIN ord = DOMAIN m.table
      /\ m.bucket = [x \in DOMAIN m.bucket |-> m.bucket[x]]
      /\ Elements(m, t) = ord[t]
  <2>1. Elements(m, t) = ord[t]
    BY ElementsRead
  <2>. QED
    BY <2>1 DEF Sound, Typed, Allocated
<1>2. m2 = Memory(Free(m.bucket, gone), Free(m.array, {t}), Free(m.table, {t}))
  <2>1. CASE m.table[t].cow
    <3>1. gone = {} /\ t \notin DOMAIN m.array
      BY <1>1, <2>1 DEF Own, Owners
    <3>2. Free(m.bucket, gone) = m.bucket /\ Free(m.array, {t}) = m.array
      BY <1>1, <3>1 DEF Free
    <3>3. m2 = [m EXCEPT !.table = Free(@, {t})]
      BY <2>1 DEF ht_destroy
    <3> HIDE DEF m2, gone
    <3>. QED
      BY <1>1, <3>2, <3>3 DEF Memory
  <2>2. CASE ~m.table[t].cow
    <3>1. gone = ToSet(Elements(m, t))
      BY <1>1, <2>2 DEF Own, Owners
    <3>2. m2 = [[m EXCEPT !.table = Free(@, {t})] EXCEPT !.bucket = Free(@, gone), !.array = Free(@, {t})]
      BY <2>2, <3>1 DEF ht_destroy
    <3> HIDE DEF m2, gone
    <3>. QED
      BY <1>1, <3>2 DEF Memory
  <2>. QED
    BY <2>1, <2>2
<1> HIDE DEF m2
<1>3. /\ m2.bucket = Free(m.bucket, gone) /\ m2.array = Free(m.array, {t}) /\ m2.table = Free(m.table, {t})
      /\ m2 = Memory(m2.bucket, m2.array, m2.table)
  BY <1>2 DEF Memory
<1>4. /\ DOMAIN m2.table = DOMAIN m.table \ {t} /\ \A u \in DOMAIN m2.table : m2.table[u] = m.table[u]
      /\ DOMAIN m2.array = DOMAIN m.array \ {t} /\ \A u \in DOMAIN m2.array : m2.array[u] = m.array[u]
      /\ DOMAIN m2.bucket = DOMAIN m.bucket \ gone /\ \A x \in DOMAIN m2.bucket : m2.bucket[x] = m.bucket[x]
      /\ m2.table = [u \in DOMAIN m2.table |-> m2.table[u]]
      /\ m2.array = [u \in DOMAIN m2.array |-> m2.array[u]]
      /\ m2.bucket = [x \in DOMAIN m2.bucket |-> m2.bucket[x]]
  BY <1>3 DEF Free
<1>5. ord2 = [u \in DOMAIN m2.table |-> ord2[u]] /\ \A u \in DOMAIN m2.table : ord2[u] = ord[u]
  BY <1>1, <1>4 DEF Free
<1>6. Owners(m2) = Owners(m) \ {t} /\ Owners(m2) \subseteq DOMAIN m2.table
  BY <1>4 DEF Owners
<1>7. \A u \in DOMAIN m2.table : ToSet(ord[u]) \subseteq DOMAIN m2.bucket
  BY <1>4, OthersKept
<1> HIDE DEF ord2, gone
<1>8. Typed(m2)
  <2>1. Allocated(m2.bucket)
    BY <1>1, <1>4 DEF Allocated
  <2>2. DOMAIN m2.table \subseteq Tables /\ \A u \in DOMAIN m2.table : m2.table[u] \in Table
    BY <1>4 DEF Sound, Typed
  <2>. QED
    BY <1>3, <1>4, <2>1, <2>2 DEF Typed
<1>9. ASSUME NEW u \in Owners(m2) PROVE Owns(m2, ord2, u)
  <2>1. u \in Owners(m) /\ u \in DOMAIN m2.table /\ u \in DOMAIN m2.array
    BY <1>1, <1>4, <1>6
  <2>2. m.table[u].array = u /\ Whole(m.bucket, m.table[u], m.array[u], ord[u])
    BY <2>1 DEF Sound, Owns
  <2>3. Whole(m2.bucket, m.table[u], m.array[u], ord[u])
    BY <1>4, <1>7, <2>1, <2>2, WholeKept
  <2>. QED
    BY <1>4, <1>5, <2>1, <2>2, <2>3 DEF Owns
<1>10. ASSUME NEW u \in DOMAIN m2.table, m2.table[u].cow PROVE Borrows(m2, ord2, u)
  <2> DEFINE o == m.table[u].array
  <2>1. /\ u \in DOMAIN m.table \ {t} /\ u \in Copies /\ o \in Owners(m) /\ ord[u] = ord[o]
        /\ Ends(m.table[u]) = Ends(m.table[o]) /\ o # t
    BY <1>4, <1>10 DEF Sound, Borrows, Alone
  <2>2. o \in Owners(m2) /\ o \in DOMAIN m2.table
    BY <1>6, <2>1
  <2>3. m2.table[u] = m.table[u] /\ m2.table[o] = m.table[o] /\ ord2[u] = ord[u] /\ ord2[o] = ord[o]
    BY <1>4, <1>5, <2>2
  <2>. QED
    BY <2>1, <2>2, <2>3 DEF Borrows
<1>11. Shared(m2, ord2)
  <2>1. ASSUME NEW u \in Owners(m2), NEW w \in Owners(m2), u # w PROVE ToSet(ord2[u]) \cap ToSet(ord2[w]) = {}
    <3>1. u \in Owners(m) /\ w \in Owners(m) /\ ord2[u] = ord[u] /\ ord2[w] = ord[w]
      BY <1>5, <1>6
    <3>. QED
      BY <2>1, <3>1 DEF Sound, Shared
  <2>2. ASSUME NEW x \in DOMAIN m2.bucket PROVE \E u \in Owners(m2) : x \in ToSet(ord2[u])
    <3>1. x \in DOMAIN m.bucket /\ x \notin gone
      BY <1>4
    <3>2. PICK u \in Owners(m) : x \in ToSet(ord[u])
      BY <3>1 DEF Sound, Shared
    <3>3. u # t
      BY <3>1, <3>2 DEF gone, Own
    <3>4. u \in Owners(m2) /\ ord2[u] = ord[u]
      BY <1>5, <1>6, <3>2, <3>3
    <3>. QED
      BY <3>2, <3>4
  <2>. QED
    BY <2>1, <2>2 DEF Shared
<1>12. DOMAIN m2.array = Owners(m2)
  BY <1>1, <1>4, <1>6
<1>13. Sound(m2, ord2)
  BY <1>5, <1>8, <1>9, <1>10, <1>11, <1>12 DEF Sound
<1>14. Shows(m2, ord2) = Free(Shows(m, ord), {t})
  <2>1. ASSUME NEW u \in DOMAIN m2.table PROVE Listed(m2.bucket, ord2[u]) = Listed(m.bucket, ord[u])
    <3>1. \A i \in DOMAIN ord[u] : ord[u][i] \in DOMAIN m2.bucket
      BY <1>7 DEF ToSet
    <3>2. \A i \in DOMAIN ord[u] : EntryIn(m2.bucket, ord[u][i]) = EntryIn(m.bucket, ord[u][i])
      BY <1>4, <3>1 DEF EntryIn
    <3>. QED
      BY <1>5, <3>2 DEF Listed
  <2>2. DOMAIN ord2 = DOMAIN m2.table
    BY <1>5
  <2>3. Shows(m2, ord2) = [u \in DOMAIN m2.table |-> Listed(m.bucket, ord[u])]
    BY <2>1, <2>2 DEF Shows
  <2>. QED
    BY <1>1, <1>4, <2>3 DEF Shows, Free
<1>. QED
  BY <1>13, <1>14 DEF m2, ord2

LEMMA ShowsIs ==
  ASSUME NEW m, NEW ord, Sound(m, ord)
  PROVE  /\ DOMAIN Shows(m, ord) = DOMAIN m.table /\ DOMAIN m.table \subseteq Tables
         /\ \A t \in DOMAIN m.table : Shows(m, ord)[t] = Listed(m.bucket, ord[t])
<1>1. DOMAIN ord = DOMAIN m.table /\ DOMAIN m.table \subseteq Tables
  BY DEF Sound, Typed
<1>. QED
  BY <1>1 DEF Shows

\* Every table of a sound memory is the same both ways.
Agreeing(m) == \A t \in DOMAIN m.table : Agree(m, t)

LEMMA SoundAgrees ==
  ASSUME TablesAssumption, NEW m, NEW ord, Sound(m, ord)
  PROVE  Agreeing(m)
<1> SUFFICES ASSUME NEW t \in DOMAIN m.table
             PROVE  Agree(m, t)
  BY DEF Agreeing
<1>1. /\ Elements(m, t) = ord[t] /\ Len(ord[t]) = m.table[t].count
      /\ Along(m, m.table[t].tail, "prev") = Reverse(ord[t])
  BY ElementsRead
<1> DEFINE heads == Heads(m, t)
           Of(s) == Along(m, heads[s], "chained")
<1>2. /\ \A s \in DOMAIN heads : \A x \in ToSet(Of(s)) :
            x \in ToSet(ord[t]) /\ Slot(heads, m.bucket[x].key) = s
      /\ \A x \in ToSet(ord[t]) : \E s \in DOMAIN heads : x \in ToSet(Of(s))
  BY ChainsHold
<1> HIDE DEF heads
<1>3. UNION {ToSet(c) : c \in {Of(s) : s \in DOMAIN heads}} = ToSet(ord[t])
  <2> HIDE DEF Of
  <2>. QED
    BY <1>2
<1>. QED
  BY <1>1, <1>2, <1>3 DEF heads, Agree
=============================================================================
