-------------------------- MODULE HashTable_proofs --------------------------
(***************************************************************************)
(* What the tables of HashTable keep.  The inductive invariant is Ordered: *)
(* the memory is Sound, and the iterator has a place in an order.          *)
(***************************************************************************)
EXTENDS HashTable, HashTableOps_proofs

LEMMA SoundNothingLost ==
  ASSUME TablesAssumption, NEW ord, Sound(mem, ord)
  PROVE  NothingLost
<1> DEFINE owners == {t \in DOMAIN mem.table : ~mem.table[t].cow}
<1>1. owners = Owners(mem) /\ owners \subseteq DOMAIN mem.table
  BY DEF Owners
<1>2. \A t \in owners : Elements(mem, t) = ord[t] /\ ord[t] \in [1 .. mem.table[t].count -> DOMAIN mem.bucket]
  BY <1>1, ElementsRead
<1>3. \A t \in owners : mem.table[t].array = t
  BY <1>1 DEF Sound, Owns
<1>4. DOMAIN mem.array = owners /\ Shared(mem, ord)
  BY <1>1 DEF Sound
<1> HIDE DEF owners
<1>5. \A t \in owners : ToSet(Elements(mem, t)) = ToSet(ord[t]) /\ ToSet(ord[t]) \subseteq DOMAIN mem.bucket
  BY <1>2 DEF ToSet
<1>6. DOMAIN mem.bucket = UNION {ToSet(Elements(mem, t)) : t \in owners}
  BY <1>1, <1>4, <1>5 DEF Shared
<1>7. DOMAIN mem.array = {mem.table[t].array : t \in owners}
  BY <1>3, <1>4
<1>8. \A t, u \in owners : t # u => ToSet(Elements(mem, t)) \cap ToSet(Elements(mem, u)) = {}
  BY <1>1, <1>4, <1>5 DEF Shared
<1>. QED
  BY <1>6, <1>7, <1>8 DEF NothingLost, owners

LEMMA SoundTypes ==
  ASSUME TablesAssumption, NEW ord, Sound(mem, ord), iter.ht \in DOMAIN mem.table \cup {NULL}
  PROVE  TypeOK
<1>1. DOMAIN mem.bucket \subseteq Addresses
  BY DEF Sound, Typed, Allocated
<1>2. ASSUME NEW t \in DOMAIN mem.table
      PROVE  /\ mem.table[t].count \in 0 .. Cardinality(Addresses)
             /\ mem.table[t].array \in DOMAIN mem.array
             /\ mem.table[t].head \in DOMAIN mem.bucket \cup {NULL}
             /\ mem.table[t].tail \in DOMAIN mem.bucket \cup {NULL}
  <2>1. mem.table[t].array \in DOMAIN mem.array /\ InOrder(mem.bucket, mem.table[t], ord[t])
    BY TableWhole DEF Sound, Whole
  <2>2. mem.table[t].head \in DOMAIN mem.bucket \cup {NULL} /\ mem.table[t].tail \in DOMAIN mem.bucket \cup {NULL}
    BY <2>1 DEF InOrder, At
  <2>. QED
    BY <2>1, <2>2, ElementsRead
<1>. QED
  BY <1>1, <1>2 DEF TypeOK

-----------------------------------------------------------------------------
(* The iterator.                                                           *)

\* s is an order of k elements.
Order(s, k) ==
    /\ k \in Nat /\ s \in [1 .. k -> Addresses]
    /\ \A i, j \in 1 .. k : s[i] = s[j] => i = j

\* x is the p-th of the elements s, and q are those before it.
Behind(s, p, x, q) == p \in DOMAIN s /\ x = s[p] /\ q = [i \in 1 .. p - 1 |-> s[i]]

\* The iterator stands on an element of its table and has left those before it
\* behind; while there is one no table waits for its first write.
Iterating(m, it, q, ord) ==
    \/ it = NoIterator /\ q = <<>>
    \/ /\ it \in [ht : Tables, bucket : Addresses] /\ it.ht \in DOMAIN m.table
       /\ DOMAIN m.table \cap Copies = {}
       /\ \E p : Behind(ord[it.ht], p, it.bucket, q)

LEMMA OrderIs ==
  ASSUME NEW m, NEW ord, Sound(m, ord), NEW t \in DOMAIN m.table
  PROVE  Order(ord[t], m.table[t].count)
<1>1. InOrder(m.bucket, m.table[t], ord[t]) /\ DOMAIN m.bucket \subseteq Addresses
  BY TableWhole DEF Whole, Sound, Typed, Allocated
<1>. QED
  BY <1>1 DEF InOrder, Order

\* A new last element is ahead.
LEMMA BehindMore ==
  ASSUME NEW s, NEW k, Order(s, k), NEW n, NEW p, NEW x, NEW q, Behind(s, p, x, q)
  PROVE  Behind(Append(s, n), p, x, q)
<1>1. k \in Nat /\ s \in [1 .. k -> Addresses] /\ p \in 1 .. k
  BY DEF Order, Behind
<1>2. More(Append(s, n), k, Addresses, s, n)
  BY <1>1, AppendIs
<1> DEFINE s2 == Append(s, n)
<1>3. DOMAIN s2 = 1 .. k + 1 /\ \A i \in 1 .. k : s2[i] = s[i]
  BY <1>1, <1>2 DEF More
<1> HIDE DEF s2
<1>4. p \in 1 .. k + 1 /\ \A i \in 1 .. p - 1 : i \in 1 .. k
  BY <1>1
<1>5. [i \in 1 .. p - 1 |-> s[i]] = [i \in 1 .. p - 1 |-> s2[i]]
  BY <1>3, <1>4
<1>. QED
  BY <1>1, <1>3, <1>4, <1>5 DEF Behind, s2

\* What is taken out elsewhere is taken out behind or ahead.
LEMMA BehindLess ==
  ASSUME NEW s, NEW k, Order(s, k), NEW j \in 1 .. k,
         NEW p, NEW x, NEW q, Behind(s, p, x, q), s[j] # x
  PROVE  \E p2 : Behind(RemoveAt(s, j), p2, x, IF s[j] \in ToSet(q) THEN RemoveAt(q, Place(q, s[j])) ELSE q)
<1>1. /\ k \in Nat /\ s \in [1 .. k -> Addresses] /\ p \in 1 .. k /\ x = s[p] /\ q = [i \in 1 .. p - 1 |-> s[i]]
      /\ \A i, l \in 1 .. k : s[i] = s[l] => i = l
  BY DEF Order, Behind
<1>2. j # p /\ j \in 1 .. k
  BY <1>1
<1> DEFINE s2 == RemoveAt(s, j)
<1>3. DOMAIN s2 = 1 .. k - 1 /\ \A i \in 1 .. k - 1 : s2[i] = IF i < j THEN s[i] ELSE s[i + 1]
  <2>0. k \in Nat /\ s \in [1 .. k -> Addresses] /\ j \in 1 .. k
    BY <1>1
  <2>1. s2 = TakenOut(s, k, j)
    BY <2>0, RemoveAtIs, Zenon
  <2>. QED
    BY <2>1 DEF TakenOut
<1> HIDE DEF s2
<1>4. p - 1 \in Nat /\ q \in [1 .. p - 1 -> Addresses] /\ DOMAIN q = 1 .. p - 1
      /\ \A i \in 1 .. p - 1 : i \in 1 .. k /\ q[i] = s[i]
  BY <1>1
<1>5. CASE j < p
  <2>1. j \in 1 .. p - 1 /\ q[j] = s[j]
    BY <1>1, <1>2, <1>4, <1>5
  <2>2. \A i, l \in 1 .. p - 1 : q[i] = q[l] => i = l
    BY <1>1, <1>4
  <2>3. Place(q, q[j]) = j /\ q[j] \in ToSet(q)
    BY <1>4, <2>1, <2>2, PlaceIs
  <2> DEFINE q2 == RemoveAt(q, j)
             l == p - 1
  <2>4. q2 = [i \in 1 .. l - 1 |-> IF i < j THEN q[i] ELSE q[i + 1]]
    <3> HIDE DEF l
    <3>1. l \in Nat /\ q \in [1 .. l -> Addresses] /\ j \in 1 .. l
      BY <1>4, <2>1 DEF l
    <3>2. q2 = TakenOut(q, l, j)
      BY <3>1, RemoveAtIs
    <3>. QED
      BY <3>2 DEF TakenOut
  <2> HIDE DEF q2
  <2>5. \A i \in 1 .. l - 1 : /\ i \in 1 .. k - 1 /\ i \in 1 .. p - 1 /\ i + 1 \in 1 .. p - 1
    BY <1>1
  <2>6. q2 = [i \in 1 .. l - 1 |-> s2[i]]
    BY <1>3, <1>4, <2>4, <2>5
  <2>7. l \in 1 .. k - 1 /\ s2[l] = s[p]
    <3>1. l \in 1 .. k - 1 /\ ~(l < j) /\ l + 1 = p
      BY <1>1, <1>2, <1>5
    <3>. QED
      BY <1>3, <3>1
  <2>8. Behind(s2, l, x, q2)
    BY <1>1, <1>3, <2>6, <2>7 DEF Behind
  <2>. QED
    BY <2>1, <2>3, <2>8 DEF s2, q2
<1>6. CASE ~(j < p)
  <2>1. s[j] \notin ToSet(q)
    <3>1. \A i \in 1 .. p - 1 : q[i] # s[j]
      BY <1>1, <1>2, <1>4, <1>6
    <3>. QED
      BY <1>4, <3>1 DEF ToSet
  <2>2. p \in 1 .. k - 1 /\ s2[p] = s[p]
    <3>1. p \in 1 .. k - 1 /\ p < j
      BY <1>1, <1>2, <1>6
    <3>. QED
      BY <1>3, <3>1
  <2>3. \A i \in 1 .. p - 1 : i \in 1 .. k - 1 /\ s2[i] = s[i]
    <3>1. \A i \in 1 .. p - 1 : i \in 1 .. k - 1 /\ i < j
      BY <1>1, <1>2, <1>6
    <3>. QED
      BY <1>3, <3>1
  <2>4. q = [i \in 1 .. p - 1 |-> s2[i]]
    BY <1>1, <2>3
  <2>5. Behind(s2, p, x, q)
    BY <1>1, <1>3, <2>2, <2>4 DEF Behind
  <2>. QED
    BY <2>1, <2>5 DEF s2
<1>. QED
  BY <1>5, <1>6

\* What is left is an order.
LEMMA LessOrder ==
  ASSUME NEW s, NEW k, Order(s, k), NEW j \in 1 .. k
  PROVE  Order(RemoveAt(s, j), k - 1)
<1>1. k \in Nat /\ s \in [1 .. k -> Addresses] /\ \A i, l \in 1 .. k : s[i] = s[l] => i = l
  BY DEF Order
<1>2. RemoveAt(s, j) = TakenOut(s, k, j)
  BY <1>1, RemoveAtIs
<1> DEFINE J(i) == IF i < j THEN i ELSE i + 1
           s2 == TakenOut(s, k, j)
<1>3. /\ \A i \in 1 .. k - 1 : J(i) \in 1 .. k /\ s2[i] = s[J(i)]
      /\ \A i, l \in 1 .. k - 1 : J(i) = J(l) => i = l
  BY <1>1 DEF TakenOut
<1>4. s2 = [i \in 1 .. k - 1 |-> s2[i]]
  BY DEF TakenOut
<1> HIDE DEF J, s2
<1>5. s2 \in [1 .. k - 1 -> Addresses]
  BY <1>1, <1>3, <1>4
<1>6. \A i, l \in 1 .. k - 1 : s2[i] = s2[l] => i = l
  BY <1>1, <1>3
<1>7. k - 1 \in Nat
  BY <1>1
<1>. QED
  BY <1>2, <1>5, <1>6, <1>7 DEF Order, s2

\* What is ahead of the iterator is walked along from it.
LEMMA SoundIteration ==
  ASSUME TablesAssumption, NEW ord, Sound(mem, ord), Iterating(mem, iter, seen, ord)
  PROVE  IterationSound
<1> SUFFICES ASSUME iter.ht # NULL
             PROVE  seen \o Along(mem, iter.bucket, "next") = Elements(mem, iter.ht)
  BY DEF IterationSound
<1>1. iter.ht \in DOMAIN mem.table /\ \E p : Behind(ord[iter.ht], p, iter.bucket, seen)
  BY DEF Iterating, NoIterator
<1>2. PICK p : Behind(ord[iter.ht], p, iter.bucket, seen)
  BY <1>1
<1>3. PICK s, table : s = ord[iter.ht] /\ table = mem.table[iter.ht]
  OBVIOUS
<1>4. InOrder(mem.bucket, table, s) /\ Allocated(mem.bucket) /\ Elements(mem, iter.ht) = s
  BY <1>1, <1>3, TableWhole, ElementsRead DEF Whole, Sound, Typed
<1>5. PICK k \in Nat : k = table.count
  BY <1>4 DEF InOrder
<1>6. /\ s \in [1 .. k -> DOMAIN mem.bucket] /\ \A i, j \in 1 .. k : s[i] = s[j] => i = j
      /\ \A i \in 1 .. k : mem.bucket[s[i]].next = At(s, i + 1)
  BY <1>4, <1>5 DEF InOrder
<1>7. p \in 1 .. k /\ iter.bucket = s[p] /\ seen = [i \in 1 .. p - 1 |-> s[i]]
  BY <1>2, <1>3, <1>6 DEF Behind
<1> DEFINE l == k - p + 1
           c == [i \in 1 .. l |-> s[p + i - 1]]
<1>8. l \in Nat /\ l >= 1 /\ l <= k /\ \A i \in 1 .. l : p + i - 1 \in 1 .. k
  BY <1>7
<1>9. Way(mem, "next", l, c)
  <2>1. /\ Cardinality(DOMAIN mem.bucket) \in Nat /\ NULL \notin DOMAIN mem.bucket /\ DOMAIN mem.bucket \subseteq Addresses
    BY <1>4, AllocatedFinite DEF Allocated
  <2>2. k <= Cardinality(DOMAIN mem.bucket)
    BY <1>4, <1>6, AllocatedFinite
  <2>3. ASSUME NEW i \in 1 .. l PROVE Link(mem, c[i], "next") = At(c, i + 1)
    <3>1. Link(mem, c[i], "next") = mem.bucket[s[p + i - 1]].next
      BY DEF Link
    <3>2. mem.bucket[s[p + i - 1]].next = At(s, p + i)
      <4>1. p + i - 1 \in 1 .. k /\ (p + i - 1) + 1 = p + i
        BY <1>7, <1>8
      <4>. QED
        BY <1>6, <4>1
    <3>3. DOMAIN c = 1 .. l /\ DOMAIN s = 1 .. k
      BY <1>6
    <3>4. p + (i + 1) - 1 = p + i /\ (i + 1 \in 1 .. l <=> p + i \in 1 .. k)
      BY <1>7
    <3>5. i + 1 \in 1 .. l => c[i + 1] = s[p + i]
      BY <3>4
    <3> HIDE DEF c, l
    <3>6. At(c, i + 1) = At(s, p + i)
      BY <3>3, <3>4, <3>5 DEF At
    <3>. QED
      BY <3>1, <3>2, <3>6
  <2>4. c \in [1 .. l -> DOMAIN mem.bucket]
    BY <1>6, <1>8
  <2>5. l <= Cardinality(DOMAIN mem.bucket)
    BY <1>8, <2>1, <2>2
  <2> HIDE DEF c, l
  <2>. QED
    BY <1>8, <2>1, <2>3, <2>4, <2>5 DEF Way
<1>10. At(c, 1) = iter.bucket
  <2>1. 1 \in 1 .. l /\ p + 1 - 1 = p
    BY <1>7, <1>8
  <2>. QED
    BY <1>7, <2>1 DEF At
<1> HIDE DEF c, l
<1>11. Along(mem, iter.bucket, "next") = c
  BY <1>9, <1>10, AlongIs
<1>12. seen \o c = s
  <2> DEFINE A == DOMAIN mem.bucket
  <2>1. seen \in [1 .. p - 1 -> A] /\ c \in [1 .. l -> A] /\ p - 1 \in Nat
    BY <1>6, <1>7, <1>9 DEF Way
  <2>2. seen \in Seq(A) /\ Len(seen) = p - 1 /\ c \in Seq(A) /\ Len(c) = l /\ s \in Seq(A) /\ Len(s) = k
    BY <1>6, <1>8, <2>1, D!FunctionSeq
  <2> HIDE DEF A
  <2>3. seen \o c \in Seq(A) /\ Len(seen \o c) = (p - 1) + l
    <3>1. seen \in Seq(A) /\ c \in Seq(A)
      BY <2>2
    <3>2. seen \o c \in Seq(A) /\ Len(seen \o c) = Len(seen) + Len(c)
      BY <3>1, ConcatProperties, Zenon
    <3>. QED
      BY <2>2, <3>2
  <2>4. (p - 1) + l = k
    BY <1>7 DEF l
  <2>5. ASSUME NEW i \in 1 .. k PROVE (seen \o c)[i] = s[i]
    <3>1. (seen \o c)[i] = IF i <= p - 1 THEN seen[i] ELSE c[i - (p - 1)]
      <4>1. i \in 1 .. Len(seen) + Len(c)
        BY <2>2, <2>4
      <4>. QED
        BY <2>2, <4>1, ConcatProperties
    <3>2. CASE i <= p - 1
      BY <1>7, <3>1, <3>2
    <3>3. CASE ~(i <= p - 1)
      <4>1. i - (p - 1) \in 1 .. l /\ p + (i - (p - 1)) - 1 = i
        BY <1>7, <3>3 DEF l
      <4>. QED
        BY <3>1, <3>3, <4>1 DEF c
    <3>. QED
      BY <3>2, <3>3
  <2>. QED
    BY <2>2, <2>3, <2>4, <2>5, SeqEqual
<1>. QED
  BY <1>4, <1>11, <1>12

-----------------------------------------------------------------------------
(* The steps.                                                              *)

\* One entry of the key is taken out, or there is none.
LessOne(e, k, e2) ==
    \/ e2 = e /\ \A i \in DOMAIN e : e[i][1] # k
    \/ \E p \in DOMAIN e : e[p][1] = k /\ e2 = RemoveAt(e, p)

\* What the sequences x of entries become in a step.
MapStep(x, y) ==
    \/ y = x
    \/ \E t \in Tables \ DOMAIN x : y = Bind(x, t, <<>>) \/ \E s \in Tables \cap DOMAIN x : y = Bind(x, t, x[s])
    \/ \E t \in Tables \cap DOMAIN x : y = Free(x, {t})
    \/ \E t \in Tables \cap DOMAIN x, k \in Keys : \E e : LessOne(x[t], k, e) /\ y = Bind(x, t, e)
    \/ \E t \in Tables \cap DOMAIN x, k \in Keys, v \in Values : y = Bind(x, t, Append(x[t], <<k, v>>))
    \/ \E t \in Tables \cap DOMAIN x, k \in Keys, v \in Values : \E e :
          LessOne(x[t], k, e) /\ y = Bind(x, t, Append(e, <<k, v>>))

\* A step from the elements ord to the elements ord2.
Steps(m, ord, m2, it2, q2, ord2) ==
    /\ Sound(m2, ord2) /\ Iterating(m2, it2, q2, ord2)
    /\ MapStep(Shows(m, ord), Shows(m2, ord2))

\* Nobody looks into a table that may be written.
LEMMA NotLent ==
  ASSUME NEW ord, Sound(mem, ord), NEW t \in DOMAIN mem.table, ~Lent(t)
  PROVE  Alone(mem, t)
<1>1. CASE mem.table[t].cow
  <2>1. t \notin Owners(mem)
    BY <1>1 DEF Owners
  <2>. QED
    BY <2>1 DEF Sound, Borrows, Alone
<1>2. CASE ~mem.table[t].cow
  <2>1. mem.table[t].array = t
    BY <1>2 DEF Sound, Owners, Owns
  <2>. QED
    BY <2>1 DEF Lent, Alone
<1>. QED
  BY <1>1, <1>2

\* The table an iterator stands on has been written before.
LEMMA IteratedOwns ==
  ASSUME NEW m, NEW ord, Sound(m, ord), NEW it, NEW q, Iterating(m, it, q, ord), it.ht # NULL
  PROVE  /\ it.ht \in DOMAIN m.table /\ ~m.table[it.ht].cow
         /\ \E p : Behind(ord[it.ht], p, it.bucket, q)
<1>1. it.ht \in DOMAIN m.table /\ DOMAIN m.table \cap Copies = {} /\ \E p : Behind(ord[it.ht], p, it.bucket, q)
  BY DEF Iterating, NoIterator
<1>. QED
  BY <1>1 DEF Sound, Borrows

\* A write to a table: the iterator stays where it is, and what it has left
\* behind is what is behind it in the new order.
LEMMA StillIterating ==
  ASSUME TablesAssumption, NEW m, NEW ord, Sound(m, ord), NEW it, NEW q, Iterating(m, it, q, ord),
         NEW t \in DOMAIN m.table, NEW m2, NEW s, NEW e, Became(m, ord, t, m2, s, e),
         NEW q2, it.ht # t => q2 = q, it.ht = t => \E p : Behind(s, p, it.bucket, q2)
  PROVE  Iterating(m2, it, q2, Bind(ord, t, s))
<1>1. DOMAIN m2.table = DOMAIN m.table /\ DOMAIN ord = DOMAIN m.table /\ t # NULL
  BY DEF Became, Bind, Sound, Typed, TablesAssumption
<1>2. Bind(ord, t, s)[t] = s /\ \A u \in DOMAIN m.table \ {t} : Bind(ord, t, s)[u] = ord[u]
  BY <1>1 DEF Bind
<1>3. CASE it = NoIterator /\ q = <<>>
  <2>1. it.ht # t
    BY <1>1, <1>3 DEF NoIterator
  <2>. QED
    BY <1>3, <2>1 DEF Iterating
<1>4. CASE ~(it = NoIterator /\ q = <<>>)
  <2>1. /\ it \in [ht : Tables, bucket : Addresses] /\ it.ht \in DOMAIN m.table
        /\ DOMAIN m.table \cap Copies = {}
        /\ \E p : Behind(ord[it.ht], p, it.bucket, q)
    BY <1>4 DEF Iterating
  <2>2. \E p : Behind(Bind(ord, t, s)[it.ht], p, it.bucket, q2)
    BY <1>2, <2>1
  <2>. QED
    BY <1>1, <2>1, <2>2 DEF Iterating
<1>. QED
  BY <1>3, <1>4

LEMMA AddStep ==
  ASSUME TablesAssumption, NEW ord, Sound(mem, ord), Iterating(mem, iter, seen, ord),
         NEW t, NEW k \in Keys, NEW v \in Values, AddKey(t, k, v)
  PROVE  \E ord2 : Steps(mem, ord, mem', iter', seen', ord2)
<1>1. /\ t \in DOMAIN mem.table /\ ~Lent(t) /\ HasRoom(mem, 1 + Needed(mem, t))
      /\ mem' = ht_add(mem, t, k, v) /\ iter' = iter /\ seen' = seen
  BY DEF AddKey, Writable, Exists, Room, Needed, Still
<1>2. Alone(mem, t)
  BY <1>1, NotLent
<1>3. PICK s, n : /\ Ready(mem, ord, t, s)
                  /\ Became(mem, ord, t, mem', Append(s, n), Append(Listed(mem.bucket, ord[t]), <<k, v>>))
  BY <1>1, <1>2, HtAddBecomes
<1> DEFINE s2 == Append(s, n)
           e2 == Append(Listed(mem.bucket, ord[t]), <<k, v>>)
<1>4. iter.ht = t => \E p : Behind(s2, p, iter.bucket, seen)
  <2> SUFFICES ASSUME iter.ht = t PROVE \E p : Behind(s2, p, iter.bucket, seen)
    OBVIOUS
  <2>1. t # NULL
    BY <1>1 DEF Sound, Typed, TablesAssumption
  <2>2. PICK p : Behind(ord[t], p, iter.bucket, seen)
    BY <2>1, IteratedOwns
  <2>3. s = ord[t]
    BY <1>3, <2>1, IteratedOwns DEF Ready
  <2>4. Order(ord[t], mem.table[t].count)
    BY <1>1, OrderIs
  <2>. QED
    BY <2>2, <2>3, <2>4, BehindMore
<1> HIDE DEF s2, e2
<1>5. Iterating(mem', iter, seen, Bind(ord, t, s2))
  BY <1>1, <1>3, <1>4, StillIterating DEF s2
<1>6. Sound(mem', Bind(ord, t, s2)) /\ Shows(mem', Bind(ord, t, s2)) = Bind(Shows(mem, ord), t, e2)
  BY <1>3 DEF Became, s2, e2
<1>7. MapStep(Shows(mem, ord), Shows(mem', Bind(ord, t, s2)))
  <2>1. t \in Tables \cap DOMAIN Shows(mem, ord) /\ Shows(mem, ord)[t] = Listed(mem.bucket, ord[t])
    BY <1>1, ShowsIs
  <2>. QED
    BY <1>6, <2>1 DEF MapStep, e2
<1>. QED
  BY <1>1, <1>5, <1>6, <1>7 DEF Steps

\* What the iterator has left behind when an element of its table is taken out.
LEMMA TakenBehind ==
  ASSUME TablesAssumption, NEW ord, Sound(mem, ord), Iterating(mem, iter, seen, ord),
         NEW t \in DOMAIN mem.table, iter.ht = t, NEW k, Spared(t, k),
         NEW s, Ready(mem, ord, t, s), NEW e, NEW s2, NEW e2,
         Taken(s, e, k, ToRemove(Owned(mem, t), t, k), s2, e2)
  PROVE  \E p : Behind(s2, p, iter.bucket, SeenWithout(ToRemove(mem, t, k))) /\ \E l : Order(s2, l)
<1> DEFINE n == ToRemove(mem, t, k)
           c == mem.table[t].count
<1>1. t # NULL
  BY DEF Sound, Typed, TablesAssumption
<1>2. PICK p : Behind(ord[t], p, iter.bucket, seen)
  BY <1>1, IteratedOwns
<1>3. ~mem.table[t].cow
  BY <1>1, IteratedOwns
<1>4. s = ord[t] /\ Owned(mem, t) = mem
  BY <1>3 DEF Ready
<1>5. Order(s, c)
  BY <1>4, OrderIs
<1>6. n # iter.bucket
  BY DEF Spared
<1>7. Behind(s, p, iter.bucket, seen) /\ Taken(s, e, k, n, s2, e2)
  BY <1>2, <1>4
<1>8. SeenWithout(n) = IF n \in ToSet(seen) THEN RemoveAt(seen, Place(seen, n)) ELSE seen
  BY DEF SeenWithout
<1> HIDE DEF n, c
<1>9. CASE n = NULL /\ s2 = s
  <2>1. NULL \notin ToSet(seen)
    <3>1. \A i \in DOMAIN seen : seen[i] \in Addresses
      BY <1>5, <1>7 DEF Order, Behind
    <3>. QED
      BY <3>1 DEF ToSet, TablesAssumption
  <2>. QED
    BY <1>5, <1>7, <1>8, <1>9, <2>1 DEF n
<1>10. CASE \E j \in DOMAIN s : s[j] = n /\ s2 = RemoveAt(s, j)
  <2>1. PICK j \in DOMAIN s : s[j] = n /\ s2 = RemoveAt(s, j)
    BY <1>10
  <2>2. j \in 1 .. c
    BY <1>5 DEF Order
  <2>3. \E p2 : Behind(s2, p2, iter.bucket, SeenWithout(n))
    BY <1>5, <1>6, <1>7, <1>8, <2>1, <2>2, BehindLess
  <2>4. Order(s2, c - 1)
    BY <1>5, <2>1, <2>2, LessOrder
  <2>. QED
    BY <2>3, <2>4 DEF n
<1>. QED
  BY <1>7, <1>9, <1>10 DEF Taken

LEMMA TakenLess ==
  ASSUME NEW s, NEW e, NEW k, NEW n, NEW s2, NEW e2, Taken(s, e, k, n, s2, e2)
  PROVE  LessOne(e, k, e2)
BY DEF Taken, LessOne

LEMMA RemoveStep ==
  ASSUME TablesAssumption, KeysAssumption, NEW ord, Sound(mem, ord), Iterating(mem, iter, seen, ord),
         NEW t, NEW k \in Keys, RemoveKey(t, k)
  PROVE  \E ord2 : Steps(mem, ord, mem', iter', seen', ord2)
<1>1. /\ t \in DOMAIN mem.table /\ ~Lent(t) /\ HasRoom(mem, 0 + Needed(mem, t)) /\ Spared(t, k)
      /\ mem' = ht_remove(mem, t, k) /\ iter' = iter
      /\ seen' = IF iter.ht = t THEN SeenWithout(ToRemove(mem, t, k)) ELSE seen
  BY DEF RemoveKey, Writable, Exists, Room, Needed
<1>2. Alone(mem, t) /\ k \in Keys \ ObjectKeys
  BY <1>1, NotLent DEF KeysAssumption
<1> DEFINE e == Listed(mem.bucket, ord[t])
<1>3. PICK s, s2, e2 : /\ Ready(mem, ord, t, s) /\ Became(mem, ord, t, mem', s2, e2)
                       /\ Taken(s, e, k, ToRemove(Owned(mem, t), t, k), s2, e2)
  BY <1>1, <1>2, HtRemoveBecomes
<1> HIDE DEF e
<1>4. iter.ht = t => \E p : Behind(s2, p, iter.bucket, seen')
  BY <1>1, <1>3, TakenBehind
<1>5. Iterating(mem', iter, seen', Bind(ord, t, s2))
  <2>1. iter.ht # t => seen' = seen
    BY <1>1
  <2>. QED
    BY <1>1, <1>3, <1>4, <2>1, StillIterating
<1>6. Sound(mem', Bind(ord, t, s2)) /\ Shows(mem', Bind(ord, t, s2)) = Bind(Shows(mem, ord), t, e2)
  BY <1>3 DEF Became
<1>7. MapStep(Shows(mem, ord), Shows(mem', Bind(ord, t, s2)))
  <2>1. t \in Tables \cap DOMAIN Shows(mem, ord) /\ Shows(mem, ord)[t] = e
    BY <1>1, ShowsIs DEF e
  <2>2. LessOne(e, k, e2)
    BY <1>3, TakenLess
  <2>. QED
    BY <1>6, <2>1, <2>2 DEF MapStep
<1>. QED
  BY <1>1, <1>5, <1>6, <1>7 DEF Steps

LEMMA ReplaceStep ==
  ASSUME TablesAssumption, KeysAssumption, NEW ord, Sound(mem, ord), Iterating(mem, iter, seen, ord),
         NEW t, NEW k \in Keys, NEW v \in Values, ReplaceKey(t, k, v)
  PROVE  \E ord2 : Steps(mem, ord, mem', iter', seen', ord2)
<1>1. /\ t \in DOMAIN mem.table /\ ~Lent(t) /\ HasRoom(mem, 1 + Needed(mem, t)) /\ Spared(t, k)
      /\ mem' = ht_replace(mem, t, k, v) /\ iter' = iter
      /\ seen' = IF iter.ht = t THEN SeenWithout(ToRemove(mem, t, k)) ELSE seen
  BY DEF ReplaceKey, Writable, Exists, Room, Needed
<1>2. Alone(mem, t) /\ k \in Keys \ ObjectKeys
  BY <1>1, NotLent DEF KeysAssumption
<1> DEFINE e == Listed(mem.bucket, ord[t])
<1>3. PICK s, s2, e2, n :
         /\ Ready(mem, ord, t, s) /\ Became(mem, ord, t, mem', Append(s2, n), Append(e2, <<k, v>>))
         /\ Taken(s, e, k, ToRemove(Owned(mem, t), t, k), s2, e2)
  BY <1>1, <1>2, HtReplaceBecomes
<1> DEFINE s3 == Append(s2, n)
           e3 == Append(e2, <<k, v>>)
<1> HIDE DEF e
<1>4. iter.ht = t => \E p : Behind(s3, p, iter.bucket, seen')
  <2> SUFFICES ASSUME iter.ht = t PROVE \E p : Behind(s3, p, iter.bucket, seen')
    OBVIOUS
  <2>1. PICK p : Behind(s2, p, iter.bucket, SeenWithout(ToRemove(mem, t, k))) /\ \E l : Order(s2, l)
    BY <1>1, <1>3, TakenBehind
  <2>2. seen' = SeenWithout(ToRemove(mem, t, k))
    BY <1>1
  <2>. QED
    BY <2>1, <2>2, BehindMore
<1> HIDE DEF s3, e3
<1>5. Iterating(mem', iter, seen', Bind(ord, t, s3))
  <2>1. iter.ht # t => seen' = seen
    BY <1>1
  <2>. QED
    BY <1>1, <1>3, <1>4, <2>1, StillIterating DEF s3
<1>6. Sound(mem', Bind(ord, t, s3)) /\ Shows(mem', Bind(ord, t, s3)) = Bind(Shows(mem, ord), t, e3)
  BY <1>3 DEF Became, s3, e3
<1>7. MapStep(Shows(mem, ord), Shows(mem', Bind(ord, t, s3)))
  <2>1. t \in Tables \cap DOMAIN Shows(mem, ord) /\ Shows(mem, ord)[t] = e
    BY <1>1, ShowsIs DEF e
  <2>2. LessOne(e, k, e2)
    BY <1>3, TakenLess
  <2>. QED
    BY <1>6, <2>1, <2>2 DEF MapStep, e3
<1>. QED
  BY <1>1, <1>5, <1>6, <1>7 DEF Steps

LEMMA CreateStep ==
  ASSUME TablesAssumption, NEW ord, Sound(mem, ord), Iterating(mem, iter, seen, ord),
         NEW t \in Tables, Create(t)
  PROVE  \E ord2 : Steps(mem, ord, mem', iter', seen', ord2)
<1>1. t \in Tables \ DOMAIN mem.table /\ t \notin Copies /\ mem' = ht_create(mem, t) /\ iter' = iter /\ seen' = seen
  BY DEF Create, Exists, Still
<1> DEFINE ord2 == Bind(ord, t, <<>>)
<1>2. Became(mem, ord, t, mem', <<>>, <<>>)
  BY <1>1, CreateBecomes
<1>3. Sound(mem', ord2) /\ Shows(mem', ord2) = Bind(Shows(mem, ord), t, <<>>) /\ DOMAIN mem'.table = DOMAIN mem.table \cup {t}
  BY <1>2 DEF Became, Bind
<1>4. DOMAIN ord = DOMAIN mem.table /\ \A u \in DOMAIN mem.table : ord2[u] = ord[u]
  BY <1>1 DEF Sound, Bind
<1> HIDE DEF ord2
<1>5. Iterating(mem', iter, seen, ord2)
  <2>1. CASE iter = NoIterator /\ seen = <<>>
    BY <2>1 DEF Iterating
  <2>2. CASE ~(iter = NoIterator /\ seen = <<>>)
    <3>1. /\ iter \in [ht : Tables, bucket : Addresses] /\ iter.ht \in DOMAIN mem.table
          /\ DOMAIN mem.table \cap Copies = {} /\ \E p : Behind(ord[iter.ht], p, iter.bucket, seen)
      BY <2>2 DEF Iterating
    <3>. QED
      BY <1>1, <1>3, <1>4, <3>1 DEF Iterating
  <2>. QED
    BY <2>1, <2>2
<1>6. MapStep(Shows(mem, ord), Shows(mem', ord2))
  <2>1. t \in Tables \ DOMAIN Shows(mem, ord)
    BY <1>1, ShowsIs
  <2>. QED
    BY <1>3, <2>1 DEF MapStep
<1>. QED
  BY <1>1, <1>3, <1>5, <1>6 DEF Steps

LEMMA CopyStep ==
  ASSUME TablesAssumption, NEW ord, Sound(mem, ord), Iterating(mem, iter, seen, ord),
         NEW s \in Tables, NEW t \in Tables, NEW cow \in BOOLEAN, Copy(s, t, cow)
  PROVE  \E ord2 : Steps(mem, ord, mem', iter', seen', ord2)
<1>1. /\ t \in (Tables \cap Copies) \ DOMAIN mem.table /\ s \in DOMAIN mem.table
      /\ cow \/ HasRoom(mem, mem.table[s].count)
      /\ mem' = ht_copy(mem, s, t, cow) /\ iter' = iter /\ seen' = seen /\ iter = NoIterator
  BY DEF Copy, Exists, Still
<1> DEFINE e == Listed(mem.bucket, ord[s])
<1>2. \E q : Joins(mem, ord, t, mem', q, e)
  <2>1. CASE cow = TRUE
    BY <1>1, <2>1, SharedCopied
  <2>2. CASE cow = FALSE
    <3>1. \E q : Became(mem, ord, t, mem', q, e)
      BY <1>1, <2>2, DeepCopied
    <3>. QED
      BY <3>1 DEF Became, Joins
  <2>. QED
    BY <2>1, <2>2
<1>3. PICK q : Joins(mem, ord, t, mem', q, e)
  BY <1>2
<1> DEFINE ord2 == Bind(ord, t, q)
<1>4. Sound(mem', ord2) /\ Shows(mem', ord2) = Bind(Shows(mem, ord), t, e)
  BY <1>3 DEF Joins
<1>5. Iterating(mem', iter', seen', ord2)
  <2>1. iter.ht \notin DOMAIN mem.table
    BY <1>1 DEF NoIterator, Sound, Typed, TablesAssumption
  <2>. QED
    BY <1>1, <2>1 DEF Iterating
<1>6. MapStep(Shows(mem, ord), Shows(mem', ord2))
  <2>1. t \in Tables \ DOMAIN Shows(mem, ord) /\ s \in Tables \cap DOMAIN Shows(mem, ord) /\ Shows(mem, ord)[s] = e
    BY <1>1, ShowsIs
  <2> HIDE DEF e, ord2
  <2>. QED
    BY <1>4, <2>1 DEF MapStep
<1>. QED
  BY <1>4, <1>5, <1>6 DEF Steps

LEMMA DestroyStep ==
  ASSUME TablesAssumption, NEW ord, Sound(mem, ord), Iterating(mem, iter, seen, ord),
         NEW t \in Tables, Destroy(t)
  PROVE  \E ord2 : Steps(mem, ord, mem', iter', seen', ord2)
<1>1. /\ t \in DOMAIN mem.table /\ ~Lent(t) /\ iter.ht # t /\ mem' = ht_destroy(mem, t)
      /\ iter' = iter /\ seen' = seen
  BY DEF Destroy, Exists, Still
<1>2. Alone(mem, t)
  BY <1>1, NotLent
<1> DEFINE ord2 == Free(ord, {t})
<1>3. Sound(mem', ord2) /\ Shows(mem', ord2) = Free(Shows(mem, ord), {t})
  BY <1>1, <1>2, DestroyedSound
<1>4. DOMAIN mem'.table = DOMAIN mem.table \ {t} /\ \A u \in DOMAIN mem.table \ {t} : ord2[u] = ord[u]
  <2>1. DOMAIN ord = DOMAIN mem.table /\ DOMAIN ord2 = DOMAIN mem'.table
    BY <1>3 DEF Sound
  <2>. QED
    BY <2>1 DEF Free
<1> HIDE DEF ord2
<1>5. Iterating(mem', iter, seen, ord2)
  <2>1. CASE iter = NoIterator /\ seen = <<>>
    BY <2>1 DEF Iterating
  <2>2. CASE ~(iter = NoIterator /\ seen = <<>>)
    <3>1. /\ iter \in [ht : Tables, bucket : Addresses] /\ iter.ht \in DOMAIN mem.table
          /\ DOMAIN mem.table \cap Copies = {} /\ \E p : Behind(ord[iter.ht], p, iter.bucket, seen)
      BY <2>2 DEF Iterating
    <3>. QED
      BY <1>1, <1>4, <3>1 DEF Iterating
  <2>. QED
    BY <2>1, <2>2
<1>6. MapStep(Shows(mem, ord), Shows(mem', ord2))
  <2>1. t \in Tables \cap DOMAIN Shows(mem, ord)
    BY <1>1, ShowsIs
  <2>. QED
    BY <1>3, <2>1 DEF MapStep
<1>. QED
  BY <1>1, <1>3, <1>5, <1>6 DEF Steps

\* Where only the iterator moves.
LEMMA OnlyIterates ==
  ASSUME NEW ord, Sound(mem, ord), mem' = mem, Iterating(mem, iter', seen', ord)
  PROVE  \E ord2 : Steps(mem, ord, mem', iter', seen', ord2)
BY DEF Steps, MapStep

LEMMA RewindStep ==
  ASSUME TablesAssumption, NEW ord, Sound(mem, ord), NEW t \in Tables, Rewind(t)
  PROVE  \E ord2 : Steps(mem, ord, mem', iter', seen', ord2)
<1>1. /\ t \in DOMAIN mem.table /\ DOMAIN mem.table \cap Copies = {} /\ mem' = mem /\ seen' = <<>>
      /\ iter' = IF mem.table[t].head = NULL THEN NoIterator ELSE [ht |-> t, bucket |-> mem.table[t].head]
  BY DEF Rewind, Exists
<1>2. CASE mem.table[t].head = NULL
  BY <1>1, <1>2, OnlyIterates DEF Iterating
<1>3. CASE mem.table[t].head # NULL
  <2>1. Order(ord[t], mem.table[t].count) /\ mem.table[t].head = At(ord[t], 1)
    BY <1>1, OrderIs, TableWhole DEF Whole, InOrder
  <2>2. 1 \in DOMAIN ord[t] /\ mem.table[t].head = ord[t][1] /\ mem.table[t].head \in Addresses
    BY <1>3, <2>1 DEF At, Order
  <2>3. Behind(ord[t], 1, mem.table[t].head, <<>>)
    <3>1. <<>> = [i \in 1 .. 1 - 1 |-> ord[t][i]]
      OBVIOUS
    <3>. QED
      BY <2>2, <3>1 DEF Behind
  <2>4. iter' = [ht |-> t, bucket |-> mem.table[t].head]
    BY <1>1, <1>3
  <2>5. Iterating(mem, iter', seen', ord)
    BY <1>1, <2>2, <2>3, <2>4 DEF Iterating
  <2>. QED
    BY <1>1, <2>5, OnlyIterates
<1>. QED
  BY <1>2, <1>3

LEMMA AdvanceStep ==
  ASSUME TablesAssumption, NEW ord, Sound(mem, ord), Iterating(mem, iter, seen, ord), Advance
  PROVE  \E ord2 : Steps(mem, ord, mem', iter', seen', ord2)
<1>1. /\ iter.bucket # NULL /\ mem' = mem
      /\ \/ iter' = NoIterator /\ seen' = <<>>
         \/ /\ mem.bucket[iter.bucket].next # NULL
            /\ iter' = [iter EXCEPT !.bucket = mem.bucket[iter.bucket].next]
            /\ seen' = Append(seen, iter.bucket)
  BY DEF Advance
<1>2. CASE iter' = NoIterator /\ seen' = <<>>
  BY <1>1, <1>2, OnlyIterates DEF Iterating
<1>3. CASE /\ mem.bucket[iter.bucket].next # NULL
           /\ iter' = [iter EXCEPT !.bucket = mem.bucket[iter.bucket].next]
           /\ seen' = Append(seen, iter.bucket)
  <2>1. /\ iter \in [ht : Tables, bucket : Addresses] /\ iter.ht \in DOMAIN mem.table
        /\ DOMAIN mem.table \cap Copies = {} /\ \E p : Behind(ord[iter.ht], p, iter.bucket, seen)
    BY <1>1 DEF Iterating, NoIterator
  <2>2. PICK p : Behind(ord[iter.ht], p, iter.bucket, seen)
    BY <2>1
  <2>3. PICK s, k : s = ord[iter.ht] /\ k = mem.table[iter.ht].count
    OBVIOUS
  <2>4. Order(s, k) /\ \A i \in 1 .. k : mem.bucket[s[i]].next = At(s, i + 1)
    BY <2>1, <2>3, OrderIs, TableWhole DEF Whole, InOrder
  <2>5. /\ k \in Nat /\ s \in [1 .. k -> Addresses] /\ p \in 1 .. k /\ iter.bucket = s[p]
        /\ seen = [i \in 1 .. p - 1 |-> s[i]]
    BY <2>2, <2>3, <2>4 DEF Order, Behind
  <2>6. p + 1 \in 1 .. k /\ mem.bucket[iter.bucket].next = s[p + 1]
    BY <1>3, <2>4, <2>5 DEF At
  <2>7. seen' = [i \in 1 .. (p + 1) - 1 |-> s[i]]
    <3>1. p - 1 \in Nat /\ seen \in [1 .. p - 1 -> Addresses] /\ \A i \in 1 .. p - 1 : seen[i] = s[i]
      BY <2>5
    <3>2. More(seen', p - 1, Addresses, seen, s[p])
      BY <1>3, <2>5, <3>1, AppendIs
    <3>3. DOMAIN seen' = 1 .. p /\ seen' = [i \in 1 .. p |-> seen'[i]]
      BY <2>5, <3>2 DEF More
    <3>4. \A i \in 1 .. p : seen'[i] = s[i]
      <4>1. \A i \in 1 .. p : i = p \/ i \in 1 .. p - 1
        BY <2>5
      <4>2. seen'[p] = s[p] /\ \A i \in 1 .. p - 1 : seen'[i] = seen[i]
        BY <2>5, <3>2 DEF More
      <4>. QED
        BY <3>1, <4>1, <4>2
    <3>. QED
      BY <2>5, <3>3, <3>4
  <2>8. PICK n \in Addresses : n = mem.bucket[iter.bucket].next
    BY <2>5, <2>6
  <2>9. iter' \in [ht : Tables, bucket : Addresses] /\ iter'.ht = iter.ht /\ iter'.bucket = n
    BY <1>3, <2>1, <2>8
  <2>10. Behind(s, p + 1, n, seen')
    BY <2>5, <2>6, <2>7, <2>8 DEF Behind
  <2>11. Iterating(mem, iter', seen', ord)
    BY <2>1, <2>3, <2>9, <2>10 DEF Iterating
  <2>. QED
    BY <1>1, <2>11, OnlyIterates
<1>. QED
  BY <1>1, <1>2, <1>3

LEMMA NextSteps ==
  ASSUME TablesAssumption, KeysAssumption, NEW ord, Sound(mem, ord), Iterating(mem, iter, seen, ord), [Next]_vars
  PROVE  \E ord2 : Steps(mem, ord, mem', iter', seen', ord2)
<1>1. ASSUME NEW t \in Tables, Create(t) PROVE \E ord2 : Steps(mem, ord, mem', iter', seen', ord2)
  BY <1>1, CreateStep
<1>2. ASSUME NEW t \in Tables, Destroy(t) PROVE \E ord2 : Steps(mem, ord, mem', iter', seen', ord2)
  BY <1>2, DestroyStep
<1>3. ASSUME NEW t \in Tables, Rewind(t) PROVE \E ord2 : Steps(mem, ord, mem', iter', seen', ord2)
  BY <1>3, RewindStep
<1>4. ASSUME NEW s \in Tables, NEW t \in Tables, NEW cow \in BOOLEAN, Copy(s, t, cow)
      PROVE  \E ord2 : Steps(mem, ord, mem', iter', seen', ord2)
  BY <1>4, CopyStep
<1>5. ASSUME NEW t \in Tables, NEW k \in Keys, RemoveKey(t, k)
      PROVE  \E ord2 : Steps(mem, ord, mem', iter', seen', ord2)
  BY <1>5, RemoveStep
<1>6. ASSUME NEW t \in Tables, NEW k \in Keys, NEW v \in Values, AddKey(t, k, v)
      PROVE  \E ord2 : Steps(mem, ord, mem', iter', seen', ord2)
  BY <1>6, AddStep
<1>7. ASSUME NEW t \in Tables, NEW k \in Keys, NEW v \in Values, ReplaceKey(t, k, v)
      PROVE  \E ord2 : Steps(mem, ord, mem', iter', seen', ord2)
  BY <1>7, ReplaceStep
<1>8. CASE Advance
  BY <1>8, AdvanceStep
<1>9. CASE Leave
  BY <1>9, OnlyIterates DEF Leave, Iterating
<1>10. CASE UNCHANGED vars
  BY <1>10, OnlyIterates DEF vars
<1>. QED
  BY <1>1, <1>2, <1>3, <1>4, <1>5, <1>6, <1>7, <1>8, <1>9, <1>10 DEF Next
-----------------------------------------------------------------------------
(* The behaviours.                                                         *)

\* The inductive invariant: the tables have orders, and the iterator has a place
\* in one of them.
Ordered == \E ord : Sound(mem, ord) /\ Iterating(mem, iter, seen, ord)

\* Of no table there is an order.
LEMMA InitSound ==
  ASSUME TablesAssumption, Init
  PROVE  Sound(mem, <<>>) /\ Iterating(mem, iter, seen, <<>>)
<1>1. /\ mem = EmptyMemory /\ iter = NoIterator /\ seen = <<>>
      /\ mem.bucket = <<>> /\ mem.array = <<>> /\ mem.table = <<>>
  BY DEF Init, EmptyMemory
<1>2. DOMAIN mem.bucket = {} /\ DOMAIN mem.array = {} /\ DOMAIN mem.table = {}
  BY <1>1
<1>3. Owners(mem) = {}
  BY <1>2 DEF Owners
<1>4. Allocated(mem.bucket)
  BY <1>1, <1>2 DEF Allocated
<1>5. mem.table \in [DOMAIN mem.table -> Table] /\ mem.array = [t \in DOMAIN mem.array |-> mem.array[t]]
  BY <1>1, <1>2
<1>6. mem = Memory(mem.bucket, mem.array, mem.table)
  BY <1>1 DEF EmptyMemory, Memory
<1>7. Typed(mem)
  BY <1>2, <1>4, <1>5, <1>6 DEF Typed
<1>8. Shared(mem, <<>>)
  BY <1>2, <1>3 DEF Shared
<1>9. <<>> = [t \in DOMAIN mem.table |-> <<>>[t]]
  BY <1>2
<1>10. Sound(mem, <<>>)
  BY <1>2, <1>3, <1>7, <1>8, <1>9 DEF Sound
<1>. QED
  BY <1>1, <1>10 DEF Iterating

\* What the tables of m show.
ContentsOf(m) ==
    [t \in DOMAIN m.table |->
        LET Show[e \in Seq(Addresses)] == [i \in DOMAIN e |-> EntryIn(m.bucket, e[i])]
        IN Show[Elements(m, t)]]

\* The refinement mapping reads the memory only.
LEMMA ContentsAre == Contents = ContentsOf(mem) /\ Contents' = ContentsOf(mem')
<1>1. Contents = ContentsOf(mem)
  BY Zenon DEF Contents, ContentsOf, Shown, Entry, EntryIn
<1>2. Contents' = ContentsOf(mem')
  BY Zenon DEF Contents, ContentsOf, Shown, Entry, EntryIn
<1>. QED
  BY <1>1, <1>2

\* It reads it in the order.
LEMMA ContentsShow ==
  ASSUME TablesAssumption, NEW m, NEW ord, Sound(m, ord)
  PROVE  ContentsOf(m) = Shows(m, ord)
<1> DEFINE Body(e) == [i \in DOMAIN e |-> EntryIn(m.bucket, e[i])]
           Show == CHOOSE f : f = [e \in Seq(Addresses) |-> Body(e)]
<1>1. ContentsOf(m) = [t \in DOMAIN m.table |-> Show[Elements(m, t)]]
  BY Zenon DEF ContentsOf
<1>2. Show = [e \in Seq(Addresses) |-> Body(e)]
  <2> DEFINE g == [e \in Seq(Addresses) |-> Body(e)]
  <2>1. \E f : f = g
    OBVIOUS
  <2>. QED
    BY <2>1, Zenon
<1> HIDE DEF Show
<1>3. ASSUME NEW t \in DOMAIN m.table PROVE Show[Elements(m, t)] = Listed(m.bucket, ord[t])
  <2>1. Elements(m, t) = ord[t] /\ ord[t] \in Seq(Addresses)
    BY ElementsRead
  <2>2. Show[ord[t]] = Body(ord[t])
    BY <1>2, <2>1
  <2>. QED
    BY <2>1, <2>2 DEF Listed
<1>4. ContentsOf(m) = [t \in DOMAIN m.table |-> Listed(m.bucket, ord[t])]
  BY <1>1, <1>3
<1>5. DOMAIN ord = DOMAIN m.table
  BY DEF Sound
<1>. QED
  BY <1>4, <1>5 DEF Shows

\* A step of the entries is one that Map allows.
LEMMA MapNext ==
  ASSUME Contents = [t \in DOMAIN Contents |-> Contents[t]], MapStep(Contents, Contents')
  PROVE  [Promised!Next]_Contents
<1> DEFINE x == Contents
           y == Contents'
<1>1. \A t, s : y = Bind(x, t, s) <=> Promised!Set(t, s)
  BY DEF Promised!Set, Bind
<1>2. ASSUME NEW t \in Tables \ DOMAIN x, y = Bind(x, t, <<>>) PROVE Promised!Create(t)
  BY <1>1, <1>2 DEF Promised!Create
<1>3. ASSUME NEW t \in Tables \ DOMAIN x, NEW s \in Tables \cap DOMAIN x, y = Bind(x, t, x[s])
      PROVE  Promised!Duplicate(s, t)
  BY <1>1, <1>3 DEF Promised!Duplicate
<1>4. ASSUME NEW t \in Tables \cap DOMAIN x, y = Free(x, {t}) PROVE Promised!Destroy(t)
  BY <1>4 DEF Promised!Destroy, Free
<1>5. \A e, k, e2 : LessOne(e, k, e2) =>
        IF Promised!Has(e, k) THEN e2 \in Promised!Without(e, k) ELSE e2 = e
  <2> SUFFICES ASSUME NEW e, NEW k, NEW e2, LessOne(e, k, e2)
               PROVE  IF Promised!Has(e, k) THEN e2 \in Promised!Without(e, k) ELSE e2 = e
    OBVIOUS
  <2>1. CASE e2 = e /\ \A i \in DOMAIN e : e[i][1] # k
    BY <2>1 DEF Promised!Has
  <2>2. CASE \E p \in DOMAIN e : e[p][1] = k /\ e2 = RemoveAt(e, p)
    <3>1. PICK p \in DOMAIN e : e[p][1] = k /\ e2 = RemoveAt(e, p)
      BY <2>2
    <3>2. RemoveAt(e, p) = Promised!RemoveAt(e, p)
      BY DEF RemoveAt, Promised!RemoveAt
    <3>3. Promised!Has(e, k)
      BY <3>1 DEF Promised!Has
    <3>4. e2 \in Promised!Without(e, k)
      BY <3>1, <3>2 DEF Promised!Without
    <3>. QED
      BY <3>3, <3>4
  <2>. QED
    BY <2>1, <2>2 DEF LessOne
<1>6. ASSUME NEW t \in Tables \cap DOMAIN x, NEW k \in Keys, NEW e, LessOne(x[t], k, e), y = Bind(x, t, e)
      PROVE  Promised!Delete(t, k) 
  <2>1. CASE Promised!Has(x[t], k)
    <3>1. e \in Promised!Without(x[t], k)
      BY <1>5, <1>6, <2>1
    <3>. QED
      BY <1>1, <1>6, <2>1, <3>1 DEF Promised!Delete
  <2>2. CASE ~Promised!Has(x[t], k)
    <3>1. e = x[t]
      BY <1>5, <1>6, <2>2
    <3>2. Bind(x, t, x[t]) = x
      BY DEF Bind
    <3>3. y = x
      BY <1>6, <3>1, <3>2
    <3>. QED
      BY <2>2, <3>3 DEF Promised!Delete
  <2>. QED
    BY <2>1, <2>2
<1>7. ASSUME NEW t \in Tables \cap DOMAIN x, NEW k \in Keys, NEW v \in Values, y = Bind(x, t, Append(x[t], <<k, v>>))
      PROVE  Promised!Add(t, k, v)
  BY <1>1, <1>7 DEF Promised!Add
<1>8. ASSUME NEW t \in Tables \cap DOMAIN x, NEW k \in Keys, NEW v \in Values, NEW e,
             LessOne(x[t], k, e), y = Bind(x, t, Append(e, <<k, v>>))
      PROVE  Promised!Put(t, k, v)
  <2>1. e \in IF Promised!Has(x[t], k) THEN Promised!Without(x[t], k) ELSE {x[t]}
    BY <1>5, <1>8
  <2>2. Promised!Set(t, Append(e, <<k, v>>))
    BY <1>1, <1>8
  <2>. QED
    BY <2>1, <2>2 DEF Promised!Put
<1>. HIDE DEF x, y
<1>9. CASE y = x
  BY <1>9 DEF x, y
<1>10. CASE \E t \in Tables \ DOMAIN x : y = Bind(x, t, <<>>) \/ \E s \in Tables \cap DOMAIN x : y = Bind(x, t, x[s])
  BY <1>2, <1>3, <1>10 DEF Promised!Next
<1>11. CASE \E t \in Tables \cap DOMAIN x : y = Free(x, {t})
  BY <1>4, <1>11 DEF Promised!Next
<1>12. CASE \E t \in Tables \cap DOMAIN x, k \in Keys : \E e : LessOne(x[t], k, e) /\ y = Bind(x, t, e)
  BY <1>6, <1>12 DEF Promised!Next
<1>13. CASE \E t \in Tables \cap DOMAIN x, k \in Keys, v \in Values : y = Bind(x, t, Append(x[t], <<k, v>>))
  BY <1>7, <1>13 DEF Promised!Next
<1>14. CASE \E t \in Tables \cap DOMAIN x, k \in Keys, v \in Values : \E e :
              LessOne(x[t], k, e) /\ y = Bind(x, t, Append(e, <<k, v>>))
  BY <1>8, <1>14 DEF Promised!Next
<1>. QED
  BY <1>9, <1>10, <1>11, <1>12, <1>13, <1>14 DEF MapStep, x, y

\* The orders stay, and what the tables show changes as Map says.
LEMMA OrderedStep ==
  ASSUME TablesAssumption, KeysAssumption, Ordered, [Next]_vars
  PROVE  Ordered' /\ [Promised!Next]_Contents
<1>1. PICK ord : Sound(mem, ord) /\ Iterating(mem, iter, seen, ord)
  BY DEF Ordered
<1>2. PICK ord2 : Steps(mem, ord, mem', iter', seen', ord2)
  BY <1>1, NextSteps
<1>3. Sound(mem', ord2) /\ Iterating(mem', iter', seen', ord2) /\ MapStep(Shows(mem, ord), Shows(mem', ord2))
  BY <1>2 DEF Steps
<1>4. Ordered'
  BY <1>3 DEF Ordered
<1>5. ContentsOf(mem) = Shows(mem, ord) /\ ContentsOf(mem') = Shows(mem', ord2)
  BY <1>1, <1>3, ContentsShow
<1>6. MapStep(Contents, Contents')
  BY <1>3, <1>5, ContentsAre
<1>7. Contents = [t \in DOMAIN Contents |-> Contents[t]]
  BY DEF Contents
<1>. QED
  BY <1>4, <1>6, <1>7, MapNext

\* Some orders of the buckets are always the tables.
THEOREM TablesOrdered == ASSUME TablesAssumption, KeysAssumption PROVE Spec => []Ordered
<1>1. Init => Ordered
  BY InitSound DEF Ordered
<1>2. Ordered /\ [Next]_vars => Ordered'
  BY OrderedStep
<1>. QED
  BY <1>1, <1>2, PTL DEF Spec

\* hashtable.c: no table refers to a bucket or an array that has been freed.
THEOREM TablesTyped == ASSUME TablesAssumption, KeysAssumption PROVE Spec => []TypeOK
<1>1. Ordered => TypeOK
  BY SoundTypes DEF Ordered, Iterating, NoIterator
<1>. QED
  BY <1>1, TablesOrdered, PTL

\* hashtable.c, chained.c: forwards, backwards and chain by chain a table holds
\* the same buckets.
THEOREM TablesLinked == ASSUME TablesAssumption, KeysAssumption PROVE Spec => []Linked
<1>1. Ordered => Linked
  BY SoundAgrees DEF Ordered, Linked, Agreeing
<1>. QED
  BY <1>1, TablesOrdered, PTL

\* hashtable.c: every bucket and array is one table's to free.
THEOREM TablesLoseNothing == ASSUME TablesAssumption, KeysAssumption PROVE Spec => []NothingLost
<1>1. Ordered => NothingLost
  BY SoundNothingLost DEF Ordered
<1>. QED
  BY <1>1, TablesOrdered, PTL

\* ht_iter: a loop over a table meets every element once and in order.
THEOREM TablesIterated == ASSUME TablesAssumption, KeysAssumption PROVE Spec => []IterationSound
<1>1. Ordered => IterationSound
  BY SoundIteration DEF Ordered
<1>. QED
  BY <1>1, TablesOrdered, PTL

\* hashtable.h: tables behave like separate sequences of entries.
THEOREM TablesAreMaps == ASSUME TablesAssumption, KeysAssumption PROVE Spec => ImplementsMap
<1>1. Init => Promised!Init
  <2> SUFFICES ASSUME Init PROVE Contents = <<>>
    BY DEF Promised!Init
  <2>1. DOMAIN mem.table = {}
    BY DEF Init, EmptyMemory
  <2>2. DOMAIN Contents = {} /\ Contents = [t \in DOMAIN Contents |-> Contents[t]]
    BY <2>1 DEF Contents
  <2> HIDE DEF Contents
  <2>. QED
    BY <2>2
<1>2. Ordered /\ [Next]_vars => [Promised!Next]_Contents
  BY OrderedStep
<1>. QED
  BY <1>1, <1>2, TablesOrdered, PTL DEF Spec, ImplementsMap, Promised!Spec
=============================================================================
