------------------------ MODULE Collections_proofs --------------------------
(***************************************************************************)
(* The indices of lists and tuples are dense and shuffling a list only     *)
(* moves its elements, for any number of collections, objects and          *)
(* addresses.                                                              *)
(*                                                                         *)
(* No collection shares its table, so that the memory is given by the      *)
(* entries of each in order (Holds): what the operations of hashtable.c do *)
(* to those follows from the lemmas about memories.  The inductive         *)
(* invariant (Kept) says that the keys of a list or a tuple are a          *)
(* permutation of its indices, so that it is an array of values (Indexed), *)
(* and that those of a hash are objects.                                   *)
(***************************************************************************)
EXTENDS Collections, HashTableOps_proofs

LEMMA AssumptionIs ==
  ASSUME CollectionsAssumption
  PROVE  /\ TablesAssumption /\ Copies = {} /\ Objects \subseteq Keys
         /\ Cardinality(Addresses) \in Nat
         /\ \A k \in 0 .. Cardinality(Addresses) : k \in Keys \ ObjectKeys
         /\ Values = Objects \cup {NULL}
         /\ \A s \in Initial : s \in Seq(Objects)
<1>1. IsFiniteSet(Addresses)
  BY DEF CollectionsAssumption, TablesAssumption
<1>2. Cardinality(Addresses) \in Nat
  BY <1>1, FS_CardinalityType
<1>. QED
  BY <1>2 DEF CollectionsAssumption, Objects

-----------------------------------------------------------------------------
(* What the operations make of the entries.                                *)

\* The tables of a memory show the entries f.
Holds(m, f) == \E ord : Sound(m, ord) /\ Shows(m, ord) = f

\* Every table is its own.
LEMMA NoneShared ==
  ASSUME CollectionsAssumption, NEW m, NEW ord, Sound(m, ord)
  PROVE  /\ Owners(m) = DOMAIN m.table
         /\ \A t : Alone(m, t)
         /\ \A t \in DOMAIN m.table : Owned(m, t) = m /\ Needed(m, t) = 0
<1>1. \A t \in DOMAIN m.table : ~m.table[t].cow
  BY AssumptionIs DEF Sound, Borrows
<1>. QED
  BY <1>1 DEF Owners, Alone, Owned, Needed

\* e are the entries of table t.
Entries(m, t, e) ==
    LET n == m.table[t].count
    IN /\ n \in 0 .. Cardinality(Addresses) /\ e \in [1 .. n -> Keys \X Values]
       /\ DOMAIN Elements(m, t) = 1 .. n /\ Len(Elements(m, t)) = n
       /\ \A i \in 1 .. n : /\ e[i] = <<e[i][1], e[i][2]>>
                            /\ m.bucket[Elements(m, t)[i]].key = e[i][1]
                            /\ m.bucket[Elements(m, t)[i]].value = e[i][2]

LEMMA HoldsRead ==
  ASSUME CollectionsAssumption, NEW m, NEW f, Holds(m, f)
  PROVE  /\ DOMAIN f = DOMAIN m.table /\ DOMAIN m.table \subseteq Tables
         /\ f = [t \in DOMAIN f |-> f[t]]
         /\ \A t \in DOMAIN f : Entries(m, t, f[t])
<1>1. PICK ord : Sound(m, ord) /\ Shows(m, ord) = f
  BY DEF Holds
<1>2. /\ DOMAIN f = DOMAIN m.table /\ DOMAIN m.table \subseteq Tables
      /\ \A t \in DOMAIN m.table : f[t] = Listed(m.bucket, ord[t])
  BY <1>1, ShowsIs
<1>3. f = [t \in DOMAIN f |-> f[t]]
  <2>1. f = [t \in DOMAIN ord |-> Listed(m.bucket, ord[t])]
    BY <1>1, Zenon DEF Shows
  <2>. QED
    BY ONLY <2>1
<1>4. ASSUME NEW t \in DOMAIN f PROVE Entries(m, t, f[t])
  <2>1. PICK n, s : n = m.table[t].count /\ s = ord[t]
    OBVIOUS
  <2>2. /\ Elements(m, t) = s /\ Len(s) = n /\ s \in [1 .. n -> DOMAIN m.bucket]
        /\ n \in 0 .. Cardinality(Addresses)
    BY <1>1, <1>2, <2>1, AssumptionIs, ElementsRead
  <2>3. \A x \in DOMAIN m.bucket : m.bucket[x].key \in Keys /\ m.bucket[x].value \in Values
    BY <1>1 DEF Sound, Typed, Allocated, Bucket
  <2>4. f[t] = [i \in 1 .. n |-> <<m.bucket[s[i]].key, m.bucket[s[i]].value>>]
    BY <1>2, <2>1, <2>2 DEF Listed, EntryIn
  <2>. QED
    BY <2>1, <2>2, <2>3, <2>4 DEF Entries
<1>. QED
  BY <1>2, <1>3, <1>4

LEMMA HoldsBecame ==
  ASSUME NEW m, NEW ord, NEW t, NEW m2, NEW s, NEW e, Became(m, ord, t, m2, s, e)
  PROVE  Holds(m2, Bind(Shows(m, ord), t, e))
BY DEF Holds, Became

LEMMA HoldsNothing == Holds(EmptyMemory, <<>>)
<1> DEFINE m == EmptyMemory
<1>1. DOMAIN m.bucket = {} /\ DOMAIN m.array = {} /\ DOMAIN m.table = {} /\ m = Memory(m.bucket, m.array, m.table)
  BY DEF EmptyMemory, Memory
<1>2. Owners(m) = {}
  BY <1>1 DEF Owners
<1>3. Allocated(m.bucket)
  BY <1>1 DEF Allocated, EmptyMemory
<1>4. m.table \in [DOMAIN m.table -> Table] /\ m.array = [t \in DOMAIN m.array |-> m.array[t]]
  BY <1>1 DEF EmptyMemory
<1>5. Typed(m) /\ Shared(m, <<>>)
  BY <1>1, <1>2, <1>3, <1>4 DEF Typed, Shared
<1>6. <<>> = [t \in DOMAIN m.table |-> <<>>[t]]
  BY <1>1
<1>7. Sound(m, <<>>)
  BY <1>1, <1>2, <1>5, <1>6 DEF Sound
<1>8. Shows(m, <<>>) = <<>>
  BY DEF Shows
<1>. QED
  BY <1>7, <1>8 DEF Holds

LEMMA CreateHolds ==
  ASSUME CollectionsAssumption, NEW m, NEW f, Holds(m, f), NEW t \in Tables \ DOMAIN f, NEW n, HasRoom(m, n)
  PROVE  LET m2 == ht_create(m, t)
         IN Holds(m2, Bind(f, t, <<>>)) /\ HasRoom(m2, n) /\ m2.table[t].count = 0
<1>1. PICK ord : Sound(m, ord) /\ Shows(m, ord) = f
  BY DEF Holds
<1>2. t \in Tables \ DOMAIN m.table
  BY HoldsRead
<1>3. Holds(ht_create(m, t), Bind(f, t, <<>>))
  BY <1>1, <1>2, AssumptionIs, CreateBecomes, HoldsBecame
<1>4. m = Memory(m.bucket, m.array, m.table)
  BY <1>1 DEF Sound, Typed
<1>5. ht_create(m, t).bucket = m.bucket /\ ht_create(m, t).table[t].count = 0
  BY <1>4 DEF ht_create, Memory, Bind
<1>. QED
  BY <1>3, <1>5 DEF HasRoom

LEMMA GrownBuckets ==
  ASSUME NEW m, NEW t, m = Memory(m.bucket, m.array, m.table)
  PROVE  DOMAIN Grown(m, t).bucket = DOMAIN m.bucket
<1>1. \A e, n : DOMAIN Placed(m, t, e, n).bucket = DOMAIN m.bucket
  BY DEF Placed, Memory
<1>. QED
  BY <1>1 DEF Grown, chf_resize

\* A new element takes one bucket.
LEMMA AddRoom ==
  ASSUME CollectionsAssumption, NEW m, NEW ord, Sound(m, ord), NEW t, NEW k, NEW v,
         NEW n \in Nat, HasRoom(m, n + 1)
  PROVE  HasRoom(m, 1) /\ HasRoom(chf_add(m, t, k, v), n)
<1> DEFINE q == Fresh(m.bucket, 1)
<1>1. m = Memory(m.bucket, m.array, m.table)
  BY DEF Sound, Typed
<1>2. TablesAssumption
  BY AssumptionIs
<1>3. HasRoom(m, 1)
  <2>1. IsFiniteSet(Addresses \ DOMAIN m.bucket)
    BY <1>2, FS_Subset DEF TablesAssumption
  <2>2. Cardinality(Addresses \ DOMAIN m.bucket) \in Nat
    BY <2>1, FS_CardinalityType
  <2>. QED
    BY <2>2 DEF HasRoom
<1>4. NewOnes(m.bucket, 1, q)
  BY <1>2, <1>3, FreshIs DEF HasRoom, NewOnes
<1>5. DOMAIN q = {1}
  BY <1>4 DEF NewOnes
<1>6. ToSet(q) = {q[1]}
  BY <1>5 DEF ToSet
<1> HIDE DEF q
<1>7. DOMAIN chf_add(m, t, k, v).bucket = DOMAIN m.bucket \cup {q[1]}
  <2> DEFINE tail == m.table[t].tail
             last == At(Chain(m, t, k), Len(Chain(m, t, k)))
             new == [key |-> k, value |-> v, prev |-> tail, next |-> NULL, chained |-> NULL]
             b == [x \in DOMAIN m.bucket \cup {q[1]} |->
                     IF x = q[1] THEN new
                     ELSE [m.bucket[x] EXCEPT !.next = IF x = tail THEN q[1] ELSE @,
                                              !.chained = IF x = last THEN q[1] ELSE @]]
             tables == Bind(m.table, t, [m.table[t] EXCEPT !.head = IF @ = NULL THEN q[1] ELSE @,
                                                           !.tail = q[1], !.count = @ + 1])
             a == Bind(m.array, m.table[t].array,
                       [Heads(m, t) EXCEPT ![Slot(Heads(m, t), k)] = IF @ = NULL THEN q[1] ELSE @])
             base == [m EXCEPT !.bucket = b, !.table = tables, !.array = a]
  <2>1. chf_add(m, t, k, v) = Grown(base, t)
    BY DEF chf_add, q
  <2>5. DOMAIN b = DOMAIN m.bucket \cup {q[1]}
    OBVIOUS
  <2> HIDE DEF b, tables, a
  <2>2. base = Memory(b, a, tables)
    <3>1. PICK x : x = base
      OBVIOUS
    <3>2. x = [m EXCEPT !.bucket = b, !.table = tables, !.array = a]
      BY <3>1
    <3> HIDE DEF base
    <3>3. x = Memory(b, a, tables)
      BY <1>1, <3>2 DEF Memory
    <3>. QED
      BY <3>1, <3>3
  <2>3. Memory(b, a, tables).bucket = b /\ Memory(b, a, tables).array = a /\ Memory(b, a, tables).table = tables
    BY DEF Memory
  <2>4. DOMAIN Grown(Memory(b, a, tables), t).bucket = DOMAIN b
    BY <2>3, GrownBuckets
  <2>. QED
    BY <2>1, <2>2, <2>4, <2>5
<1>8. TookRoom(m, 1, chf_add(m, t, k, v), q)
  BY <1>4, <1>6, <1>7 DEF TookRoom
<1>9. HasRoom(chf_add(m, t, k, v), n)
  BY <1>2, <1>8, RoomLeft
<1>. QED
  BY <1>3, <1>9

LEMMA AddHolds ==
  ASSUME CollectionsAssumption, NEW m, NEW f, Holds(m, f), NEW t \in DOMAIN f,
         NEW n \in Nat, HasRoom(m, n + 1), NEW k \in Keys, NEW v \in Values
  PROVE  LET m2 == ht_add(m, t, k, v)
         IN Holds(m2, Bind(f, t, Append(f[t], <<k, v>>))) /\ HasRoom(m2, n)
<1>1. PICK ord : Sound(m, ord) /\ Shows(m, ord) = f
  BY DEF Holds
<1>2. t \in DOMAIN m.table
  BY HoldsRead
<1>3. Owners(m) = DOMAIN m.table /\ Alone(m, t) /\ Owned(m, t) = m
  BY <1>1, <1>2, NoneShared
<1>4. HasRoom(m, 1) /\ HasRoom(chf_add(m, t, k, v), n)
  BY <1>1, AddRoom
<1>5. f[t] = Listed(m.bucket, ord[t])
  BY <1>1, <1>2, ShowsIs
<1>6. PICK x : Became(m, ord, t, chf_add(m, t, k, v), Append(ord[t], x), Append(f[t], <<k, v>>))
  BY <1>1, <1>2, <1>3, <1>4, <1>5, AssumptionIs, AddBecomes
<1>7. Holds(chf_add(m, t, k, v), Bind(f, t, Append(f[t], <<k, v>>)))
  BY <1>1, <1>6, HoldsBecame
<1>. QED
  BY <1>3, <1>4, <1>7 DEF ht_add

LEMMA DestroyHolds ==
  ASSUME CollectionsAssumption, NEW m, NEW f, Holds(m, f), NEW t \in DOMAIN f
  PROVE  Holds(ht_destroy(m, t), Free(f, {t}))
<1>1. PICK ord : Sound(m, ord) /\ Shows(m, ord) = f
  BY DEF Holds
<1>2. t \in DOMAIN m.table /\ Alone(m, t)
  BY <1>1, HoldsRead, NoneShared
<1>3. Sound(ht_destroy(m, t), Free(ord, {t})) /\ Shows(ht_destroy(m, t), Free(ord, {t})) = Free(f, {t})
  BY <1>1, <1>2, AssumptionIs, DestroyedSound
<1>. QED
  BY ONLY <1>3 DEF Holds

\* Whichever bucket is taken for the one of the key is one of the table.
LEMMA ToRemoveIs ==
  ASSUME CollectionsAssumption, NEW m, NEW ord, Sound(m, ord), NEW t \in DOMAIN m.table, NEW k \in Keys
  PROVE  \/ ToRemove(m, t, k) = NULL
         \/ \E p \in 1 .. m.table[t].count : ToRemove(m, t, k) = ord[t][p]
<1> DEFINE chain == Chain(m, t, k)
           S == ToSet(ord[t])
           I == {i \in DOMAIN chain : (m.bucket[chain[i]].key = k) <=> (k \notin ObjectKeys)}
<1>0. TablesAssumption /\ Owners(m) = DOMAIN m.table
  BY AssumptionIs, NoneShared
<1>1. InOrder(m.bucket, m.table[t], ord[t]) /\ HungIn(m.bucket, m.array[t], S)
  BY <1>0 DEF Sound, Owns, Whole
<1>2. PICK n, top, r : Hung(m.bucket, m.array[t], S, n, top, r)
  BY <1>1 DEF HungIn
<1>3. chain \in Seq(S)
  BY <1>0, <1>2, LastOfChain
<1> HIDE DEF chain, S
<1>4. PICK l \in Nat : DOMAIN chain = 1 .. l
  BY <1>3, LenProperties
<1>5. ToRemove(m, t, k) = First(chain, I)
  BY DEF ToRemove, chain
<1>6. I \in SUBSET (1 .. l)
  BY <1>4
<1> HIDE DEF I
<1>7. First(chain, I) = NULL \/ \E i \in I : First(chain, I) = chain[i]
  BY <1>6, FirstIs
<1>8. \A i \in I : chain[i] \in S
  BY <1>3, <1>4, <1>6, ElementOfSeq, LenProperties
<1>9. \A x \in S : \E p \in 1 .. m.table[t].count : x = ord[t][p]
  BY <1>1 DEF InOrder, ToSet, S
<1>. QED
  BY <1>5, <1>7, <1>8, <1>9

LEMMA RemoveHolds ==
  ASSUME CollectionsAssumption, NEW m, NEW f, Holds(m, f), NEW t \in DOMAIN f, NEW k \in Keys
  PROVE  \/ Holds(ht_remove(m, t, k), f)
         \/ \E p \in 1 .. m.table[t].count : Holds(ht_remove(m, t, k), Bind(f, t, RemoveAt(f[t], p)))
<1>1. PICK ord : Sound(m, ord) /\ Shows(m, ord) = f
  BY DEF Holds
<1>2. t \in DOMAIN m.table
  BY HoldsRead
<1>3. /\ Owners(m) = DOMAIN m.table /\ Alone(m, t) /\ Owned(m, t) = m
      /\ f[t] = Listed(m.bucket, ord[t]) /\ TablesAssumption
  BY <1>1, <1>2, NoneShared, ShowsIs, AssumptionIs
<1>4. ht_remove(m, t, k) = IF ToRemove(m, t, k) = NULL THEN m ELSE Removed(m, t, ToRemove(m, t, k))
  BY <1>3 DEF ht_remove, chf_remove
<1>5. CASE ToRemove(m, t, k) = NULL
  BY <1>4, <1>5
<1>6. CASE ToRemove(m, t, k) # NULL
  <2>1. PICK p \in 1 .. m.table[t].count : ToRemove(m, t, k) = ord[t][p]
    BY <1>1, <1>2, <1>6, ToRemoveIs
  <2>2. Became(m, ord, t, Removed(m, t, ord[t][p]), RemoveAt(ord[t], p), RemoveAt(f[t], p))
    BY <1>1, <1>2, <1>3, RemovedBecomes
  <2>3. Holds(Removed(m, t, ord[t][p]), Bind(f, t, RemoveAt(f[t], p)))
    BY <1>1, <2>2, HoldsBecame
  <2>. QED
    BY <1>4, <1>6, <2>1, <2>3
<1>. QED
  BY <1>5, <1>6

\* A key the table has is found, if no object.
LEMMA KeyFound ==
  ASSUME CollectionsAssumption, NEW m, NEW f, NEW ord, Sound(m, ord), Shows(m, ord) = f,
         NEW t \in DOMAIN f, NEW k \in Keys \ ObjectKeys,
         \E i \in 1 .. m.table[t].count : f[t][i][1] = k
  PROVE  \E p \in 1 .. m.table[t].count :
            /\ f[t][p][1] = k /\ ord[t][p] # NULL /\ ord[t][p] \in DOMAIN m.bucket
            /\ ToRemove(m, t, k) = ord[t][p] /\ find_bucket(m, t, k) = ord[t][p]
            /\ m.bucket[ord[t][p]].value = f[t][p][2]
<1>1. /\ t \in DOMAIN m.table /\ TablesAssumption /\ Owners(m) = DOMAIN m.table
      /\ f[t] = Listed(m.bucket, ord[t])
  <2>1. t \in DOMAIN m.table
    BY ShowsIs
  <2>. QED
    BY <2>1, ShowsIs, AssumptionIs, NoneShared
<1>2. ord[t] \in [1 .. m.table[t].count -> DOMAIN m.bucket]
  BY <1>1, ElementsRead
<1>3. \A i \in 1 .. m.table[t].count : f[t][i][1] = m.bucket[ord[t][i]].key /\ f[t][i][2] = m.bucket[ord[t][i]].value
  <2>1. f[t] = [i \in 1 .. m.table[t].count |-> <<m.bucket[ord[t][i]].key, m.bucket[ord[t][i]].value>>]
    BY <1>1, <1>2 DEF Listed, EntryIn
  <2>. QED
    BY <2>1
<1>4. find_bucket(m, t, k) = ToRemove(m, t, k) /\ Found(m, ord, t, k, ToRemove(m, t, k))
  BY <1>1, FoundIs
<1>5. NULL \notin DOMAIN m.bucket
  <2>1. Allocated(m.bucket)
    BY DEF Sound, Typed
  <2>. QED
    BY <1>1, <2>1, AllocatedFinite
<1>6. PICK p \in 1 .. m.table[t].count : ord[t][p] = ToRemove(m, t, k) /\ m.bucket[ord[t][p]].key = k
  BY <1>3, <1>4 DEF Found
<1>7. ord[t][p] \in DOMAIN m.bucket /\ ord[t][p] # NULL
  BY <1>2, <1>5
<1>. QED
  BY <1>3, <1>4, <1>6, <1>7

LEMMA FindHolds ==
  ASSUME CollectionsAssumption, NEW m, NEW f, Holds(m, f), NEW t \in DOMAIN f, NEW k \in Keys \ ObjectKeys,
         \E i \in 1 .. m.table[t].count : f[t][i][1] = k
  PROVE  /\ find_bucket(m, t, k) # NULL
         /\ \E p \in 1 .. m.table[t].count : f[t][p][1] = k /\ ht_find(m, t, k) = f[t][p][2]
<1>1. PICK ord : Sound(m, ord) /\ Shows(m, ord) = f
  BY DEF Holds
<1>2. PICK p \in 1 .. m.table[t].count :
            /\ f[t][p][1] = k /\ ord[t][p] # NULL /\ find_bucket(m, t, k) = ord[t][p]
            /\ m.bucket[ord[t][p]].value = f[t][p][2]
  BY <1>1, KeyFound
<1>. QED
  BY <1>2 DEF ht_find, ht_exists

\* The bucket of the old value makes room for the new one.
LEMMA ReplaceHolds ==
  ASSUME CollectionsAssumption, NEW m, NEW f, Holds(m, f), NEW t \in DOMAIN f,
         NEW k \in Keys \ ObjectKeys, NEW v \in Values,
         \E i \in 1 .. m.table[t].count : f[t][i][1] = k
  PROVE  \E p \in 1 .. m.table[t].count :
            /\ f[t][p][1] = k
            /\ Holds(ht_replace(m, t, k, v), Bind(f, t, Append(RemoveAt(f[t], p), <<k, v>>)))
<1>1. PICK ord : Sound(m, ord) /\ Shows(m, ord) = f
  BY DEF Holds
<1>2. PICK p \in 1 .. m.table[t].count :
            /\ f[t][p][1] = k /\ ord[t][p] # NULL /\ ord[t][p] \in DOMAIN m.bucket
            /\ ToRemove(m, t, k) = ord[t][p] /\ find_bucket(m, t, k) = ord[t][p]
  BY <1>1, KeyFound
<1> DEFINE n == ord[t][p]
           rest == Removed(m, t, n)
           e == RemoveAt(f[t], p)
<1>3. /\ t \in DOMAIN m.table /\ Owners(m) = DOMAIN m.table /\ Alone(m, t) /\ Owned(m, t) = m
      /\ TablesAssumption /\ f[t] = Listed(m.bucket, ord[t])
  <2>1. t \in DOMAIN m.table
    BY <1>1, ShowsIs
  <2>. QED
    BY <1>1, <2>1, NoneShared, AssumptionIs, ShowsIs
<1>4. ht_replace(m, t, k, v) = chf_add(rest, t, k, v)
  BY <1>2, <1>3 DEF ht_replace, ht_exists, chf_remove
<1>5. Holds(rest, Bind(f, t, e))
  <2>1. Became(m, ord, t, Removed(m, t, ord[t][p]), RemoveAt(ord[t], p), RemoveAt(Listed(m.bucket, ord[t]), p))
    BY <1>1, <1>3, RemovedBecomes
  <2>. QED
    BY <1>1, <1>3, <2>1, HoldsBecame
<1>6. HasRoom(rest, 0 + 1)
  <2>1. m = Memory(m.bucket, m.array, m.table) /\ DOMAIN m.bucket \subseteq Addresses
    BY <1>1 DEF Sound, Typed, Allocated
  <2>2. DOMAIN rest.bucket = DOMAIN m.bucket \ {n}
    BY <2>1 DEF Removed, Memory
  <2>3. n \in Addresses \ DOMAIN rest.bucket
    BY <1>2, <2>1, <2>2
  <2> HIDE DEF rest, n
  <2>4. IsFiniteSet(Addresses \ DOMAIN rest.bucket)
    BY <1>3, FS_Subset DEF TablesAssumption
  <2>5. Cardinality(Addresses \ DOMAIN rest.bucket) \in Nat /\ Cardinality(Addresses \ DOMAIN rest.bucket) # 0
    BY <2>3, <2>4, FS_CardinalityType, FS_EmptySet
  <2>. QED
    BY <2>5 DEF HasRoom
<1>7. t \in DOMAIN Bind(f, t, e) /\ Bind(f, t, e)[t] = e /\ \A x : Bind(Bind(f, t, e), t, x) = Bind(f, t, x)
  BY DEF Bind
<1> HIDE DEF rest, e
<1>8. Holds(ht_add(rest, t, k, v), Bind(f, t, Append(e, <<k, v>>)))
  <2> DEFINE g == Bind(f, t, e)
  <2>1. Holds(rest, g) /\ t \in DOMAIN g /\ HasRoom(rest, 0 + 1) /\ 0 \in Nat
    BY <1>5, <1>6, <1>7
  <2>2. k \in Keys
    OBVIOUS
  <2> HIDE DEF g
  <2>3. Holds(ht_add(rest, t, k, v), Bind(g, t, Append(g[t], <<k, v>>)))
    BY <2>1, <2>2, AddHolds
  <2>. QED
    BY <1>7, <2>3 DEF g
<1>9. ht_add(rest, t, k, v) = chf_add(rest, t, k, v)
  <2>1. PICK o : Sound(rest, o) /\ Shows(rest, o) = Bind(f, t, e)
    BY <1>5 DEF Holds
  <2>2. t \in DOMAIN rest.table
    BY <1>7, <2>1, ShowsIs
  <2>3. Owned(rest, t) = rest
    BY <2>1, <2>2, NoneShared
  <2>. QED
    BY <2>3 DEF ht_add
<1>. QED
  BY <1>2, <1>4, <1>8, <1>9 DEF e

-----------------------------------------------------------------------------
(* The entries of a list or a tuple are an array of values.                *)

\* Every index below n is the key of one of the n entries e, its value in g.
Indexed(e, n, g) ==
    /\ n \in Nat /\ e \in [1 .. n -> (0 .. n - 1) \X Values] /\ g \in [0 .. n - 1 -> Values]
    /\ \A i, j \in 1 .. n : e[i][1] = e[j][1] => i = j
    /\ \A k \in 0 .. n - 1 : \E i \in 1 .. n : e[i][1] = k
    /\ \A i \in 1 .. n : e[i][2] = g[e[i][1]]

LEMMA IndexedNothing == Indexed(<<>>, 0, <<>>)
BY DEF Indexed

\* A new last element.
LEMMA IndexedMore ==
  ASSUME NEW e, NEW n, NEW g, Indexed(e, n, g), NEW v \in Values
  PROVE  Indexed(Append(e, <<n, v>>), n + 1, Bind(g, n, v))
<1> DEFINE e2 == Append(e, <<n, v>>)
           g2 == Bind(g, n, v)
<1>1. /\ n \in Nat /\ e \in [1 .. n -> (0 .. n - 1) \X Values] /\ g \in [0 .. n - 1 -> Values]
      /\ \A i \in 1 .. n : e[i][1] \in 0 .. n - 1 /\ e[i][2] \in Values
  BY DEF Indexed
<1>2. e2 \in [1 .. n + 1 -> ((0 .. n - 1) \X Values) \cup {<<n, v>>}] /\ e2[n + 1] = <<n, v>> /\ \A i \in 1 .. n : e2[i] = e[i]
  <2>1. More(Append(e, <<n, v>>), n, (0 .. n - 1) \X Values, e, <<n, v>>)
    BY <1>1, AppendIs
  <2>. QED
    BY <2>1 DEF More
<1>3. g2 \in [0 .. n -> Values] /\ g2[n] = v /\ \A k \in 0 .. n - 1 : g2[k] = g[k]
  BY <1>1 DEF Bind
<1> HIDE DEF e2, g2
<1>4. \A i \in 1 .. n + 1 : i = n + 1 \/ i \in 1 .. n
  BY <1>1
<1>5. \A k \in 0 .. n : k = n \/ k \in 0 .. n - 1
  BY <1>1
<1>6. ((0 .. n - 1) \X Values) \cup {<<n, v>>} \subseteq (0 .. n) \X Values
  BY <1>1
<1>7. e2 \in [1 .. n + 1 -> (0 .. n) \X Values]
  BY <1>2, <1>6
<1>8. \A i, j \in 1 .. n + 1 : e2[i][1] = e2[j][1] => i = j
  <2>1. e2[n + 1][1] = n /\ \A i \in 1 .. n : e2[i][1] # n
    BY <1>1, <1>2
  <2>2. \A i, j \in 1 .. n : e2[i][1] = e2[j][1] => i = j
    BY <1>2 DEF Indexed
  <2>. QED
    BY <1>4, <2>1, <2>2
<1>9. \A k \in 0 .. n : \E i \in 1 .. n + 1 : e2[i][1] = k
  <2>1. n + 1 \in 1 .. n + 1 /\ e2[n + 1][1] = n /\ \A i \in 1 .. n : i \in 1 .. n + 1
    BY <1>1, <1>2
  <2>2. \A k \in 0 .. n - 1 : \E i \in 1 .. n : e2[i][1] = k
    BY <1>2 DEF Indexed
  <2>. QED
    BY <1>5, <2>1, <2>2
<1>10. \A i \in 1 .. n + 1 : e2[i][2] = g2[e2[i][1]]
  <2>1. e2[n + 1][2] = g2[e2[n + 1][1]]
    BY <1>2, <1>3
  <2>2. \A i \in 1 .. n : e2[i][2] = g2[e2[i][1]]
    BY <1>1, <1>2, <1>3 DEF Indexed
  <2>. QED
    BY <1>4, <2>1, <2>2
<1>11. (n + 1) - 1 = n /\ n + 1 \in Nat
  BY <1>1
<1>. QED
  BY <1>3, <1>7, <1>8, <1>9, <1>10, <1>11 DEF Indexed, e2, g2

\* The element at an index is taken out and another one put in.
LEMMA IndexedOther ==
  ASSUME NEW e, NEW n, NEW g, Indexed(e, n, g), NEW v \in Values,
         NEW p \in 1 .. n, NEW k, e[p][1] = k
  PROVE  Indexed(Append(RemoveAt(e, p), <<k, v>>), n, [g EXCEPT ![k] = v])
<1> DEFINE l == n - 1
           E == (0 .. n - 1) \X Values
           e1 == TakenOut(e, n, p)
           e2 == Append(e1, <<k, v>>)
           g2 == [g EXCEPT ![k] = v]
           J(i) == IF i = n THEN p ELSE IF i < p THEN i ELSE i + 1
           I(j) == IF j = p THEN n ELSE IF j < p THEN j ELSE j - 1
<1>1. /\ n \in Nat /\ e \in [1 .. n -> E] /\ g \in [0 .. n - 1 -> Values] /\ l \in Nat /\ l + 1 = n
      /\ \A i \in 1 .. n : e[i][1] \in 0 .. n - 1 /\ e[i][2] \in Values
      /\ k \in 0 .. n - 1
  <2> HIDE DEF e1, e2, g2, J, I
  <2>1. n \in Nat /\ e \in [1 .. n -> E] /\ g \in [0 .. n - 1 -> Values]
    BY DEF Indexed
  <2>2. l \in Nat /\ l + 1 = n
    BY <2>1
  <2>3. \A i \in 1 .. n : e[i][1] \in 0 .. n - 1 /\ e[i][2] \in Values
    <3>1. \A x \in E : x[1] \in 0 .. n - 1 /\ x[2] \in Values
      OBVIOUS
    <3> HIDE DEF E
    <3>. QED
      BY <2>1, <3>1
  <2>. QED
    BY <2>1, <2>2, <2>3
<1>2. RemoveAt(e, p) = e1
  BY <1>1, RemoveAtIs
<1>3. e1 \in [1 .. l -> E] /\ \A i \in 1 .. l : J(i) \in 1 .. n /\ e1[i] = e[J(i)]
  BY <1>1 DEF TakenOut
<1>4. e2 \in [1 .. n -> E] /\ e2[n] = <<k, v>> /\ \A i \in 1 .. l : e2[i] = e[J(i)]
  <2> HIDE DEF e1, E, l, J
  <2>1. More(Append(e1, <<k, v>>), l, E, e1, <<k, v>>)
    BY <1>1, <1>3, AppendIs
  <2>2. <<k, v>> \in E
    BY <1>1 DEF E
  <2>. QED
    BY <1>1, <1>3, <2>1, <2>2 DEF More
<1>5. \A i \in 1 .. n : J(i) \in 1 .. n /\ I(J(i)) = i /\ (i # n => i \in 1 .. l /\ J(i) # p)
  BY <1>1
<1>6. \A j \in 1 .. n : I(j) \in 1 .. n /\ J(I(j)) = j
  BY <1>1
<1>7. J(n) = p /\ n \in 1 .. n
  BY <1>1
<1> HIDE DEF e1, e2, J, I, l
<1>8. /\ e2[n][1] = k /\ e2[n][2] = v
      /\ \A i \in 1 .. n : e2[i][1] = e[J(i)][1] /\ (i # n => e2[i][2] = e[J(i)][2])
  <2>1. e2[n][1] = k /\ e2[n][2] = v
    BY <1>4
  <2>. QED
    BY <1>4, <1>5, <1>7, <2>1
<1>9. \A i, j \in 1 .. n : e2[i][1] = e2[j][1] => i = j
  <2>1. \A i, j \in 1 .. n : e[i][1] = e[j][1] => i = j
    BY DEF Indexed
  <2>2. \A i, j \in 1 .. n : e2[i][1] = e2[j][1] => J(i) = J(j)
    BY <1>5, <1>8, <2>1
  <2>. QED
    BY <1>5, <2>2, Zenon
<1>10. \A h \in 0 .. n - 1 : \E i \in 1 .. n : e2[i][1] = h
  <2>1. \A h \in 0 .. n - 1 : \E j \in 1 .. n : e[j][1] = h
    BY DEF Indexed
  <2>. QED
    BY <1>6, <1>8, <2>1
<1>11. \A i \in 1 .. n : e2[i][2] = g2[e2[i][1]]
  <2>1. e2[n][2] = g2[e2[n][1]]
    BY <1>1, <1>4
  <2>2. ASSUME NEW i \in 1 .. n, i # n PROVE e2[i][2] = g2[e2[i][1]]
    <3>1. J(i) # p /\ J(i) \in 1 .. n
      BY <1>5, <2>2
    <3>2. e[J(i)][1] # k /\ e[J(i)][1] \in 0 .. n - 1 /\ e[J(i)][2] = g[e[J(i)][1]]
      BY <1>1, <3>1 DEF Indexed
    <3>3. g2[e[J(i)][1]] = g[e[J(i)][1]]
      BY <1>1, <3>2
    <3>. QED
      BY <1>8, <2>2, <3>2, <3>3
  <2>. QED
    BY <2>1, <2>2
<1>12. g2 \in [0 .. n - 1 -> Values]
  BY <1>1
<1> HIDE DEF g2
<1>13. Indexed(e2, n, g2)
  BY <1>1, <1>4, <1>9, <1>10, <1>11, <1>12 DEF Indexed, E
<1>. QED
  BY <1>2, <1>13 DEF e2, g2

\* How often a value is among those of the first n positions or indices.
Among(n, g, o) == Cardinality({k \in 0 .. n - 1 : g[k] = o})
Listing(n, e, o) == Cardinality({i \in 1 .. n : e[i][2] = o})

LEMMA IndexedCount ==
  ASSUME NEW e, NEW n, NEW g, Indexed(e, n, g), NEW o
  PROVE  Listing(n, e, o) = Among(n, g, o)
<1> DEFINE S == {i \in 1 .. n : e[i][2] = o}
           U == {k \in 0 .. n - 1 : g[k] = o}
           F == [i \in S |-> e[i][1]]
<1>1. n \in Nat /\ IsFiniteSet(1 .. n)
  BY FS_Interval DEF Indexed
<1>2. IsFiniteSet(S)
  BY <1>1, FS_Subset
<1>3. \A i \in 1 .. n : e[i][1] \in 0 .. n - 1 /\ e[i][2] = g[e[i][1]]
  BY DEF Indexed
<1>4. F \in [S -> U]
  BY <1>3
<1>5. \A a, b \in S : F[a] = F[b] => a = b
  BY DEF Indexed
<1>6. \A k \in U : \E i \in S : F[i] = k
  <2>1. \A k \in 0 .. n - 1 : \E i \in 1 .. n : e[i][1] = k
    BY DEF Indexed
  <2>. QED
    BY <1>3, <2>1
<1> HIDE DEF S, U, F
<1>7. ExistsBijection(S, U)
  BY <1>4, <1>5, <1>6 DEF ExistsBijection, Bijection, Injection, Surjection, IsInjective
<1>8. Cardinality(U) = Cardinality(S)
  BY <1>2, <1>7, FS_Bijection
<1>. QED
  BY <1>8 DEF S, U, Among, Listing

\* Two values that change places are as often there as before.
LEMMA SwapCount ==
  ASSUME NEW n \in Nat, NEW g \in [0 .. n - 1 -> Values], NEW i \in 0 .. n - 1, NEW j \in 0 .. n - 1, NEW o
  PROVE  Among(n, [[g EXCEPT ![i] = g[j]] EXCEPT ![j] = g[i]], o) = Among(n, g, o)
<1> DEFINE g2 == [[g EXCEPT ![i] = g[j]] EXCEPT ![j] = g[i]]
           S == {k \in 0 .. n - 1 : g[k] = o}
           U == {k \in 0 .. n - 1 : g2[k] = o}
           J(k) == IF k = i THEN j ELSE IF k = j THEN i ELSE k
           F == [k \in S |-> J(k)]
<1>1. IsFiniteSet(0 .. n - 1)
  BY FS_Interval
<1>2. IsFiniteSet(S)
  BY <1>1, FS_Subset
<1>3. \A k \in 0 .. n - 1 : J(k) \in 0 .. n - 1 /\ g2[J(k)] = g[k] /\ J(J(k)) = k
  OBVIOUS
<1> HIDE DEF J, g2
<1>4. F \in [S -> U]
  BY <1>3
<1>5. \A a, b \in S : F[a] = F[b] => a = b
  BY <1>3
<1>6. \A k \in U : \E h \in S : F[h] = k
  <2>1. \A k \in U : J(k) \in S /\ F[J(k)] = k
    BY <1>3
  <2>. QED
    BY <2>1
<1> HIDE DEF S, U, F
<1>7. ExistsBijection(S, U)
  BY <1>4, <1>5, <1>6 DEF ExistsBijection, Bijection, Injection, Surjection, IsInjective
<1>8. Cardinality(U) = Cardinality(S)
  BY <1>2, <1>7, FS_Bijection
<1>. QED
  BY <1>8 DEF S, U, g2, Among

-----------------------------------------------------------------------------
(* One element more, or two that change places.                            *)

\* In x the collection c is the array g of n values, the other ones are as in f,
\* and there is room for r elements.
Array(x, f, c, n, g) == \E e : Holds(x, Bind(f, c, e)) /\ Indexed(e, n, g)
Filled(x, f, c, n, r) == HasRoom(x, r) /\ \E g : Array(x, f, c, n, g)

LEMMA BindIs ==
  ASSUME NEW f, NEW c, NEW e
  PROVE  /\ c \in DOMAIN Bind(f, c, e) /\ Bind(f, c, e)[c] = e
         /\ DOMAIN Bind(f, c, e) = DOMAIN f \cup {c}
         /\ \A d \in DOMAIN f \ {c} : Bind(f, c, e)[d] = f[d]
         /\ \A e2 : Bind(Bind(f, c, e), c, e2) = Bind(f, c, e2)
BY DEF Bind

LEMMA ArrayCount ==
  ASSUME CollectionsAssumption, NEW m, NEW f, Holds(m, f), NEW c \in DOMAIN f, NEW n, NEW g, Indexed(f[c], n, g)
  PROVE  m.table[c].count = n /\ n \in 0 .. Cardinality(Addresses)
<1>1. PICK k : k = m.table[c].count /\ k \in 0 .. Cardinality(Addresses) /\ DOMAIN f[c] = 1 .. k
  BY HoldsRead DEF Entries
<1>2. DOMAIN f[c] = 1 .. n /\ n \in Nat /\ Cardinality(Addresses) \in Nat
  BY AssumptionIs DEF Indexed
<1>3. k = n
  BY <1>1, <1>2
<1>. QED
  BY <1>1, <1>3

LEMMA AppendedFills ==
  ASSUME CollectionsAssumption, NEW x, NEW f, NEW c, NEW n, NEW r \in Nat, Filled(x, f, c, n, r + 1), NEW v \in Values
  PROVE  n \in Nat /\ Filled(Appended(x, c, v), f, c, n + 1, r)
<1>1. PICK e, g : Holds(x, Bind(f, c, e)) /\ Indexed(e, n, g)
  BY DEF Filled, Array
<1> DEFINE f1 == Bind(f, c, e)
           e2 == Append(e, <<n, v>>)
<1>2. c \in DOMAIN f1 /\ f1[c] = e /\ Bind(f1, c, e2) = Bind(f, c, e2)
  BY DEF Bind
<1>3. x.table[c].count = n /\ n \in Keys /\ n \in Nat
  <2> HIDE DEF f1
  <2>1. x.table[c].count = n /\ n \in 0 .. Cardinality(Addresses)
    BY <1>1, <1>2, ArrayCount DEF f1
  <2>. QED
    BY <1>1, <2>1, AssumptionIs DEF Indexed
<1>4. Holds(ht_add(x, c, n, v), Bind(f1, c, Append(f1[c], <<n, v>>))) /\ HasRoom(ht_add(x, c, n, v), r)
  <2>1. Holds(x, f1) /\ HasRoom(x, r + 1)
    BY <1>1 DEF Filled
  <2> HIDE DEF f1
  <2>. QED
    BY <1>2, <1>3, <2>1, AddHolds
<1>5. Indexed(e2, n + 1, Bind(g, n, v))
  BY <1>1, IndexedMore
<1> HIDE DEF f1
<1>. QED
  BY <1>2, <1>3, <1>4, <1>5 DEF Filled, Array, Appended

\* Replacing the element at an index.
LEMMA ReplacedArray ==
  ASSUME CollectionsAssumption, NEW x, NEW f, NEW c, NEW n, NEW g, Array(x, f, c, n, g),
         NEW k \in 0 .. n - 1, NEW v \in Values
  PROVE  Array(ht_replace(x, c, k, v), f, c, n, [g EXCEPT ![k] = v])
<1>1. PICK e : Holds(x, Bind(f, c, e)) /\ Indexed(e, n, g)
  BY DEF Array
<1> DEFINE f1 == Bind(f, c, e)
<1>2. c \in DOMAIN f1 /\ f1[c] = e /\ Holds(x, f1) /\ \A d : Bind(f1, c, d) = Bind(f, c, d)
  <2>1. c \in DOMAIN f1 /\ f1[c] = e /\ \A d : Bind(f1, c, d) = Bind(f, c, d)
    BY DEF Bind
  <2>. QED
    BY <1>1, <2>1
<1> HIDE DEF f1
<1>3. x.table[c].count = n /\ n \in 0 .. Cardinality(Addresses)
  BY <1>1, <1>2, ArrayCount
<1>4. k \in Keys \ ObjectKeys
  <2>1. k \in 0 .. Cardinality(Addresses) /\ Cardinality(Addresses) \in Nat
    BY <1>3, AssumptionIs
  <2>. QED
    BY <2>1, AssumptionIs
<1>5. \E i \in 1 .. n : e[i][1] = k
  BY <1>1 DEF Indexed
<1>6. PICK p \in 1 .. n : /\ e[p][1] = k
                          /\ Holds(ht_replace(x, c, k, v), Bind(f1, c, Append(RemoveAt(e, p), <<k, v>>)))
  BY <1>2, <1>3, <1>4, <1>5, ReplaceHolds
<1>7. Indexed(Append(RemoveAt(e, p), <<k, v>>), n, [g EXCEPT ![k] = v])
  BY <1>1, <1>6, IndexedOther
<1>. QED
  BY <1>2, <1>6, <1>7 DEF Array

\* The element at an index is found.
LEMMA FoundArray ==
  ASSUME CollectionsAssumption, NEW x, NEW f, NEW c, NEW n, NEW g, Array(x, f, c, n, g), NEW k \in 0 .. n - 1
  PROVE  ht_find(x, c, k) = g[k] /\ find_bucket(x, c, k) # NULL
<1>1. PICK e : Holds(x, Bind(f, c, e)) /\ Indexed(e, n, g)
  BY DEF Array
<1> DEFINE f1 == Bind(f, c, e)
<1>2. c \in DOMAIN f1 /\ f1[c] = e /\ Holds(x, f1)
  <2>1. c \in DOMAIN f1 /\ f1[c] = e
    BY DEF Bind
  <2>. QED
    BY <1>1, <2>1
<1> HIDE DEF f1
<1>3. x.table[c].count = n /\ n \in 0 .. Cardinality(Addresses)
  BY <1>1, <1>2, ArrayCount
<1>4. k \in Keys \ ObjectKeys
  <2>1. k \in 0 .. Cardinality(Addresses) /\ Cardinality(Addresses) \in Nat
    BY <1>3, AssumptionIs
  <2>. QED
    BY <2>1, AssumptionIs
<1>5. \E i \in 1 .. n : e[i][1] = k
  BY <1>1 DEF Indexed
<1>6. find_bucket(x, c, k) # NULL /\ \E p \in 1 .. n : e[p][1] = k /\ ht_find(x, c, k) = e[p][2]
  BY <1>2, <1>3, <1>4, <1>5, FindHolds
<1>. QED
  BY <1>1, <1>6 DEF Indexed

LEMMA SwappedArray ==
  ASSUME CollectionsAssumption, NEW x, NEW f, NEW c, NEW n, NEW g, Array(x, f, c, n, g),
         NEW i \in 0 .. n - 1, NEW j \in 0 .. n - 1
  PROVE  Array(Swapped(x, c, i, j), f, c, n, [[g EXCEPT ![i] = g[j]] EXCEPT ![j] = g[i]])
<1>1. ht_find(x, c, i) = g[i] /\ ht_find(x, c, j) = g[j]
  BY FoundArray
<1>2. g[i] \in Values /\ g[j] \in Values
  BY DEF Array, Indexed
<1>3. Array(ht_replace(x, c, i, g[j]), f, c, n, [g EXCEPT ![i] = g[j]])
  BY <1>2, ReplacedArray
<1>4. Array(ht_replace(ht_replace(x, c, i, g[j]), c, j, g[i]), f, c, n, [[g EXCEPT ![i] = g[j]] EXCEPT ![j] = g[i]])
  <2> PICK y, g1 : y = ht_replace(x, c, i, g[j]) /\ g1 = [g EXCEPT ![i] = g[j]]
    OBVIOUS
  <2>1. Array(ht_replace(y, c, j, g[i]), f, c, n, [g1 EXCEPT ![j] = g[i]])
    BY <1>2, <1>3, ReplacedArray
  <2>. QED
    BY <2>1
<1>. QED
  BY <1>1, <1>4 DEF Swapped

-----------------------------------------------------------------------------
(* Step after step.                                                        *)

\* What the i-th step of a loop over the sequence s makes of x.
Stepped(op, x, c, s, i) ==
    CASE op = "append" -> Appended(x, c, s[i])
      [] op = "pair" -> ht_add(x, c, s[2 * i - 1], IF 2 * i \in DOMAIN s THEN s[2 * i] ELSE NULL)
      [] op = "swap" -> Swapped(x, c, Len(s) + 1 - i, s[Len(s) + 1 - i])

Runs(op, m, c, s, n, w) == w = [i \in 0 .. n |-> IF i = 0 THEN m ELSE Stepped(op, w[i - 1], c, s, i)]

LEMMA RunExists ==
  ASSUME NEW op, NEW m, NEW c, NEW s, NEW n \in Nat
  PROVE  \E w : Runs(op, m, c, s, n, w)
<1> DEFINE T == {k \in Nat : ~\E w : Runs(op, m, c, s, k, w)}
<1>1. SUFFICES ASSUME T # {} PROVE FALSE
  OBVIOUS
<1>2. PICK x \in T : \A y \in T : x <= y
  <2>1. T \subseteq Nat
    OBVIOUS
  <2> HIDE DEF T
  <2>. QED
    BY <1>1, <2>1, D!Least
<1>3. x \in Nat /\ ~\E w : Runs(op, m, c, s, x, w)
  OBVIOUS
<1>4. x # 0
  <2>1. CASE x = 0
    <3> DEFINE w == [i \in 0 .. 0 |-> m]
    <3>1. \A i \in 0 .. 0 : i = 0
      OBVIOUS
    <3>2. w = [i \in 0 .. 0 |-> IF i = 0 THEN m ELSE Stepped(op, w[i - 1], c, s, i)]
      BY <3>1
    <3>3. Runs(op, m, c, s, x, w)
      BY <2>1, <3>2 DEF Runs
    <3>. QED
      BY <1>3, <3>3
  <2>. QED
    BY <2>1
<1>5. x - 1 \in Nat /\ ~ x <= x - 1
  BY <1>3, <1>4
<1>6. PICK w : Runs(op, m, c, s, x - 1, w)
  BY <1>2, <1>5
<1> DEFINE w2 == [i \in 0 .. x |-> IF i = x THEN Stepped(op, w[x - 1], c, s, x) ELSE w[i]]
<1>7. \A i \in 0 .. x - 1 : w[i] = IF i = 0 THEN m ELSE Stepped(op, w[i - 1], c, s, i)
  BY <1>6 DEF Runs
<1>8. \A i \in 0 .. x : w2[i] = IF i = 0 THEN m ELSE Stepped(op, w2[i - 1], c, s, i)
  <2>1. \A i \in 0 .. x : i = x \/ i \in 0 .. x - 1
    BY <1>3
  <2>2. \A i \in 0 .. x - 1 : i \in 0 .. x /\ i # x /\ w2[i] = w[i]
    BY <1>3
  <2>3. w2[x] = Stepped(op, w[x - 1], c, s, x) /\ x - 1 \in 0 .. x - 1
    BY <1>3, <1>5
  <2>4. \A i \in 0 .. x - 1 : i # 0 => i - 1 \in 0 .. x - 1
    BY <1>3
  <2> HIDE DEF w2
  <2>. QED
    BY <1>4, <1>7, <2>1, <2>2, <2>3, <2>4
<1>9. w2 = [i \in 0 .. x |-> w2[i]]
  OBVIOUS
<1> HIDE DEF w2
<1>10. Runs(op, m, c, s, x, w2)
  BY <1>8, <1>9 DEF Runs
<1>. QED
  BY <1>3, <1>10

LEMMA RunIs ==
  ASSUME NEW op, NEW m, NEW c, NEW s, NEW n \in Nat, NEW w, Runs(op, m, c, s, n, w)
  PROVE  w[0] = m /\ \A i \in 1 .. n : w[i] = Stepped(op, w[i - 1], c, s, i)
<1>1. \A i \in 0 .. n : w[i] = IF i = 0 THEN m ELSE Stepped(op, w[i - 1], c, s, i)
  BY DEF Runs
<1>. QED
  BY <1>1

LEMMA AppendAllRuns ==
  ASSUME NEW m, NEW c, NEW s, Len(s) \in Nat
  PROVE  \E w : Runs("append", m, c, s, Len(s), w) /\ AppendAll(m, c, s) = w[Len(s)]
<1> DEFINE filled == CHOOSE w : w = [i \in 0 .. Len(s) |-> IF i = 0 THEN m ELSE Appended(w[i - 1], c, s[i])]
<1>1. AppendAll(m, c, s) = filled[Len(s)]
  BY Zenon DEF AppendAll
<1>2. \A x, i : Stepped("append", x, c, s, i) = Appended(x, c, s[i])
  BY DEF Stepped
<1>3. PICK w : Runs("append", m, c, s, Len(s), w)
  BY RunExists
<1>4. \A w1 : Runs("append", m, c, s, Len(s), w1)
               <=> w1 = [i \in 0 .. Len(s) |-> IF i = 0 THEN m ELSE Appended(w1[i - 1], c, s[i])]
  BY <1>2 DEF Runs
<1>5. Runs("append", m, c, s, Len(s), filled)
  BY <1>3, <1>4
<1>. QED
  BY <1>1, <1>5

LEMMA AddPairsRuns ==
  ASSUME NEW m, NEW c, NEW s, NEW n \in Nat, n = (Len(s) + 1) \div 2
  PROVE  \E w : Runs("pair", m, c, s, n, w) /\ AddPairs(m, c, s) = w[n]
<1> DEFINE Value(i) == IF 2 * i \in DOMAIN s THEN s[2 * i] ELSE NULL
           filled == CHOOSE w : w = [i \in 0 .. n |-> IF i = 0 THEN m ELSE ht_add(w[i - 1], c, s[2 * i - 1], Value(i))]
<1>1. AddPairs(m, c, s) = filled[n]
  BY Zenon DEF AddPairs
<1>2. \A x, i : Stepped("pair", x, c, s, i) = ht_add(x, c, s[2 * i - 1], Value(i))
  BY DEF Stepped
<1>3. PICK w : Runs("pair", m, c, s, n, w)
  BY RunExists
<1> HIDE DEF Value
<1>4. \A w1 : Runs("pair", m, c, s, n, w1)
               <=> w1 = [i \in 0 .. n |-> IF i = 0 THEN m ELSE ht_add(w1[i - 1], c, s[2 * i - 1], Value(i))]
  BY <1>2 DEF Runs
<1>5. Runs("pair", m, c, s, n, filled)
  BY <1>3, <1>4
<1>. QED
  BY <1>1, <1>5

LEMMA ShuffledRuns ==
  ASSUME NEW m, NEW c, NEW j, NEW n \in Nat, n = Len(j)
  PROVE  \E w : Runs("swap", m, c, j, n, w) /\ Shuffled(m, c, j) = w[n]
<1> DEFINE K(i) == n + 1 - i
           shuffled == CHOOSE w : w = [i \in 0 .. n |-> IF i = 0 THEN m ELSE Swapped(w[i - 1], c, K(i), j[K(i)])]
<1>1. Shuffled(m, c, j) = shuffled[n]
  BY Zenon DEF Shuffled
<1>2. \A x, i : Stepped("swap", x, c, j, i) = Swapped(x, c, K(i), j[K(i)])
  BY DEF Stepped
<1>3. PICK w : Runs("swap", m, c, j, n, w)
  BY RunExists
<1> HIDE DEF K
<1>4. \A w1 : Runs("swap", m, c, j, n, w1)
               <=> w1 = [i \in 0 .. n |-> IF i = 0 THEN m ELSE Swapped(w1[i - 1], c, K(i), j[K(i)])]
  BY <1>2 DEF Runs
<1>5. Runs("swap", m, c, j, n, shuffled)
  BY <1>3, <1>4
<1>. QED
  BY <1>1, <1>5

\* Of a list or a tuple: the elements added get the next indices.
LEMMA AppendAllFills ==
  ASSUME CollectionsAssumption, NEW m, NEW f, Holds(m, f), NEW c \in DOMAIN f, NEW n, NEW g, Indexed(f[c], n, g),
         NEW s \in Seq(Values), NEW l, l = Len(s), HasRoom(m, l)
  PROVE  l \in Nat /\ Filled(AppendAll(m, c, s), f, c, n + l, 0) /\ (l = 0 => AppendAll(m, c, s) = m)
<1>1. l \in Nat /\ n \in Nat /\ DOMAIN s = 1 .. l /\ \A i \in 1 .. l : s[i] \in Values
  <2>1. \A i \in 1 .. Len(s) : s[i] \in Values
    BY ElementOfSeq
  <2>. QED
    BY <2>1, LenProperties DEF Indexed
<1>2. PICK w : Runs("append", m, c, s, l, w) /\ AppendAll(m, c, s) = w[l]
  BY <1>1, AppendAllRuns
<1>3. w[0] = m /\ \A i \in 1 .. l : w[i] = Appended(w[i - 1], c, s[i])
  <2>1. w[0] = m /\ \A i \in 1 .. l : w[i] = Stepped("append", w[i - 1], c, s, i)
    <3>1. l \in Nat /\ Runs("append", m, c, s, l, w)
      BY <1>1, <1>2
    <3>. QED
      BY ONLY <3>1, RunIs
  <2>. QED
    BY <2>1 DEF Stepped
<1> DEFINE T == {i \in 0 .. l : ~Filled(w[i], f, c, n + i, l - i)}
<1>4. T = {}
  <2>1. SUFFICES ASSUME T # {} PROVE FALSE
    OBVIOUS
  <2>2. PICK x \in T : \A y \in T : x <= y
    <3>1. T \subseteq Nat
      BY <1>1
    <3> HIDE DEF T
    <3>. QED
      BY <2>1, <3>1, D!Least
  <2>3. x \in 0 .. l /\ ~Filled(w[x], f, c, n + x, l - x)
    OBVIOUS
  <2>4. x # 0
    <3>1. f = Bind(f, c, f[c])
      <4>1. f = [d \in DOMAIN f |-> f[d]]
        BY HoldsRead
      <4>. QED
        BY <4>1 DEF Bind
    <3>2. Array(m, f, c, n, g)
      BY <3>1 DEF Array
    <3>3. Filled(m, f, c, n, l) /\ n + 0 = n /\ l - 0 = l
      BY <1>1, <3>2 DEF Filled
    <3>. QED
      BY <1>3, <2>3, <3>3
  <2>5. x - 1 \in 0 .. l /\ ~ x <= x - 1 /\ x \in 1 .. l
    BY <1>1, <2>3, <2>4
  <2>6. Filled(w[x - 1], f, c, n + (x - 1), l - (x - 1))
    BY <2>2, <2>5
  <2>7. /\ l - (x - 1) = (l - x) + 1 /\ (n + (x - 1)) + 1 = n + x /\ l - x \in Nat
        /\ s[x] \in Values /\ w[x] = Appended(w[x - 1], c, s[x])
    BY <1>1, <1>3, <2>5
  <2>8. Filled(Appended(w[x - 1], c, s[x]), f, c, (n + (x - 1)) + 1, l - x)
    <3> PICK r, k : r = l - x /\ k = n + (x - 1)
      OBVIOUS
    <3>1. Filled(w[x - 1], f, c, k, r + 1) /\ r \in Nat
      BY <2>6, <2>7
    <3>2. Filled(Appended(w[x - 1], c, s[x]), f, c, k + 1, r)
      BY <2>7, <3>1, AppendedFills
    <3>. QED
      BY <3>2
  <2>. QED
    BY <2>3, <2>7, <2>8
<1>5. Filled(w[l], f, c, n + l, l - l)
  <2>1. l \in 0 .. l
    BY <1>1
  <2>. QED
    BY <1>4, <2>1
<1>6. l - l = 0
  BY <1>1
<1>. QED
  BY <1>1, <1>2, <1>3, <1>5, <1>6

\* The keys of a hash are objects.
Mapped(e) == \A i \in DOMAIN e : e[i][1] \in Objects

\* In x the collection c is a hash, the other ones are as in f, and there is room
\* for r elements.
Mapping(x, f, c, r) == HasRoom(x, r) /\ \E e : Holds(x, Bind(f, c, e)) /\ Mapped(e)

LEMMA AddedMaps ==
  ASSUME CollectionsAssumption, NEW x, NEW f, NEW c, NEW r \in Nat, Mapping(x, f, c, r + 1),
         NEW k \in Objects, NEW v \in Values
  PROVE  Mapping(ht_add(x, c, k, v), f, c, r)
<1>1. PICK e : Holds(x, Bind(f, c, e)) /\ Mapped(e)
  BY DEF Mapping
<1> DEFINE f1 == Bind(f, c, e)
           e2 == Append(e, <<k, v>>)
<1>2. c \in DOMAIN f1 /\ f1[c] = e /\ Bind(f1, c, e2) = Bind(f, c, e2)
  BY DEF Bind
<1>3. Holds(ht_add(x, c, k, v), Bind(f1, c, e2)) /\ HasRoom(ht_add(x, c, k, v), r)
  <2>1. Holds(x, f1) /\ HasRoom(x, r + 1) /\ k \in Keys
    BY <1>1, AssumptionIs DEF Mapping
  <2> HIDE DEF f1
  <2>2. Holds(ht_add(x, c, k, v), Bind(f1, c, Append(f1[c], <<k, v>>))) /\ HasRoom(ht_add(x, c, k, v), r)
    BY <1>2, <2>1, AddHolds
  <2>. QED
    BY <1>2, <2>2
<1>4. Mapped(e2)
  <2>1. PICK l \in Nat : e \in [1 .. l -> Keys \X Values]
    <3> HIDE DEF f1
    <3>1. Entries(x, c, f1[c])
      BY <1>1, <1>2, HoldsRead DEF f1
    <3>2. PICK l : l = x.table[c].count
      OBVIOUS
    <3>3. l \in 0 .. Cardinality(Addresses) /\ e \in [1 .. l -> Keys \X Values]
      BY <1>2, <3>1, <3>2, Zenon DEF Entries
    <3>4. l \in Nat
      BY <3>3, AssumptionIs
    <3>. QED
      BY <3>3, <3>4
  <2>2. More(e2, l, Keys \X Values, e, <<k, v>>)
    BY <2>1, AppendIs
  <2>3. DOMAIN e2 = 1 .. l + 1 /\ e2[l + 1] = <<k, v>> /\ \A i \in 1 .. l : e2[i] = e[i]
    BY <2>2 DEF More
  <2> HIDE DEF e2
  <2>4. \A i \in 1 .. l + 1 : i = l + 1 \/ i \in 1 .. l
    OBVIOUS
  <2>5. \A i \in 1 .. l : e[i][1] \in Objects
    BY <1>1, <2>1 DEF Mapped
  <2>. QED
    BY <2>3, <2>4, <2>5 DEF Mapped
<1> HIDE DEF f1, e2
<1>. QED
  BY <1>2, <1>3, <1>4 DEF Mapping

\* A sequence of keys, each with the value behind it.
Paired(s, n) ==
    /\ s \in Seq(Objects \cup {NULL}) /\ n \in Nat /\ n = (Len(s) + 1) \div 2
    /\ \A i \in 1 .. n : s[2 * i - 1] \in Objects

LEMMA AddPairsMaps ==
  ASSUME CollectionsAssumption, NEW m, NEW f, NEW c, NEW s, NEW n, Paired(s, n), Mapping(m, f, c, n)
  PROVE  Mapping(AddPairs(m, c, s), f, c, 0)
<1> DEFINE Value(i) == IF 2 * i \in DOMAIN s THEN s[2 * i] ELSE NULL
<1>1. n \in Nat /\ \A i \in 1 .. n : s[2 * i - 1] \in Objects
  BY DEF Paired
<1>2. \A i \in 1 .. n : Value(i) \in Values
  <2>1. \A i \in DOMAIN s : s[i] \in Objects \cup {NULL}
    <3>1. s \in Seq(Objects \cup {NULL})
      BY DEF Paired
    <3>. QED
      BY <3>1, ElementOfSeq, LenProperties
  <2>2. Values = Objects \cup {NULL}
    BY AssumptionIs
  <2>. QED
    BY <2>1, <2>2
<1>3. PICK w : Runs("pair", m, c, s, n, w) /\ AddPairs(m, c, s) = w[n]
  BY <1>1, AddPairsRuns DEF Paired
<1>4. w[0] = m /\ \A i \in 1 .. n : w[i] = ht_add(w[i - 1], c, s[2 * i - 1], Value(i))
  <2>1. w[0] = m /\ \A i \in 1 .. n : w[i] = Stepped("pair", w[i - 1], c, s, i)
    BY <1>1, <1>3, RunIs
  <2>2. \A x, i : Stepped("pair", x, c, s, i) = ht_add(x, c, s[2 * i - 1], Value(i))
    BY DEF Stepped
  <2>. QED
    BY <2>1, <2>2
<1> HIDE DEF Value
<1> DEFINE T == {i \in 0 .. n : ~Mapping(w[i], f, c, n - i)}
<1>5. T = {}
  <2>1. SUFFICES ASSUME T # {} PROVE FALSE
    OBVIOUS
  <2>2. PICK x \in T : \A y \in T : x <= y
    <3>1. T \subseteq Nat
      BY <1>1
    <3> HIDE DEF T
    <3>. QED
      BY <2>1, <3>1, D!Least
  <2>3. x \in 0 .. n /\ ~Mapping(w[x], f, c, n - x)
    OBVIOUS
  <2>4. x # 0
    BY <1>1, <1>4, <2>3
  <2>5. x - 1 \in 0 .. n /\ ~ x <= x - 1 /\ x \in 1 .. n
    BY <1>1, <2>3, <2>4
  <2>6. Mapping(w[x - 1], f, c, n - (x - 1))
    BY <2>2, <2>5
  <2>7. PICK r \in Nat : r = n - x /\ n - (x - 1) = r + 1
    BY <1>1, <2>5
  <2>8. Mapping(w[x - 1], f, c, r + 1)
    BY <2>6, <2>7
  <2>9. PICK k \in Objects, v \in Values : k = s[2 * x - 1] /\ v = Value(x)
    BY <1>1, <1>2, <2>5
  <2>10. Mapping(ht_add(w[x - 1], c, k, v), f, c, r)
    BY <2>8, AddedMaps
  <2>. QED
    BY <1>4, <2>3, <2>5, <2>7, <2>9, <2>10
<1>6. n \in 0 .. n /\ n - n = 0
  BY <1>1
<1>. QED
  BY <1>3, <1>5, <1>6

\* Every value is as often in the array as in g.
Shuffling(x, f, c, n, g) == \E g2 : Array(x, f, c, n, g2) /\ \A o : Among(n, g2, o) = Among(n, g, o)

LEMMA SwappedShuffles ==
  ASSUME CollectionsAssumption, NEW x, NEW f, NEW c, NEW n, NEW g, Shuffling(x, f, c, n, g),
         NEW i \in 0 .. n - 1, NEW j \in 0 .. n - 1
  PROVE  Shuffling(Swapped(x, c, i, j), f, c, n, g)
<1>1. PICK g2 : Array(x, f, c, n, g2) /\ \A o : Among(n, g2, o) = Among(n, g, o)
  BY DEF Shuffling
<1> PICK g3 : g3 = [[g2 EXCEPT ![i] = g2[j]] EXCEPT ![j] = g2[i]]
  OBVIOUS
<1>2. Array(Swapped(x, c, i, j), f, c, n, g3)
  BY <1>1, SwappedArray
<1>3. n \in Nat /\ g2 \in [0 .. n - 1 -> Values]
  BY <1>1 DEF Array, Indexed
<1>4. \A o : Among(n, g3, o) = Among(n, g2, o)
  BY <1>3, SwapCount
<1>. QED
  BY <1>1, <1>2, <1>4 DEF Shuffling

LEMMA ShuffledShuffles ==
  ASSUME CollectionsAssumption, NEW m, NEW f, NEW c, NEW n, NEW g, Array(m, f, c, n, g), n # 0,
         NEW j \in [1 .. n - 1 -> 0 .. n - 1]
  PROVE  Shuffling(Shuffled(m, c, j), f, c, n, g)
<1>1. PICK l \in Nat : l = n - 1
  <2>1. n \in Nat
    BY DEF Array, Indexed
  <2>. QED
    BY <2>1
<1>2. Len(j) = l
  <2>1. j \in [1 .. l -> 0 .. n - 1]
    BY <1>1
  <2>. QED
    BY <2>1, D!FunctionSeq
<1>3. PICK w : Runs("swap", m, c, j, l, w) /\ Shuffled(m, c, j) = w[l]
  BY <1>2, ShuffledRuns
<1>4. w[0] = m /\ \A i \in 1 .. l : w[i] = Swapped(w[i - 1], c, l + 1 - i, j[l + 1 - i])
  <2>1. w[0] = m /\ \A i \in 1 .. l : w[i] = Stepped("swap", w[i - 1], c, j, i)
    BY <1>3, RunIs
  <2>2. \A x, i : Stepped("swap", x, c, j, i) = Swapped(x, c, l + 1 - i, j[l + 1 - i])
    BY <1>2 DEF Stepped
  <2>. QED
    BY <2>1, <2>2
<1> DEFINE T == {i \in 0 .. l : ~Shuffling(w[i], f, c, n, g)}
<1>5. T = {}
  <2>1. SUFFICES ASSUME T # {} PROVE FALSE
    OBVIOUS
  <2>2. PICK x \in T : \A y \in T : x <= y
    <3>1. T \subseteq Nat
      OBVIOUS
    <3> HIDE DEF T
    <3>. QED
      BY <2>1, <3>1, D!Least
  <2>3. x \in 0 .. l /\ ~Shuffling(w[x], f, c, n, g)
    OBVIOUS
  <2>4. x # 0
    <3>1. Shuffling(m, f, c, n, g)
      BY DEF Shuffling
    <3>. QED
      BY <1>4, <2>3, <3>1
  <2>5. x - 1 \in 0 .. l /\ ~ x <= x - 1 /\ x \in 1 .. l
    BY <2>3, <2>4
  <2>6. Shuffling(w[x - 1], f, c, n, g)
    BY <2>2, <2>5
  <2>7. PICK i, k \in 0 .. n - 1 : i = l + 1 - x /\ k = j[l + 1 - x]
    <3>1. l + 1 - x \in 0 .. n - 1 /\ l + 1 - x \in 1 .. n - 1
      BY <1>1, <2>5
    <3>. QED
      BY <3>1
  <2>8. Shuffling(Swapped(w[x - 1], c, i, k), f, c, n, g)
    BY <2>6, SwappedShuffles
  <2>. QED
    BY <1>4, <2>3, <2>5, <2>7, <2>8
<1>. QED
  BY <1>3, <1>5

-----------------------------------------------------------------------------
(* Every step keeps the indices dense.                                     *)

\* What is between the entries e of a collection and its class.
Right(k, e) ==
    /\ k \in {"list", "hash", "tuple"}
    /\ k = "hash" => Mapped(e)
    /\ k # "hash" => \E n, g : Indexed(e, n, g)

KeptIn(m, kinds, f) ==
    /\ Holds(m, f) /\ DOMAIN f = DOMAIN kinds
    /\ \A c \in DOMAIN kinds : Right(kinds[c], f[c])

Kept == \E f : KeptIn(mem, kind, f)

\* If there are as many entries as before, every value is there as often.
Times(e, o) == Cardinality({i \in DOMAIN e : e[i][2] = o})
Moved(e, e2) == DOMAIN e2 = DOMAIN e => \A o : Times(e2, o) = Times(e, o)

\* A step to a memory m2 with collections kinds2 that show f2.
Stepping(kinds, f, m2, kinds2, f2) ==
    /\ KeptIn(m2, kinds2, f2)
    /\ \A d \in DOMAIN kinds \cap DOMAIN kinds2 : kinds[d] = "list" => Moved(f[d], f2[d])

LEMMA Rewritten ==
  ASSUME NEW m, NEW kinds, NEW f, KeptIn(m, kinds, f),
         NEW m2, NEW c, NEW e, Holds(m2, Bind(f, c, e)),
         NEW kinds2, DOMAIN kinds2 = DOMAIN kinds \cup {c}, \A d \in DOMAIN kinds \ {c} : kinds2[d] = kinds[d],
         Right(kinds2[c], e),
         c \in DOMAIN kinds /\ kinds[c] = "list" => Moved(f[c], e)
  PROVE  Stepping(kinds, f, m2, kinds2, Bind(f, c, e))
<1> DEFINE f2 == Bind(f, c, e)
<1>1. /\ DOMAIN f2 = DOMAIN f \cup {c} /\ f2[c] = e /\ \A d \in DOMAIN f \ {c} : f2[d] = f[d]
      /\ DOMAIN f = DOMAIN kinds /\ Holds(m2, f2)
  BY DEF Bind, KeptIn
<1> HIDE DEF f2
<1>2. \A d \in DOMAIN kinds2 : Right(kinds2[d], f2[d])
  BY <1>1 DEF KeptIn
<1>3. KeptIn(m2, kinds2, f2)
  BY <1>1, <1>2 DEF KeptIn
<1>4. \A d \in DOMAIN kinds \ {c} : Moved(f[d], f2[d])
  BY <1>1 DEF Moved
<1>. QED
  BY <1>1, <1>3, <1>4 DEF Stepping, f2

LEMMA NothingRewritten ==
  ASSUME NEW m, NEW kinds, NEW f, KeptIn(m, kinds, f)
  PROVE  Stepping(kinds, f, m, kinds, f)
BY DEF Stepping, Moved

LEMMA LessRoom ==
  ASSUME CollectionsAssumption, NEW m, NEW n \in Nat, NEW k \in Nat, HasRoom(m, n), k <= n
  PROVE  HasRoom(m, k)
<1>1. IsFiniteSet(Addresses \ DOMAIN m.bucket)
  <2>1. IsFiniteSet(Addresses)
    BY AssumptionIs DEF TablesAssumption
  <2>. QED
    BY <2>1, FS_Subset
<1>2. Cardinality(Addresses \ DOMAIN m.bucket) \in Nat
  BY <1>1, FS_CardinalityType
<1>. QED
  BY <1>2 DEF HasRoom

\* The values and the keys of a collection, as sequences.
ValuesOf(m, c) == LET e == Elements(m, c) IN [i \in DOMAIN e |-> m.bucket[e[i]].value]
KeysOf(m, c) == LET e == Elements(m, c) IN [i \in DOMAIN e |-> m.bucket[e[i]].key]

LEMMA ValuesAre ==
  ASSUME CollectionsAssumption, NEW m, NEW f, Holds(m, f), NEW c \in DOMAIN f
  PROVE  /\ ValuesOf(m, c) \in Seq(Values) /\ Len(ValuesOf(m, c)) = m.table[c].count
         /\ m.table[c].count \in Nat /\ Len(Elements(m, c)) = m.table[c].count
         /\ DOMAIN f[c] = 1 .. m.table[c].count
         /\ \A o : Cardinality({i \in DOMAIN ValuesOf(m, c) : ValuesOf(m, c)[i] = o}) = Times(f[c], o)
         /\ Mapped(f[c]) => KeysOf(m, c) \in Seq(Objects) /\ Len(KeysOf(m, c)) = m.table[c].count
<1>1. PICK n, e : /\ n \in Nat /\ n = m.table[c].count /\ e = f[c]
                  /\ e \in [1 .. n -> Keys \X Values] /\ Len(Elements(m, c)) = n
                  /\ DOMAIN Elements(m, c) = 1 .. n
                  /\ \A i \in 1 .. n : /\ m.bucket[Elements(m, c)[i]].key = e[i][1]
                                       /\ m.bucket[Elements(m, c)[i]].value = e[i][2]
  <2>1. Entries(m, c, f[c]) /\ Cardinality(Addresses) \in Nat
    BY HoldsRead, AssumptionIs
  <2> PICK n, e : n = m.table[c].count /\ e = f[c]
    OBVIOUS
  <2>2. n \in Nat
    BY <2>1 DEF Entries
  <2>3. /\ e \in [1 .. n -> Keys \X Values] /\ Len(Elements(m, c)) = n
        /\ DOMAIN Elements(m, c) = 1 .. n
        /\ \A i \in 1 .. n : /\ m.bucket[Elements(m, c)[i]].key = e[i][1]
                             /\ m.bucket[Elements(m, c)[i]].value = e[i][2]
    BY <2>1 DEF Entries
  <2>. QED
    BY <2>2, <2>3
<1>2. ValuesOf(m, c) = [i \in 1 .. n |-> e[i][2]] /\ KeysOf(m, c) = [i \in 1 .. n |-> e[i][1]]
  BY <1>1 DEF ValuesOf, KeysOf
<1>3. ValuesOf(m, c) \in [1 .. n -> Values]
  BY <1>1, <1>2
<1>4. ValuesOf(m, c) \in Seq(Values) /\ Len(ValuesOf(m, c)) = n
  BY <1>1, <1>3, D!FunctionSeq
<1>5. ASSUME NEW o PROVE Cardinality({i \in DOMAIN ValuesOf(m, c) : ValuesOf(m, c)[i] = o}) = Times(f[c], o)
  <2>1. {i \in DOMAIN ValuesOf(m, c) : ValuesOf(m, c)[i] = o} = {i \in DOMAIN e : e[i][2] = o}
    BY <1>1, <1>2
  <2>. QED
    BY <1>1, <2>1 DEF Times
<1>6. ASSUME Mapped(f[c]) PROVE KeysOf(m, c) \in Seq(Objects) /\ Len(KeysOf(m, c)) = n
  <2>1. KeysOf(m, c) \in [1 .. n -> Objects]
    BY <1>1, <1>2, <1>6 DEF Mapped
  <2>. QED
    BY <1>1, <2>1, D!FunctionSeq
<1>. QED
  BY <1>1, <1>4, <1>5, <1>6

\* What is added to a list or a tuple that is there ...
LEMMA AppendStep ==
  ASSUME CollectionsAssumption, NEW m, NEW kinds, NEW f, KeptIn(m, kinds, f),
         NEW c \in DOMAIN kinds, kinds[c] # "hash", NEW s \in Seq(Values), HasRoom(m, Len(s))
  PROVE  \E f2 : Stepping(kinds, f, AppendAll(m, c, s), kinds, f2)
<1>1. Holds(m, f) /\ c \in DOMAIN f /\ Right(kinds[c], f[c])
  BY DEF KeptIn
<1>2. PICK n, g : Indexed(f[c], n, g)
  BY <1>1 DEF Right
<1>3. PICK l : l = Len(s)
  OBVIOUS
<1>4. l \in Nat /\ Filled(AppendAll(m, c, s), f, c, n + l, 0) /\ (l = 0 => AppendAll(m, c, s) = m)
  BY <1>1, <1>2, <1>3, AppendAllFills
<1>5. CASE l = 0
  BY <1>4, <1>5, NothingRewritten
<1>6. CASE l # 0
  <2>1. PICK e, g2 : Holds(AppendAll(m, c, s), Bind(f, c, e)) /\ Indexed(e, n + l, g2)
    BY <1>4 DEF Filled, Array
  <2>2. Right(kinds[c], e)
    BY <1>1, <2>1 DEF Right
  <2>3. Moved(f[c], e)
    <3>1. n \in Nat /\ DOMAIN f[c] = 1 .. n /\ DOMAIN e = 1 .. n + l
      BY <1>2, <2>1 DEF Indexed
    <3>2. n + l \in 1 .. n + l /\ n + l \notin 1 .. n
      BY <1>4, <1>6, <3>1
    <3>. QED
      BY <3>1, <3>2 DEF Moved
  <2>4. DOMAIN kinds = DOMAIN kinds \cup {c}
    OBVIOUS
  <2>5. Stepping(kinds, f, AppendAll(m, c, s), kinds, Bind(f, c, e))
    BY <2>1, <2>2, <2>3, <2>4, Rewritten
  <2>. QED
    BY <2>5
<1>. QED
  BY <1>5, <1>6

\* ... and to one that is made.
LEMMA NewStep ==
  ASSUME CollectionsAssumption, NEW m, NEW kinds, NEW f, KeptIn(m, kinds, f),
         NEW c \in Tables \ DOMAIN kinds, NEW k \in {"list", "tuple"}, NEW s \in Seq(Values), HasRoom(m, Len(s))
  PROVE  \E f2 : Stepping(kinds, f, AppendAll(ht_create(m, c), c, s), Bind(kinds, c, k), f2)
<1> PICK new, f1, l : new = ht_create(m, c) /\ f1 = Bind(f, c, <<>>) /\ l = Len(s)
  OBVIOUS
<1>1. Holds(new, f1) /\ HasRoom(new, l)
  <2>1. Holds(m, f) /\ c \in Tables \ DOMAIN f /\ HasRoom(m, l)
    BY DEF KeptIn
  <2>. QED
    BY <2>1, CreateHolds
<1>2. c \in DOMAIN f1 /\ f1[c] = <<>> /\ \A e : Bind(f1, c, e) = Bind(f, c, e)
  BY DEF Bind
<1>3. Filled(AppendAll(new, c, s), f1, c, 0 + l, 0)
  <2>1. Indexed(f1[c], 0, <<>>)
    BY <1>2, IndexedNothing
  <2>. QED
    BY <1>1, <1>2, <2>1, AppendAllFills
<1>4. PICK e, n, g : Holds(AppendAll(new, c, s), Bind(f, c, e)) /\ Indexed(e, n, g)
  BY <1>2, <1>3 DEF Filled, Array
<1>5. /\ DOMAIN Bind(kinds, c, k) = DOMAIN kinds \cup {c} /\ Bind(kinds, c, k)[c] = k
      /\ \A d \in DOMAIN kinds \ {c} : Bind(kinds, c, k)[d] = kinds[d]
  BY DEF Bind
<1>6. Right(Bind(kinds, c, k)[c], e)
  BY <1>4, <1>5 DEF Right
<1>7. Stepping(kinds, f, AppendAll(new, c, s), Bind(kinds, c, k), Bind(f, c, e))
  BY <1>4, <1>5, <1>6, Rewritten
<1>. QED
  BY <1>7

\* A hash has other entries.
LEMMA MapStep ==
  ASSUME NEW m, NEW kinds, NEW f, KeptIn(m, kinds, f), NEW c, NEW m2, NEW r, Mapping(m2, f, c, r),
         NEW kinds2, DOMAIN kinds2 = DOMAIN kinds \cup {c}, kinds2[c] = "hash",
         \A d \in DOMAIN kinds \ {c} : kinds2[d] = kinds[d],
         c \in DOMAIN kinds => kinds[c] = "hash"
  PROVE  \E f2 : Stepping(kinds, f, m2, kinds2, f2)
<1>1. PICK e : Holds(m2, Bind(f, c, e)) /\ Mapped(e)
  BY DEF Mapping
<1>2. Right(kinds2[c], e)
  BY <1>1 DEF Right
<1>3. Stepping(kinds, f, m2, kinds2, Bind(f, c, e))
  BY <1>1, <1>2, Rewritten
<1>. QED
  BY <1>3

\* A hash that is there has other entries.
LEMMA MappedStep ==
  ASSUME NEW m, NEW kinds, NEW f, KeptIn(m, kinds, f), NEW c \in DOMAIN kinds, kinds[c] = "hash",
         NEW m2, NEW r, Mapping(m2, f, c, r)
  PROVE  \E f2 : Stepping(kinds, f, m2, kinds, f2)
<1>1. DOMAIN kinds = DOMAIN kinds \cup {c}
  OBVIOUS
<1>. QED
  BY <1>1, MapStep

\* Before it changes it is this.
LEMMA MappedNow ==
  ASSUME CollectionsAssumption, NEW m, NEW kinds, NEW f, KeptIn(m, kinds, f), NEW c \in DOMAIN kinds, kinds[c] = "hash",
         NEW r, HasRoom(m, r)
  PROVE  Holds(m, f) /\ c \in DOMAIN f /\ Mapped(f[c]) /\ Mapping(m, f, c, r)
<1>1. Holds(m, f) /\ c \in DOMAIN f /\ Mapped(f[c])
  BY DEF KeptIn, Right
<1>2. Bind(f, c, f[c]) = f
  <2>1. f = [d \in DOMAIN f |-> f[d]]
    BY <1>1, HoldsRead
  <2>. QED
    BY <1>1, <2>1 DEF Bind
<1>. QED
  BY <1>1, <1>2 DEF Mapping

LEMMA BuildStep ==
  ASSUME CollectionsAssumption, NEW f, KeptIn(mem, kind, f), NEW c \in Tables, NEW k \in {"list", "hash", "tuple"},
         NEW s \in Initial, Build(c, k, s)
  PROVE  \E f2 : Stepping(kind, f, mem', kind', f2)
<1> DEFINE new == ht_create(mem, c)
           pairs == SubSeq(s, 1, 2 * (Len(s) \div 2))
<1>1. /\ c \in Tables \ DOMAIN kind /\ HasRoom(mem, Len(s)) /\ kind' = Bind(kind, c, k)
      /\ k = "hash" => mem' = AddPairs(new, c, pairs)
      /\ k # "hash" => mem' = AppendAll(new, c, s)
  BY DEF Build
<1>2. s \in Seq(Objects) /\ Objects \subseteq Values
  BY AssumptionIs
<1>3. CASE k # "hash"
  <2>1. s \in Seq(Values) /\ k \in {"list", "tuple"}
    <3>1. \A i \in 1 .. Len(s) : s[i] \in Values
      BY <1>2, ElementOfSeq
    <3>2. s = [i \in 1 .. Len(s) |-> s[i]] /\ Len(s) \in Nat
      BY <1>2, LenProperties
    <3>. QED
      BY <1>3, <3>1, <3>2, D!FunctionSeq
  <2> HIDE DEF new
  <2>2. \E f2 : Stepping(kind, f, AppendAll(ht_create(mem, c), c, s), Bind(kind, c, k), f2)
    BY <1>1, <2>1, NewStep
  <2>. QED
    BY <1>1, <1>3, <2>2 DEF new
<1>4. CASE k = "hash"
  <2>1. PICK l, n : l = Len(s) /\ l \in Nat /\ n = l \div 2 /\ n \in Nat /\ n <= l /\ 2 * n <= l
    <3>1. Len(s) \in Nat
      BY <1>2, LenProperties
    <3>2. Len(s) \div 2 \in Nat /\ Len(s) \div 2 <= Len(s) /\ 2 * (Len(s) \div 2) <= Len(s)
      BY <3>1
    <3>. QED
      BY <3>1, <3>2
  <2>2. Paired(pairs, n)
    <3>1. pairs = [i \in 1 .. 2 * n |-> s[i]]
      BY <2>1
    <3>2. \A i \in 1 .. 2 * n : s[i] \in Objects
      BY <1>2, <2>1, ElementOfSeq
    <3> HIDE DEF pairs
    <3>3. pairs \in [1 .. 2 * n -> Objects] /\ 2 * n \in Nat
      BY <2>1, <3>1, <3>2
    <3>4. pairs \in [1 .. 2 * n -> Objects \cup {NULL}]
      BY <3>3
    <3>5. pairs \in Seq(Objects \cup {NULL}) /\ Len(pairs) = 2 * n
      BY <3>3, <3>4, D!FunctionSeq
    <3>6. (2 * n + 1) \div 2 = n /\ \A i \in 1 .. n : 2 * i - 1 \in 1 .. 2 * n
      BY <2>1
    <3>. QED
      BY <2>1, <3>3, <3>5, <3>6 DEF Paired
  <2>3. Mapping(new, f, c, n)
    <3>1. HasRoom(mem, n)
      BY <1>1, <2>1, LessRoom
    <3>2. Holds(mem, f) /\ c \in Tables \ DOMAIN f
      BY <1>1 DEF KeptIn
    <3>3. Holds(new, Bind(f, c, <<>>)) /\ HasRoom(new, n)
      BY <3>1, <3>2, CreateHolds
    <3>. QED
      BY <3>3 DEF Mapping, Mapped
  <2> HIDE DEF new, pairs
  <2>4. Mapping(mem', f, c, 0)
    BY <1>1, <1>4, <2>2, <2>3, AddPairsMaps
  <2>5. /\ DOMAIN kind' = DOMAIN kind \cup {c} /\ kind'[c] = "hash"
        /\ \A d \in DOMAIN kind \ {c} : kind'[d] = kind[d]
    BY <1>1, <1>4 DEF Bind
  <2>. QED
    BY <1>1, <2>4, <2>5, MapStep
<1>. QED
  BY <1>3, <1>4

LEMMA ListAddStep ==
  ASSUME CollectionsAssumption, NEW f, KeptIn(mem, kind, f), NEW c \in Tables, NEW o \in Objects, list_add(c, o)
  PROVE  \E f2 : Stepping(kind, f, mem', kind', f2)
<1>1. c \in DOMAIN kind /\ kind[c] # "hash" /\ HasRoom(mem, 1) /\ mem' = AppendAll(mem, c, <<o>>) /\ kind' = kind
  BY DEF list_add, Is
<1>2. <<o>> \in Seq(Values) /\ Len(<<o>>) = 1
  <2>1. o \in Values
    BY AssumptionIs
  <2>. QED
    BY <2>1
<1>. QED
  BY <1>1, <1>2, AppendStep

LEMMA ListPopulateStep ==
  ASSUME CollectionsAssumption, NEW f, KeptIn(mem, kind, f), NEW c \in Tables, NEW h \in Tables, list_populate(c, h)
  PROVE  \E f2 : Stepping(kind, f, mem', kind', f2)
<1>1. /\ c \in DOMAIN kind /\ kind[c] # "hash" /\ h \in DOMAIN kind /\ HasRoom(mem, mem.table[h].count)
      /\ mem' = AppendAll(mem, c, ValuesOf(mem, h)) /\ kind' = kind
  BY DEF list_populate, Is, Count, Contents, ValuesOf
<1>2. ValuesOf(mem, h) \in Seq(Values) /\ Len(ValuesOf(mem, h)) = mem.table[h].count
  <2>1. Holds(mem, f) /\ h \in DOMAIN f
    BY <1>1 DEF KeptIn
  <2>. QED
    BY <2>1, ValuesAre
<1>. QED
  BY <1>1, <1>2, AppendStep

\* A list that is shuffled has its values at other indices.
LEMMA ShuffleStep ==
  ASSUME CollectionsAssumption, NEW f, KeptIn(mem, kind, f), NEW c \in Tables, list_shuffle(c)
  PROVE  \E f2 : Stepping(kind, f, mem', kind', f2)
<1> PICK n : n = mem.table[c].count
  OBVIOUS
<1>1. /\ c \in DOMAIN kind /\ kind[c] = "list" /\ n > 0 /\ kind' = kind
      /\ \E j \in [1 .. n - 1 -> 0 .. n - 1] : mem' = Shuffled(mem, c, j)
  BY DEF list_shuffle, Is, Count
<1>2. Holds(mem, f) /\ c \in DOMAIN f /\ Right("list", f[c]) /\ f = [d \in DOMAIN f |-> f[d]]
  <2>1. Holds(mem, f) /\ c \in DOMAIN f /\ Right("list", f[c])
    BY <1>1 DEF KeptIn
  <2>. QED
    BY <2>1, HoldsRead
<1>3. PICK g : Indexed(f[c], n, g)
  <2>1. PICK k, g : Indexed(f[c], k, g)
    BY <1>2 DEF Right
  <2>2. k = n
    BY <1>2, <2>1, ArrayCount
  <2>. QED
    BY <2>1, <2>2
<1>4. Bind(f, c, f[c]) = f
  BY <1>2 DEF Bind
<1>5. Array(mem, f, c, n, g)
  BY <1>2, <1>3, <1>4 DEF Array
<1>6. Shuffling(mem', f, c, n, g)
  <2>1. PICK j \in [1 .. n - 1 -> 0 .. n - 1] : mem' = Shuffled(mem, c, j)
    BY <1>1
  <2>2. n # 0
    BY <1>1
  <2>. QED
    BY <1>5, <2>1, <2>2, ShuffledShuffles
<1>7. PICK e, g2 : Holds(mem', Bind(f, c, e)) /\ Indexed(e, n, g2) /\ \A o : Among(n, g2, o) = Among(n, g, o)
  BY <1>6 DEF Shuffling, Array
<1>8. Moved(f[c], e)
  <2>1. DOMAIN e = 1 .. n /\ DOMAIN f[c] = 1 .. n
    BY <1>3, <1>7 DEF Indexed
  <2>2. ASSUME NEW o PROVE Times(e, o) = Times(f[c], o)
    <3>1. Listing(n, e, o) = Among(n, g2, o) /\ Listing(n, f[c], o) = Among(n, g, o)
      BY <1>3, <1>7, IndexedCount
    <3>2. Times(e, o) = Listing(n, e, o) /\ Times(f[c], o) = Listing(n, f[c], o)
      BY <2>1 DEF Times, Listing
    <3>. QED
      BY <1>7, <3>1, <3>2
  <2>. QED
    BY <2>2 DEF Moved
<1>9. Right(kind[c], e) /\ DOMAIN kind = DOMAIN kind \cup {c}
  BY <1>1, <1>7 DEF Right
<1>10. Stepping(kind, f, mem', kind, Bind(f, c, e))
  BY <1>1, <1>7, <1>8, <1>9, Rewritten
<1>. QED
  BY <1>1, <1>10

LEMMA HashAddStep ==
  ASSUME CollectionsAssumption, NEW f, KeptIn(mem, kind, f), NEW h \in Tables, NEW k \in Objects, NEW v \in Objects,
         hash_add(h, k, v)
  PROVE  \E f2 : Stepping(kind, f, mem', kind', f2)
<1>1. /\ h \in DOMAIN kind /\ kind[h] = "hash" /\ HasRoom(mem, 0 + 1)
      /\ mem' = ht_add(mem, h, k, v) /\ kind' = kind
  BY DEF hash_add, Is
<1>2. Mapping(mem, f, h, 0 + 1)
  BY <1>1, MappedNow
<1>3. v \in Values
  BY AssumptionIs
<1>4. Mapping(mem', f, h, 0)
  BY <1>1, <1>2, <1>3, AddedMaps
<1>. QED
  BY <1>1, <1>4, MappedStep

LEMMA HashPopulateStep ==
  ASSUME CollectionsAssumption, NEW f, KeptIn(mem, kind, f), NEW h \in Tables, NEW g \in Tables, hash_populate(h, g)
  PROVE  \E f2 : Stepping(kind, f, mem', kind', f2)
<1> PICK s, n : s = ValuesOf(mem, g) /\ n = (mem.table[g].count + 1) \div 2
  OBVIOUS
<1>1. /\ h \in DOMAIN kind /\ kind[h] = "hash" /\ g \in DOMAIN kind /\ HasRoom(mem, n)
      /\ mem' = AddPairs(mem, h, s) /\ kind' = kind
      /\ \A i \in DOMAIN s : s[i] = NULL => i % 2 = 0
  BY DEF hash_populate, Is, Count, Contents, ValuesOf
<1>2. s \in Seq(Objects \cup {NULL}) /\ Len(s) = mem.table[g].count
  <2>1. Holds(mem, f) /\ g \in DOMAIN f
    BY <1>1 DEF KeptIn
  <2>. QED
    BY <2>1, ValuesAre, AssumptionIs
<1>3. Paired(s, n)
  <2>1. PICK l : l \in Nat /\ l = Len(s) /\ DOMAIN s = 1 .. l /\ \A i \in 1 .. l : s[i] \in Objects \cup {NULL}
    BY <1>2, LenProperties, ElementOfSeq
  <2>2. n = (l + 1) \div 2 /\ n \in Nat
    BY <1>2, <2>1
  <2>3. \A i \in 1 .. n : 2 * i - 1 \in 1 .. l /\ (2 * i - 1) % 2 # 0
    BY <2>1, <2>2
  <2>4. \A i \in 1 .. n : s[2 * i - 1] \in Objects
    BY <1>1, <2>1, <2>3
  <2>. QED
    BY <1>2, <2>1, <2>2, <2>4 DEF Paired
<1>4. Mapping(mem, f, h, n)
  BY <1>1, MappedNow
<1>5. Mapping(mem', f, h, 0)
  BY <1>1, <1>3, <1>4, AddPairsMaps
<1>. QED
  BY <1>1, <1>5, MappedStep

LEMMA HashRemoveStep ==
  ASSUME CollectionsAssumption, NEW f, KeptIn(mem, kind, f), NEW h \in Tables, NEW k \in Objects, hash_remove(h, k)
  PROVE  \E f2 : Stepping(kind, f, mem', kind', f2)
<1>1. h \in DOMAIN kind /\ kind[h] = "hash" /\ mem' = ht_remove(mem, h, k) /\ kind' = kind
  BY DEF hash_remove, Is
<1>2. Holds(mem, f) /\ h \in DOMAIN f /\ Mapped(f[h])
  BY <1>1 DEF KeptIn, Right
<1>3. k \in Keys
  BY AssumptionIs
<1>4. CASE Holds(mem', f)
  <2>1. KeptIn(mem', kind, f)
    BY <1>4 DEF KeptIn
  <2>2. Stepping(kind, f, mem', kind, f)
    BY <2>1, NothingRewritten
  <2>. QED
    BY <1>1, <2>2
<1>5. CASE \E p \in 1 .. mem.table[h].count : Holds(mem', Bind(f, h, RemoveAt(f[h], p)))
  <2>1. PICK p \in 1 .. mem.table[h].count : Holds(mem', Bind(f, h, RemoveAt(f[h], p)))
    BY <1>5
  <2>2. PICK n, e : /\ n \in Nat /\ n = mem.table[h].count /\ e = f[h] /\ e \in [1 .. n -> Keys \X Values]
    <3>1. Entries(mem, h, f[h]) /\ Cardinality(Addresses) \in Nat
      BY <1>2, HoldsRead, AssumptionIs
    <3> PICK n : n = mem.table[h].count
      OBVIOUS
    <3>2. n \in Nat /\ f[h] \in [1 .. n -> Keys \X Values]
      BY <3>1 DEF Entries
    <3>. QED
      BY <3>2
  <2>3. RemoveAt(e, p) = TakenOut(e, n, p)
    BY <2>2, RemoveAtIs
  <2>4. Mapped(TakenOut(e, n, p))
    <3>1. \A i \in 1 .. n : e[i][1] \in Objects
      BY <1>2, <2>2 DEF Mapped
    <3>2. \A i \in 1 .. n - 1 : i \in 1 .. n /\ i + 1 \in 1 .. n
      BY <2>2
    <3>. QED
      BY <3>1, <3>2 DEF Mapped, TakenOut
  <2>5. Right(kind[h], RemoveAt(e, p)) /\ DOMAIN kind = DOMAIN kind \cup {h}
    BY <1>1, <2>3, <2>4 DEF Right
  <2>6. Stepping(kind, f, mem', kind, Bind(f, h, RemoveAt(e, p)))
    BY <1>1, <2>1, <2>2, <2>5, Rewritten
  <2>. QED
    BY <1>1, <2>6
<1>. QED
  BY <1>1, <1>2, <1>3, <1>4, <1>5, RemoveHolds

LEMMA HashKeysStep ==
  ASSUME CollectionsAssumption, NEW f, KeptIn(mem, kind, f), NEW h \in Tables, NEW c \in Tables, hash_keys(h, c)
  PROVE  \E f2 : Stepping(kind, f, mem', kind', f2)
<1> PICK s : s = KeysOf(mem, h)
  OBVIOUS
<1>1. /\ h \in DOMAIN kind /\ kind[h] = "hash" /\ c \in Tables \ DOMAIN kind /\ HasRoom(mem, Len(Elements(mem, h)))
      /\ mem' = AppendAll(ht_create(mem, c), c, s) /\ kind' = Bind(kind, c, "list")
  BY DEF hash_keys, Is, KeysOf
<1>2. Holds(mem, f) /\ h \in DOMAIN f /\ Mapped(f[h])
  BY <1>1 DEF KeptIn, Right
<1>3. s \in Seq(Objects) /\ Len(s) = Len(Elements(mem, h))
  BY <1>2, ValuesAre
<1>4. s \in Seq(Values)
  <2>1. \A i \in 1 .. Len(s) : s[i] \in Values
    BY <1>3, ElementOfSeq, AssumptionIs
  <2>2. s = [i \in 1 .. Len(s) |-> s[i]] /\ Len(s) \in Nat
    BY <1>3, LenProperties
  <2>. QED
    BY <2>1, <2>2, D!FunctionSeq
<1>5. HasRoom(mem, Len(s)) /\ "list" \in {"list", "tuple"}
  BY <1>1, <1>3
<1>6. \E f2 : Stepping(kind, f, AppendAll(ht_create(mem, c), c, s), Bind(kind, c, "list"), f2)
  BY <1>1, <1>4, <1>5, NewStep
<1>. QED
  BY <1>1, <1>6

LEMMA ReleaseStep ==
  ASSUME CollectionsAssumption, NEW f, KeptIn(mem, kind, f), NEW c \in Tables, Release(c)
  PROVE  \E f2 : Stepping(kind, f, mem', kind', f2)
<1>1. c \in DOMAIN kind /\ mem' = ht_destroy(mem, c) /\ kind' = Free(kind, {c})
  BY DEF Release
<1>2. Holds(mem, f) /\ c \in DOMAIN f
  BY <1>1 DEF KeptIn
<1> PICK f2 : f2 = Free(f, {c})
  OBVIOUS
<1>3. Holds(mem', f2)
  BY <1>1, <1>2, DestroyHolds
<1>4. /\ DOMAIN f2 = DOMAIN kind' /\ DOMAIN kind' = DOMAIN kind \ {c}
      /\ \A d \in DOMAIN kind' : f2[d] = f[d] /\ kind'[d] = kind[d]
  BY <1>1 DEF Free, KeptIn
<1>5. KeptIn(mem', kind', f2)
  BY <1>3, <1>4 DEF KeptIn
<1>6. \A d \in DOMAIN kind' : Moved(f[d], f2[d])
  BY <1>4 DEF Moved
<1>7. Stepping(kind, f, mem', kind', f2)
  BY <1>5, <1>6 DEF Stepping
<1>. QED
  BY <1>7

LEMMA CollectionsStep ==
  ASSUME CollectionsAssumption, NEW f, KeptIn(mem, kind, f), [CollectionsNext /\ Bounded]_collectionVars
  PROVE  \E f2 : Stepping(kind, f, mem', kind', f2)
<1>1. ASSUME mem' = mem, kind' = kind PROVE \E f2 : Stepping(kind, f, mem', kind', f2)
  BY <1>1, NothingRewritten
<1>2. CASE UNCHANGED collectionVars
  BY <1>1, <1>2 DEF collectionVars
<1>3. CASE CollectionsNext
  <2>1. PICK c \in Tables :
            \/ \E k \in {"list", "hash", "tuple"}, s \in Initial : Build(c, k, s)
            \/ \E o \in Objects : list_add(c, o)
            \/ list_shuffle(c)
            \/ \E h \in Tables : list_populate(c, h) \/ hash_populate(c, h) \/ hash_keys(h, c)
            \/ \E k, v \in Objects : hash_add(c, k, v)
            \/ \E k \in Objects : hash_remove(c, k)
            \/ Rewind(c) \/ Advance(c) \/ Release(c)
    BY <1>3 DEF CollectionsNext
  <2>2. CASE \E k \in {"list", "hash", "tuple"}, s \in Initial : Build(c, k, s)
    BY <2>2, BuildStep
  <2>3. CASE \E o \in Objects : list_add(c, o)
    BY <2>3, ListAddStep
  <2>4. CASE list_shuffle(c)
    BY <2>4, ShuffleStep
  <2>5. CASE \E h \in Tables : list_populate(c, h) \/ hash_populate(c, h) \/ hash_keys(h, c)
    BY <2>5, ListPopulateStep, HashPopulateStep, HashKeysStep
  <2>6. CASE \E k, v \in Objects : hash_add(c, k, v)
    BY <2>6, HashAddStep
  <2>7. CASE \E k \in Objects : hash_remove(c, k)
    BY <2>7, HashRemoveStep
  <2>8. CASE Rewind(c) \/ Advance(c)
    BY <1>1, <2>8 DEF Rewind, Advance
  <2>9. CASE Release(c)
    BY <2>9, ReleaseStep
  <2>. QED
    BY <2>1, <2>2, <2>3, <2>4, <2>5, <2>6, <2>7, <2>8, <2>9
<1>. QED
  BY <1>2, <1>3

-----------------------------------------------------------------------------
(* Theorems.                                                               *)

\* list.c, hash.c, tuple.c: the keys of a list or a tuple are a permutation of
\* its indices and those of a hash objects.
THEOREM CollectionsKept == ASSUME CollectionsAssumption PROVE CollectionsSpec => []Kept
<1>1. CollectionsInit => Kept
  <2>1. ASSUME CollectionsInit PROVE KeptIn(mem, kind, <<>>)
    <3>1. mem = EmptyMemory /\ kind = <<>>
      BY <2>1 DEF CollectionsInit
    <3>. QED
      BY <3>1, HoldsNothing DEF KeptIn
  <2>. QED
    BY <2>1 DEF Kept
<1>2. Kept /\ [CollectionsNext /\ Bounded]_collectionVars => Kept'
  BY CollectionsStep DEF Kept, Stepping
<1>. QED
  BY <1>1, <1>2, PTL DEF CollectionsSpec

\* list.c, tuple.c: get(i) finds something exactly if i is below length().
THEOREM CollectionsDense == ASSUME CollectionsAssumption PROVE CollectionsSpec => []Dense
<1>1. Kept => Dense
  <2>1. SUFFICES ASSUME Kept, NEW c \in DOMAIN kind, kind[c] # "hash"
                 PROVE  LET e == Elements(mem, c)
                        IN /\ {mem.bucket[e[i]].key : i \in DOMAIN e} = 0 .. Count(c) - 1
                           /\ \A i \in 0 .. Count(c) - 1 : find_bucket(mem, c, i) # NULL
    BY DEF Dense
  <2>2. PICK f : KeptIn(mem, kind, f)
    BY <2>1 DEF Kept
  <2>3. Holds(mem, f) /\ c \in DOMAIN f /\ Right(kind[c], f[c]) /\ f = [d \in DOMAIN f |-> f[d]]
    <3>1. Holds(mem, f) /\ c \in DOMAIN f /\ Right(kind[c], f[c])
      BY <2>2 DEF KeptIn
    <3>. QED
      BY <3>1, HoldsRead
  <2>4. PICK n, g : Indexed(f[c], n, g)
    BY <2>1, <2>3 DEF Right
  <2>5. mem.table[c].count = n
    BY <2>3, <2>4, ArrayCount
  <2>6. Array(mem, f, c, n, g)
    <3>1. Bind(f, c, f[c]) = f
      BY <2>3 DEF Bind
    <3>. QED
      BY <2>3, <2>4, <3>1 DEF Array
  <2>7. \A i \in 0 .. n - 1 : find_bucket(mem, c, i) # NULL
    BY <2>6, FoundArray
  <2>8. /\ DOMAIN Elements(mem, c) = 1 .. n
        /\ \A i \in 1 .. n : mem.bucket[Elements(mem, c)[i]].key = f[c][i][1]
    BY <2>3, <2>5, HoldsRead DEF Entries
  <2>9. {mem.bucket[Elements(mem, c)[i]].key : i \in DOMAIN Elements(mem, c)} = 0 .. n - 1
    <3>1. \A i \in 1 .. n : f[c][i][1] \in 0 .. n - 1
      BY <2>4 DEF Indexed
    <3>2. \A k \in 0 .. n - 1 : \E i \in 1 .. n : f[c][i][1] = k
      BY <2>4 DEF Indexed
    <3>. QED
      BY <2>8, <3>1, <3>2
  <2>. QED
    BY <2>5, <2>7, <2>9 DEF Count
<1>. QED
  BY <1>1, CollectionsKept, PTL

\* hash.c, list.c, tuple.c, chained.c: the elements of a collection and its
\* chains are the same, whichever element a removal took out.
THEOREM CollectionsAgree == ASSUME CollectionsAssumption PROVE CollectionsSpec => []CollectionsLinked
<1>1. Kept => CollectionsLinked
  <2>1. SUFFICES ASSUME NEW f, KeptIn(mem, kind, f), NEW c \in DOMAIN kind
                 PROVE  Agree(mem, c)
    BY DEF Kept, CollectionsLinked
  <2>2. Holds(mem, f) /\ DOMAIN f = DOMAIN kind
    BY <2>1 DEF KeptIn
  <2>3. c \in DOMAIN mem.table
    BY <2>2, HoldsRead
  <2>4. Agreeing(mem)
    BY <2>2, AssumptionIs, SoundAgrees DEF Holds
  <2>. QED
    BY <2>3, <2>4 DEF Agreeing
<1>. QED
  BY <1>1, CollectionsKept, PTL

\* list.c: shuffling only moves the elements of a list.
THEOREM CollectionsShuffle == ASSUME CollectionsAssumption PROVE CollectionsSpec => ShuffleKeeps
<1> DEFINE Keeps(c) ==
             kind[c] = "list" /\ mem'.table[c].count = mem.table[c].count =>
                \A o \in Objects :
                    Cardinality({i \in DOMAIN Contents(c)' : Contents(c)'[i] = o})
                    = Cardinality({i \in DOMAIN Contents(c) : Contents(c)[i] = o})
<1>1. ASSUME Kept, [CollectionsNext /\ Bounded]_collectionVars, NEW c \in DOMAIN kind \cap DOMAIN kind'
      PROVE  Keeps(c)
  <2>1. PICK f : KeptIn(mem, kind, f)
    BY <1>1 DEF Kept
  <2>2. PICK f2 : Stepping(kind, f, mem', kind', f2)
    BY <1>1, <2>1, CollectionsStep
  <2>3. /\ Holds(mem, f) /\ c \in DOMAIN f /\ Holds(mem', f2) /\ c \in DOMAIN f2
        /\ kind[c] = "list" => Moved(f[c], f2[c])
    BY <2>1, <2>2 DEF Stepping, KeptIn
  <2>4. /\ DOMAIN f[c] = 1 .. mem.table[c].count
        /\ \A o : Cardinality({i \in DOMAIN ValuesOf(mem, c) : ValuesOf(mem, c)[i] = o}) = Times(f[c], o)
    BY <2>3, ValuesAre
  <2>5. /\ DOMAIN f2[c] = 1 .. mem'.table[c].count
        /\ \A o : Cardinality({i \in DOMAIN ValuesOf(mem', c) : ValuesOf(mem', c)[i] = o}) = Times(f2[c], o)
    BY <2>3, ValuesAre
  <2>6. Contents(c) = ValuesOf(mem, c) /\ Contents(c)' = ValuesOf(mem', c)
    BY DEF Contents, ValuesOf
  <2>7. ASSUME kind[c] = "list", mem'.table[c].count = mem.table[c].count, NEW o \in Objects
        PROVE  Cardinality({i \in DOMAIN ValuesOf(mem', c) : ValuesOf(mem', c)[i] = o})
               = Cardinality({i \in DOMAIN ValuesOf(mem, c) : ValuesOf(mem, c)[i] = o})
    BY <2>3, <2>4, <2>5, <2>7 DEF Moved
  <2>. QED
    BY <2>6, <2>7
<1>2. Kept /\ [CollectionsNext /\ Bounded]_collectionVars
        => [\A c \in DOMAIN kind \cap DOMAIN kind' : Keeps(c)]_collectionVars
  BY <1>1
<1>. QED
  BY <1>2, CollectionsKept, PTL DEF CollectionsSpec, ShuffleKeeps
=============================================================================
