------------------------- MODULE Containers_proofs --------------------------
(***************************************************************************)
(* What Containers takes over from its parts: a step of the list is one of *)
(* DList, one of the tables one of HashTable, one of the collections one   *)
(* of Collections, and no other step touches any of them.  P and H are the *)
(* first two with their theorems.                                          *)
(***************************************************************************)
EXTENDS Containers, Collections_proofs

\* The list with its theorems; L is the same list without them.
P == INSTANCE DList_proofs

\* Both speak of the same steps.
LEMMA SameNext == L!Next <=> P!Next
<1>1. L!NULL = P!NULL /\ L!New = P!New
  BY DEF L!NULL, P!NULL, L!New, P!New
<1>2. \A e, d, prev, next : L!Linked(e, d, prev, next) = P!Linked(e, d, prev, next)
  BY DEF L!Linked, P!Linked
<1>3. \A d : L!dll_prepend(d) <=> P!dll_prepend(d)
  BY <1>1, <1>2 DEF L!dll_prepend, P!dll_prepend
<1>4. \A d : L!dll_append(d) <=> P!dll_append(d)
  BY <1>1, <1>2 DEF L!dll_append, P!dll_append
<1>5. \A e, d : L!dll_insert_before(e, d) <=> P!dll_insert_before(e, d)
  BY <1>1, <1>2, <1>3 DEF L!dll_insert_before, P!dll_insert_before
<1>6. \A e, d : L!dll_insert_after(e, d) <=> P!dll_insert_after(e, d)
  BY <1>1, <1>2, <1>4 DEF L!dll_insert_after, P!dll_insert_after
<1>7. \A e : L!dll_remove(e) <=> P!dll_remove(e)
  BY DEF L!dll_remove, P!dll_remove, L!Unlinked, P!Unlinked
<1>8. L!dll_pop <=> P!dll_pop
  BY <1>1, <1>7 DEF L!dll_pop, P!dll_pop
<1>. QED
  BY <1>1, <1>3, <1>4, <1>5, <1>6, <1>7, <1>8 DEF L!Next, P!Next

\* A behaviour of Containers is one of the list.
LEMMA ListPart == Spec => P!Spec
<1>1. Init => P!Init
  BY DEF Init, L!Init, P!Init, L!NULL, P!NULL
<1>2. [Next]_vars => [P!Next]_P!vars
  BY SameNext DEF Next, vars, P!vars
<1>. QED
  BY <1>1, <1>2, PTL DEF Spec, P!Spec

\* What they see of the list is the same too.
Alike ==
    /\ SameBothWays <=> P!SameBothWays
    /\ L!Contents = P!Contents

LEMMA SameView == Alike
<1>1. L!NULL = P!NULL
  BY DEF L!NULL, P!NULL
<1>2. \A e, link : L!Along(e, link) = P!Along(e, link)
  BY <1>1, Zenon DEF L!Along, P!Along
<1>3. SameBothWays <=> P!SameBothWays
  BY <1>1, <1>2 DEF SameBothWays, L!SameBothWays, P!SameBothWays
<1>4. L!Elements = P!Elements
  BY <1>1, <1>2 DEF L!Elements, P!Elements, L!dll_seek_offset, P!dll_seek_offset
<1>5. L!Contents = P!Contents
  BY <1>1, <1>4 DEF L!Contents, P!Contents
<1>. QED
  BY <1>3, <1>5 DEF Alike

\* The null address is none of the list's.
LEMMA ListAddresses == P!CellsAssumption
  BY ListAssumption DEF L!CellsAssumption, P!CellsAssumption, L!NULL, P!NULL

\* dll.c: in every behaviour the list is the same forwards and backwards, has
\* the size it says and reaches all that is allocated.
THEOREM ListSafety == Spec => []SameBothWays
<1>1. P!Spec => []P!SameBothWays
  BY ListAddresses, P!ListSameBothWays
<1>. QED
  BY ListPart, SameView, <1>1, PTL DEF Alike

\* dll.c, stack.c: in every behaviour each operation on the links is the one on
\* the sequence of what the list keeps.
THEOREM ListRefinement == Spec => ImplementsSequence
<1>1. P!Spec => P!ImplementsSequence
  BY ListAddresses, P!ListIsSequence
<1>2. P!Promised!Init <=> L!Promised!Init
  BY SameView DEF P!Promised!Init, L!Promised!Init, Alike
<1>3. [P!Promised!Next]_P!Contents <=> [L!Promised!Next]_L!Contents
  <2>1. Alike'
    BY SameView, PTL
  <2>2. L!Contents = P!Contents /\ L!Contents' = P!Contents'
    BY SameView, <2>1 DEF Alike
  <2>3. \A i, d : L!Promised!Insert(i, d) <=> P!Promised!Insert(i, d)
    BY <2>2, Zenon DEF L!Promised!Insert, P!Promised!Insert, L!Promised!InsertAt, P!Promised!InsertAt
  <2>4. \A i : L!Promised!Delete(i) <=> P!Promised!Delete(i)
    BY <2>2, Zenon DEF L!Promised!Delete, P!Promised!Delete, L!Promised!RemoveAt, P!Promised!RemoveAt
  <2>. QED
    BY <2>2, <2>3, <2>4, Zenon DEF P!Promised!Next, L!Promised!Next
<1>. QED
  BY ListPart, <1>1, <1>2, <1>3, PTL
     DEF ImplementsSequence, L!ImplementsSequence, P!ImplementsSequence, P!Promised!Spec, L!Promised!Spec
-----------------------------------------------------------------------------
(* The hash tables.                                                        *)

\* The tables with their theorems; T is the same tables without them.
H == INSTANCE HashTable_proofs
         WITH Addresses <- HtAddresses, Tables <- HtTables, Copies <- HtCopies, Keys <- HtKeys,
              Values <- HtValues, ObjectKeys <- {}, mem <- heap, iter <- loop

\* Both speak of the same memory.
LEMMA SameBasics ==
  /\ T!NULL = H!NULL /\ T!NoIterator = H!NoIterator /\ T!EmptyMemory = H!EmptyMemory
  /\ \A f, x, y : T!Bind(f, x, y) = H!Bind(f, x, y)
  /\ \A f, S : T!Free(f, S) = H!Free(f, S)
  /\ \A f, n : T!Fresh(f, n) = H!Fresh(f, n)
  /\ \A m, n : T!HasRoom(m, n) = H!HasRoom(m, n)
  /\ \A m, n, link : T!Along(m, n, link) = H!Along(m, n, link)
<1>1. T!NULL = H!NULL /\ T!NoIterator = H!NoIterator /\ T!EmptyMemory = H!EmptyMemory
  BY Zenon DEF T!NULL, H!NULL, T!NoIterator, H!NoIterator, T!EmptyMemory, H!EmptyMemory
<1>2. \A f, x, y : T!Bind(f, x, y) = H!Bind(f, x, y)
  BY Zenon DEF T!Bind, H!Bind
<1>3. \A f, S : T!Free(f, S) = H!Free(f, S)
  BY Zenon DEF T!Free, H!Free
<1>4. \A f, n : T!Fresh(f, n) = H!Fresh(f, n)
  BY Zenon DEF T!Fresh, H!Fresh, T!IsInjective, H!IsInjective
<1>5. \A m, n : T!HasRoom(m, n) = H!HasRoom(m, n)
  BY Zenon DEF T!HasRoom, H!HasRoom, T!Cardinality, H!Cardinality
<1>6. \A m, n, link : T!Along(m, n, link) = H!Along(m, n, link)
  BY Zenon DEF T!Along, H!Along, T!NULL, H!NULL, T!Cardinality, H!Cardinality
<1>. QED
  BY <1>1, <1>2, <1>3, <1>4, <1>5, <1>6

\* They read a memory alike.
LEMMA SameReading ==
  /\ \A m, t : T!Heads(m, t) = H!Heads(m, t)
  /\ \A heads, k : T!Slot(heads, k) = H!Slot(heads, k)
  /\ \A m, t : T!Elements(m, t) = H!Elements(m, t)
  /\ \A m, t, k : T!Chain(m, t, k) = H!Chain(m, t, k)
  /\ \A s, i : T!At(s, i) = H!At(s, i)
  /\ \A s, x : T!Place(s, x) = H!Place(s, x)
  /\ \A s : T!ToSet(s) = H!ToSet(s)
<1>1. \A m, t : T!Heads(m, t) = H!Heads(m, t)
  BY Zenon DEF T!Heads, H!Heads
<1>2. \A heads, k : T!Slot(heads, k) = H!Slot(heads, k)
  BY Zenon DEF T!Slot, H!Slot, T!Cardinality, H!Cardinality
<1>3. \A m, t : T!Elements(m, t) = H!Elements(m, t)
  BY SameBasics, Zenon DEF T!Elements, H!Elements
<1>4. \A m, t, k : T!Chain(m, t, k) = H!Chain(m, t, k)
  BY <1>1, <1>2, SameBasics, Zenon DEF T!Chain, H!Chain
<1>5. \A s, i : T!At(s, i) = H!At(s, i)
  BY Zenon DEF T!At, H!At, T!NULL, H!NULL
<1>6. \A s, x : T!Place(s, x) = H!Place(s, x)
  BY Zenon DEF T!Place, H!Place
<1>7. \A s : T!ToSet(s) = H!ToSet(s)
  BY Zenon DEF T!ToSet, H!ToSet
<1>. QED
  BY <1>1, <1>2, <1>3, <1>4, <1>5, <1>6, <1>7

\* They change it alike: first what the operations are made of.
LEMMA SameParts ==
  /\ \A m, t, e, n : T!Placed(m, t, e, n) = H!Placed(m, t, e, n)
  /\ \A m, t, k : T!ToRemove(m, t, k) = H!ToRemove(m, t, k)
  /\ \A m, t, k : T!ht_exists(m, t, k) = H!ht_exists(m, t, k)
  /\ \A m, t, n : T!Removed(m, t, n) = H!Removed(m, t, n)
  /\ \A m, t : T!Grown(m, t) = H!Grown(m, t)
<1>1. \A m, t, e, n : T!Placed(m, t, e, n) = H!Placed(m, t, e, n)
  BY SMT DEF T!Placed, H!Placed, T!Bind, H!Bind, T!Latest, H!Latest, T!NULL, H!NULL,
               T!Max, H!Max, T!ToSet, H!ToSet, T!Place, H!Place
<1>2. \A s, I : T!First(s, I) = H!First(s, I)
  BY Zenon DEF T!First, H!First, T!NULL, H!NULL, T!Min, H!Min
<1>3. \A m, t, k : T!ToRemove(m, t, k) = H!ToRemove(m, t, k)
  BY <1>2, SameReading, Zenon DEF T!ToRemove, H!ToRemove
<1>4. \A m, t, k : T!ht_exists(m, t, k) = H!ht_exists(m, t, k)
  BY <1>2, SameBasics, SameReading, Zenon DEF T!ht_exists, H!ht_exists, T!find_bucket, H!find_bucket
<1>5. \A m, t, n : T!Removed(m, t, n) = H!Removed(m, t, n)
  BY SMT DEF T!Removed, H!Removed, T!Bind, H!Bind, T!Heads, H!Heads
<1>6. \A m, t, n : T!chf_resize(m, t, n) = H!chf_resize(m, t, n)
  BY <1>1, SameReading, Zenon DEF T!chf_resize, H!chf_resize
<1>7. \A m, t : T!Grown(m, t) = H!Grown(m, t)
  <2>1. \A S : T!Cardinality(S) = H!Cardinality(S)
    BY Zenon DEF T!Cardinality, H!Cardinality
  <2>. QED
    BY <1>6, <2>1, SameReading, Zenon DEF T!Grown, H!Grown
<1>. QED
  BY <1>1, <1>3, <1>4, <1>5, <1>7

\* The memory with a new bucket n behind the last one of a chain of slot h.
WithBucket(m, t, k, v, n, last, h) ==
    [m EXCEPT
       !.bucket = [x \in DOMAIN m.bucket \cup {n} |->
          IF x = n THEN [key |-> k, value |-> v, prev |-> m.table[t].tail, next |-> NULL, chained |-> NULL]
          ELSE [m.bucket[x] EXCEPT !.next = IF x = m.table[t].tail THEN n ELSE @,
                                   !.chained = IF x = last THEN n ELSE @]],
       !.table = Bind(@, t, [m.table[t] EXCEPT !.head = IF @ = NULL THEN n ELSE @,
                                               !.tail = n, !.count = @ + 1]),
       !.array = Bind(@, m.table[t].array,
                      [m.array[m.table[t].array] EXCEPT ![h] = IF @ = NULL THEN n ELSE @])]

\* The memory with the buckets new, which double the buckets old.
WithCopies(m, t, old, new) ==
    [m EXCEPT
       !.bucket = [x \in DOMAIN m.bucket \cup H!ToSet(new) |->
          IF x \in H!ToSet(new)
          THEN [m.bucket[old[H!Place(new, x)]] EXCEPT !.prev = H!At(new, H!Place(new, x) - 1),
                                                      !.next = H!At(new, H!Place(new, x) + 1)]
          ELSE m.bucket[x]],
       !.table = Bind(@, t, [m.table[t] EXCEPT !.cow = FALSE, !.array = t,
                                               !.head = H!At(new, 1), !.tail = H!At(new, Len(new))])]

\* And so the operations.
LEMMA SameOperations ==
  /\ \A m, t : T!ht_create(m, t) = H!ht_create(m, t)
  /\ \A m, s, t, cow : T!ht_copy(m, s, t, cow) = H!ht_copy(m, s, t, cow)
  /\ \A m, t, k, v : T!ht_add(m, t, k, v) = H!ht_add(m, t, k, v)
  /\ \A m, t, k : T!ht_remove(m, t, k) = H!ht_remove(m, t, k)
  /\ \A m, t, k, v : T!ht_replace(m, t, k, v) = H!ht_replace(m, t, k, v)
  /\ \A m, t : T!ht_destroy(m, t) = H!ht_destroy(m, t)
<1>1. \A m, t : T!ht_create(m, t) = H!ht_create(m, t)
  BY Zenon DEF T!ht_create, H!ht_create, T!Bind, H!Bind, T!EmptyHeads, H!EmptyHeads, T!NULL, H!NULL
<1>2. \A m, t, k, v : T!chf_add(m, t, k, v) = H!chf_add(m, t, k, v)
  <2> SUFFICES ASSUME NEW m, NEW t, NEW k, NEW v PROVE T!chf_add(m, t, k, v) = H!chf_add(m, t, k, v)
    OBVIOUS
  <2> DEFINE e == T!Chain(m, t, k)
             n == T!Fresh(m.bucket, 1)[1]
             last == T!At(e, Len(e))
             h == T!Slot(T!Heads(m, t), k)
             G == H!Chain(m, t, k)
  <2>1. T!chf_add(m, t, k, v) = T!Grown(WithBucket(m, t, k, v, n, last, h), t)
    BY Zenon DEF T!chf_add, WithBucket, T!NULL, NULL, T!Bind, Bind, T!Heads
  <2>2. H!chf_add(m, t, k, v)
          = H!Grown(WithBucket(m, t, k, v, H!Fresh(m.bucket, 1)[1], H!At(G, Len(G)), H!Slot(H!Heads(m, t), k)), t)
    BY Zenon DEF H!chf_add, WithBucket, H!NULL, NULL, H!Bind, Bind, H!Heads
  <2>3. /\ n = H!Fresh(m.bucket, 1)[1] /\ last = H!At(G, Len(G)) /\ h = H!Slot(H!Heads(m, t), k)
    BY SameBasics, SameReading, Zenon
  <2>. QED
    BY <2>1, <2>2, <2>3, SameParts, Zenon
<1>3. \A m, t, k : T!chf_remove(m, t, k) = H!chf_remove(m, t, k)
  BY SameBasics, SameParts, Zenon DEF T!chf_remove, H!chf_remove
<1>4. \A m, t : T!chf_deep_copy(m, t) = H!chf_deep_copy(m, t)
  <2> SUFFICES ASSUME NEW m, NEW t PROVE T!chf_deep_copy(m, t) = H!chf_deep_copy(m, t)
    OBVIOUS
  <2> DEFINE old == T!Elements(m, t)
             new == T!Fresh(m.bucket, Len(old))
             Old == H!Elements(m, t)
             New == H!Fresh(m.bucket, Len(Old))
  <2>1. T!chf_deep_copy(m, t) = T!Placed(WithCopies(m, t, old, new), t, new, T!Cardinality(DOMAIN T!Heads(m, t)))
    BY Zenon DEF T!chf_deep_copy, WithCopies, T!Bind, Bind, T!ToSet, H!ToSet, T!Place, H!Place, T!At, H!At, T!NULL, H!NULL
  <2>2. H!chf_deep_copy(m, t) = H!Placed(WithCopies(m, t, Old, New), t, New, H!Cardinality(DOMAIN H!Heads(m, t)))
    BY Zenon DEF H!chf_deep_copy, WithCopies, H!Bind, Bind
  <2>3. old = Old /\ new = New
    BY SameBasics, SameReading, Zenon
  <2>4. T!Cardinality(DOMAIN T!Heads(m, t)) = H!Cardinality(DOMAIN H!Heads(m, t))
    BY SameReading, Zenon DEF T!Cardinality, H!Cardinality
  <2>. QED
    BY <2>1, <2>2, <2>3, <2>4, SameParts, Zenon
<1>5. \A m, t : T!Owned(m, t) = H!Owned(m, t)
  BY <1>4, Zenon DEF T!Owned, H!Owned
<1>6. \A m, s, t, cow : T!ht_copy(m, s, t, cow) = H!ht_copy(m, s, t, cow)
  BY <1>4, SameBasics, Zenon DEF T!ht_copy, H!ht_copy
<1>7. \A m, t, k, v : T!ht_add(m, t, k, v) = H!ht_add(m, t, k, v)
  BY <1>2, <1>5, Zenon DEF T!ht_add, H!ht_add
<1>8. \A m, t, k : T!ht_remove(m, t, k) = H!ht_remove(m, t, k)
  BY <1>3, <1>5, Zenon DEF T!ht_remove, H!ht_remove
<1>9. \A m, t, k, v : T!ht_replace(m, t, k, v) = H!ht_replace(m, t, k, v)
  BY <1>2, <1>3, <1>5, SameParts, Zenon DEF T!ht_replace, H!ht_replace
<1>10. \A m, t : T!ht_destroy(m, t) = H!ht_destroy(m, t)
  BY SMT DEF T!ht_destroy, H!ht_destroy, T!Free, H!Free, T!ToSet, H!ToSet,
             T!Elements, H!Elements, T!Along, H!Along, T!NULL, H!NULL, T!Cardinality, H!Cardinality
<1>. QED
  BY <1>1, <1>6, <1>7, <1>8, <1>9, <1>10

\* Both speak of the same steps.
LEMMA SameTableSteps == T!Next <=> H!Next
<1>1. (T!Advance <=> H!Advance) /\ (T!Leave <=> H!Leave)
  BY SameBasics, Zenon DEF T!Advance, H!Advance, T!Leave, H!Leave
<1>2. \A t : (T!Exists(t) <=> H!Exists(t)) /\ (T!Lent(t) <=> H!Lent(t))
  BY Zenon DEF T!Exists, H!Exists, T!Lent, H!Lent
<1>3. \A t : T!Writable(t) <=> H!Writable(t)
  BY <1>2, Zenon DEF T!Writable, H!Writable
<1>4. \A t, n : T!Room(t, n) <=> H!Room(t, n)
  BY SameBasics, Zenon DEF T!Room, H!Room
<1>5. T!Still <=> H!Still
  BY Zenon DEF T!Still, H!Still
<1>6. \A t, k : T!Spared(t, k) <=> H!Spared(t, k)
  BY SameParts, Zenon DEF T!Spared, H!Spared
<1>7. \A n : T!SeenWithout(n) = H!SeenWithout(n)
  BY SameReading, Zenon DEF T!SeenWithout, H!SeenWithout, T!RemoveAt, H!RemoveAt
<1>8. \A t : T!Create(t) <=> H!Create(t)
  BY <1>2, <1>5, SameOperations, Zenon DEF T!Create, H!Create
<1>9. \A t : T!Destroy(t) <=> H!Destroy(t)
  BY <1>2, <1>5, SameOperations, Zenon DEF T!Destroy, H!Destroy
<1>10. \A t : T!Rewind(t) <=> H!Rewind(t)
  BY <1>2, SameBasics, Zenon DEF T!Rewind, H!Rewind
<1>11. \A s, t, cow : T!Copy(s, t, cow) <=> H!Copy(s, t, cow)
  BY <1>2, <1>5, SameBasics, SameOperations, Zenon DEF T!Copy, H!Copy
<1>12. \A t, k : T!RemoveKey(t, k) <=> H!RemoveKey(t, k)
  BY <1>3, <1>4, <1>6, <1>7, SameParts, SameOperations, Zenon DEF T!RemoveKey, H!RemoveKey
<1>13. \A t, k, v : T!AddKey(t, k, v) <=> H!AddKey(t, k, v)
  BY <1>3, <1>4, <1>5, SameOperations, Zenon DEF T!AddKey, H!AddKey
<1>14. \A t, k, v : T!ReplaceKey(t, k, v) <=> H!ReplaceKey(t, k, v)
  BY <1>3, <1>4, <1>6, <1>7, SameParts, SameOperations, Zenon DEF T!ReplaceKey, H!ReplaceKey
<1>. QED
  BY <1>1, <1>8, <1>9, <1>10, <1>11, <1>12, <1>13, <1>14, Zenon DEF T!Next, H!Next

\* A behaviour of Containers is one of the tables.
LEMMA TablePart == Spec => H!Spec
<1>1. Init => H!Init
  BY SameBasics, Zenon DEF Init, T!Init, H!Init
<1>2. [Next]_vars => [H!Next]_H!vars
  BY SameTableSteps DEF Next, vars, H!vars
<1>. QED
  BY <1>1, <1>2, PTL DEF Spec, H!Spec

\* What they see of the tables is the same too.
SameTables ==
    /\ TypeOK <=> H!TypeOK
    /\ T!Linked <=> H!Linked
    /\ NothingLost <=> H!NothingLost
    /\ IterationSound <=> H!IterationSound
    /\ T!Contents = H!Contents

LEMMA TablesView == SameTables
<1>1. TypeOK <=> H!TypeOK
  BY SameBasics, Zenon DEF TypeOK, T!TypeOK, H!TypeOK, T!Cardinality, H!Cardinality
<1>2. T!Linked <=> H!Linked
  BY SMT DEF T!Linked, H!Linked, T!Agree, H!Agree, T!Elements, H!Elements, T!Heads, H!Heads, T!Along, H!Along,
     T!NULL, H!NULL, T!Cardinality, H!Cardinality, T!Reverse, H!Reverse, T!ToSet, H!ToSet, T!Slot, H!Slot
<1>3. NothingLost <=> H!NothingLost
  BY SMT DEF NothingLost, T!NothingLost, H!NothingLost, T!Elements, H!Elements, T!Along, H!Along,
     T!NULL, H!NULL, T!Cardinality, H!Cardinality, T!ToSet, H!ToSet
<1>4. IterationSound <=> H!IterationSound
  BY SameBasics, SameReading, Zenon DEF IterationSound, T!IterationSound, H!IterationSound
<1>5. T!Contents = H!Contents
  BY Zenon DEF T!Contents, H!Contents, T!Shown, H!Shown, T!Entry, H!Entry, T!Elements, H!Elements,
     T!Along, H!Along, T!NULL, H!NULL, T!Cardinality, H!Cardinality
<1>. QED
  BY <1>1, <1>2, <1>3, <1>4, <1>5 DEF SameTables

\* What every build and every caller gives.
LEMMA TableAddresses == H!TablesAssumption
  BY AddressesAssumption, SameBasics, Zenon
     DEF T!TablesAssumption, H!TablesAssumption, T!IsFiniteSet, H!IsFiniteSet

\* The keys of the tables are no objects.
LEMMA TableKeys == H!KeysAssumption
  BY DEF H!KeysAssumption

\* hashtable.c: in every behaviour no table refers to a bucket or an array that
\* has been freed, and none counts more elements than are allocated.
THEOREM TablesType == Spec => []TypeOK
<1>1. H!Spec => []H!TypeOK
  BY TableAddresses, TableKeys, H!TablesTyped
<1>. QED
  BY TablePart, TablesView, <1>1, PTL DEF SameTables

\* hashtable.c: in every behaviour every bucket and every array is one table's
\* to free, and shared only with copies that will copy before they write.
THEOREM TablesLose == Spec => []NothingLost
<1>1. H!Spec => []H!NothingLost
  BY TableAddresses, TableKeys, H!TablesLoseNothing
<1>. QED
  BY TablePart, TablesView, <1>1, PTL DEF SameTables

\* ht_iter: in every behaviour a loop over a table meets every element once and
\* in order, whatever is done to the table meanwhile.
THEOREM TablesIteration == Spec => []IterationSound
<1>1. H!Spec => []H!IterationSound
  BY TableAddresses, TableKeys, H!TablesIterated
<1>. QED
  BY TablePart, TablesView, <1>1, PTL DEF SameTables

\* hashtable.h: in every behaviour tables, with the buckets they share, are
\* separate sequences of entries.
THEOREM TablesRefinement == Spec => ImplementsMap
<1>1. H!Spec => H!ImplementsMap
  BY TableAddresses, TableKeys, H!TablesAreMaps
<1>2. H!Promised!Init <=> T!Promised!Init
  BY TablesView DEF H!Promised!Init, T!Promised!Init, SameTables
<1>3. [H!Promised!Next]_H!Contents <=> [T!Promised!Next]_T!Contents
  <2>1. SameTables'
    BY TablesView, PTL
  <2>2. T!Contents = H!Contents /\ T!Contents' = H!Contents'
    BY TablesView, <2>1 DEF SameTables
  <2>3. \A t, s : T!Promised!Set(t, s) <=> H!Promised!Set(t, s)
    BY <2>2, Zenon DEF T!Promised!Set, H!Promised!Set
  <2>4. \A e, k : T!Promised!Has(e, k) <=> H!Promised!Has(e, k)
    BY Zenon DEF T!Promised!Has, H!Promised!Has
  <2>5. \A e, k : T!Promised!Without(e, k) = H!Promised!Without(e, k)
    BY Zenon DEF T!Promised!Without, H!Promised!Without, T!Promised!RemoveAt, H!Promised!RemoveAt
  <2>6. \A t : T!Promised!Create(t) <=> H!Promised!Create(t)
    BY <2>2, <2>3, Zenon DEF T!Promised!Create, H!Promised!Create
  <2>7. \A s, t : T!Promised!Duplicate(s, t) <=> H!Promised!Duplicate(s, t)
    BY <2>2, <2>3, Zenon DEF T!Promised!Duplicate, H!Promised!Duplicate
  <2>8. \A t, k, v : T!Promised!Add(t, k, v) <=> H!Promised!Add(t, k, v)
    BY <2>2, <2>3, Zenon DEF T!Promised!Add, H!Promised!Add
  <2>9. \A t, k : T!Promised!Delete(t, k) <=> H!Promised!Delete(t, k)
    BY <2>2, <2>3, <2>4, <2>5, Zenon DEF T!Promised!Delete, H!Promised!Delete
  <2>10. \A t, k, v : T!Promised!Put(t, k, v) <=> H!Promised!Put(t, k, v)
    BY <2>2, <2>3, <2>4, <2>5, Zenon DEF T!Promised!Put, H!Promised!Put
  <2>11. \A t : T!Promised!Destroy(t) <=> H!Promised!Destroy(t)
    BY <2>2, Zenon DEF T!Promised!Destroy, H!Promised!Destroy
  <2>. QED
    BY <2>2, <2>6, <2>7, <2>8, <2>9, <2>10, <2>11, Zenon DEF H!Promised!Next, T!Promised!Next
<1>. QED
  BY TablePart, <1>1, <1>2, <1>3, PTL
     DEF ImplementsMap, T!ImplementsMap, H!ImplementsMap, H!Promised!Spec, T!Promised!Spec
-----------------------------------------------------------------------------
(* The collections.                                                        *)

\* A behaviour of Containers is one of the collections.
LEMMA CollectionsPart == Spec => CollectionsSpec
<1>1. Init => CollectionsInit
  BY DEF Init
<1>2. [Next]_vars => [CollectionsNext /\ Bounded]_collectionVars
  BY DEF Next, vars, collectionVars
<1>. QED
  BY <1>1, <1>2, PTL DEF Spec, CollectionsSpec

\* hashtable.c, chained.c: in every behaviour a table or a collection read
\* forwards, backwards and chain by chain has the same elements.
THEOREM TablesLinks == Spec => []Linked
<1>1. H!Spec => []H!Linked
  BY TableAddresses, TableKeys, H!TablesLinked
<1>2. CollectionsSpec => []CollectionsLinked
  BY AddressesAssumption, CollectionsAgree
<1>3. T!Linked /\ CollectionsLinked => Linked
  BY DEF Linked
<1>. QED
  BY TablePart, TablesView, CollectionsPart, <1>1, <1>2, <1>3, PTL DEF SameTables

\* list.c, tuple.c: in every behaviour get(i) finds something exactly if i is
\* below length(), after any building, filling, adding and shuffling.
THEOREM CollectionsIndices == Spec => []Dense
<1>1. CollectionsSpec => []Dense
  BY AddressesAssumption, CollectionsDense
<1>. QED
  BY CollectionsPart, <1>1, PTL

\* list.c: in every behaviour a step that leaves a list as long as it was leaves
\* every object in it as often as it was.
THEOREM CollectionsElements == Spec => ShuffleKeeps
<1>1. CollectionsSpec => ShuffleKeeps
  BY AddressesAssumption, CollectionsShuffle
<1>. QED
  BY CollectionsPart, <1>1
=============================================================================
