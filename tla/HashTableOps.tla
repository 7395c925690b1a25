---------------------------- MODULE HashTableOps ----------------------------
(***************************************************************************)
(* Hash tables of components/general/hashtable.c and hash/chained.c, at    *)
(* the level of their pointers: the operations as functions from a memory  *)
(* to a memory.                                                            *)
(*                                                                         *)
(* A memory m has                                                          *)
(*   m.bucket   the allocated buckets: key, value, the previous and the    *)
(*              next element of the table, the next one in the same chain  *)
(*   m.array    the allocated arrays of chain heads, each named after the  *)
(*              table that allocated it                                    *)
(*   m.table    the tables: array, count, first and last element, and      *)
(*              whether the table copies before it writes (cow)            *)
(* An address is a number, 0 is NULL, and some free one is allocated.      *)
(* A key is its hash: the tables hold distinct hashes apart by the         *)
(* comparison of the keys.                                                 *)
(***************************************************************************)
EXTENDS Integers, FiniteSets, SequencesExt

CONSTANTS
    Addresses,   \* a bound on the buckets allocated at one time: 1 .. n
    Buckets,     \* bucket_count; ht_create gives HT_INITIAL_BUCKET_COUNT
    LoadFactor,  \* load_factor and resize_factor, in hundredths: ht_create
    ResizeFactor,\* gives 125 and 175
    Tables,      \* what tables are named by
    Copies,      \* the tables that ht_copy makes; ht_create makes the others
    Keys, Values,
    ObjectKeys   \* the keys that are objects; the others are strings or numbers

NULL == 0

\* What every build and every caller gives: memory ends, NULL is no bucket and no
\* table, a key is a hash, and tables grow.
TablesAssumption ==
    /\ IsFiniteSet(Addresses) /\ NULL \notin Addresses /\ NULL \notin Tables
    /\ Keys \subseteq Nat
    /\ Buckets \in Nat \ {0} /\ LoadFactor \in Nat
    /\ ResizeFactor \in Nat /\ ResizeFactor >= 100

Bind(f, x, y) == [z \in DOMAIN f \cup {x} |-> IF z = x THEN y ELSE f[z]]
Free(f, S) == [z \in DOMAIN f \ S |-> f[z]]

\* n free addresses.
Fresh(f, n) == CHOOSE q \in [1 .. n -> Addresses \ DOMAIN f] : IsInjective(q)
HasRoom(m, n) == Cardinality(Addresses \ DOMAIN m.bucket) >= n

\* What is reached from n along a link, n included.
Along(m, n, link) ==
    LET behind == [x \in Addresses \cup {NULL} |-> IF x \in DOMAIN m.bucket THEN m.bucket[x][link] ELSE NULL]
        walk[i \in 1 .. Cardinality(DOMAIN m.bucket) + 1] == IF i = 1 THEN n ELSE behind[walk[i - 1]]
        met == {i \in DOMAIN walk : walk[i] \in DOMAIN m.bucket}
    IN [i \in 1 .. Cardinality(met) |-> walk[i]]

At(s, i) == IF i \in DOMAIN s THEN s[i] ELSE NULL
Place(s, x) == CHOOSE i \in DOMAIN s : s[i] = x
First(s, I) == IF I = {} THEN NULL ELSE s[Min(I)]
Latest(s, I) == IF I = {} THEN NULL ELSE s[Max(I)]

Heads(m, t) == m.array[m.table[t].array]
Slot(heads, k) == k % Cardinality(DOMAIN heads)
Elements(m, t) == Along(m, m.table[t].head, "next")
Chain(m, t, k) == Along(m, Heads(m, t)[Slot(Heads(m, t), k)], "chained")

EmptyMemory == [bucket |-> <<>>, array |-> <<>>, table |-> <<>>]
EmptyHeads(n) == [s \in 0 .. n - 1 |-> NULL]

ht_create(m, t) ==
    [m EXCEPT !.array = Bind(@, t, EmptyHeads(Buckets)),
              !.table = Bind(@, t, [array |-> t, count |-> 0, head |-> NULL,
                                    tail |-> NULL, cow |-> FALSE])]

-----------------------------------------------------------------------------
\* The first bucket of the key's chain that has the key.
find_bucket(m, t, k) ==
    LET chain == Chain(m, t, k)
    IN First(chain, {i \in DOMAIN chain : m.bucket[chain[i]].key = k})

ht_exists(m, t, k) == find_bucket(m, t, k) # NULL
ht_find(m, t, k) == IF ht_exists(m, t, k) THEN m.bucket[find_bucket(m, t, k)].value ELSE NULL

-----------------------------------------------------------------------------
\* The elements e, in their order, each go in front of its chain in a new array
\* of n heads: behind an element is the latest one before it with its slot.
Placed(m, t, e, n) ==
    LET InSlot(i, s) == m.bucket[e[i]].key % n = s
        Before(i) == {j \in 1 .. i - 1 : InSlot(j, m.bucket[e[i]].key % n)}
    IN [m EXCEPT
          !.array = Bind(@, t, [s \in 0 .. n - 1 |-> Latest(e, {i \in DOMAIN e : InSlot(i, s)})]),
          !.bucket = [x \in DOMAIN m.bucket |->
              IF x \in ToSet(e) THEN [m.bucket[x] EXCEPT !.chained = Latest(e, Before(Place(e, x)))]
              ELSE m.bucket[x]]]

\* Mutant: only the first bucket of every chain is hashed again.
ResizeHeads(m, t, n) ==
    Placed(m, t, SelectSeq(Elements(m, t), LAMBDA x : x \in Range(Heads(m, t))), n)

chf_resize(m, t, n) == Placed(m, t, Elements(m, t), n)

Grown(m, t) ==
    LET n == Cardinality(DOMAIN Heads(m, t))
    IN IF 100 * m.table[t].count > LoadFactor * n
       THEN chf_resize(m, t, (n * ResizeFactor) \div 100) ELSE m

\* A new last element, at the end of its chain, whether the table has the key
\* or not.
chf_add(m, t, k, v) ==
    LET n == Fresh(m.bucket, 1)[1]
        tail == m.table[t].tail
        chain == Chain(m, t, k)
        new == [key |-> k, value |-> v, prev |-> tail, next |-> NULL, chained |-> NULL]
    IN Grown([m EXCEPT
         !.bucket = [x \in DOMAIN m.bucket \cup {n} |->
            IF x = n THEN new
            ELSE [m.bucket[x] EXCEPT !.next = IF x = tail THEN n ELSE @,
                                     !.chained = IF x = At(chain, Len(chain)) THEN n ELSE @]],
         !.table = Bind(@, t, [m.table[t] EXCEPT !.head = IF @ = NULL THEN n ELSE @,
                                                 !.tail = n, !.count = @ + 1]),
         !.array = Bind(@, m.table[t].array,
                        [Heads(m, t) EXCEPT ![Slot(Heads(m, t), k)] = IF @ = NULL THEN n ELSE @])], t)

\* The bucket chf_remove takes out.  It compares object keys the wrong way
\* round, and finds the first bucket with another key.
ToRemove(m, t, k) ==
    LET chain == Chain(m, t, k)
    IN First(chain, {i \in DOMAIN chain : (m.bucket[chain[i]].key = k) <=> (k \notin ObjectKeys)})

\* Mutant: the list of elements ends where the bucket was.
RemovedRest(m, t, n) ==
    LET b == m.bucket[n]
        heads == Heads(m, t)
    IN [m EXCEPT
         !.bucket = [x \in DOMAIN m.bucket \ {n} |->
            [m.bucket[x] EXCEPT !.next = IF x = b.prev THEN NULL ELSE @,
                                !.prev = IF x = b.next THEN b.prev ELSE @,
                                !.chained = IF @ = n THEN b.chained ELSE @]],
         !.array = Bind(@, m.table[t].array, [s \in DOMAIN heads |-> IF heads[s] = n THEN b.chained ELSE heads[s]]),
         !.table = Bind(@, t, [m.table[t] EXCEPT !.head = IF @ = n THEN b.next ELSE @,
                                                 !.tail = IF @ = n THEN b.prev ELSE @, !.count = @ - 1])]

\* Bucket n leaves its chain and the list of elements, and is freed.
Removed(m, t, n) ==
    LET b == m.bucket[n]
        heads == Heads(m, t)
    IN [m EXCEPT
         !.bucket = [x \in DOMAIN m.bucket \ {n} |->
            [m.bucket[x] EXCEPT !.next = IF x = b.prev THEN b.next ELSE @,
                                !.prev = IF x = b.next THEN b.prev ELSE @,
                                !.chained = IF @ = n THEN b.chained ELSE @]],
         !.array = Bind(@, m.table[t].array, [s \in DOMAIN heads |-> IF heads[s] = n THEN b.chained ELSE heads[s]]),
         !.table = Bind(@, t, [m.table[t] EXCEPT !.head = IF @ = n THEN b.next ELSE @,
                                                 !.tail = IF @ = n THEN b.prev ELSE @, !.count = @ - 1])]

\* Mutant: an element is counted as gone whether it was found or not.
RemoveUncounted(m, t, k) ==
    LET n == ToRemove(m, t, k)
    IN IF n = NULL THEN [m EXCEPT !.table[t].count = @ - 1] ELSE Removed(m, t, n)

chf_remove(m, t, k) ==
    LET n == ToRemove(m, t, k) IN IF n = NULL THEN m ELSE Removed(m, t, n)

-----------------------------------------------------------------------------
\* The table gets buckets of its own, in the same order.  An empty table has no
\* first bucket to copy, which the code does not look at.
chf_deep_copy(m, t) ==
    LET old == Elements(m, t)
        new == Fresh(m.bucket, Len(old))
        Copy(j) == [m.bucket[old[j]] EXCEPT !.prev = At(new, j - 1), !.next = At(new, j + 1)]
        copied == [m EXCEPT
            !.bucket = [x \in DOMAIN m.bucket \cup ToSet(new) |->
                          IF x \in ToSet(new) THEN Copy(Place(new, x)) ELSE m.bucket[x]],
            !.table = Bind(@, t, [m.table[t] EXCEPT !.cow = FALSE, !.array = t,
                                                    !.head = At(new, 1), !.tail = At(new, Len(new))])]
    IN Placed(copied, t, new, Cardinality(DOMAIN Heads(m, t)))

\* Mutant: the buckets are always shared.
CopyShared(m, s, t, copy_on_write) ==
    [m EXCEPT !.table = Bind(@, t, [m.table[s] EXCEPT !.cow = copy_on_write])]

\* The struct is copied, and the buckets too unless copy_on_write.
ht_copy(m, s, t, copy_on_write) ==
    LET copy == [m EXCEPT !.table = Bind(@, t, [m.table[s] EXCEPT !.cow = copy_on_write])]
    IN IF copy_on_write THEN copy ELSE chf_deep_copy(copy, t)

\* Mutant: the flag is cleared and nothing is copied.
Unflagged(m, t) == [m EXCEPT !.table[t].cow = FALSE]

\* What every write does first.
Owned(m, t) == IF m.table[t].cow THEN chf_deep_copy(m, t) ELSE m

ht_add(m, t, k, v) == chf_add(Owned(m, t), t, k, v)
ht_remove(m, t, k) == chf_remove(Owned(m, t), t, k)

\* A key that is found is removed and added again, at the end.
ht_replace(m, t, k, v) ==
    LET own == Owned(m, t)
    IN chf_add(IF ht_exists(own, t, k) THEN chf_remove(own, t, k) ELSE own, t, k, v)

ht_destroy(m, t) ==
    LET table == m.table[t]
        gone == [m EXCEPT !.table = Free(@, {t})]
    IN IF table.cow THEN gone
       ELSE [gone EXCEPT !.bucket = Free(@, ToSet(Elements(m, t))),
                         !.array = Free(@, {t})]
-----------------------------------------------------------------------------
\* The two ways through a table agree: read forwards, read backwards and read
\* chain by chain it has the same elements, each once and each in the chain of
\* its key, as many as it counts.
Agree(m, t) ==
    LET elements == Elements(m, t)
        heads == Heads(m, t)
        chains == {Along(m, heads[s], "chained") : s \in DOMAIN heads}
    IN /\ Len(elements) = m.table[t].count
       /\ Along(m, m.table[t].tail, "prev") = Reverse(elements)
       /\ UNION {ToSet(c) : c \in chains} = ToSet(elements)
       /\ \A s \in DOMAIN heads : \A n \in ToSet(Along(m, heads[s], "chained")) :
            Slot(heads, m.bucket[n].key) = s
=============================================================================
