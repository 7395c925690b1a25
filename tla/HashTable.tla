----------------------------- MODULE HashTable ------------------------------
(***************************************************************************)
(* The life of a few hash tables whose keys are strings or numbers: every  *)
(* ht_ function of general/hashtable.c in any order, and one iterator.     *)
(*                                                                         *)
(* What the code expects of its callers and does not look at: an empty     *)
(* table is not copied (chained.c:346 would copy a bucket that is not      *)
(* there); a table is neither written nor destroyed while a copy that      *)
(* still waits for its first write uses its buckets (the copy alone is     *)
(* separated, by its own first write); the element an iterator stands on   *)
(* is not removed, its table is not destroyed, and a rewind is given the   *)
(* table (hashtable.c:299 takes the head of the one given, which may be    *)
(* none).                                                                  *)
(* A bound of the model: no copy is made during an iteration, and nothing  *)
(* is iterated over while there is one.                                    *)
(***************************************************************************)
EXTENDS HashTableOps

VARIABLES
    mem,     \* the memory
    iter,    \* the iterator: its table and its bucket; NULL is no table
    seen     \* the elements the iterator has left behind and that still exist

vars == <<mem, iter, seen>>

\* The keys are strings or numbers.
KeysAssumption == Keys \cap ObjectKeys = {}

NoIterator == [ht |-> NULL, bucket |-> NULL]

Init == mem = EmptyMemory /\ iter = NoIterator /\ seen = <<>>

Exists(t) == t \in DOMAIN mem.table
Lent(t) == \E c \in DOMAIN mem.table \ {t} :
              mem.table[c].cow /\ mem.table[c].array = mem.table[t].array
Writable(t) == Exists(t) /\ ~Lent(t)

\* Room for n more buckets, and for the copies if the table has to be copied.
Room(t, n) == HasRoom(mem, n + IF mem.table[t].cow THEN mem.table[t].count ELSE 0)

Still == UNCHANGED <<iter, seen>>

Create(t) == t \notin Copies /\ ~Exists(t) /\ mem' = ht_create(mem, t) /\ Still

Copy(s, t, cow) ==
    /\ t \in Copies /\ iter = NoIterator
    /\ Exists(s) /\ ~Exists(t) /\ mem.table[s].count > 0
    /\ cow \/ HasRoom(mem, mem.table[s].count)
    /\ mem' = ht_copy(mem, s, t, cow)
    /\ Still

AddKey(t, k, v) ==
    /\ Writable(t) /\ Room(t, 1)
    /\ mem' = ht_add(mem, t, k, v)
    /\ Still

SeenWithout(n) == IF n \in ToSet(seen) THEN RemoveAt(seen, Place(seen, n)) ELSE seen

\* The element that goes is not the iterator's.
Spared(t, k) == iter.ht = t => ToRemove(mem, t, k) # iter.bucket

RemoveKey(t, k) ==
    /\ Writable(t) /\ Room(t, 0) /\ Spared(t, k)
    /\ mem' = ht_remove(mem, t, k)
    /\ seen' = IF iter.ht = t THEN SeenWithout(ToRemove(mem, t, k)) ELSE seen
    /\ UNCHANGED iter

ReplaceKey(t, k, v) ==
    /\ Writable(t) /\ Room(t, 1) /\ Spared(t, k)
    /\ mem' = ht_replace(mem, t, k, v)
    /\ seen' = IF iter.ht = t THEN SeenWithout(ToRemove(mem, t, k)) ELSE seen
    /\ UNCHANGED iter

Destroy(t) ==
    /\ Exists(t) /\ ~Lent(t) /\ iter.ht # t
    /\ mem' = ht_destroy(mem, t)
    /\ Still

\* ht_iter_init, ht_iter_rewind: over an empty table the loop ends at once.
Rewind(t) ==
    /\ Exists(t) /\ DOMAIN mem.table \cap Copies = {}
    /\ iter' = IF mem.table[t].head = NULL THEN NoIterator
               ELSE [ht |-> t, bucket |-> mem.table[t].head]
    /\ seen' = <<>>
    /\ UNCHANGED mem

\* ht_iter_next: of no element there is no next one, and a loop over the table
\* ends there.
Advance ==
    /\ iter.bucket # NULL
    /\ LET next == mem.bucket[iter.bucket].next
       IN IF next = NULL THEN iter' = NoIterator /\ seen' = <<>>
          ELSE iter' = [iter EXCEPT !.bucket = next] /\ seen' = Append(seen, iter.bucket)
    /\ UNCHANGED mem

Leave == iter # NoIterator /\ iter' = NoIterator /\ seen' = <<>> /\ UNCHANGED mem

Next ==
    \/ \E t \in Tables :
        \/ Create(t) \/ Destroy(t) \/ Rewind(t)
        \/ \E s \in Tables, cow \in BOOLEAN : Copy(s, t, cow)
        \/ \E k \in Keys :
            \/ RemoveKey(t, k)
            \/ \E v \in Values : AddKey(t, k, v) \/ ReplaceKey(t, k, v)
    \/ Advance
    \/ Leave

Spec == Init /\ [][Next]_vars

-----------------------------------------------------------------------------
\* Counts fit what is allocated, and the iterator stands on a table there is.
TypeOK ==
    /\ DOMAIN mem.bucket \subseteq Addresses
    /\ \A t \in DOMAIN mem.table :
        /\ mem.table[t].count \in 0 .. Cardinality(Addresses)
        /\ mem.table[t].array \in DOMAIN mem.array
        /\ {mem.table[t].head, mem.table[t].tail} \subseteq DOMAIN mem.bucket \cup {NULL}
    /\ iter.ht \in DOMAIN mem.table \cup {NULL}

\* The two ways through each table agree.
Linked == \A t \in DOMAIN mem.table : Agree(mem, t)

\* No bucket and no array is left without a table, and a bucket that two tables
\* share is shared with a copy that will copy it before it writes.
NothingLost ==
    LET owners == {t \in DOMAIN mem.table : ~mem.table[t].cow}
    IN /\ DOMAIN mem.bucket = UNION {ToSet(Elements(mem, t)) : t \in owners}
       /\ DOMAIN mem.array = {mem.table[t].array : t \in owners}
       /\ \A t, u \in owners : t # u =>
            ToSet(Elements(mem, t)) \cap ToSet(Elements(mem, u)) = {}

\* A loop over a table meets every element once and in order, whatever is added,
\* replaced, removed or rehashed meanwhile: what is behind it, what it stands
\* on and what is ahead make up the table.
IterationSound ==
    iter.ht # NULL =>
        seen \o Along(mem, iter.bucket, "next") = Elements(mem, iter.ht)

Entry(n) == <<mem.bucket[n].key, mem.bucket[n].value>>
\* The entries of a sequence of buckets.
Shown[e \in Seq(Addresses)] == [i \in DOMAIN e |-> Entry(e[i])]
Contents == [t \in DOMAIN mem.table |-> Shown[Elements(mem, t)]]
Promised == INSTANCE Map WITH map <- Contents

\* Tables with shared buckets, rehashing and copies made at the first write
\* behave like separate sequences of entries.
ImplementsMap == Promised!Spec
=============================================================================
