---------------------------- MODULE Collections -----------------------------
(***************************************************************************)
(* List, hash and tuple objects (components/objects/list.c, hash.c and     *)
(* tuple.c): which hash table operations each of their methods makes.      *)
(*                                                                         *)
(* A list or a tuple maps 0, 1, ... to its elements; a hash maps objects   *)
(* to objects, and counts a reference for both.  A list is iterated over   *)
(* by index, a hash by bucket, and each has one iterator of its own, which *)
(* every loop over it shares.                                              *)
(*                                                                         *)
(* What the code does not look at: a value that populate left out is NULL, *)
(* and is not made a key by the next populate.  hash.remove releases its   *)
(* argument and what it removed, whatever the table had; here it is called *)
(* while every object that is released stays referenced, and not when the  *)
(* bucket that goes is the one the iterator stands on.  A hash can be      *)
(* populated with itself, and then grows under its own loop: the model     *)
(* leaves that out.                                                        *)
(***************************************************************************)
EXTENDS HashTableOps

CONSTANTS
    Initial,    \* the sequences collections are built of
    MaxRefs     \* a bound on the references to one object

VARIABLES
    mem,       \* the tables; a collection has the table of its own name
    kind,      \* of every collection there is: "list", "hash" or "tuple"
    iter,      \* of every collection: an index or a bucket
    refs       \* the references to an object; the program holds one

collectionVars == <<mem, kind, iter, refs>>

\* What is kept in the collections, and the keys of a hash.
Objects == ObjectKeys

\* An object is not taken for an index; the tables are made by ht_create, and what
\* is in them are objects, or NULL where populate left a value out.
CollectionsAssumption ==
    LET indices == 0 .. Cardinality(Addresses)
    IN /\ TablesAssumption
       /\ Objects \cap indices = {} /\ Objects \cup indices \subseteq Keys
       /\ Values = Objects \cup {NULL}
       /\ Copies = {}
       /\ \A s \in Initial : s \in Seq(Objects)

CollectionsInit ==
    /\ mem = EmptyMemory /\ kind = <<>> /\ iter = <<>>
    /\ refs = [o \in Objects |-> 1]

Is(c, kinds) == c \in DOMAIN kind /\ kind[c] \in kinds
Count(c) == mem.table[c].count
Contents(c) == LET e == Elements(mem, c) IN [i \in DOMAIN e |-> mem.bucket[e[i]].value]

\* object_inc_ref of every object in a sequence that is not NULL.
Referenced(s) == [o \in Objects |-> refs[o] + Cardinality({i \in DOMAIN s : s[i] = o})]

\* Mutant: the first element gets the index 1.
AppendedFromOne(m, c, v) == ht_add(m, c, m.table[c].count + 1, v)

\* ht_add_num(ht, ht->element_count, value).
Appended(m, c, v) == ht_add(m, c, m.table[c].count, v)

AppendAll(m, c, s) ==
    LET filled[i \in 0 .. Len(s)] == IF i = 0 THEN m ELSE Appended(filled[i - 1], c, s[i])
    IN filled[Len(s)]

\* Every other one is a key, the one after it its value; the code of populate
\* makes NULL of a missing last value.
AddPairs(m, c, s) ==
    LET pairs == (Len(s) + 1) \div 2
        filled[i \in 0 .. pairs] ==
            IF i = 0 THEN m
            ELSE ht_add(filled[i - 1], c, s[2 * i - 1], IF 2 * i \in DOMAIN s THEN s[2 * i] ELSE NULL)
    IN filled[pairs]

\* object_alloc of a class with its populate callback: of no argument, or of a
\* DLL with the elements.  A hash drops a key without a value.
Build(c, k, s) ==
    LET new == ht_create(mem, c)
        pairs == SubSeq(s, 1, 2 * (Len(s) \div 2))
    IN /\ c \notin DOMAIN kind /\ HasRoom(mem, Len(s))
       /\ kind' = Bind(kind, c, k)
       /\ iter' = Bind(iter, c, 0)
       /\ IF k = "hash" THEN mem' = AddPairs(new, c, pairs) /\ refs' = Referenced(pairs)
          ELSE mem' = AppendAll(new, c, s) /\ UNCHANGED refs

list_add(c, o) ==
    /\ Is(c, {"list"}) /\ HasRoom(mem, 1)
    /\ mem' = AppendAll(mem, c, <<o>>)
    /\ UNCHANGED <<kind, iter, refs>>

\* Of a list and of a tuple: the values of a hash are added.
list_populate(c, h) ==
    /\ Is(c, {"list", "tuple"}) /\ Is(h, {"hash"}) /\ HasRoom(mem, Count(h))
    /\ mem' = AppendAll(mem, c, Contents(h))
    /\ UNCHANGED <<kind, iter, refs>>

\* Mutant: the second element is fetched after the first was overwritten.
SwappedLate(m, c, i, j) ==
    LET y == ht_replace(m, c, i, ht_find(m, c, j)) IN ht_replace(y, c, j, ht_find(y, c, i))

\* Elements i and j change places.
Swapped(m, c, i, j) == ht_replace(ht_replace(m, c, i, ht_find(m, c, j)), c, j, ht_find(m, c, i))

\* From the last one down to 1, element i changes places with element j[i].
Shuffled(m, c, j) ==
    LET shuffled[n \in 0 .. Len(j)] ==
            IF n = 0 THEN m
            ELSE Swapped(shuffled[n - 1], c, Len(j) + 1 - n, j[Len(j) + 1 - n])
    IN shuffled[Len(j)]

\* j[i] is rand() % i.
list_shuffle(c) ==
    /\ Is(c, {"list"}) /\ Count(c) > 0
    /\ \E j \in {f \in [1 .. Count(c) - 1 -> 0 .. Count(c) - 1] : \A i \in DOMAIN f : f[i] < i} :
            mem' = Shuffled(mem, c, j)
    /\ UNCHANGED <<kind, iter, refs>>

hash_add(h, k, v) ==
    /\ Is(h, {"hash"}) /\ HasRoom(mem, 1)
    /\ mem' = ht_add(mem, h, k, v)
    /\ refs' = Referenced(<<k, v>>)
    /\ UNCHANGED <<kind, iter>>

hash_populate(h, g) ==
    /\ Is(h, {"hash"}) /\ Is(g, {"hash"}) /\ g # h
    /\ HasRoom(mem, (Count(g) + 1) \div 2)
    /\ \A i \in DOMAIN Contents(g) : Contents(g)[i] = NULL => i % 2 = 0
    /\ mem' = AddPairs(mem, h, Contents(g))
    /\ refs' = Referenced(Contents(g))
    /\ UNCHANGED <<kind, iter>>

\* The key given is released, and so is what was removed.
Released(h, k) ==
    LET n == ToRemove(mem, h, k)
        out == <<k>> \o IF n = NULL THEN <<>> ELSE <<mem.bucket[n].value>>
    IN [o \in Objects |-> refs[o] - Cardinality({i \in DOMAIN out : out[i] = o})]

hash_remove(h, k) ==
    /\ Is(h, {"hash"})
    /\ ToRemove(mem, h, k) # NULL => ToRemove(mem, h, k) # iter[h]
    /\ \A o \in Objects : Released(h, k)[o] > 0
    /\ mem' = ht_remove(mem, h, k)
    /\ refs' = Released(h, k)
    /\ UNCHANGED <<kind, iter>>

\* A list of the keys, which takes over the table made for them.
hash_keys(h, c) ==
    LET e == Elements(mem, h)
    IN /\ Is(h, {"hash"}) /\ c \notin DOMAIN kind /\ HasRoom(mem, Len(e))
       /\ mem' = AppendAll(ht_create(mem, c), c, [i \in DOMAIN e |-> mem.bucket[e[i]].key])
       /\ kind' = Bind(kind, c, "list") /\ iter' = Bind(iter, c, 0)
       /\ UNCHANGED refs

\* __rewind, and __next as long as __hasNext.
Rewind(c) ==
    /\ Is(c, {"list", "hash"})
    /\ iter' = [iter EXCEPT ![c] = IF kind[c] = "list" THEN 0 ELSE mem.table[c].head]
    /\ UNCHANGED <<mem, kind, refs>>

HasNext(c) == IF kind[c] = "list" THEN iter[c] < Count(c) ELSE iter[c] # NULL

Advance(c) ==
    /\ Is(c, {"list", "hash"}) /\ HasNext(c)
    /\ iter' = [iter EXCEPT ![c] = IF kind[c] = "list" THEN @ + 1 ELSE mem.bucket[@].next]
    /\ UNCHANGED <<mem, kind, refs>>

\* The free callback: the table goes, its keys and values stay referenced.
Release(c) ==
    /\ c \in DOMAIN kind
    /\ mem' = ht_destroy(mem, c)
    /\ kind' = Free(kind, {c}) /\ iter' = Free(iter, {c})
    /\ UNCHANGED refs

CollectionsNext ==
    \E c \in Tables :
        \/ \E k \in {"list", "hash", "tuple"}, s \in Initial : Build(c, k, s)
        \/ \E o \in Objects : list_add(c, o)
        \/ list_shuffle(c)
        \/ \E h \in Tables : list_populate(c, h) \/ hash_populate(c, h) \/ hash_keys(h, c)
        \/ \E k, v \in Objects : hash_add(c, k, v)
        \/ \E k \in Objects : hash_remove(c, k)
        \/ Rewind(c) \/ Advance(c) \/ Release(c)

Bounded == \A o \in Objects : refs'[o] <= MaxRefs

CollectionsSpec == CollectionsInit /\ [][CollectionsNext /\ Bounded]_collectionVars

-----------------------------------------------------------------------------
\* The indices of a list or a tuple are 0, 1, ... without a gap and each has one
\* element, however often its table was rehashed, filled from a hash or
\* shuffled: get(i) finds something exactly if i is below length().
Dense ==
    \A c \in DOMAIN kind : kind[c] # "hash" =>
        LET e == Elements(mem, c)
        IN /\ {mem.bucket[e[i]].key : i \in DOMAIN e} = 0 .. Count(c) - 1
           /\ \A i \in 0 .. Count(c) - 1 : find_bucket(mem, c, i) # NULL

\* The elements of a collection and the chains they are found by stay the same
\* ones, also where the wrong one is taken out.
CollectionsLinked == \A c \in DOMAIN kind : Agree(mem, c)

\* No step that leaves a list as long as it is loses one of its elements for
\* another copy of a second one: shuffling only moves them.
ShuffleKeeps ==
    [][\A c \in DOMAIN kind \cap DOMAIN kind' :
        kind[c] = "list" /\ mem'.table[c].count = mem.table[c].count =>
            \A o \in Objects :
                Cardinality({i \in DOMAIN Contents(c)' : Contents(c)'[i] = o})
                = Cardinality({i \in DOMAIN Contents(c) : Contents(c)[i] = o})]_collectionVars
=============================================================================
