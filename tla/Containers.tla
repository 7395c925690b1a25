----------------------------- MODULE Containers -----------------------------
(***************************************************************************)
(* The three data structures everything else is kept in: hash tables, the  *)
(* collection objects made of them, and doubly linked lists.  They share   *)
(* no state, so that a behaviour is of one of them.                        *)
(*                                                                         *)
(* The names of Collections are those of that module; what belongs to the  *)
(* tables that are no collection's begins with Ht.                         *)
(***************************************************************************)
EXTENDS Collections

CONSTANTS HtAddresses, HtTables, HtCopies, HtKeys, HtValues, Cells, Data

VARIABLES
    part,              \* the structure this behaviour is of
    heap, loop, seen,  \* hash tables
    cell, dll          \* a list

T == INSTANCE HashTable
         WITH Addresses <- HtAddresses, Tables <- HtTables, Copies <- HtCopies, Keys <- HtKeys,
              Values <- HtValues, ObjectKeys <- {}, mem <- heap, iter <- loop
L == INSTANCE DList

\* Memory ends, and tables grow.
ASSUME AddressesAssumption == T!TablesAssumption /\ CollectionsAssumption

\* The null address is no element's.
ASSUME ListAssumption == L!CellsAssumption

Init == part \in {"tables", "collections", "list"} /\ T!Init /\ CollectionsInit /\ L!Init

Next ==
    \/ part = "tables" /\ T!Next /\ UNCHANGED <<part, mem, kind, iter, refs, cell, dll>>
    \/ part = "collections" /\ CollectionsNext /\ Bounded /\ UNCHANGED <<part, heap, loop, seen, cell, dll>>
    \/ part = "list" /\ L!Next /\ UNCHANGED <<part, heap, loop, seen, mem, kind, iter, refs>>

vars == <<part, heap, loop, seen, mem, kind, iter, refs, cell, dll>>
Spec == Init /\ [][Next]_vars

-----------------------------------------------------------------------------
\* The tables count no more elements than are allocated, and refer only to
\* arrays and buckets that have not been freed.
TypeOK == T!TypeOK

\* hashtable.c, chained.c: the list of elements and the chains of a table, and of
\* a collection, hold the same buckets, each once and in the chain of its key,
\* also after a removal by an object key took out another element.
Linked == T!Linked /\ CollectionsLinked

\* hashtable.c: every bucket and every array is one table's to free, and shared
\* only with copies that will not write it.
NothingLost == T!NothingLost

\* ht_iter: a loop over a table meets every element once and in order, whatever
\* is added, replaced, removed or rehashed meanwhile.
IterationSound == T!IterationSound

\* hashtable.h: tables are separate sequences of entries, also when they share
\* buckets until the first write.
ImplementsMap == T!ImplementsMap

\* dll.c: the list is the same forwards, backwards, by offset and in size, and
\* all that is allocated is in it.
SameBothWays == L!SameBothWays

\* dll.c, stack.c: every operation on the links is the one on a sequence.
ImplementsSequence == L!ImplementsSequence
=============================================================================
