------------------------------- MODULE DList --------------------------------
(***************************************************************************)
(* The doubly linked list of components/general/dll.c and the stack made   *)
(* of one in general/stack.c: the call frames' arguments, the block lists  *)
(* of the compiler and the finalizers of every frame are kept in these.    *)
(* An element is an address, 0 is NULL, and some free address is           *)
(* allocated.  A caller gives only elements of this list.                  *)
(***************************************************************************)
EXTENDS Integers, SequencesExt

CONSTANTS
    Cells,   \* the addresses, a bound on the elements at one time
    Data     \* what is kept in them

VARIABLES
    cell,    \* the allocated elements: data, prev, next
    dll      \* the list: head, tail, size

vars == <<cell, dll>>

NULL == 0

Init == cell = <<>> /\ dll = [head |-> NULL, tail |-> NULL, size |-> 0]

\* Nothing is allocated at the null address.
CellsAssumption == NULL \notin Cells

\* From e on along the links, one element more than the list counts.
Along(e, link) ==
    LET walk[i \in 1 .. dll.size + 1] ==
            IF i = 1 THEN e
            ELSE IF walk[i - 1] \in DOMAIN cell THEN cell[walk[i - 1]][link] ELSE NULL
    IN walk

\* The element at an offset, NULL outside the list.
dll_seek_offset(offset) ==
    IF offset \in 0 .. dll.size - 1 THEN Along(dll.head, "next")[offset + 1] ELSE NULL

Elements == [i \in 1 .. dll.size |-> dll_seek_offset(i - 1)]
Contents ==
    [i \in 1 .. dll.size |-> IF Elements[i] \in DOMAIN cell THEN cell[Elements[i]].data ELSE NULL]
New == CHOOSE e \in Cells \ DOMAIN cell : TRUE

\* The new element e, with its neighbours looking at it if there are any.
Linked(e, d, prev, next) ==
    [x \in DOMAIN cell \cup {e} |->
        IF x = e THEN [data |-> d, prev |-> prev, next |-> next]
        ELSE [cell[x] EXCEPT !.next = IF x = prev THEN e ELSE @,
                             !.prev = IF x = next THEN e ELSE @]]

\* Mutant: the tail is not looked at.
PrependHead(d) ==
    /\ DOMAIN cell # Cells
    /\ cell' = Linked(New, d, NULL, dll.head)
    /\ dll' = [dll EXCEPT !.head = New, !.size = @ + 1]

dll_prepend(d) ==
    /\ DOMAIN cell # Cells
    /\ cell' = Linked(New, d, NULL, dll.head)
    /\ dll' = [head |-> New, tail |-> IF dll.tail = NULL THEN New ELSE dll.tail,
               size |-> dll.size + 1]

\* stack_push too.
dll_append(d) ==
    /\ DOMAIN cell # Cells
    /\ cell' = Linked(New, d, dll.tail, NULL)
    /\ dll' = [head |-> IF dll.head = NULL THEN New ELSE dll.head, tail |-> New,
               size |-> dll.size + 1]

dll_insert_before(e, d) ==
    \/ e = NULL /\ dll_prepend(d)
    \/ /\ e # NULL /\ DOMAIN cell # Cells
       /\ cell' = Linked(New, d, cell[e].prev, e)
       /\ dll' = [dll EXCEPT !.head = IF @ = e THEN New ELSE @, !.size = @ + 1]

\* dll_push is dll_insert_after of no element.
dll_insert_after(e, d) ==
    \/ e = NULL /\ dll_append(d)
    \/ /\ e # NULL /\ DOMAIN cell # Cells
       /\ cell' = Linked(New, d, e, cell[e].next)
       /\ dll' = [dll EXCEPT !.tail = IF @ = e THEN New ELSE @, !.size = @ + 1]

Unlinked(e) ==
    [x \in DOMAIN cell \ {e} |->
        [cell[x] EXCEPT !.next = IF x = cell[e].prev THEN cell[e].next ELSE @,
                        !.prev = IF x = cell[e].next THEN cell[e].prev ELSE @]]

\* Mutant: the ends are looked at only when the list is left with one element.
RemoveEnds(e) ==
    /\ e \in DOMAIN cell
    /\ cell' = Unlinked(e)
    /\ dll' = [size |-> dll.size - 1,
               head |-> IF dll.head = e THEN cell[e].next ELSE dll.head,
               tail |-> IF dll.tail = e /\ dll.size < 3 THEN cell[e].prev ELSE dll.tail]

dll_remove(e) ==
    /\ e \in DOMAIN cell
    /\ cell' = Unlinked(e)
    /\ dll' = [size |-> dll.size - 1,
               head |-> IF dll.head = e THEN cell[e].next ELSE dll.head,
               tail |-> IF dll.tail = e THEN cell[e].prev ELSE dll.tail]

\* Of an empty list dll_pop gives NULL; stack_pop ends the program.
dll_pop == dll.tail # NULL /\ dll_remove(dll.tail)

Next ==
    \/ \E d \in Data :
        \/ dll_prepend(d) \/ dll_append(d)
        \/ \E e \in DOMAIN cell \cup {NULL} : dll_insert_before(e, d) \/ dll_insert_after(e, d)
    \/ \E e \in DOMAIN cell : dll_remove(e)
    \/ dll_pop

Spec == Init /\ [][Next]_vars

-----------------------------------------------------------------------------
\* The list is the same forwards and backwards, both ends are where its size
\* says, and nothing that is allocated is out of its reach: dll_free, which
\* walks from the head to NULL, frees all of it.
SameBothWays ==
    LET forward == Along(dll.head, "next")
        backward == Along(dll.tail, "prev")
        n == dll.size
    IN /\ {forward[i] : i \in 1 .. n} = DOMAIN cell
       /\ forward[n + 1] = NULL /\ backward[n + 1] = NULL
       /\ \A i \in 1 .. n : backward[i] = forward[n + 1 - i]

Promised == INSTANCE Sequence WITH list <- Contents

\* Every operation on the links is the one on the sequence.
ImplementsSequence == Promised!Spec
=============================================================================
