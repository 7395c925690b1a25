------------------------------ MODULE Sequence ------------------------------
(***************************************************************************)
(* What general/dll.h and general/stack.h promise: a sequence of data into *)
(* which anything can be inserted at any place, and from which any element *)
(* can be removed.                                                         *)
(***************************************************************************)
EXTENDS Naturals, SequencesExt

CONSTANT Data

VARIABLE list

Init == list = <<>>

\* i elements stay in front of the new one.
Insert(i, d) == list' = InsertAt(list, i + 1, d)
Delete(i) == list' = RemoveAt(list, i)

Next ==
    \/ \E i \in 0 .. Len(list), d \in Data : Insert(i, d)
    \/ \E i \in DOMAIN list : Delete(i)

Spec == Init /\ [][Next]_list
=============================================================================
