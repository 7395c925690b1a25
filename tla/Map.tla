-------------------------------- MODULE Map ---------------------------------
(***************************************************************************)
(* What general/hashtable.h promises: every table is a value of its own, a *)
(* sequence of entries in the order in which they were added.  A key may   *)
(* be added twice; removing it removes one of its entries; replacing it    *)
(* removes one and adds the new one at the end.  Nothing done to one table *)
(* shows in another.                                                       *)
(***************************************************************************)
EXTENDS Sequences, SequencesExt

CONSTANTS Tables, Keys, Values

VARIABLE map    \* a sequence of <<key, value>> for every table there is

Without(s, k) == {RemoveAt(s, i) : i \in {j \in DOMAIN s : s[j][1] = k}}
Has(s, k) == \E i \in DOMAIN s : s[i][1] = k

Init == map = <<>>

Set(t, s) == map' = [x \in DOMAIN map \cup {t} |-> IF x = t THEN s ELSE map[x]]

Create(t) == t \notin DOMAIN map /\ Set(t, <<>>)
Duplicate(s, t) == s \in DOMAIN map /\ t \notin DOMAIN map /\ Set(t, map[s])
Add(t, k, v) == t \in DOMAIN map /\ Set(t, Append(map[t], <<k, v>>))

Delete(t, k) ==
    /\ t \in DOMAIN map
    /\ IF Has(map[t], k) THEN \E s \in Without(map[t], k) : Set(t, s)
       ELSE UNCHANGED map

Put(t, k, v) ==
    /\ t \in DOMAIN map
    /\ \E s \in IF Has(map[t], k) THEN Without(map[t], k) ELSE {map[t]} :
            Set(t, Append(s, <<k, v>>))

Destroy(t) ==
    /\ t \in DOMAIN map
    /\ map' = [x \in DOMAIN map \ {t} |-> map[x]]

Next ==
    \E t \in Tables :
        \/ Create(t) \/ Destroy(t)
        \/ \E s \in Tables : Duplicate(s, t)
        \/ \E k \in Keys :
            \/ Delete(t, k)
            \/ \E v \in Values : Add(t, k, v) \/ Put(t, k, v)

Spec == Init /\ [][Next]_map
=============================================================================
