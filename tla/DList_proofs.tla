---------------------------- MODULE DList_proofs ----------------------------
(***************************************************************************)
(* The doubly linked list of dll.c for any number of addresses: it is the  *)
(* same in both directions, and every operation on the links is the one on *)
(* the sequence it stands for.                                             *)
(*                                                                         *)
(* The inductive invariant names that sequence: some order s of the        *)
(* allocated elements, each once, such that head and tail are its ends and *)
(* next and prev its neighbours.                                           *)
(***************************************************************************)
EXTENDS DList, SequenceTheorems, WellFoundedInduction, TLAPS

Links == Cells \cup {NULL}
Element == [data : Data, prev : Links, next : Links]

\* The element at place i of n, NULL on either side of them.
At(s, n, i) == IF i \in 1 .. n THEN s[i] ELSE NULL

\* c are the elements in the order s, and l is the list of them.
Chain(c, l, s) ==
    /\ l \in [head : Links, tail : Links, size : Nat]
    /\ s \in [1 .. l.size -> Cells]
    /\ \A i, j \in 1 .. l.size : s[i] = s[j] => i = j
    /\ c \in [{s[i] : i \in 1 .. l.size} -> Element]
    /\ l.head = At(s, l.size, 1) /\ l.tail = At(s, l.size, l.size)
    /\ \A i \in 1 .. l.size :
        c[s[i]].next = At(s, l.size, i + 1) /\ c[s[i]].prev = At(s, l.size, i - 1)

Ordered == \E s : Chain(cell, dll, s)

\* In some order the elements c keep q.
Keeps(c, l, q) == \E s : Chain(c, l, s) /\ [i \in 1 .. l.size |-> c[s[i]].data] = q

-----------------------------------------------------------------------------
(* Sequences with an element put in or taken out.                          *)

PutIn(s, n, k, x) == [i \in 1 .. n + 1 |-> IF i <= k THEN s[i] ELSE IF i = k + 1 THEN x ELSE s[i - 1]]
TakenOut(s, n, k) == [i \in 1 .. n - 1 |-> IF i < k THEN s[i] ELSE s[i + 1]]

\* A function on 1 .. n is a sequence of n elements.
LEMMA FunctionSeq ==
  ASSUME NEW S, NEW n \in Nat, NEW f \in [1 .. n -> S]
  PROVE  f \in Seq(S) /\ Len(f) = n
<1>1. f \in Seq(S)
  BY SeqDef
<1>2. Len(f) \in Nat /\ 1 .. Len(f) = 1 .. n
  BY <1>1, LenProperties
<1>. QED
  BY <1>1, <1>2

\* What InsertAt of the community modules is.
LEMMA InsertIs ==
  ASSUME NEW S, NEW n \in Nat, NEW q \in [1 .. n -> S], NEW k \in 0 .. n, NEW d \in S
  PROVE  InsertAt(q, k + 1, d) = PutIn(q, n, k, d)
<1>1. q \in Seq(S) /\ Len(q) = n
  BY FunctionSeq
<1> DEFINE a == SubSeq(q, 1, k)
           b == SubSeq(q, k + 1, n)
           t == (a \o <<d>>) \o b
<1>2. k + 1 - 1 = k
  OBVIOUS
<1>3. InsertAt(q, k + 1, d) = t
  BY <1>1, <1>2 DEF InsertAt
<1>4. /\ a \in Seq(S) /\ Len(a) = k
      /\ \A i \in 1 .. k : a[i] = q[i]
  <2>1. /\ a \in Seq(S) /\ Len(a) = IF 1 <= k THEN k - 1 + 1 ELSE 0
        /\ \A i \in 1 .. k - 1 + 1 : a[i] = q[1 + i - 1]
    <3>1. \A i \in 1 .. k : q[i] \in S
      OBVIOUS
    <3>. QED
      BY <3>1, SubSeqProperties
  <2> HIDE DEF a
  <2>. QED
    BY <2>1
<1>5. /\ b \in Seq(S) /\ Len(b) = n - k
      /\ \A i \in 1 .. n - k : b[i] = q[k + i]
  <2>1. /\ b \in Seq(S) /\ Len(b) = IF k + 1 <= n THEN n - (k + 1) + 1 ELSE 0
        /\ \A i \in 1 .. n - (k + 1) + 1 : b[i] = q[(k + 1) + i - 1]
    <3>1. \A i \in k + 1 .. n : q[i] \in S
      OBVIOUS
    <3>2. k + 1 \in Int /\ n \in Int
      OBVIOUS
    <3>. QED
      BY <3>1, <3>2, SubSeqProperties
  <2> HIDE DEF b
  <2>. QED
    BY <2>1
<1>6. <<d>> \in Seq(S) /\ Len(<<d>>) = 1 /\ <<d>>[1] = d
  OBVIOUS
<1> HIDE DEF a, b
<1>7. /\ a \o <<d>> \in Seq(S) /\ Len(a \o <<d>>) = k + 1
      /\ \A i \in 1 .. k + 1 : (a \o <<d>>)[i] = IF i <= k THEN q[i] ELSE d
  BY <1>4, <1>6, ConcatProperties
<1> DEFINE e == a \o <<d>>
<1>8. /\ t \in Seq(S) /\ Len(t) = n + 1
      /\ \A i \in 1 .. n + 1 : t[i] = IF i <= k + 1 THEN e[i] ELSE b[i - (k + 1)]
  <2> HIDE DEF e
  <2>1. e \in Seq(S) /\ Len(e) = k + 1
    BY <1>7 DEF e
  <2>2. /\ e \o b \in Seq(S) /\ Len(e \o b) = (k + 1) + (n - k)
        /\ \A i \in 1 .. (k + 1) + (n - k) : (e \o b)[i] = IF i <= k + 1 THEN e[i] ELSE b[i - (k + 1)]
    <3>1. /\ e \o b \in Seq(S) /\ Len(e \o b) = Len(e) + Len(b)
          /\ \A i \in 1 .. Len(e) + Len(b) : (e \o b)[i] = IF i <= Len(e) THEN e[i] ELSE b[i - Len(e)]
      BY <1>5, <2>1, ConcatProperties
    <3>. QED
      BY <1>5, <2>1, <3>1
  <2>3. (k + 1) + (n - k) = n + 1
    OBVIOUS
  <2>. QED
    BY <2>2, <2>3 DEF e
<1> HIDE DEF t
<1>9. DOMAIN t = 1 .. n + 1 /\ t = [i \in 1 .. n + 1 |-> t[i]]
  BY <1>8, LenProperties
<1>10. ASSUME NEW i \in 1 .. n + 1
       PROVE  t[i] = IF i <= k THEN q[i] ELSE IF i = k + 1 THEN d ELSE q[i - 1]
  <2>1. CASE i <= k + 1
    BY <1>7, <1>8, <2>1
  <2>2. CASE ~ i <= k + 1
    <3>1. i - (k + 1) \in 1 .. n - k /\ k + (i - (k + 1)) = i - 1 /\ ~ i <= k /\ i # k + 1
      BY <2>2
    <3>2. t[i] = b[i - (k + 1)]
      BY <1>8, <2>2
    <3>3. b[i - (k + 1)] = q[i - 1]
      BY <1>5, <3>1
    <3>. QED
      BY <3>1, <3>2, <3>3
  <2>. QED
    BY <2>1, <2>2
<1>. QED
  BY <1>3, <1>9, <1>10 DEF PutIn

\* What RemoveAt of the community modules is.
LEMMA RemoveIs ==
  ASSUME NEW S, NEW n \in Nat, NEW q \in [1 .. n -> S], NEW k \in 1 .. n
  PROVE  RemoveAt(q, k) = TakenOut(q, n, k)
<1>1. q \in Seq(S) /\ Len(q) = n
  BY FunctionSeq
<1> DEFINE a == SubSeq(q, 1, k - 1)
           b == SubSeq(q, k + 1, n)
           t == a \o b
<1>2. RemoveAt(q, k) = t
  BY <1>1 DEF RemoveAt
<1>3. /\ a \in Seq(S) /\ Len(a) = k - 1
      /\ \A i \in 1 .. k - 1 : a[i] = q[i]
  <2>1. /\ a \in Seq(S) /\ Len(a) = IF 1 <= k - 1 THEN (k - 1) - 1 + 1 ELSE 0
        /\ \A i \in 1 .. (k - 1) - 1 + 1 : a[i] = q[1 + i - 1]
    <3>1. \A i \in 1 .. k - 1 : q[i] \in S
      OBVIOUS
    <3>2. 1 \in Int /\ k - 1 \in Int
      OBVIOUS
    <3>. QED
      BY <3>1, <3>2, SubSeqProperties
  <2> HIDE DEF a
  <2>. QED
    BY <2>1
<1>4. /\ b \in Seq(S) /\ Len(b) = n - k
      /\ \A i \in 1 .. n - k : b[i] = q[k + i]
  <2>1. /\ b \in Seq(S) /\ Len(b) = IF k + 1 <= n THEN n - (k + 1) + 1 ELSE 0
        /\ \A i \in 1 .. n - (k + 1) + 1 : b[i] = q[(k + 1) + i - 1]
    <3>1. \A i \in k + 1 .. n : q[i] \in S
      OBVIOUS
    <3>2. k + 1 \in Int /\ n \in Int
      OBVIOUS
    <3>. QED
      BY <3>1, <3>2, SubSeqProperties
  <2> HIDE DEF b
  <2>. QED
    BY <2>1
<1> HIDE DEF a, b
<1>5. /\ t \in Seq(S) /\ Len(t) = n - 1
      /\ \A i \in 1 .. n - 1 : t[i] = IF i <= k - 1 THEN a[i] ELSE b[i - (k - 1)]
  <2>1. /\ a \o b \in Seq(S) /\ Len(a \o b) = (k - 1) + (n - k)
        /\ \A i \in 1 .. (k - 1) + (n - k) : (a \o b)[i] = IF i <= k - 1 THEN a[i] ELSE b[i - (k - 1)]
    <3>1. /\ a \o b \in Seq(S) /\ Len(a \o b) = Len(a) + Len(b)
          /\ \A i \in 1 .. Len(a) + Len(b) : (a \o b)[i] = IF i <= Len(a) THEN a[i] ELSE b[i - Len(a)]
      BY <1>3, <1>4, ConcatProperties
    <3>. QED
      BY <1>3, <1>4, <3>1
  <2>2. (k - 1) + (n - k) = n - 1
    OBVIOUS
  <2>. QED
    BY <2>1, <2>2
<1> HIDE DEF t
<1>6. DOMAIN t = 1 .. n - 1 /\ t = [i \in 1 .. n - 1 |-> t[i]]
  BY <1>5, LenProperties
<1>7. ASSUME NEW i \in 1 .. n - 1
      PROVE  t[i] = IF i < k THEN q[i] ELSE q[i + 1]
  <2>1. CASE i < k
    BY <1>3, <1>5, <2>1
  <2>2. CASE ~ i < k
    <3>1. i - (k - 1) \in 1 .. n - k /\ k + (i - (k - 1)) = i + 1 /\ ~ i <= k - 1
      BY <2>2
    <3>. QED
      BY <1>4, <1>5, <3>1
  <2>. QED
    BY <2>1, <2>2
<1>. QED
  BY <1>2, <1>6, <1>7 DEF TakenOut

-----------------------------------------------------------------------------
(* Walking along the links.                                                *)

\* A set of numbers has a least one.
LEMMA Least ==
  ASSUME NEW T, T \subseteq Nat, T # {}
  PROVE  \E x \in T : \A y \in T : x <= y
<1> DEFINE R == OpToRel(<, Nat)
<1>1. IsWellFoundedOn(R, Nat)
  BY NatLessThanWellFounded
<1>2. \A y, x \in Nat : y < x => <<y, x>> \in R
  BY DEF OpToRel
<1> HIDE DEF R
<1>3. PICK x \in T : \A y \in T : ~ (<<y, x>> \in R)
  BY <1>1, WFMin
<1>4. ASSUME NEW y \in T PROVE x <= y
  <2>1. x \in Nat /\ y \in Nat
    OBVIOUS
  <2>2. ~ y < x
    BY <1>2, <1>3, <2>1
  <2>. QED
    BY <2>1, <2>2
<1>. QED
  BY <1>4

\* Whatever satisfies the equation of the walk is the walk.
LEMMA WalkIs ==
  ASSUME dll.size \in Nat, NEW e, NEW link, NEW w,
         w = [i \in 1 .. dll.size + 1 |->
                IF i = 1 THEN e
                ELSE IF w[i - 1] \in DOMAIN cell THEN cell[w[i - 1]][link] ELSE NULL]
  PROVE  Along(e, link) = w
<1> DEFINE D == 1 .. dll.size + 1
           After(f) == [i \in D |-> IF i = 1 THEN e
                            ELSE IF f[i - 1] \in DOMAIN cell THEN cell[f[i - 1]][link] ELSE NULL]
           a == CHOOSE f : f = After(f)
<1>1. Along(e, link) = a
  BY Zenon DEF Along
<1>2. w = After(w)
  OBVIOUS
<1> HIDE DEF After
<1>3. a = After(a)
  BY <1>2, Zenon
<1>4. /\ a = [i \in D |-> a[i]] /\ w = [i \in D |-> w[i]]
      /\ \A f : \A i \in D : After(f)[i] = IF i = 1 THEN e
                            ELSE IF f[i - 1] \in DOMAIN cell THEN cell[f[i - 1]][link] ELSE NULL
  BY <1>2, <1>3 DEF After
<1> DEFINE T == {i \in D : a[i] # w[i]}
<1>5. T = {}
  <2>1. SUFFICES ASSUME T # {} PROVE FALSE
    OBVIOUS
  <2>2. PICK x \in T : \A y \in T : x <= y
    <3>1. T \subseteq Nat
      OBVIOUS
    <3> HIDE DEF T
    <3>. QED
      BY <2>1, <3>1, Least
  <2>3. x # 1 /\ x \in D
    BY <1>2, <1>3, <1>4
  <2>4. x - 1 \in D /\ ~ x <= x - 1
    BY <2>3
  <2>5. a[x - 1] = w[x - 1]
    BY <2>2, <2>4
  <2>6. a[x] = w[x]
    BY <1>2, <1>3, <1>4, <2>3, <2>5
  <2>. QED
    BY <2>2, <2>6
<1>. QED
  BY <1>1, <1>4, <1>5

\* Forwards the walk meets the elements in their order and then NULL.
LEMMA Forwards ==
  ASSUME CellsAssumption, NEW s, Chain(cell, dll, s)
  PROVE  Along(dll.head, "next") = [i \in 1 .. dll.size + 1 |-> At(s, dll.size, i)]
<1> DEFINE n == dll.size
           w == [i \in 1 .. n + 1 |-> At(s, n, i)]
<1>1. n \in Nat
  BY DEF Chain
<1>2. ASSUME NEW i \in 1 .. n + 1
      PROVE  At(s, n, i) = IF i = 1 THEN dll.head
                ELSE IF w[i - 1] \in DOMAIN cell THEN cell[w[i - 1]]["next"] ELSE NULL
  <2>1. CASE i = 1
    BY <2>1 DEF Chain
  <2>2. CASE i # 1
    <3>1. i - 1 \in 1 .. n /\ w[i - 1] = s[i - 1] /\ (i - 1) + 1 = i
      BY <1>1, <2>2 DEF At
    <3>2. s[i - 1] \in DOMAIN cell
      BY <3>1 DEF Chain
    <3>3. cell[s[i - 1]].next = At(s, n, i)
      BY <3>1 DEF Chain
    <3>. QED
      BY <2>2, <3>1, <3>2, <3>3
  <2>. QED
    BY <2>1, <2>2
<1>3. w = [i \in 1 .. n + 1 |-> IF i = 1 THEN dll.head
                ELSE IF w[i - 1] \in DOMAIN cell THEN cell[w[i - 1]]["next"] ELSE NULL]
  BY <1>2
<1> HIDE DEF w
<1>4. Along(dll.head, "next") = w
  BY <1>1, <1>3, WalkIs
<1>. QED
  BY <1>4 DEF w

\* Backwards it meets them the other way round.
LEMMA Backwards ==
  ASSUME CellsAssumption, NEW s, Chain(cell, dll, s)
  PROVE  Along(dll.tail, "prev") = [i \in 1 .. dll.size + 1 |-> At(s, dll.size, dll.size + 1 - i)]
<1> DEFINE n == dll.size
           w == [i \in 1 .. n + 1 |-> At(s, n, n + 1 - i)]
<1>1. n \in Nat
  BY DEF Chain
<1>2. ASSUME NEW i \in 1 .. n + 1
      PROVE  At(s, n, n + 1 - i) = IF i = 1 THEN dll.tail
                ELSE IF w[i - 1] \in DOMAIN cell THEN cell[w[i - 1]]["prev"] ELSE NULL
  <2>1. CASE i = 1
    <3>1. n + 1 - i = n
      BY <1>1, <2>1
    <3>. QED
      BY <2>1, <3>1 DEF Chain
  <2>2. CASE i # 1
    <3> DEFINE j == n + 1 - (i - 1)
    <3>1. j \in 1 .. n /\ w[i - 1] = s[j] /\ j - 1 = n + 1 - i
      BY <1>1, <2>2 DEF At
    <3> HIDE DEF j
    <3>2. s[j] \in DOMAIN cell
      BY <3>1 DEF Chain
    <3>3. cell[s[j]].prev = At(s, n, j - 1)
      BY <3>1 DEF Chain
    <3>. QED
      BY <2>2, <3>1, <3>2, <3>3
  <2>. QED
    BY <2>1, <2>2
<1>3. w = [i \in 1 .. n + 1 |-> IF i = 1 THEN dll.tail
                ELSE IF w[i - 1] \in DOMAIN cell THEN cell[w[i - 1]]["prev"] ELSE NULL]
  BY <1>2
<1> HIDE DEF w
<1>4. Along(dll.tail, "prev") = w
  BY <1>1, <1>3, WalkIs
<1>. QED
  BY <1>4 DEF w

\* What the walks show of the list is its order.
LEMMA OrderShows ==
  ASSUME CellsAssumption, NEW s, Chain(cell, dll, s)
  PROVE  SameBothWays /\ Contents = [i \in 1 .. dll.size |-> cell[s[i]].data]
<1> DEFINE n == dll.size
           forward == Along(dll.head, "next")
           backward == Along(dll.tail, "prev")
<1>1. /\ n \in Nat /\ DOMAIN cell = {s[i] : i \in 1 .. n}
  BY DEF Chain
<1>2. \A i \in 1 .. n + 1 : forward[i] = At(s, n, i) /\ backward[i] = At(s, n, n + 1 - i)
  BY Forwards, Backwards
<1> HIDE DEF forward, backward
<1>3. \A i \in 1 .. n : forward[i] = s[i] /\ backward[i] = s[n + 1 - i]
  <2>1. \A i \in 1 .. n : i \in 1 .. n + 1 /\ n + 1 - i \in 1 .. n
    BY <1>1
  <2>. QED
    BY <1>2, <2>1 DEF At
<1>4. forward[n + 1] = NULL /\ backward[n + 1] = NULL
  <2>1. n + 1 \in 1 .. n + 1 /\ n + 1 \notin 1 .. n /\ n + 1 - (n + 1) = 0
    BY <1>1
  <2>. QED
    BY <1>1, <1>2, <2>1 DEF At
<1>5. {forward[i] : i \in 1 .. n} = DOMAIN cell
  BY <1>1, <1>3
<1>6. \A i \in 1 .. n : backward[i] = forward[n + 1 - i]
  <2>1. \A i \in 1 .. n : n + 1 - i \in 1 .. n
    BY <1>1
  <2>. QED
    BY <1>3, <2>1
<1>7. SameBothWays
  BY <1>4, <1>5, <1>6 DEF SameBothWays, forward, backward
<1>8. ASSUME NEW i \in 1 .. n PROVE Elements[i] = s[i]
  <2>1. i - 1 \in 0 .. n - 1 /\ (i - 1) + 1 = i
    BY <1>1
  <2>. QED
    BY <1>3, <2>1 DEF Elements, dll_seek_offset, forward
<1> HIDE DEF n
<1>9. \A i \in 1 .. n : Elements[i] = s[i] /\ s[i] \in DOMAIN cell
  BY <1>1, <1>8
<1>. QED
  BY <1>7, <1>9 DEF Contents, n

-----------------------------------------------------------------------------
(* The operations on the order.                                            *)

\* Linked of the model, for any elements c.
Joined(c, x, d, prev, next) ==
    [y \in DOMAIN c \cup {x} |->
        IF y = x THEN [data |-> d, prev |-> prev, next |-> next]
        ELSE [c[y] EXCEPT !.next = IF y = prev THEN x ELSE @,
                          !.prev = IF y = next THEN x ELSE @]]

\* cc are the elements c with x between prev and next.
Between(c, x, d, prev, next, cc) ==
    /\ cc \in [DOMAIN c \cup {x} -> Element]
    /\ cc[x].data = d /\ cc[x].prev = prev /\ cc[x].next = next
    /\ \A y \in DOMAIN c : /\ cc[y].data = c[y].data
                           /\ cc[y].next = IF y = prev THEN x ELSE c[y].next
                           /\ cc[y].prev = IF y = next THEN x ELSE c[y].prev

\* What the elements are when one is linked in.
LEMMA JoinedIs ==
  ASSUME NEW c, NEW x \in Cells, x \notin DOMAIN c, NEW d \in Data, NEW prev \in Links, NEW next \in Links,
         \A y \in DOMAIN c : c[y] \in Element
  PROVE  Between(c, x, d, prev, next, Joined(c, x, d, prev, next))
<1> DEFINE cc == Joined(c, x, d, prev, next)
           a(y) == IF y = prev THEN x ELSE c[y].next
           b(y) == IF y = next THEN x ELSE c[y].prev
<1>1. cc[x] = [data |-> d, prev |-> prev, next |-> next]
  BY DEF Joined
<1>2. DOMAIN cc = DOMAIN c \cup {x} /\ cc = [y \in DOMAIN cc |-> cc[y]]
  BY DEF Joined
<1>3. ASSUME NEW y \in DOMAIN c
      PROVE  cc[y] \in Element /\ cc[y].data = c[y].data /\ cc[y].next = a(y) /\ cc[y].prev = b(y)
  <2>1. c[y] \in Element /\ a(y) \in Links /\ b(y) \in Links
    BY DEF Element, Links
  <2>2. cc[y] = [c[y] EXCEPT !.next = a(y), !.prev = b(y)]
    BY DEF Joined
  <2> HIDE DEF cc, a, b
  <2>3. PICK r, u, aa, bb : r = c[y] /\ u = cc[y] /\ aa = a(y) /\ bb = b(y)
    OBVIOUS
  <2>4. u = [r EXCEPT !.next = aa, !.prev = bb]
    BY <2>2, <2>3, Zenon
  <2>5. r \in Element /\ aa \in Links /\ bb \in Links
    BY <2>1, <2>3
  <2>6. u \in Element /\ u.data = r.data /\ u.next = aa /\ u.prev = bb
    BY <2>4, <2>5 DEF Element
  <2>. QED
    BY <2>3, <2>6
<1>4. cc[x] = [data |-> d, prev |-> prev, next |-> next]
  BY DEF Joined
<1>5. cc[x] \in Element /\ cc[x].data = d /\ cc[x].prev = prev /\ cc[x].next = next
  <2> HIDE DEF cc
  <2>. QED
    BY <1>4 DEF Element
<1> HIDE DEF cc
<1>6. cc \in [DOMAIN c \cup {x} -> Element]
  BY <1>2, <1>3, <1>5
<1>. QED
  BY <1>3, <1>5, <1>6 DEF Between, cc

\* The places of t are those of s with x behind the first k.
OneMore(s, n, k, x, t) ==
    /\ t = [i \in 1 .. n + 1 |-> At(t, n + 1, i)]
    /\ \A i \in Int : i <= k => At(t, n + 1, i) = At(s, n, i)
    /\ At(t, n + 1, k + 1) = x
    /\ \A i \in Int : i > k + 1 => At(t, n + 1, i) = At(s, n, i - 1)

\* The places of an order with one element more.
LEMMA PutInIs ==
  ASSUME NEW n \in Nat, NEW s, NEW k \in 0 .. n, NEW x
  PROVE  OneMore(s, n, k, x, PutIn(s, n, k, x))
<1> DEFINE t == PutIn(s, n, k, x)
<1>1. /\ DOMAIN t = 1 .. n + 1 /\ t = [i \in 1 .. n + 1 |-> t[i]]
      /\ \A i \in 1 .. n + 1 : t[i] = IF i <= k THEN s[i] ELSE IF i = k + 1 THEN x ELSE s[i - 1]
  BY DEF PutIn
<1> HIDE DEF t
<1>2. ASSUME NEW i \in Int, i <= k PROVE At(t, n + 1, i) = At(s, n, i)
  <2>1. CASE i \in 1 .. n + 1
    <3>1. i \in 1 .. n /\ t[i] = s[i]
      BY <1>1, <1>2, <2>1
    <3>. QED
      BY <2>1, <3>1 DEF At
  <2>2. CASE i \notin 1 .. n + 1
    <3>1. i \notin 1 .. n
      BY <2>2
    <3>. QED
      BY <2>2, <3>1 DEF At
  <2>. QED
    BY <2>1, <2>2
<1>3. At(t, n + 1, k + 1) = x
  <2>1. k + 1 \in 1 .. n + 1 /\ ~ k + 1 <= k
    OBVIOUS
  <2>2. t[k + 1] = x
    BY <1>1, <2>1
  <2>. QED
    BY <2>1, <2>2 DEF At
<1>4. ASSUME NEW i \in Int, i > k + 1 PROVE At(t, n + 1, i) = At(s, n, i - 1)
  <2>1. CASE i \in 1 .. n + 1
    <3>1. i - 1 \in 1 .. n /\ t[i] = s[i - 1]
      BY <1>1, <1>4, <2>1
    <3>. QED
      BY <2>1, <3>1 DEF At
  <2>2. CASE i \notin 1 .. n + 1
    <3>1. i - 1 \notin 1 .. n
      BY <1>4, <2>2
    <3>. QED
      BY <2>2, <3>1 DEF At
  <2>. QED
    BY <2>1, <2>2
<1>5. t = [i \in 1 .. n + 1 |-> At(t, n + 1, i)]
  BY <1>1 DEF At
<1>. QED
  BY <1>2, <1>3, <1>4, <1>5 DEF OneMore, t

\* The places of t are those of s without k.
OneLess(s, n, k, t) ==
    /\ t = [i \in 1 .. n - 1 |-> At(t, n - 1, i)]
    /\ \A i \in Int : i < k => At(t, n - 1, i) = At(s, n, i)
    /\ \A i \in Int : i >= k => At(t, n - 1, i) = At(s, n, i + 1)

\* The places of an order with one element less.
LEMMA TakenOutIs ==
  ASSUME NEW n \in Nat, NEW s, NEW k \in 1 .. n
  PROVE  OneLess(s, n, k, TakenOut(s, n, k))
<1> DEFINE t == TakenOut(s, n, k)
<1>1. /\ DOMAIN t = 1 .. n - 1 /\ t = [i \in 1 .. n - 1 |-> t[i]]
      /\ \A i \in 1 .. n - 1 : t[i] = IF i < k THEN s[i] ELSE s[i + 1]
  BY DEF TakenOut
<1> HIDE DEF t
<1>2. ASSUME NEW i \in Int, i < k PROVE At(t, n - 1, i) = At(s, n, i)
  <2>1. CASE i \in 1 .. n - 1
    <3>1. i \in 1 .. n /\ t[i] = s[i]
      BY <1>1, <1>2, <2>1
    <3>. QED
      BY <2>1, <3>1 DEF At
  <2>2. CASE i \notin 1 .. n - 1
    <3>1. i \notin 1 .. n
      BY <1>2, <2>2
    <3>. QED
      BY <2>2, <3>1 DEF At
  <2>. QED
    BY <2>1, <2>2
<1>3. ASSUME NEW i \in Int, i >= k PROVE At(t, n - 1, i) = At(s, n, i + 1)
  <2>1. CASE i \in 1 .. n - 1
    <3>1. i + 1 \in 1 .. n /\ t[i] = s[i + 1]
      BY <1>1, <1>3, <2>1
    <3>. QED
      BY <2>1, <3>1 DEF At
  <2>2. CASE i \notin 1 .. n - 1
    <3>1. i + 1 \notin 1 .. n
      BY <1>3, <2>2
    <3>. QED
      BY <2>2, <3>1 DEF At
  <2>. QED
    BY <2>1, <2>2
<1>4. t = [i \in 1 .. n - 1 |-> At(t, n - 1, i)]
  BY <1>1 DEF At
<1>. QED
  BY <1>2, <1>3, <1>4 DEF OneLess, t

\* Where the element at place j is when one is put in behind the first k.
Moved(k, j, i) == (j <= k /\ i = j) \/ (j > k /\ i = j + 1)

\* t is the order s with x behind the first k: every element once, and its
\* neighbours.
OrderWith(s, n, k, x, t) ==
    /\ t \in [1 .. n + 1 -> Cells] /\ k + 1 \in 1 .. n + 1 /\ t[k + 1] = x
    /\ \A i \in 1 .. n + 1 : i # k + 1 => \E j \in 1 .. n : t[i] = s[j] /\ Moved(k, j, i)
    /\ {t[i] : i \in 1 .. n + 1} = {s[i] : i \in 1 .. n} \cup {x}
    /\ \A i, j \in 1 .. n + 1 : t[i] = t[j] => i = j
    /\ At(t, n + 1, k) = At(s, n, k) /\ At(t, n + 1, k + 2) = At(s, n, k + 1)
    /\ \A j \in 1 .. n, i \in 1 .. n + 1 : Moved(k, j, i) =>
            /\ At(t, n + 1, i + 1) = IF j = k THEN x ELSE At(s, n, j + 1)
            /\ At(t, n + 1, i - 1) = IF j = k + 1 THEN x ELSE At(s, n, j - 1)
    /\ At(t, n + 1, 1) = IF k = 0 THEN x ELSE At(s, n, 1)
    /\ At(t, n + 1, n + 1) = IF k = n THEN x ELSE At(s, n, n)

LEMMA PutInOrder ==
  ASSUME NEW n \in Nat, NEW s \in [1 .. n -> Cells], \A i, j \in 1 .. n : s[i] = s[j] => i = j,
         NEW k \in 0 .. n, NEW x \in Cells, \A i \in 1 .. n : s[i] # x,
         NEW t, t = PutIn(s, n, k, x)
  PROVE  OrderWith(s, n, k, x, t)
<1>1. k + 1 \in 1 .. n + 1 /\ k \in Int /\ 0 <= k /\ k <= n
  OBVIOUS
<1>2. OneMore(s, n, k, x, t)
  BY PutInIs
<1>3. t = [i \in 1 .. n + 1 |-> At(t, n + 1, i)] /\ At(t, n + 1, k + 1) = x
  BY <1>2 DEF OneMore
<1>4. \A i \in Int : i <= k => At(t, n + 1, i) = At(s, n, i)
  BY <1>2 DEF OneMore
<1>5. \A i \in Int : i > k + 1 => At(t, n + 1, i) = At(s, n, i - 1)
  BY <1>2 DEF OneMore
<1>6. /\ \A i \in 1 .. n : At(s, n, i) = s[i]
      /\ \A i \in 1 .. n + 1 : At(t, n + 1, i) = t[i]
  BY DEF At
<1>7. t[k + 1] = x
  BY <1>1, <1>3, <1>6
<1>8. ASSUME NEW i \in 1 .. n + 1, i # k + 1
      PROVE  \E j \in 1 .. n : t[i] = s[j] /\ Moved(k, j, i)
  <2>1. CASE i <= k
    <3>1. i \in 1 .. n /\ i \in Int
      BY <1>1, <2>1
    <3>2. At(t, n + 1, i) = At(s, n, i)
      BY <1>4, <2>1, <3>1
    <3>3. t[i] = s[i]
      BY <1>6, <3>1, <3>2
    <3>. QED
      BY <2>1, <3>1, <3>3 DEF Moved
  <2>2. CASE ~ i <= k
    <3>1. i - 1 \in 1 .. n /\ i > k + 1 /\ i - 1 > k /\ i = (i - 1) + 1
      BY <1>1, <1>8, <2>2
    <3>2. At(t, n + 1, i) = At(s, n, i - 1)
      BY <1>5, <3>1
    <3>3. t[i] = s[i - 1]
      BY <1>6, <3>1, <3>2
    <3>. QED
      BY <3>1, <3>3 DEF Moved
  <2>. QED
    BY <2>1, <2>2
<1>9. ASSUME NEW j \in 1 .. n PROVE \E i \in 1 .. n + 1 : t[i] = s[j]
  <2>1. CASE j <= k
    <3>1. j \in 1 .. n + 1
      BY <1>1
    <3>2. At(t, n + 1, j) = At(s, n, j)
      BY <1>4, <2>1, <3>1
    <3>. QED
      BY <1>6, <3>1, <3>2
  <2>2. CASE j > k
    <3>1. j + 1 \in 1 .. n + 1 /\ j + 1 > k + 1 /\ (j + 1) - 1 = j
      BY <1>1, <2>2
    <3>2. At(t, n + 1, j + 1) = At(s, n, j)
      BY <1>5, <3>1
    <3>. QED
      BY <1>6, <3>1, <3>2
  <2>. QED
    BY <1>1, <2>1, <2>2
<1>10. ASSUME NEW i \in 1 .. n + 1 PROVE t[i] \in Cells
  BY <1>7, <1>8
<1>11. t \in [1 .. n + 1 -> Cells]
  BY <1>3, <1>6, <1>10
<1>12. {t[i] : i \in 1 .. n + 1} = {s[i] : i \in 1 .. n} \cup {x}
  <2>1. \A i \in 1 .. n + 1 : t[i] = x \/ \E j \in 1 .. n : t[i] = s[j]
    BY <1>7, <1>8
  <2>2. \E i \in 1 .. n + 1 : t[i] = x
    BY <1>1, <1>7
  <2>. QED
    BY <1>9, <2>1, <2>2
<1>13. ASSUME NEW i \in 1 .. n + 1, NEW j \in 1 .. n + 1, t[i] = t[j] PROVE i = j
  <2>1. CASE i = k + 1
    BY <1>7, <1>8, <1>13, <2>1
  <2>2. CASE j = k + 1
    BY <1>7, <1>8, <1>13, <2>2
  <2>3. CASE i # k + 1 /\ j # k + 1
    <3>1. PICK a \in 1 .. n : t[i] = s[a] /\ Moved(k, a, i)
      BY <1>8, <2>3
    <3>2. PICK b \in 1 .. n : t[j] = s[b] /\ Moved(k, b, j)
      BY <1>8, <2>3
    <3>3. a = b
      BY <1>13, <3>1, <3>2
    <3>. QED
      BY <1>1, <3>1, <3>2, <3>3 DEF Moved
  <2>. QED
    BY <2>1, <2>2, <2>3
<1>14. At(t, n + 1, k) = At(s, n, k) /\ At(t, n + 1, k + 2) = At(s, n, k + 1)
  <2>1. k <= k /\ k + 2 \in Int /\ k + 2 > k + 1 /\ (k + 2) - 1 = k + 1
    BY <1>1
  <2>. QED
    BY <1>1, <1>4, <1>5, <2>1
<1>15. ASSUME NEW j \in 1 .. n, NEW i \in 1 .. n + 1, Moved(k, j, i)
       PROVE  /\ At(t, n + 1, i + 1) = IF j = k THEN x ELSE At(s, n, j + 1)
              /\ At(t, n + 1, i - 1) = IF j = k + 1 THEN x ELSE At(s, n, j - 1)
  <2>1. CASE j <= k /\ i = j
    <3>1. j = k => At(t, n + 1, i + 1) = x
      BY <1>3, <2>1
    <3>2. j # k => At(t, n + 1, i + 1) = At(s, n, j + 1)
      <4>1. j + 1 \in Int /\ (j # k => j + 1 <= k)
        BY <1>1, <2>1
      <4>. QED
        BY <1>4, <2>1, <4>1
    <3>3. j # k + 1 /\ At(t, n + 1, i - 1) = At(s, n, j - 1)
      <4>1. j - 1 \in Int /\ j - 1 <= k /\ j # k + 1
        BY <1>1, <2>1
      <4>. QED
        BY <1>4, <2>1, <4>1
    <3>. QED
      BY <3>1, <3>2, <3>3
  <2>2. CASE j > k /\ i = j + 1
    <3>1. j # k /\ At(t, n + 1, i + 1) = At(s, n, j + 1)
      <4>1. j # k /\ i + 1 \in Int /\ i + 1 > k + 1 /\ (i + 1) - 1 = j + 1
        BY <1>1, <2>2
      <4>. QED
        BY <1>5, <4>1
    <3>2. j = k + 1 => At(t, n + 1, i - 1) = x
      <4>1. i - 1 = j
        BY <2>2
      <4>. QED
        BY <1>3, <4>1
    <3>3. j # k + 1 => At(t, n + 1, i - 1) = At(s, n, j - 1)
      <4>1. i - 1 = j /\ j \in Int /\ (j # k + 1 => j > k + 1)
        BY <1>1, <2>2
      <4>. QED
        BY <1>5, <4>1
    <3>. QED
      BY <3>1, <3>2, <3>3
  <2>. QED
    BY <1>15, <2>1, <2>2 DEF Moved
<1>16. At(t, n + 1, 1) = IF k = 0 THEN x ELSE At(s, n, 1)
  <2>1. k # 0 => 1 <= k
    BY <1>1
  <2>2. k # 0 => At(t, n + 1, 1) = At(s, n, 1)
    BY <1>4, <2>1
  <2>3. k = 0 => At(t, n + 1, 1) = x
    BY <1>3
  <2>. QED
    BY <2>2, <2>3
<1>17. At(t, n + 1, n + 1) = IF k = n THEN x ELSE At(s, n, n)
  <2>1. n + 1 \in Int /\ (k # n => n + 1 > k + 1) /\ (n + 1) - 1 = n
    BY <1>1
  <2>2. k # n => At(t, n + 1, n + 1) = At(s, n, n)
    BY <1>5, <2>1
  <2>3. k = n => At(t, n + 1, n + 1) = x
    BY <1>3
  <2>. QED
    BY <2>2, <2>3
<1>. QED
  BY <1>1, <1>7, <1>8, <1>11, <1>12, <1>13, <1>14, <1>15, <1>16, <1>17 DEF OrderWith

\* An element x linked in behind the first k is in the order there.
LEMMA LinkedIn ==
  ASSUME CellsAssumption, NEW c, NEW l, NEW s, Chain(c, l, s), NEW k \in 0 .. l.size,
         NEW x \in Cells, x \notin DOMAIN c, NEW d \in Data,
         NEW cc, cc = Joined(c, x, d, At(s, l.size, k), At(s, l.size, k + 1)),
         NEW ll \in [head : Links, tail : Links, size : Nat],
         ll.size = l.size + 1,
         ll.head = IF k = 0 THEN x ELSE l.head,
         ll.tail = IF k = l.size THEN x ELSE l.tail
  PROVE  Keeps(cc, ll, PutIn([i \in 1 .. l.size |-> c[s[i]].data], l.size, k, d))
<1> DEFINE n == l.size
           t == PutIn(s, n, k, x)
<1>1. n \in Nat /\ k \in 0 .. n
  BY DEF Chain
<1>2. s \in [1 .. n -> Cells] /\ \A i, j \in 1 .. n : s[i] = s[j] => i = j
  BY DEF Chain
<1>3. c \in [{s[i] : i \in 1 .. n} -> Element]
  BY DEF Chain
<1>4. l.head = At(s, n, 1) /\ l.tail = At(s, n, n)
  BY DEF Chain
<1>5. \A i \in 1 .. n : c[s[i]].next = At(s, n, i + 1) /\ c[s[i]].prev = At(s, n, i - 1)
  BY DEF Chain
<1>6. ll.size = n + 1 /\ ll.head = (IF k = 0 THEN x ELSE l.head) /\ ll.tail = IF k = n THEN x ELSE l.tail
  OBVIOUS
<1> HIDE DEF n
<1>7. \A i \in 1 .. n : At(s, n, i) = s[i] /\ s[i] \in DOMAIN c /\ s[i] # x /\ s[i] # NULL
  <2>1. \A i \in 1 .. n : s[i] \in Cells /\ s[i] \in DOMAIN c
    BY <1>2, <1>3
  <2>. QED
    BY <2>1 DEF At, CellsAssumption
<1>8. OrderWith(s, n, k, x, t)
  BY <1>1, <1>2, <1>7, PutInOrder
<1>9. Between(c, x, d, At(s, n, k), At(s, n, k + 1), cc)
  <2>1. At(s, n, k) \in Links /\ At(s, n, k + 1) \in Links
    BY <1>2 DEF At, Links
  <2>2. \A y \in DOMAIN c : c[y] \in Element
    BY <1>3
  <2>3. cc = Joined(c, x, d, At(s, n, k), At(s, n, k + 1))
    BY DEF n
  <2>. QED
    BY <2>1, <2>2, <2>3, JoinedIs
<1> HIDE DEF t
\* The neighbours of what was there already.
<1>10. ASSUME NEW j \in 1 .. n
       PROVE  /\ cc[s[j]].data = c[s[j]].data
              /\ cc[s[j]].next = IF j = k THEN x ELSE At(s, n, j + 1)
              /\ cc[s[j]].prev = IF j = k + 1 THEN x ELSE At(s, n, j - 1)
  <2>1. s[j] = At(s, n, k) <=> j = k
    BY <1>2, <1>7 DEF At
  <2>2. s[j] = At(s, n, k + 1) <=> j = k + 1
    BY <1>2, <1>7 DEF At
  <2>. QED
    BY <1>5, <1>7, <1>9, <2>1, <2>2 DEF Between
<1>11. ASSUME NEW i \in 1 .. n + 1
       PROVE  cc[t[i]].next = At(t, n + 1, i + 1) /\ cc[t[i]].prev = At(t, n + 1, i - 1)
  <2>1. CASE i = k + 1
    <3>1. i + 1 = k + 2 /\ i - 1 = k
      BY <1>1, <2>1
    <3>. QED
      BY <1>8, <1>9, <2>1, <3>1 DEF OrderWith, Between
  <2>2. CASE i # k + 1
    <3>1. PICK j \in 1 .. n : t[i] = s[j] /\ Moved(k, j, i)
      BY <1>8, <2>2 DEF OrderWith
    <3>2. /\ At(t, n + 1, i + 1) = IF j = k THEN x ELSE At(s, n, j + 1)
          /\ At(t, n + 1, i - 1) = IF j = k + 1 THEN x ELSE At(s, n, j - 1)
      BY <1>8, <3>1 DEF OrderWith
    <3>. QED
      BY <1>10, <3>1, <3>2
  <2>. QED
    BY <2>1, <2>2
<1>12. cc \in [{t[i] : i \in 1 .. n + 1} -> Element]
  <2>1. DOMAIN c = {s[i] : i \in 1 .. n}
    BY <1>3
  <2>. QED
    BY <1>8, <1>9, <2>1 DEF OrderWith, Between
<1>13. Chain(cc, ll, t)
  <2>1. /\ t \in [1 .. n + 1 -> Cells]
        /\ \A i, j \in 1 .. n + 1 : t[i] = t[j] => i = j
        /\ ll.head = At(t, n + 1, 1) /\ ll.tail = At(t, n + 1, n + 1)
    BY <1>4, <1>6, <1>8 DEF OrderWith
  <2>. QED
    BY <1>6, <1>11, <1>12, <2>1 DEF Chain
<1> DEFINE kept == [i \in 1 .. n |-> c[s[i]].data]
<1>14. ASSUME NEW i \in 1 .. n + 1
       PROVE  cc[t[i]].data = IF i <= k THEN kept[i] ELSE IF i = k + 1 THEN d ELSE kept[i - 1]
  <2>1. CASE i = k + 1
    <3>1. ~ i <= k
      BY <1>1, <2>1
    <3>. QED
      BY <1>8, <1>9, <2>1, <3>1 DEF OrderWith, Between
  <2>2. CASE i # k + 1
    <3>1. PICK j \in 1 .. n : t[i] = s[j] /\ Moved(k, j, i)
      BY <1>8, <2>2 DEF OrderWith
    <3>2. cc[t[i]].data = kept[j]
      BY <1>10, <3>1
    <3>3. (i <= k => j = i) /\ (~ i <= k => j = i - 1)
      BY <1>1, <2>2, <3>1 DEF Moved
    <3> HIDE DEF kept
    <3>. QED
      BY <2>2, <3>2, <3>3
  <2>. QED
    BY <2>1, <2>2
<1> HIDE DEF kept
<1>15. [i \in 1 .. ll.size |-> cc[t[i]].data] = PutIn(kept, n, k, d)
  BY <1>6, <1>14 DEF PutIn
<1>. QED
  BY <1>13, <1>15 DEF Keeps, n, kept

\* Unlinked of the model, for any elements c.
Parted(c, e) ==
    [y \in DOMAIN c \ {e} |->
        [c[y] EXCEPT !.next = IF y = c[e].prev THEN c[e].next ELSE @,
                     !.prev = IF y = c[e].next THEN c[e].prev ELSE @]]

\* cc are the elements c without e, its neighbours linked to each other.
Apart(c, e, cc) ==
    /\ cc \in [DOMAIN c \ {e} -> Element]
    /\ \A y \in DOMAIN c \ {e} : /\ cc[y].data = c[y].data
                                 /\ cc[y].next = IF y = c[e].prev THEN c[e].next ELSE c[y].next
                                 /\ cc[y].prev = IF y = c[e].next THEN c[e].prev ELSE c[y].prev

\* What the elements are when one is taken out.
LEMMA PartedIs ==
  ASSUME NEW c, NEW e \in DOMAIN c, \A y \in DOMAIN c : c[y] \in Element
  PROVE  Apart(c, e, Parted(c, e))
<1> DEFINE cc == Parted(c, e)
           a(y) == IF y = c[e].prev THEN c[e].next ELSE c[y].next
           b(y) == IF y = c[e].next THEN c[e].prev ELSE c[y].prev
<1>1. DOMAIN cc = DOMAIN c \ {e} /\ cc = [y \in DOMAIN cc |-> cc[y]]
  BY DEF Parted
<1>2. ASSUME NEW y \in DOMAIN c \ {e}
      PROVE  cc[y] \in Element /\ cc[y].data = c[y].data /\ cc[y].next = a(y) /\ cc[y].prev = b(y)
  <2>1. c[y] \in Element /\ a(y) \in Links /\ b(y) \in Links
    BY DEF Element, Links
  <2>2. cc[y] = [c[y] EXCEPT !.next = a(y), !.prev = b(y)]
    BY DEF Parted
  <2> HIDE DEF cc, a, b
  <2>3. PICK r, u, aa, bb : r = c[y] /\ u = cc[y] /\ aa = a(y) /\ bb = b(y)
    OBVIOUS
  <2>4. u = [r EXCEPT !.next = aa, !.prev = bb]
    BY <2>2, <2>3, Zenon
  <2>5. r \in Element /\ aa \in Links /\ bb \in Links
    BY <2>1, <2>3
  <2>6. u \in Element /\ u.data = r.data /\ u.next = aa /\ u.prev = bb
    BY <2>4, <2>5 DEF Element
  <2>. QED
    BY <2>3, <2>6
<1> HIDE DEF cc
<1>3. cc \in [DOMAIN c \ {e} -> Element]
  BY <1>1, <1>2
<1>. QED
  BY <1>2, <1>3 DEF Apart, cc

\* Where the element at place j is when the one at k is taken out.
Closed(k, j, i) == (j < k /\ i = j) \/ (j > k /\ j = i + 1)

\* t is the order s without place k: every other element once, and its
\* neighbours.
OrderWithout(s, n, k, t) ==
    /\ t \in [1 .. n - 1 -> Cells]
    /\ \A i \in 1 .. n - 1 : \E j \in 1 .. n : t[i] = s[j] /\ Closed(k, j, i)
    /\ {t[i] : i \in 1 .. n - 1} = {s[i] : i \in 1 .. n} \ {s[k]}
    /\ \A i, j \in 1 .. n - 1 : t[i] = t[j] => i = j
    /\ \A j \in 1 .. n, i \in 1 .. n - 1 : Closed(k, j, i) =>
            /\ At(t, n - 1, i + 1) = IF j = k - 1 THEN At(s, n, k + 1) ELSE At(s, n, j + 1)
            /\ At(t, n - 1, i - 1) = IF j = k + 1 THEN At(s, n, k - 1) ELSE At(s, n, j - 1)
    /\ At(t, n - 1, 1) = IF k = 1 THEN At(s, n, k + 1) ELSE At(s, n, 1)
    /\ At(t, n - 1, n - 1) = IF k = n THEN At(s, n, k - 1) ELSE At(s, n, n)

LEMMA TakenOutOrder ==
  ASSUME NEW n \in Nat, NEW s \in [1 .. n -> Cells], \A i, j \in 1 .. n : s[i] = s[j] => i = j,
         NEW k \in 1 .. n, NEW t, t = TakenOut(s, n, k)
  PROVE  OrderWithout(s, n, k, t)
<1>1. n - 1 \in Nat /\ k \in Int /\ 1 <= k /\ k <= n
  OBVIOUS
<1>2. OneLess(s, n, k, t)
  BY TakenOutIs
<1>3. t = [i \in 1 .. n - 1 |-> At(t, n - 1, i)]
  BY <1>2 DEF OneLess
<1>4. \A i \in Int : i < k => At(t, n - 1, i) = At(s, n, i)
  BY <1>2 DEF OneLess
<1>5. \A i \in Int : i >= k => At(t, n - 1, i) = At(s, n, i + 1)
  BY <1>2 DEF OneLess
<1>6. /\ \A i \in 1 .. n : At(s, n, i) = s[i]
      /\ \A i \in 1 .. n - 1 : At(t, n - 1, i) = t[i]
  BY DEF At
<1>7. ASSUME NEW i \in 1 .. n - 1
      PROVE  \E j \in 1 .. n : t[i] = s[j] /\ Closed(k, j, i)
  <2>1. CASE i < k
    <3>1. i \in 1 .. n /\ i \in Int
      BY <1>1, <2>1
    <3>2. At(t, n - 1, i) = At(s, n, i)
      BY <1>4, <2>1, <3>1
    <3>3. t[i] = s[i]
      BY <1>6, <3>1, <3>2
    <3>. QED
      BY <2>1, <3>1, <3>3 DEF Closed
  <2>2. CASE ~ i < k
    <3>1. i + 1 \in 1 .. n /\ i \in Int /\ i >= k /\ i + 1 > k
      BY <1>1, <2>2
    <3>2. At(t, n - 1, i) = At(s, n, i + 1)
      BY <1>5, <3>1
    <3>3. t[i] = s[i + 1]
      BY <1>6, <3>1, <3>2
    <3>. QED
      BY <3>1, <3>3 DEF Closed
  <2>. QED
    BY <2>1, <2>2
<1>8. ASSUME NEW j \in 1 .. n, j # k PROVE \E i \in 1 .. n - 1 : t[i] = s[j]
  <2>1. CASE j < k
    <3>1. j \in 1 .. n - 1 /\ j \in Int
      BY <1>1, <2>1
    <3>2. At(t, n - 1, j) = At(s, n, j)
      BY <1>4, <2>1, <3>1
    <3>. QED
      BY <1>6, <3>1, <3>2
  <2>2. CASE j > k
    <3>1. j - 1 \in 1 .. n - 1 /\ j - 1 \in Int /\ j - 1 >= k /\ (j - 1) + 1 = j
      BY <1>1, <2>2
    <3>2. At(t, n - 1, j - 1) = At(s, n, j)
      BY <1>5, <3>1
    <3>. QED
      BY <1>6, <3>1, <3>2
  <2>. QED
    BY <1>1, <1>8, <2>1, <2>2
<1>9. ASSUME NEW i \in 1 .. n - 1 PROVE t[i] \in Cells
  BY <1>7
<1>10. t \in [1 .. n - 1 -> Cells]
  BY <1>3, <1>6, <1>9
<1>11. {t[i] : i \in 1 .. n - 1} = {s[i] : i \in 1 .. n} \ {s[k]}
  <2>1. ASSUME NEW i \in 1 .. n - 1 PROVE t[i] \in {s[j] : j \in 1 .. n} \ {s[k]}
    <3>1. PICK j \in 1 .. n : t[i] = s[j] /\ Closed(k, j, i)
      BY <1>7
    <3>2. j # k
      BY <1>1, <3>1 DEF Closed
    <3>. QED
      BY <3>1, <3>2
  <2>2. ASSUME NEW y \in {s[j] : j \in 1 .. n} \ {s[k]} PROVE y \in {t[i] : i \in 1 .. n - 1}
    <3>1. PICK j \in 1 .. n : y = s[j] /\ j # k
      OBVIOUS
    <3>2. PICK i \in 1 .. n - 1 : t[i] = s[j]
      BY <1>8, <3>1
    <3>. QED
      BY <3>1, <3>2
  <2> DEFINE left == {t[i] : i \in 1 .. n - 1}
             rest == {s[j] : j \in 1 .. n} \ {s[k]}
  <2>3. left \subseteq rest
    BY <2>1
  <2>4. rest \subseteq left
    BY <2>2
  <2> HIDE DEF left, rest
  <2>5. left = rest
    BY <2>3, <2>4
  <2>. QED
    BY <2>5 DEF left, rest
<1>12. ASSUME NEW i \in 1 .. n - 1, NEW j \in 1 .. n - 1, t[i] = t[j] PROVE i = j
  <2>1. PICK a \in 1 .. n : t[i] = s[a] /\ Closed(k, a, i)
    BY <1>7
  <2>2. PICK b \in 1 .. n : t[j] = s[b] /\ Closed(k, b, j)
    BY <1>7
  <2>3. a = b
    BY <1>12, <2>1, <2>2
  <2>. QED
    BY <1>1, <2>1, <2>2, <2>3 DEF Closed
<1>13. ASSUME NEW j \in 1 .. n, NEW i \in 1 .. n - 1, Closed(k, j, i)
       PROVE  /\ At(t, n - 1, i + 1) = IF j = k - 1 THEN At(s, n, k + 1) ELSE At(s, n, j + 1)
              /\ At(t, n - 1, i - 1) = IF j = k + 1 THEN At(s, n, k - 1) ELSE At(s, n, j - 1)
  <2>1. CASE j < k /\ i = j
    <3>1. j = k - 1 => At(t, n - 1, i + 1) = At(s, n, k + 1)
      <4>1. j = k - 1 => i + 1 = k /\ k >= k
        BY <1>1, <2>1
      <4>. QED
        BY <1>1, <1>5, <4>1
    <3>2. j # k - 1 => At(t, n - 1, i + 1) = At(s, n, j + 1)
      <4>1. j + 1 \in Int /\ (j # k - 1 => j + 1 < k)
        BY <1>1, <2>1
      <4>. QED
        BY <1>4, <2>1, <4>1
    <3>3. j # k + 1 /\ At(t, n - 1, i - 1) = At(s, n, j - 1)
      <4>1. j - 1 \in Int /\ j - 1 < k /\ j # k + 1
        BY <1>1, <2>1
      <4>. QED
        BY <1>4, <2>1, <4>1
    <3>. QED
      BY <3>1, <3>2, <3>3
  <2>2. CASE j > k /\ j = i + 1
    <3>1. j # k - 1 /\ At(t, n - 1, i + 1) = At(s, n, j + 1)
      <4>1. j # k - 1 /\ j \in Int /\ j >= k
        BY <1>1, <2>2
      <4>. QED
        BY <1>5, <2>2, <4>1
    <3>2. j = k + 1 => At(t, n - 1, i - 1) = At(s, n, k - 1)
      <4>1. k - 1 \in Int /\ k - 1 < k /\ (j = k + 1 => i - 1 = k - 1)
        BY <1>1, <2>2
      <4>. QED
        BY <1>4, <4>1
    <3>3. j # k + 1 => At(t, n - 1, i - 1) = At(s, n, j - 1)
      <4>1. i - 1 \in Int /\ (i - 1) + 1 = j - 1 /\ (j # k + 1 => i - 1 >= k)
        BY <1>1, <2>2
      <4>. QED
        BY <1>5, <4>1
    <3>. QED
      BY <3>1, <3>2, <3>3
  <2>. QED
    BY <1>13, <2>1, <2>2 DEF Closed
<1>14. At(t, n - 1, 1) = IF k = 1 THEN At(s, n, k + 1) ELSE At(s, n, 1)
  <2>1. k # 1 => 1 < k
    BY <1>1
  <2>2. k # 1 => At(t, n - 1, 1) = At(s, n, 1)
    BY <1>4, <2>1
  <2>3. k = 1 => At(t, n - 1, 1) = At(s, n, k + 1)
    BY <1>1, <1>5
  <2>. QED
    BY <2>2, <2>3
<1>15. At(t, n - 1, n - 1) = IF k = n THEN At(s, n, k - 1) ELSE At(s, n, n)
  <2>1. n - 1 \in Int /\ (n - 1) + 1 = n /\ (k # n => n - 1 >= k) /\ (k = n => n - 1 < k)
    BY <1>1
  <2>2. k # n => At(t, n - 1, n - 1) = At(s, n, n)
    BY <1>5, <2>1
  <2>3. k = n => At(t, n - 1, n - 1) = At(s, n, k - 1)
    BY <1>4, <2>1
  <2>. QED
    BY <2>2, <2>3
<1>. QED
  BY <1>7, <1>10, <1>11, <1>12, <1>13, <1>14, <1>15 DEF OrderWithout

\* Taking out the element at place k takes it out of the order.
LEMMA LinkedOut ==
  ASSUME CellsAssumption, NEW c, NEW l, NEW s, Chain(c, l, s), NEW k \in 1 .. l.size,
         NEW cc, cc = Parted(c, s[k]),
         NEW ll \in [head : Links, tail : Links, size : Nat],
         ll.size = l.size - 1,
         ll.head = IF k = 1 THEN c[s[k]].next ELSE l.head,
         ll.tail = IF k = l.size THEN c[s[k]].prev ELSE l.tail
  PROVE  Keeps(cc, ll, TakenOut([i \in 1 .. l.size |-> c[s[i]].data], l.size, k))
<1> DEFINE n == l.size
           t == TakenOut(s, n, k)
           e == s[k]
<1>1. n \in Nat /\ k \in 1 .. n
  BY DEF Chain
<1>2. s \in [1 .. n -> Cells] /\ \A i, j \in 1 .. n : s[i] = s[j] => i = j
  BY DEF Chain
<1>3. c \in [{s[i] : i \in 1 .. n} -> Element]
  BY DEF Chain
<1>4. l.head = At(s, n, 1) /\ l.tail = At(s, n, n)
  BY DEF Chain
<1>5. \A i \in 1 .. n : c[s[i]].next = At(s, n, i + 1) /\ c[s[i]].prev = At(s, n, i - 1)
  BY DEF Chain
<1>6. /\ ll.size = n - 1
      /\ ll.head = (IF k = 1 THEN c[e].next ELSE l.head)
      /\ ll.tail = IF k = n THEN c[e].prev ELSE l.tail
  OBVIOUS
<1>7. cc = Parted(c, e)
  OBVIOUS
<1> HIDE DEF n
<1>8. \A i \in 1 .. n : At(s, n, i) = s[i] /\ s[i] \in DOMAIN c /\ s[i] # NULL
  <2>1. \A i \in 1 .. n : s[i] \in Cells /\ s[i] \in DOMAIN c
    BY <1>2, <1>3
  <2>. QED
    BY <2>1 DEF At, CellsAssumption
<1>9. OrderWithout(s, n, k, t)
  BY <1>1, <1>2, TakenOutOrder
<1>10. c[e].next = At(s, n, k + 1) /\ c[e].prev = At(s, n, k - 1) /\ e \in DOMAIN c
  BY <1>1, <1>5, <1>8
<1>11. Apart(c, e, cc)
  <2>1. \A y \in DOMAIN c : c[y] \in Element
    BY <1>3
  <2> HIDE DEF e
  <2>. QED
    BY <1>7, <1>10, <2>1, PartedIs
<1> HIDE DEF t
\* The neighbours of what is left.
<1>12. ASSUME NEW j \in 1 .. n, j # k
       PROVE  /\ cc[s[j]].data = c[s[j]].data
              /\ cc[s[j]].next = IF j = k - 1 THEN At(s, n, k + 1) ELSE At(s, n, j + 1)
              /\ cc[s[j]].prev = IF j = k + 1 THEN At(s, n, k - 1) ELSE At(s, n, j - 1)
  <2>1. s[j] = At(s, n, k - 1) <=> j = k - 1
    BY <1>1, <1>2, <1>8 DEF At
  <2>2. s[j] = At(s, n, k + 1) <=> j = k + 1
    BY <1>1, <1>2, <1>8 DEF At
  <2>3. s[j] \in DOMAIN c \ {e}
    BY <1>1, <1>2, <1>8, <1>12
  <2> HIDE DEF e
  <2>. QED
    BY <1>5, <1>10, <1>11, <2>1, <2>2, <2>3 DEF Apart
<1>13. ASSUME NEW i \in 1 .. n - 1
       PROVE  cc[t[i]].next = At(t, n - 1, i + 1) /\ cc[t[i]].prev = At(t, n - 1, i - 1)
  <2>1. PICK j \in 1 .. n : t[i] = s[j] /\ Closed(k, j, i)
    BY <1>9 DEF OrderWithout
  <2>2. /\ At(t, n - 1, i + 1) = IF j = k - 1 THEN At(s, n, k + 1) ELSE At(s, n, j + 1)
        /\ At(t, n - 1, i - 1) = IF j = k + 1 THEN At(s, n, k - 1) ELSE At(s, n, j - 1)
    BY <1>9, <2>1 DEF OrderWithout
  <2>3. j # k
    BY <1>1, <2>1 DEF Closed
  <2>. QED
    BY <1>12, <2>1, <2>2, <2>3
<1>14. cc \in [{t[i] : i \in 1 .. n - 1} -> Element]
  <2>1. DOMAIN c = {s[i] : i \in 1 .. n}
    BY <1>3
  <2>. QED
    BY <1>9, <1>11, <2>1 DEF OrderWithout, Apart
<1>15. Chain(cc, ll, t)
  <2>1. /\ t \in [1 .. n - 1 -> Cells]
        /\ \A i, j \in 1 .. n - 1 : t[i] = t[j] => i = j
    BY <1>9 DEF OrderWithout
  <2>2. ll.head = At(t, n - 1, 1) /\ ll.tail = At(t, n - 1, n - 1)
    BY <1>4, <1>6, <1>9, <1>10 DEF OrderWithout
  <2>. QED
    BY <1>6, <1>13, <1>14, <2>1, <2>2 DEF Chain
<1> DEFINE kept == [i \in 1 .. n |-> c[s[i]].data]
<1>16. ASSUME NEW i \in 1 .. n - 1
       PROVE  cc[t[i]].data = IF i < k THEN kept[i] ELSE kept[i + 1]
  <2>1. PICK j \in 1 .. n : t[i] = s[j] /\ Closed(k, j, i)
    BY <1>9 DEF OrderWithout
  <2>2. j # k /\ (i < k => j = i) /\ (~ i < k => j = i + 1)
    BY <1>1, <2>1 DEF Closed
  <2>3. cc[t[i]].data = kept[j]
    BY <1>12, <2>1, <2>2
  <2> HIDE DEF kept
  <2>. QED
    BY <2>2, <2>3
<1> HIDE DEF kept
<1>17. [i \in 1 .. ll.size |-> cc[t[i]].data] = TakenOut(kept, n, k)
  BY <1>6, <1>16 DEF TakenOut
<1>. QED
  BY <1>15, <1>17 DEF Keeps, n, kept

-----------------------------------------------------------------------------
(* The steps of the specification.                                         *)

\* Every order of the elements shows what the list is and what is in it.
Shown ==
    \A s : Chain(cell, dll, s) =>
        SameBothWays /\ Contents = [i \in 1 .. dll.size |-> cell[s[i]].data]

LEMMA AlwaysShown == ASSUME CellsAssumption PROVE Shown
  BY OrderShows DEF Shown

LEMMA ShownNext == ASSUME CellsAssumption PROVE Shown'
<1>1. Shown
  BY AlwaysShown
<1>. QED
  BY <1>1, PTL

\* What is kept of a list.
LEMMA KeptData ==
  ASSUME NEW c, NEW l, NEW s, Chain(c, l, s)
  PROVE  [i \in 1 .. l.size |-> c[s[i]].data] \in [1 .. l.size -> Data]
<1>1. \A i \in 1 .. l.size : c[s[i]] \in Element
  BY DEF Chain
<1>. QED
  BY <1>1 DEF Element

\* A new element behind the first k.
LEMMA InsertStep ==
  ASSUME CellsAssumption, NEW s, Chain(cell, dll, s), NEW k \in 0 .. dll.size, NEW d \in Data,
         DOMAIN cell # Cells,
         cell' = Linked(New, d, At(s, dll.size, k), At(s, dll.size, k + 1)),
         dll' = [head |-> IF k = 0 THEN New ELSE dll.head,
                 tail |-> IF k = dll.size THEN New ELSE dll.tail, size |-> dll.size + 1]
  PROVE  Ordered' /\ Promised!Next
<1>1. New \in Cells /\ New \notin DOMAIN cell
  <2>1. DOMAIN cell \subseteq Cells
    BY DEF Chain
  <2>2. \E e : e \in Cells \ DOMAIN cell
    BY <2>1
  <2>. QED
    BY <2>2 DEF New
<1>2. dll \in [head : Links, tail : Links, size : Nat] /\ dll.size \in Nat
  BY DEF Chain
<1>3. cell' = Joined(cell, New, d, At(s, dll.size, k), At(s, dll.size, k + 1))
  BY DEF Linked, Joined
<1>4. PICK c, l, cc, ll, x : c = cell /\ l = dll /\ cc = cell' /\ ll = dll' /\ x = New
  OBVIOUS
<1>5. ll = [head |-> IF k = 0 THEN x ELSE l.head,
            tail |-> IF k = l.size THEN x ELSE l.tail, size |-> l.size + 1]
  BY <1>4
<1>6. /\ ll \in [head : Links, tail : Links, size : Nat] /\ ll.size = l.size + 1
      /\ ll.head = IF k = 0 THEN x ELSE l.head
      /\ ll.tail = IF k = l.size THEN x ELSE l.tail
  BY <1>1, <1>2, <1>4, <1>5 DEF Links
<1> DEFINE q == [i \in 1 .. l.size |-> c[s[i]].data]
<1>7. PICK t : /\ Chain(cc, ll, t)
               /\ [i \in 1 .. ll.size |-> cc[t[i]].data] = PutIn(q, l.size, k, d)
  <2>1. /\ x \in Cells /\ x \notin DOMAIN c /\ Chain(c, l, s) /\ k \in 0 .. l.size
        /\ cc = Joined(c, x, d, At(s, l.size, k), At(s, l.size, k + 1))
    BY <1>1, <1>3, <1>4
  <2>2. Keeps(cc, ll, PutIn(q, l.size, k, d))
    BY <1>6, <2>1, LinkedIn
  <2>. QED
    BY <2>2 DEF Keeps
<1>8. Chain(cell', dll', t)
  BY <1>4, <1>7
<1>9. Contents = q
  BY <1>4, AlwaysShown DEF Shown
<1>10. Contents' = PutIn(q, l.size, k, d)
  <2>1. Shown'
    BY ShownNext
  <2>2. Contents' = [i \in 1 .. dll'.size |-> cell'[t[i]].data]
    BY <1>8, <2>1 DEF Shown
  <2>3. Contents' = [i \in 1 .. ll.size |-> cc[t[i]].data]
    BY <1>4, <2>2
  <2>. QED
    BY <1>7, <2>3
<1>11. q \in [1 .. l.size -> Data] /\ l.size \in Nat /\ k \in 0 .. l.size
  BY <1>2, <1>4, KeptData
<1> HIDE DEF q
<1>12. Contents' = InsertAt(Contents, k + 1, d)
  BY <1>9, <1>10, <1>11, InsertIs
<1>13. k \in 0 .. Len(Contents)
  BY <1>9, <1>11, FunctionSeq
<1>14. Promised!Next
  <2>1. Promised!Insert(k, d)
    BY <1>12 DEF Promised!Insert, Promised!InsertAt, InsertAt
  <2>. QED
    BY <1>13, <2>1 DEF Promised!Next
<1>15. Ordered'
  BY <1>8 DEF Ordered
<1>. QED
  BY <1>14, <1>15

\* The element at place k is taken out.
LEMMA RemoveStep ==
  ASSUME CellsAssumption, NEW s, Chain(cell, dll, s), NEW k \in 1 .. dll.size, dll_remove(s[k])
  PROVE  Ordered' /\ Promised!Next
<1>1. /\ dll \in [head : Links, tail : Links, size : Nat] /\ dll.size \in Nat
      /\ cell[s[k]] \in Element
      /\ s[k] \in Cells /\ NULL \notin Cells
      /\ dll.head = At(s, dll.size, 1) /\ dll.tail = At(s, dll.size, dll.size)
      /\ \A i, j \in 1 .. dll.size : s[i] = s[j] => i = j
  BY DEF Chain, CellsAssumption
<1>2. cell' = Parted(cell, s[k])
  BY DEF dll_remove, Unlinked, Parted
<1>3. dll' = [size |-> dll.size - 1,
              head |-> IF dll.head = s[k] THEN cell[s[k]].next ELSE dll.head,
              tail |-> IF dll.tail = s[k] THEN cell[s[k]].prev ELSE dll.tail]
  BY DEF dll_remove
<1>4. PICK c, l, cc, ll : c = cell /\ l = dll /\ cc = cell' /\ ll = dll'
  OBVIOUS
<1>5. (l.head = s[k] <=> k = 1) /\ (l.tail = s[k] <=> k = l.size)
  <2>1. l.head = s[1] /\ l.tail = s[l.size] /\ 1 \in 1 .. l.size /\ l.size \in 1 .. l.size
    BY <1>1, <1>4 DEF At
  <2>. QED
    BY <1>1, <1>4, <2>1
<1>6. ll = [size |-> l.size - 1, head |-> IF l.head = s[k] THEN c[s[k]].next ELSE l.head,
            tail |-> IF l.tail = s[k] THEN c[s[k]].prev ELSE l.tail]
  BY <1>3, <1>4
<1>7. /\ ll \in [head : Links, tail : Links, size : Nat] /\ ll.size = l.size - 1
      /\ ll.head = IF k = 1 THEN c[s[k]].next ELSE l.head
      /\ ll.tail = IF k = l.size THEN c[s[k]].prev ELSE l.tail
  <2>1. /\ c[s[k]].next \in Links /\ c[s[k]].prev \in Links /\ l.head \in Links /\ l.tail \in Links
        /\ l.size - 1 \in Nat
    BY <1>1, <1>4 DEF Element
  <2>. QED
    BY <1>5, <1>6, <2>1
<1> DEFINE q == [i \in 1 .. l.size |-> c[s[i]].data]
<1>8. PICK t : /\ Chain(cc, ll, t)
               /\ [i \in 1 .. ll.size |-> cc[t[i]].data] = TakenOut(q, l.size, k)
  <2>1. Chain(c, l, s) /\ k \in 1 .. l.size /\ cc = Parted(c, s[k])
    BY <1>2, <1>4
  <2>2. Keeps(cc, ll, TakenOut(q, l.size, k))
    BY <1>7, <2>1, LinkedOut
  <2>. QED
    BY <2>2 DEF Keeps
<1>9. Chain(cell', dll', t)
  BY <1>4, <1>8
<1>10. Contents = q
  BY <1>4, AlwaysShown DEF Shown
<1>11. Contents' = TakenOut(q, l.size, k)
  <2>1. Shown'
    BY ShownNext
  <2>2. Contents' = [i \in 1 .. dll'.size |-> cell'[t[i]].data]
    BY <1>9, <2>1 DEF Shown
  <2>3. Contents' = [i \in 1 .. ll.size |-> cc[t[i]].data]
    BY <1>4, <2>2
  <2>. QED
    BY <1>8, <2>3
<1>12. q \in [1 .. l.size -> Data] /\ l.size \in Nat /\ k \in 1 .. l.size
  BY <1>1, <1>4, KeptData
<1> HIDE DEF q
<1>13. Contents' = RemoveAt(Contents, k)
  BY <1>10, <1>11, <1>12, RemoveIs
<1>14. k \in DOMAIN Contents
  BY <1>10, <1>12
<1>15. Promised!Next
  <2>1. Promised!Delete(k)
    BY <1>13 DEF Promised!Delete, Promised!RemoveAt, RemoveAt
  <2>. QED
    BY <1>14, <2>1 DEF Promised!Next
<1>16. Ordered'
  BY <1>9 DEF Ordered
<1>. QED
  BY <1>15, <1>16

\* An empty list is in order and the empty sequence.
LEMMA InitOrdered == ASSUME CellsAssumption PROVE Init => Ordered /\ Promised!Init
<1> SUFFICES ASSUME Init PROVE Ordered /\ Promised!Init
  OBVIOUS
<1>1. cell = <<>> /\ dll = [head |-> NULL, tail |-> NULL, size |-> 0]
  BY DEF Init
<1>2. 1 .. 0 = {}
  OBVIOUS
<1>3. \A S : <<>> \in [{} -> S]
  <2>1. \A S : <<>> \in Seq(S) /\ Len(<<>>) = 0
    BY EmptySeq
  <2>. QED
    BY <1>2, <2>1, LenProperties
<1>4. dll \in [head : Links, tail : Links, size : Nat] /\ dll.size = 0 /\ dll.head = NULL /\ dll.tail = NULL
  BY <1>1 DEF Links
<1>5. Chain(cell, dll, <<>>)
  <2>1. {<<>>[i] : i \in 1 .. 0} = {}
    BY <1>2
  <2>2. At(<<>>, 0, 1) = NULL /\ At(<<>>, 0, 0) = NULL
    BY DEF At
  <2>. QED
    BY <1>1, <1>2, <1>3, <1>4, <2>1, <2>2 DEF Chain
<1>6. Contents = <<>>
  <2>1. Contents = [i \in 1 .. dll.size |-> cell[<<>>[i]].data]
    BY <1>5, AlwaysShown DEF Shown
  <2>2. DOMAIN Contents = {} /\ Contents \in [{} -> Data]
    BY <1>2, <1>4, <2>1
  <2>3. Contents \in Seq(Data) /\ Len(Contents) = 0
    BY <1>2, <2>2, FunctionSeq
  <2>. QED
    BY <2>3, EmptySeq
<1>. QED
  BY <1>5, <1>6 DEF Ordered, Promised!Init

\* The ends of a list say whether it is empty.
LEMMA Ends ==
  ASSUME CellsAssumption, NEW s, Chain(cell, dll, s)
  PROVE  /\ dll \in [head : Links, tail : Links, size : Nat] /\ dll.size \in Nat
         /\ dll.head = At(s, dll.size, 1) /\ dll.tail = At(s, dll.size, dll.size)
         /\ dll.head = NULL <=> dll.size = 0
         /\ dll.tail = NULL <=> dll.size = 0
<1>1. /\ dll \in [head : Links, tail : Links, size : Nat] /\ dll.size \in Nat
      /\ dll.head = At(s, dll.size, 1) /\ dll.tail = At(s, dll.size, dll.size)
      /\ s \in [1 .. dll.size -> Cells] /\ NULL \notin Cells
  BY DEF Chain, CellsAssumption
<1>2. CASE dll.size = 0
  BY <1>1, <1>2 DEF At
<1>3. CASE dll.size # 0
  <2>1. 1 \in 1 .. dll.size /\ dll.size \in 1 .. dll.size
    BY <1>1, <1>3
  <2>. QED
    BY <1>1, <1>3, <2>1 DEF At
<1>. QED
  BY <1>1, <1>2, <1>3

\* The place of an element that is given.
LEMMA PlaceOf ==
  ASSUME CellsAssumption, NEW s, Chain(cell, dll, s), NEW e \in DOMAIN cell
  PROVE  \E j \in 1 .. dll.size :
            /\ e = s[j] /\ e # NULL
            /\ At(s, dll.size, j) = e
            /\ cell[e].next = At(s, dll.size, j + 1) /\ cell[e].prev = At(s, dll.size, j - 1)
            /\ dll.head = e <=> j = 1
            /\ dll.tail = e <=> j = dll.size
<1>1. PICK j \in 1 .. dll.size : e = s[j]
  BY DEF Chain
<1>2. /\ s \in [1 .. dll.size -> Cells] /\ NULL \notin Cells
      /\ \A a, b \in 1 .. dll.size : s[a] = s[b] => a = b
      /\ cell[s[j]].next = At(s, dll.size, j + 1) /\ cell[s[j]].prev = At(s, dll.size, j - 1)
  BY DEF Chain, CellsAssumption
<1>3. dll.size \in Nat /\ dll.head = At(s, dll.size, 1) /\ dll.tail = At(s, dll.size, dll.size)
  BY Ends
<1>4. 1 \in 1 .. dll.size /\ dll.size \in 1 .. dll.size
  BY <1>1, <1>3
<1>5. At(s, dll.size, j) = s[j] /\ dll.head = s[1] /\ dll.tail = s[dll.size]
  BY <1>1, <1>3, <1>4 DEF At
<1>. QED
  BY <1>1, <1>2, <1>4, <1>5

\* A record of the list with other ends.
LEMMA ListRecord ==
  ASSUME NEW l \in [head : Links, tail : Links, size : Nat], NEW h, NEW n
  PROVE  /\ [l EXCEPT !.head = h, !.size = n] = [head |-> h, tail |-> l.tail, size |-> n]
         /\ [l EXCEPT !.tail = h, !.size = n] = [head |-> l.head, tail |-> h, size |-> n]
<1>1. ASSUME NEW x, x = [l EXCEPT !.head = h, !.size = n]
      PROVE  x = [head |-> h, tail |-> l.tail, size |-> n]
  <2>1. x = [i \in {"head", "tail", "size"} |-> x[i]] /\ x.head = h /\ x.tail = l.tail /\ x.size = n
    BY <1>1
  <2>. QED
    BY <2>1
<1>2. ASSUME NEW x, x = [l EXCEPT !.tail = h, !.size = n]
      PROVE  x = [head |-> l.head, tail |-> h, size |-> n]
  <2>1. x = [i \in {"head", "tail", "size"} |-> x[i]] /\ x.head = l.head /\ x.tail = h /\ x.size = n
    BY <1>2
  <2>. QED
    BY <2>1
<1>. QED
  BY <1>1, <1>2, Zenon

\* Every step is one on the sequence.
LEMMA NextStep ==
  ASSUME CellsAssumption, Ordered, Next
  PROVE  Ordered' /\ Promised!Next
<1>1. PICK s : Chain(cell, dll, s)
  BY DEF Ordered
<1> DEFINE n == dll.size
<1>2. /\ dll \in [head : Links, tail : Links, size : Nat] /\ n \in Nat
      /\ dll.head = At(s, n, 1) /\ dll.tail = At(s, n, n)
      /\ dll.head = NULL <=> n = 0
      /\ dll.tail = NULL <=> n = 0
  BY <1>1, Ends
<1>3. At(s, n, 0) = NULL /\ At(s, n, n + 1) = NULL
  BY <1>2 DEF At
\* It is enough to say behind how many elements the new one comes.
<1>4. ASSUME NEW k \in 0 .. n, NEW d \in Data, DOMAIN cell # Cells,
             cell' = Linked(New, d, At(s, n, k), At(s, n, k + 1)),
             dll' = [head |-> IF k = 0 THEN New ELSE dll.head,
                     tail |-> IF k = n THEN New ELSE dll.tail, size |-> n + 1]
      PROVE  Ordered' /\ Promised!Next
  BY <1>1, <1>4, InsertStep
<1>5. ASSUME NEW d \in Data, dll_prepend(d) PROVE Ordered' /\ Promised!Next
  <2>1. DOMAIN cell # Cells /\ cell' = Linked(New, d, NULL, dll.head)
    BY <1>5 DEF dll_prepend
  <2>2. dll' = [head |-> New, tail |-> IF dll.tail = NULL THEN New ELSE dll.tail, size |-> n + 1]
    BY <1>5 DEF dll_prepend
  <2>3. 0 \in 0 .. n /\ 0 + 1 = 1 /\ (0 = n <=> dll.tail = NULL)
    BY <1>2
  <2>4. cell' = Linked(New, d, At(s, n, 0), At(s, n, 0 + 1))
    BY <1>2, <1>3, <2>1
  <2>5. dll' = [head |-> IF 0 = 0 THEN New ELSE dll.head,
                tail |-> IF 0 = n THEN New ELSE dll.tail, size |-> n + 1]
    BY <2>2, <2>3
  <2>. QED
    BY <1>4, <2>1, <2>3, <2>4, <2>5
<1>6. ASSUME NEW d \in Data, dll_append(d) PROVE Ordered' /\ Promised!Next
  <2>1. DOMAIN cell # Cells /\ cell' = Linked(New, d, dll.tail, NULL)
    BY <1>6 DEF dll_append
  <2>2. dll' = [head |-> IF dll.head = NULL THEN New ELSE dll.head, tail |-> New, size |-> n + 1]
    BY <1>6 DEF dll_append
  <2>3. n \in 0 .. n /\ (n = 0 <=> dll.head = NULL)
    BY <1>2
  <2>4. cell' = Linked(New, d, At(s, n, n), At(s, n, n + 1))
    BY <1>2, <1>3, <2>1
  <2>5. dll' = [head |-> IF n = 0 THEN New ELSE dll.head,
                tail |-> IF n = n THEN New ELSE dll.tail, size |-> n + 1]
    BY <2>2, <2>3
  <2>. QED
    BY <1>4, <2>1, <2>3, <2>4, <2>5
<1>7. ASSUME NEW d \in Data, NEW e \in DOMAIN cell \cup {NULL}, dll_insert_before(e, d)
      PROVE  Ordered' /\ Promised!Next
  <2>1. CASE e = NULL /\ dll_prepend(d)
    BY <1>5, <2>1
  <2>2. CASE /\ e # NULL /\ DOMAIN cell # Cells
             /\ cell' = Linked(New, d, cell[e].prev, e)
             /\ dll' = [dll EXCEPT !.head = IF @ = e THEN New ELSE @, !.size = @ + 1]
    <3>1. PICK j \in 1 .. n : /\ At(s, n, j) = e /\ cell[e].prev = At(s, n, j - 1)
                              /\ dll.head = e <=> j = 1
      BY <1>1, <2>2, PlaceOf
    <3>2. j - 1 \in 0 .. n /\ (j - 1) + 1 = j /\ (j - 1 = 0 <=> dll.head = e) /\ j - 1 # n
      BY <1>2, <3>1
    <3>3. cell' = Linked(New, d, At(s, n, j - 1), At(s, n, (j - 1) + 1))
      BY <2>2, <3>1, <3>2
    <3>4. dll' = [head |-> IF dll.head = e THEN New ELSE dll.head, tail |-> dll.tail, size |-> n + 1]
      BY <1>2, <2>2, ListRecord
    <3>5. dll' = [head |-> IF j - 1 = 0 THEN New ELSE dll.head,
                  tail |-> IF j - 1 = n THEN New ELSE dll.tail, size |-> n + 1]
      BY <3>2, <3>4
    <3>. QED
      BY <1>4, <2>2, <3>2, <3>3, <3>5
  <2>. QED
    BY <1>7, <2>1, <2>2 DEF dll_insert_before
<1>8. ASSUME NEW d \in Data, NEW e \in DOMAIN cell \cup {NULL}, dll_insert_after(e, d)
      PROVE  Ordered' /\ Promised!Next
  <2>1. CASE e = NULL /\ dll_append(d)
    BY <1>6, <2>1
  <2>2. CASE /\ e # NULL /\ DOMAIN cell # Cells
             /\ cell' = Linked(New, d, e, cell[e].next)
             /\ dll' = [dll EXCEPT !.tail = IF @ = e THEN New ELSE @, !.size = @ + 1]
    <3>1. PICK j \in 1 .. n : /\ At(s, n, j) = e /\ cell[e].next = At(s, n, j + 1)
                              /\ dll.tail = e <=> j = n
      BY <1>1, <2>2, PlaceOf
    <3>2. j \in 0 .. n /\ j # 0
      BY <1>2, <3>1
    <3>3. cell' = Linked(New, d, At(s, n, j), At(s, n, j + 1))
      BY <2>2, <3>1
    <3>4. dll' = [head |-> dll.head, tail |-> IF dll.tail = e THEN New ELSE dll.tail, size |-> n + 1]
      BY <1>2, <2>2, ListRecord
    <3>5. dll' = [head |-> IF j = 0 THEN New ELSE dll.head,
                  tail |-> IF j = n THEN New ELSE dll.tail, size |-> n + 1]
      BY <3>1, <3>2, <3>4
    <3>. QED
      BY <1>4, <2>2, <3>2, <3>3, <3>5
  <2>. QED
    BY <1>8, <2>1, <2>2 DEF dll_insert_after
<1>9. ASSUME NEW e \in DOMAIN cell, dll_remove(e) PROVE Ordered' /\ Promised!Next
  <2>1. PICK j \in 1 .. dll.size : e = s[j]
    BY <1>1, PlaceOf
  <2>. QED
    BY <1>1, <1>9, <2>1, RemoveStep
<1>10. CASE dll_pop
  <2>1. dll_remove(dll.tail) /\ dll.tail \in DOMAIN cell
    BY <1>10 DEF dll_pop, dll_remove
  <2>. QED
    BY <1>9, <2>1
<1>. QED
  BY <1>5, <1>6, <1>7, <1>8, <1>9, <1>10 DEF Next

\* The order stays, and what is in the list changes as the sequence does.
LEMMA OrderedStep ==
  ASSUME CellsAssumption, Ordered, [Next]_vars
  PROVE  Ordered' /\ [Promised!Next]_Contents
<1>1. CASE Next
  BY <1>1, NextStep
<1>2. CASE UNCHANGED vars
  <2>1. cell' = cell /\ dll' = dll
    BY <1>2 DEF vars
  <2>2. Ordered'
    BY <2>1 DEF Ordered
  <2>3. Contents' = Contents
    BY <2>1 DEF Contents, Elements, dll_seek_offset, Along
  <2>. QED
    BY <2>2, <2>3
<1>. QED
  BY <1>1, <1>2

\* Some order of the allocated elements is always the list.
THEOREM ListOrdered == ASSUME CellsAssumption PROVE Spec => []Ordered
<1>1. Init => Ordered
  BY InitOrdered
<1>2. Ordered /\ [Next]_vars => Ordered'
  BY OrderedStep
<1>. QED
  BY <1>1, <1>2, PTL DEF Spec

\* dll.c: the list is the same forwards and backwards, its ends and its size
\* are where its elements end, and all that is allocated is in it.
THEOREM ListSameBothWays == ASSUME CellsAssumption PROVE Spec => []SameBothWays
<1>1. Ordered => SameBothWays
  BY OrderShows DEF Ordered
<1>. QED
  BY <1>1, ListOrdered, PTL

\* dll.c, stack.c: every operation on the links is the one on the sequence of
\* what is kept.
THEOREM ListIsSequence == ASSUME CellsAssumption PROVE Spec => ImplementsSequence
<1>1. Init => Promised!Init
  BY InitOrdered
<1>2. Ordered /\ [Next]_vars => [Promised!Next]_Contents
  BY OrderedStep
<1>. QED
  BY <1>1, <1>2, ListOrdered, PTL DEF Spec, ImplementsSequence, Promised!Spec
=============================================================================
