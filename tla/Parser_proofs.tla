---------------------------- MODULE Parser_proofs ----------------------------
(***************************************************************************)
(* What the parser guarantees for every set of class names and every depth *)
(* of nesting: its flags follow the open constructs, parser_error and the  *)
(* rules of the language agree, and no check for an internal error fires.  *)
(***************************************************************************)
EXTENDS Parser, FiniteSetTheorems, SequenceTheorems, TLAPS

LoopKinds == Loops \cup {"for", "switch"}
Kinds == LoopKinds \cup {"block", "class", "interface", "method"}
Constructs == [k : Kinds, mods : SUBSET Modifiers, labels : {0, 1}, defaults : {0, 1}]

Typed ==
    /\ nesting \in Seq(Constructs) /\ Len(nesting) <= MaxNesting
    /\ mods \subseteq Modifiers
    /\ in_class \in BOOLEAN /\ in_method \in BOOLEAN
    /\ in_loop_counter \in Nat /\ fors \in Nat
    /\ switches \in Seq(BOOLEAN)
    /\ classes \subseteq ClassNames
    /\ active_class \in classes \cup {NoClass}
    /\ given \in Seq(Modifiers) /\ declared \in Seq(ClassNames)
    /\ result \in {"parsing", "error", "done"}

-----------------------------------------------------------------------------
(* The open constructs.                                                    *)

At(s, kinds) == {i \in DOMAIN s : s[i].k \in kinds}

\* Without its last element a sequence is one shorter and else the same.
LEMMA Front ==
  ASSUME NEW S, NEW q \in Seq(S), q # <<>>
  PROVE  LET n == Len(q) - 1
         IN /\ n \in Nat /\ SubSeq(q, 1, n) \in Seq(S) /\ Len(SubSeq(q, 1, n)) = n
            /\ \A i \in 1 .. n : SubSeq(q, 1, n)[i] = q[i]
<1> DEFINE n == Len(q) - 1
<1>1. n \in Nat /\ n \in Int /\ 1 \in Int
  BY EmptySeq
<1>2. \A i \in 1 .. n : q[i] \in S
  OBVIOUS
<1> HIDE DEF n
<1>3. SubSeq(q, 1, n) \in Seq(S) /\ Len(SubSeq(q, 1, n)) = IF 1 <= n THEN n - 1 + 1 ELSE 0
  BY <1>1, <1>2, SubSeqProperties
<1>4. \A i \in 1 .. n - 1 + 1 : SubSeq(q, 1, n)[i] = q[1 + i - 1]
  BY <1>1, <1>2, SubSeqProperties
<1>5. Len(SubSeq(q, 1, n)) = n /\ \A i \in 1 .. n : SubSeq(q, 1, n)[i] = q[i]
  BY <1>1, <1>3, <1>4
<1>. QED
  BY <1>1, <1>3, <1>5 DEF n

\* A sequence that has a length is not the empty one.
LEMMA NotEmpty ==
  ASSUME NEW S, NEW q \in Seq(S), Len(q) # 0
  PROVE  q # <<>>
  OBVIOUS

\* Positions in a sequence are finitely many.
LEMMA Positions ==
  ASSUME NEW s \in Seq(Constructs), NEW P \in SUBSET DOMAIN s
  PROVE  IsFiniteSet(P) /\ Cardinality(P) \in Nat
<1>1. IsFiniteSet(DOMAIN s)
  BY FS_Interval
<1>. QED
  BY <1>1, FS_Subset, FS_CardinalityType

\* A construct that is opened is the innermost one, and one more of its kind.
LEMMA Opened ==
  ASSUME NEW s \in Seq(Constructs), NEW c \in Constructs, NEW t, t = Append(s, c)
  PROVE  /\ t \in Seq(Constructs) /\ Len(t) = Len(s) + 1 /\ t[Len(t)] = c
         /\ DOMAIN t = DOMAIN s \cup {Len(t)} /\ Len(t) \notin DOMAIN s
         /\ \A i \in DOMAIN s : t[i] = s[i]
  BY AppendProperties

\* Opening a construct makes one more of its kind.
LEMMA OpenedCount ==
  ASSUME NEW s \in Seq(Constructs), NEW c \in Constructs, NEW kinds
  PROVE  Cardinality(At(Append(s, c), kinds))
            = Cardinality(At(s, kinds)) + IF c.k \in kinds THEN 1 ELSE 0
<1> DEFINE t == Append(s, c)
<1>1. At(t, kinds) = At(s, kinds) \cup IF c.k \in kinds THEN {Len(t)} ELSE {}
  BY Opened DEF At
<1>2. At(s, kinds) \in SUBSET DOMAIN s
  BY DEF At
<1>3. IsFiniteSet(At(s, kinds)) /\ Len(t) \notin At(s, kinds)
  BY Opened, <1>2, Positions
<1>4. At(s, kinds) \cup {} = At(s, kinds)
  OBVIOUS
<1> HIDE DEF t
<1>5. Cardinality(At(s, kinds) \cup {Len(t)}) = Cardinality(At(s, kinds)) + 1
  BY <1>3, FS_AddElement
<1>6. Cardinality(At(s, kinds)) \in Nat
  BY <1>2, Positions
<1>7. CASE c.k \in kinds
  BY <1>1, <1>5, <1>7 DEF t
<1>8. CASE c.k \notin kinds
  BY <1>1, <1>4, <1>6, <1>8 DEF t
<1>. QED
  BY <1>7, <1>8

\* A construct that is shut leaves those around it as they are, and one less of
\* its kind.
LEMMA ShutOne ==
  ASSUME NEW s \in Seq(Constructs), s # <<>>, NEW t, t = SubSeq(s, 1, Len(s) - 1)
  PROVE  /\ t \in Seq(Constructs) /\ Len(t) = Len(s) - 1
         /\ DOMAIN t = DOMAIN s \ {Len(s)} /\ Len(s) \in DOMAIN s
         /\ \A i \in DOMAIN t : t[i] = s[i]
<1>1. Len(s) \in Nat \ {0} /\ DOMAIN s = 1 .. Len(s)
  BY EmptySeq, LenProperties
<1>2. /\ t \in Seq(Constructs) /\ Len(t) = Len(s) - 1
      /\ \A i \in 1 .. Len(s) - 1 : t[i] = s[i]
  BY Front
<1>. QED
  BY <1>1, <1>2, LenProperties

\* Shutting one makes one less of its kind.
LEMMA ShutCount ==
  ASSUME NEW s \in Seq(Constructs), s # <<>>, NEW kinds
  PROVE  Cardinality(At(SubSeq(s, 1, Len(s) - 1), kinds))
            = Cardinality(At(s, kinds)) - IF s[Len(s)].k \in kinds THEN 1 ELSE 0
<1> DEFINE t == SubSeq(s, 1, Len(s) - 1)
<1>1. At(t, kinds) = At(s, kinds) \ {Len(s)} /\ (Len(s) \in At(s, kinds) <=> s[Len(s)].k \in kinds)
  BY ShutOne DEF At
<1>2. At(s, kinds) \in SUBSET DOMAIN s
  BY DEF At
<1>3. IsFiniteSet(At(s, kinds)) /\ Cardinality(At(s, kinds)) \in Nat
  BY <1>2, Positions
<1> HIDE DEF t
<1>. QED
  BY <1>1, <1>3, FS_RemoveElement DEF t

-----------------------------------------------------------------------------
(* The switches: current_switch is the stack of those that are open.       *)

Switches(s) == At(s, {"switch"})
Rank(s, i) == Cardinality({j \in Switches(s) : j <= i})
SwitchStack(s, stack) ==
    /\ Len(stack) = Cardinality(Switches(s))
    /\ \A i \in Switches(s) : stack[Rank(s, i)] <=> s[i].defaults = 1

\* A switch has a place in the stack, and the innermost one has the top.
LEMMA Ranks ==
  ASSUME NEW s \in Seq(Constructs)
  PROVE  /\ \A i \in Switches(s) : Rank(s, i) \in 1 .. Cardinality(Switches(s))
         /\ Len(s) \in Switches(s) => Rank(s, Len(s)) = Cardinality(Switches(s))
         /\ \A i \in Switches(s) : i # Len(s) /\ Len(s) \in Switches(s)
                => Rank(s, i) < Cardinality(Switches(s))
<1> DEFINE Upto(i) == {j \in Switches(s) : j <= i}
<1>0. Len(s) \in Nat /\ DOMAIN s = 1 .. Len(s)
  OBVIOUS
<1>1. Switches(s) \in SUBSET DOMAIN s /\ \A i : Upto(i) \in SUBSET Switches(s)
  BY DEF Switches, At
<1>2. IsFiniteSet(Switches(s)) /\ Cardinality(Switches(s)) \in Nat
  BY <1>1, Positions
<1>3. \A i : /\ Cardinality(Upto(i)) \in Nat /\ Cardinality(Upto(i)) <= Cardinality(Switches(s))
             /\ Cardinality(Upto(i)) = 0 => Upto(i) = {}
             /\ Cardinality(Upto(i)) = Cardinality(Switches(s)) => Upto(i) = Switches(s)
  <2>1. ASSUME NEW i
        PROVE /\ IsFiniteSet(Upto(i)) /\ Cardinality(Upto(i)) <= Cardinality(Switches(s))
              /\ Cardinality(Upto(i)) = Cardinality(Switches(s)) => Upto(i) = Switches(s)
    <3>1. Upto(i) \in SUBSET Switches(s)
      BY <1>1
    <3>. HIDE DEF Upto
    <3>. QED
      BY <1>2, <3>1, FS_Subset
  <2>. HIDE DEF Upto
  <2>. QED
    BY <2>1, FS_CardinalityType, FS_EmptySet
<1>4. \A i \in Switches(s) : i \in Upto(i)
  BY <1>0, <1>1
<1>5. Len(s) \in Switches(s) => Upto(Len(s)) = Switches(s)
  BY <1>0, <1>1
<1>6. \A i \in Switches(s) : i # Len(s) /\ Len(s) \in Switches(s) => Upto(i) # Switches(s)
  BY <1>0, <1>1
<1>7. \A i : Rank(s, i) = Cardinality(Upto(i))
  BY DEF Rank
<1> HIDE DEF Upto
<1>. QED
  BY <1>2, <1>3, <1>4, <1>5, <1>6, <1>7

\* Opening a construct adds a switch without a default to the stack, if it is one.
LEMMA SwitchOpened ==
  ASSUME NEW s \in Seq(Constructs), NEW c \in Constructs, c.defaults = 0,
         NEW stack \in Seq(BOOLEAN), SwitchStack(s, stack), NEW t, t = Append(s, c)
  PROVE  SwitchStack(t, IF c.k = "switch" THEN Append(stack, FALSE) ELSE stack)
<1>1. /\ t \in Seq(Constructs) /\ t[Len(t)] = c /\ Len(t) = Len(s) + 1
      /\ DOMAIN t = DOMAIN s \cup {Len(t)} /\ Len(t) \notin DOMAIN s
      /\ \A i \in DOMAIN s : t[i] = s[i]
  BY Opened
<1>2. /\ Switches(t) = Switches(s) \cup IF c.k = "switch" THEN {Len(t)} ELSE {}
      /\ Cardinality(Switches(t)) = Cardinality(Switches(s)) + IF c.k = "switch" THEN 1 ELSE 0
  <2>1. Switches(t) = Switches(s) \cup IF c.k = "switch" THEN {Len(t)} ELSE {}
    <3>1. Switches(t) \subseteq DOMAIN t /\ Switches(s) \subseteq DOMAIN s
      BY DEF Switches, At
    <3>2. \A i \in DOMAIN t : i \in Switches(t) <=> t[i].k = "switch"
      BY DEF Switches, At
    <3>3. \A i \in DOMAIN s : i \in Switches(s) <=> s[i].k = "switch"
      BY DEF Switches, At
    <3>4. CASE c.k = "switch"
      BY <1>1, <3>1, <3>2, <3>3, <3>4
    <3>5. CASE c.k # "switch"
      BY <1>1, <3>1, <3>2, <3>3, <3>5
    <3>. QED
      BY <3>4, <3>5
  <2>2. Cardinality(Switches(t)) = Cardinality(Switches(s)) + IF c.k \in {"switch"} THEN 1 ELSE 0
    BY OpenedCount DEF Switches
  <2>3. c.k \in {"switch"} <=> c.k = "switch"
    OBVIOUS
  <2>. QED
    BY <2>1, <2>2, <2>3, Zenon
<1>3. Switches(s) \in SUBSET DOMAIN s /\ DOMAIN s = 1 .. Len(s) /\ Len(s) \in Nat
  BY DEF Switches, At
<1>4. \A i \in Switches(s) : {j \in Switches(t) : j <= i} = {j \in Switches(s) : j <= i}
  BY <1>1, <1>2, <1>3
<1>5. \A i \in Switches(s) : Rank(t, i) = Rank(s, i)
  BY <1>4 DEF Rank
<1>6. Cardinality(Switches(s)) = Len(stack) /\ \A i \in Switches(s) : Rank(s, i) \in 1 .. Len(stack)
  BY Ranks DEF SwitchStack
<1>7. CASE c.k = "switch"
  <2>1. Rank(t, Len(t)) = Len(stack) + 1
    BY <1>1, <1>2, <1>6, <1>7, Ranks
  <2>2. /\ Len(Append(stack, FALSE)) = Len(stack) + 1
        /\ Append(stack, FALSE)[Len(stack) + 1] = FALSE
        /\ \A n \in 1 .. Len(stack) : Append(stack, FALSE)[n] = stack[n]
    BY AppendProperties
  <2>3. ASSUME NEW i \in Switches(t)
        PROVE  Append(stack, FALSE)[Rank(t, i)] <=> t[i].defaults = 1
    <3>1. CASE i \in Switches(s)
      BY <1>1, <1>3, <1>5, <1>6, <2>2, <3>1, Zenon DEF SwitchStack
    <3>2. CASE i = Len(t)
      BY <1>1, <2>1, <2>2, <3>2
    <3>. QED
      BY <1>2, <1>7, <3>1, <3>2
  <2>4. Len(Append(stack, FALSE)) = Cardinality(Switches(t))
    BY <1>2, <1>6, <1>7, <2>2
  <2>. QED
    BY <1>7, <2>3, <2>4 DEF SwitchStack
<1>8. CASE c.k # "switch"
  <2>1. Switches(t) = Switches(s) /\ Cardinality(Switches(t)) = Len(stack)
    BY <1>2, <1>6, <1>8
  <2>2. ASSUME NEW i \in Switches(t)
        PROVE  stack[Rank(t, i)] <=> t[i].defaults = 1
    BY <1>1, <1>3, <1>5, <2>1, Zenon DEF SwitchStack
  <2>. QED
    BY <1>8, <2>1, <2>2 DEF SwitchStack
<1>. QED
  BY <1>7, <1>8

\* Shutting the innermost construct takes the top of the stack with it, if it is a
\* switch.
LEMMA SwitchShut ==
  ASSUME NEW s \in Seq(Constructs), s # <<>>,
         NEW stack \in Seq(BOOLEAN), SwitchStack(s, stack)
  PROVE  SwitchStack(SubSeq(s, 1, Len(s) - 1),
                     IF s[Len(s)].k = "switch" THEN SubSeq(stack, 1, Len(stack) - 1) ELSE stack)
<1> DEFINE t == SubSeq(s, 1, Len(s) - 1)
           n == Len(s)
<1>1. /\ t \in Seq(Constructs) /\ DOMAIN t = DOMAIN s \ {n} /\ n \in DOMAIN s
      /\ DOMAIN s = 1 .. n /\ n \in Nat
      /\ \A i \in DOMAIN t : t[i] = s[i]
  BY ShutOne
<1>2. /\ Switches(t) = Switches(s) \ {n}
      /\ Cardinality(Switches(t)) = Cardinality(Switches(s)) - IF s[n].k \in {"switch"} THEN 1 ELSE 0
  <2>1. Switches(t) \subseteq DOMAIN t /\ Switches(s) \subseteq DOMAIN s
    BY DEF Switches, At
  <2>2. \A i \in DOMAIN t : i \in Switches(t) <=> t[i].k = "switch"
    BY DEF Switches, At
  <2>3. \A i \in DOMAIN s : i \in Switches(s) <=> s[i].k = "switch"
    BY DEF Switches, At
  <2>4. Cardinality(Switches(t)) = Cardinality(Switches(s)) - IF s[n].k \in {"switch"} THEN 1 ELSE 0
    BY ShutCount DEF Switches
  <2>. HIDE DEF t, n
  <2>. QED
    BY <1>1, <2>1, <2>2, <2>3, <2>4
<1>3. Switches(s) \in SUBSET DOMAIN s /\ (n \in Switches(s) <=> s[n].k = "switch")
  BY <1>1 DEF Switches, At
<1> HIDE DEF t, n
<1>4. \A i \in Switches(t) : {j \in Switches(t) : j <= i} = {j \in Switches(s) : j <= i}
  BY <1>1, <1>2, <1>3
<1>5. \A i \in Switches(t) : Rank(t, i) = Rank(s, i)
  BY <1>4 DEF Rank
<1>6. Cardinality(Switches(s)) = Len(stack) /\ \A i \in Switches(s) : Rank(s, i) \in 1 .. Len(stack)
  BY Ranks DEF SwitchStack
<1>7. \A i \in Switches(t) : i \in Switches(s) /\ t[i] = s[i]
  BY <1>1, <1>2, <1>3
<1>8. CASE s[n].k = "switch"
  <2>1. \A i \in Switches(t) : Rank(s, i) \in 1 .. Len(stack) - 1
    BY <1>2, <1>3, <1>6, <1>8, Ranks DEF n
  <2>2. n \in Switches(s) /\ Len(stack) \in Nat \ {0}
    BY <1>3, <1>6, <1>8
  <2>3. stack # <<>>
    BY <2>2, NotEmpty
  <2>4. /\ Len(SubSeq(stack, 1, Len(stack) - 1)) = Len(stack) - 1
        /\ \A i \in 1 .. Len(stack) - 1 : SubSeq(stack, 1, Len(stack) - 1)[i] = stack[i]
    BY <2>3, Front
  <2>5. ASSUME NEW i \in Switches(t)
        PROVE  SubSeq(stack, 1, Len(stack) - 1)[Rank(t, i)] <=> t[i].defaults = 1
    <3>1. SubSeq(stack, 1, Len(stack) - 1)[Rank(t, i)] = stack[Rank(s, i)]
      BY <1>5, <2>1, <2>4
    <3>. QED
      BY <1>7, <3>1, Zenon DEF SwitchStack
  <2>6. Len(SubSeq(stack, 1, Len(stack) - 1)) = Cardinality(Switches(t))
    BY <1>2, <1>6, <1>8, <2>2, <2>4
  <2>. QED
    BY <1>8, <2>5, <2>6 DEF SwitchStack, t, n
<1>9. CASE s[n].k # "switch"
  <2>1. Cardinality(Switches(t)) = Len(stack)
    BY <1>2, <1>6, <1>9
  <2>2. ASSUME NEW i \in Switches(t)
        PROVE  stack[Rank(t, i)] <=> t[i].defaults = 1
    BY <1>5, <1>7, Zenon DEF SwitchStack
  <2>. QED
    BY <1>9, <2>1, <2>2 DEF SwitchStack, t, n
<1>. QED
  BY <1>8, <1>9 DEF n

\* A default sets the top of the stack, a case leaves it.
LEMMA SwitchLabelled ==
  ASSUME NEW s \in Seq(Constructs), s # <<>>, s[Len(s)].k = "switch",
         NEW d \in Constructs, d.k = "switch",
         NEW stack \in Seq(BOOLEAN), SwitchStack(s, stack),
         NEW top \in BOOLEAN, top <=> d.defaults = 1
  PROVE  /\ stack # <<>>
         /\ SwitchStack([s EXCEPT ![Len(s)] = d], [stack EXCEPT ![Len(stack)] = top])
<1> DEFINE t == [s EXCEPT ![Len(s)] = d]
           n == Len(s)
           new == [stack EXCEPT ![Len(stack)] = top]
<1>0. n \in Nat \ {0} /\ DOMAIN s = 1 .. n
  BY EmptySeq, LenProperties
<1>1. /\ t \in Seq(Constructs) /\ DOMAIN t = DOMAIN s /\ n \in DOMAIN s /\ Len(t) = n
      /\ t[n] = d /\ \A i \in DOMAIN s : i # n => t[i] = s[i]
  BY <1>0, ExceptSeq
<1> HIDE DEF t, n
<1>2. Switches(t) = Switches(s) /\ n \in Switches(s)
  BY <1>1 DEF Switches, At, n
<1>3. \A i : Rank(t, i) = Rank(s, i)
  BY <1>2 DEF Rank
<1>4. Cardinality(Switches(s)) = Len(stack) /\ \A i \in Switches(s) : Rank(s, i) \in 1 .. Len(stack)
  BY Ranks DEF SwitchStack
<1>5. Rank(s, n) = Len(stack) /\ \A i \in Switches(s) : i # n => Rank(s, i) # Len(stack)
  BY <1>2, <1>4, Ranks DEF n
<1>6. /\ Len(stack) \in 1 .. Len(stack) /\ Len(new) = Len(stack) /\ new[Len(stack)] = top
      /\ \A i \in 1 .. Len(stack) : i # Len(stack) => new[i] = stack[i]
  <2>1. Len(stack) \in 1 .. Len(stack)
    BY <1>2, <1>4
  <2>. QED
    BY <2>1, ExceptSeq
<1>7. ASSUME NEW i \in Switches(t)
      PROVE  new[Rank(t, i)] <=> t[i].defaults = 1
  <2>1. CASE i = n
    BY <1>1, <1>3, <1>5, <1>6, <2>1
  <2>2. CASE i # n
    <3>1. new[Rank(t, i)] = stack[Rank(s, i)] /\ t[i] = s[i] /\ i \in Switches(s)
      <4>1. i \in Switches(s) /\ i \in DOMAIN s
        BY <1>2 DEF Switches, At
      <4>. QED
        BY <1>1, <1>3, <1>4, <1>5, <1>6, <2>2, <4>1
    <3>. QED
      BY <3>1, Zenon DEF SwitchStack
  <2>. QED
    BY <2>1, <2>2
<1>8. stack # <<>>
  <2>1. stack \in Seq(BOOLEAN)
    OBVIOUS
  <2>2. Len(stack) # 0
    BY <1>2, <1>4, <1>5
  <2>. QED
    BY <2>1, <2>2, NotEmpty
<1>. QED
  BY <1>2, <1>4, <1>6, <1>7, <1>8 DEF SwitchStack, t, n
-----------------------------------------------------------------------------
(* The inductive invariant.                                                *)

\* Classes and interfaces are outermost, and a method is in a class.
Formed(s) ==
    \A i \in DOMAIN s :
        /\ s[i].k \in {"class", "interface"} => i = 1
        /\ s[i].k = "method" => i = 2 /\ s[1].k = "class"

\* FlagsFollowNesting, of the constructs s and the for statements done.
InClass(s) == Cardinality(At(s, {"class"})) = 1
InMethod(s) == Cardinality(At(s, {"method"})) = 1
Follows(s, loops, stack, done) ==
    /\ loops = Cardinality(At(s, LoopKinds)) + done
    /\ SwitchStack(s, stack)

Flags ==
    /\ in_class <=> InClass(nesting)
    /\ in_method <=> InMethod(nesting)
    /\ Follows(nesting, in_loop_counter, switches, fors)
    /\ active_class = IF in_class THEN declared[Len(declared)] ELSE NoClass

\* The flags of the member that is read are its modifiers, which have passed
\* parser_validate_flags, and the classes are those declared.
Texts ==
    result = "parsing" =>
        /\ mods = {given[i] : i \in DOMAIN given}
        /\ \A i, j \in DOMAIN given : given[i] = given[j] => i = j
        /\ \A x, y \in mods : x \in Visibilities /\ y \in Visibilities => x = y
        /\ ~({"abstract", "final"} \subseteq mods)
        /\ classes = {declared[i] : i \in DOMAIN declared}
        /\ in_class => declared # <<>>

ParserInv == Typed /\ Formed(nesting) /\ Flags /\ Texts

\* How many constructs of a kind there are follows from where they may stand.
LEMMA Bodies ==
  ASSUME NEW s \in Seq(Constructs), Formed(s)
  PROVE  /\ Cardinality(At(s, {"class"})) \in {0, 1}
         /\ Cardinality(At(s, {"method"})) \in {0, 1}
         /\ Cardinality(At(s, LoopKinds)) \in Nat
         /\ s = <<>> => \A kinds : Cardinality(At(s, kinds)) = 0
<1>1. \A kinds : At(s, kinds) \in SUBSET DOMAIN s
  BY DEF At
<1>2. At(s, {"class"}) \subseteq {1} /\ At(s, {"method"}) \subseteq {2}
  BY DEF Formed, At
<1>3. \A x, S : S \subseteq {x} => S = {} \/ S = {x}
  OBVIOUS
<1>4. At(s, {"class"}) \in {{}, {1}} /\ At(s, {"method"}) \in {{}, {2}}
  BY <1>2, <1>3, Zenon
<1>5. /\ Cardinality({}) = 0 /\ \A x : Cardinality({x}) = 1
  BY FS_EmptySet, FS_Singleton
<1>6. s = <<>> => \A kinds : At(s, kinds) = {}
  BY DEF At
<1>7. Cardinality(At(s, LoopKinds)) \in Nat
  BY <1>1, Positions
<1>. QED
  BY <1>4, <1>5, <1>6, <1>7, Zenon

\* The same by what the innermost construct is.
LEMMA Inner ==
  ASSUME NEW s \in Seq(Constructs), Formed(s), s # <<>>
  PROVE  /\ s[Len(s)].k \in {"class", "interface"} => Len(s) = 1
         /\ s[Len(s)].k \in {"class", "interface"} => Cardinality(At(s, {"method"})) = 0
         /\ s[Len(s)].k = "class" => Cardinality(At(s, {"class"})) = 1
         /\ s[Len(s)].k = "method" => Cardinality(At(s, {"method"})) = 1
         /\ s[Len(s)].k \in LoopKinds => Cardinality(At(s, LoopKinds)) > 0
<1>1. Len(s) \in Nat \ {0} /\ DOMAIN s = 1 .. Len(s) /\ Len(s) \in DOMAIN s
  BY EmptySeq, LenProperties
<1>2. s[Len(s)].k \in {"class", "interface"} => Len(s) = 1
  BY <1>1 DEF Formed
<1>3. \A kinds : s[Len(s)].k \in kinds => Len(s) \in At(s, kinds)
  BY <1>1 DEF At
<1>4. \A kinds : Len(s) \in At(s, kinds) => Cardinality(At(s, kinds)) > 0
  <2>1. ASSUME NEW kinds, Len(s) \in At(s, kinds)
        PROVE  Cardinality(At(s, kinds)) > 0
    <3>1. At(s, kinds) \in SUBSET DOMAIN s
      BY DEF At
    <3>2. IsFiniteSet(At(s, kinds)) /\ Cardinality(At(s, kinds)) \in Nat
      BY <3>1, Positions
    <3>. QED
      BY <2>1, <3>2, FS_EmptySet
  <2>. QED
    BY <2>1
<1>5. \A kinds : s[Len(s)].k \in kinds => Cardinality(At(s, kinds)) > 0
  BY <1>3, <1>4
<1>6. s[Len(s)].k \in {"class", "interface"} => Cardinality(At(s, {"method"})) = 0
  <2>1. ASSUME s[Len(s)].k \in {"class", "interface"}
        PROVE  At(s, {"method"}) = {}
    BY <1>1, <1>2, <2>1 DEF At, Formed
  <2>. QED
    BY <2>1, FS_EmptySet
<1>7. /\ s[Len(s)].k = "class" => Cardinality(At(s, {"class"})) > 0
      /\ s[Len(s)].k = "method" => Cardinality(At(s, {"method"})) > 0
      /\ s[Len(s)].k \in LoopKinds => Cardinality(At(s, LoopKinds)) > 0
  BY <1>5
<1>. QED
  BY <1>2, <1>6, <1>7, Bodies

\* What opening a construct does to the flags.
LEMMA FollowsOpened ==
  ASSUME NEW s \in Seq(Constructs), Formed(s), NEW c \in Constructs, c.defaults = 0,
         NEW loops \in Nat, NEW done \in Nat,
         NEW stack \in Seq(BOOLEAN), Follows(s, loops, stack, done),
         c.k \in {"class", "interface"} => s = <<>>,
         c.k = "method" => s # <<>> /\ s[Len(s)].k = "class"
  PROVE  /\ Formed(Append(s, c))
         /\ InClass(Append(s, c)) <=> InClass(s) \/ c.k = "class"
         /\ InMethod(Append(s, c)) <=> InMethod(s) \/ c.k = "method"
         /\ Follows(Append(s, c),
                    loops + IF c.k \in LoopKinds THEN 1 ELSE 0,
                    IF c.k = "switch" THEN Append(stack, FALSE) ELSE stack,
                    done)
<1> DEFINE t == Append(s, c)
<1>1. /\ DOMAIN t = DOMAIN s \cup {Len(t)} /\ \A i \in DOMAIN s : t[i] = s[i]
      /\ t[Len(t)] = c /\ Len(t) = Len(s) + 1 /\ DOMAIN s = 1 .. Len(s) /\ Len(s) \in Nat
  BY Opened
<1>2. Formed(t)
  <2>1. c.k \in {"class", "interface"} => Len(t) = 1
    BY <1>1
  <2>2. c.k = "method" => Len(t) = 2 /\ t[1].k = "class"
    <3>1. SUFFICES ASSUME c.k = "method" PROVE Len(t) = 2 /\ t[1].k = "class"
      OBVIOUS
    <3>2. Len(s) = 1 /\ s[1].k = "class"
      BY <3>1, Inner
    <3>. QED
      BY <1>1, <3>2
  <2> HIDE DEF t
  <2>3. ASSUME NEW i \in DOMAIN s
        PROVE  /\ t[i].k \in {"class", "interface"} => i = 1
               /\ t[i].k = "method" => i = 2 /\ t[1].k = "class"
    <3>1. 1 \in DOMAIN s
      BY <1>1
    <3>2. t[i] = s[i] /\ t[1] = s[1]
      BY <1>1, <3>1
    <3>. QED
      BY <3>2 DEF Formed
  <2>. QED
    BY <1>1, <2>1, <2>2, <2>3 DEF Formed
<1>3. /\ Cardinality(At(t, {"class"})) = Cardinality(At(s, {"class"})) + IF c.k \in {"class"} THEN 1 ELSE 0
      /\ Cardinality(At(t, {"method"})) = Cardinality(At(s, {"method"})) + IF c.k \in {"method"} THEN 1 ELSE 0
      /\ Cardinality(At(t, LoopKinds)) = Cardinality(At(s, LoopKinds)) + IF c.k \in LoopKinds THEN 1 ELSE 0
  BY OpenedCount
<1>4. SwitchStack(t, IF c.k = "switch" THEN Append(stack, FALSE) ELSE stack)
  BY SwitchOpened DEF Follows
<1>5. /\ c.k = "class" => Cardinality(At(s, {"class"})) = 0
      /\ c.k = "method" => Cardinality(At(s, {"method"})) = 0
  BY Bodies, Inner
<1> HIDE DEF t
<1>6. InClass(t) <=> InClass(s) \/ c.k = "class"
  BY <1>3, <1>5, Bodies DEF InClass
<1>7. InMethod(t) <=> InMethod(s) \/ c.k = "method"
  BY <1>3, <1>5, Bodies DEF InMethod
<1>8. loops + (IF c.k \in LoopKinds THEN 1 ELSE 0) = Cardinality(At(t, LoopKinds)) + done
  <2>1. Cardinality(At(s, LoopKinds)) \in Nat /\ loops = Cardinality(At(s, LoopKinds)) + done
    BY Bodies DEF Follows
  <2>. QED
    BY <1>3, <2>1
<1>. QED
  BY <1>2, <1>4, <1>6, <1>7, <1>8 DEF Follows, t

\* What shutting one does: left are as many loops as were entered and not left,
\* the for statements that are done among them.
LEMMA FollowsShut ==
  ASSUME NEW s \in Seq(Constructs), Formed(s), s # <<>>,
         NEW loops \in Nat, NEW done \in Nat,
         NEW stack \in Seq(BOOLEAN), Follows(s, loops, stack, done),
         NEW left \in Nat, NEW more \in Nat,
         s[Len(s)].k \in LoopKinds => left - more = loops - done - 1,
         s[Len(s)].k \notin LoopKinds => left - more = loops - done
  PROVE  /\ Formed(SubSeq(s, 1, Len(s) - 1))
         /\ InClass(SubSeq(s, 1, Len(s) - 1)) <=> InClass(s) /\ s[Len(s)].k # "class"
         /\ InMethod(SubSeq(s, 1, Len(s) - 1)) <=> InMethod(s) /\ s[Len(s)].k # "method"
         /\ Follows(SubSeq(s, 1, Len(s) - 1),
                    left,
                    IF s[Len(s)].k = "switch" THEN SubSeq(stack, 1, Len(stack) - 1) ELSE stack,
                    more)
<1> DEFINE t == SubSeq(s, 1, Len(s) - 1)
           c == s[Len(s)]
<1>1. /\ DOMAIN t = DOMAIN s \ {Len(s)} /\ \A i \in DOMAIN t : t[i] = s[i]
      /\ DOMAIN s = 1 .. Len(s) /\ Len(s) \in Nat
  BY ShutOne
<1>2. /\ Cardinality(At(t, {"class"})) = Cardinality(At(s, {"class"})) - IF c.k \in {"class"} THEN 1 ELSE 0
      /\ Cardinality(At(t, {"method"})) = Cardinality(At(s, {"method"})) - IF c.k \in {"method"} THEN 1 ELSE 0
      /\ Cardinality(At(t, LoopKinds)) = Cardinality(At(s, LoopKinds)) - IF c.k \in LoopKinds THEN 1 ELSE 0
  BY ShutCount
<1>3. SwitchStack(t, IF c.k = "switch" THEN SubSeq(stack, 1, Len(stack) - 1) ELSE stack)
  BY SwitchShut DEF Follows
<1>4. /\ c.k = "class" => Cardinality(At(s, {"class"})) = 1
      /\ c.k = "method" => Cardinality(At(s, {"method"})) = 1
  BY Inner
<1>5. left = Cardinality(At(s, LoopKinds)) + more - IF c.k \in LoopKinds THEN 1 ELSE 0
  BY Bodies DEF Follows
<1> HIDE DEF t, c
<1>6. Formed(t)
  <2>1. ASSUME NEW i \in DOMAIN t
        PROVE  /\ t[i].k \in {"class", "interface"} => i = 1
               /\ t[i].k = "method" => i = 2 /\ t[1].k = "class"
    <3>1. i \in DOMAIN s /\ t[i] = s[i]
      BY <1>1
    <3>2. i = 2 => t[1] = s[1]
      BY <1>1
    <3>. QED
      BY <3>1, <3>2 DEF Formed
  <2>. QED
    BY <2>1 DEF Formed
<1>7. InClass(t) <=> InClass(s) /\ c.k # "class"
  BY <1>2, <1>4, Bodies DEF InClass
<1>8. InMethod(t) <=> InMethod(s) /\ c.k # "method"
  BY <1>2, <1>4, Bodies DEF InMethod
<1>9. left = Cardinality(At(t, LoopKinds)) + more
  <2>1. Cardinality(At(s, LoopKinds)) \in Nat
    BY Bodies
  <2>. QED
    BY <1>2, <1>5, <2>1
<1>. QED
  BY <1>3, <1>6, <1>7, <1>8, <1>9 DEF Follows, t, c

\* What a label of the innermost switch does.
LEMMA FollowsLabelled ==
  ASSUME NEW s \in Seq(Constructs), Formed(s), s # <<>>, s[Len(s)].k = "switch",
         NEW loops, NEW done,
         NEW stack \in Seq(BOOLEAN), Follows(s, loops, stack, done),
         NEW d \in Constructs, d.k = "switch", NEW top \in BOOLEAN, top <=> d.defaults = 1
  PROVE  /\ [s EXCEPT ![Len(s)] = d] \in Seq(Constructs) /\ Len([s EXCEPT ![Len(s)] = d]) = Len(s)
         /\ Formed([s EXCEPT ![Len(s)] = d])
         /\ InClass([s EXCEPT ![Len(s)] = d]) <=> InClass(s)
         /\ InMethod([s EXCEPT ![Len(s)] = d]) <=> InMethod(s)
         /\ Follows([s EXCEPT ![Len(s)] = d], loops, [stack EXCEPT ![Len(stack)] = top], done)
<1> DEFINE t == [s EXCEPT ![Len(s)] = d]
<1>0. Len(s) \in 1 .. Len(s) /\ DOMAIN s = 1 .. Len(s)
  BY EmptySeq, LenProperties
<1>1. /\ t \in Seq(Constructs) /\ Len(t) = Len(s) /\ DOMAIN t = DOMAIN s
      /\ \A i \in DOMAIN s : t[i].k = s[i].k
  BY <1>0, ExceptSeq
<1>2. SwitchStack(t, [stack EXCEPT ![Len(stack)] = top])
  BY SwitchLabelled DEF Follows
<1> HIDE DEF t
<1>3. Formed(t)
  <2>1. \A i \in DOMAIN s : 1 \in DOMAIN s
    BY <1>0
  <2>. QED
    BY <1>1, <2>1 DEF Formed
<1>4. \A kinds : At(t, kinds) = At(s, kinds)
  BY <1>1 DEF At
<1>. QED
  BY <1>1, <1>2, <1>3, <1>4 DEF Follows, InClass, InMethod, t

-----------------------------------------------------------------------------
(* What the actions have in common.                                        *)

\* A construct that is refused leaves everything as it is, but what was read.
LEMMA Refused ==
  ASSUME ParserInv, Refuse("error"), UNCHANGED fors,
         given' \in Seq(Modifiers), declared' \in Seq(ClassNames),
         declared' = declared \/ ~in_class
  PROVE  ParserInv'
<1>1. Typed'
  BY DEF ParserInv, Typed, Refuse, parserinfo
<1>2. Formed(nesting)' /\ Texts'
  BY DEF ParserInv, Refuse, Texts
<1>3. Flags'
  <2>1. /\ (in_class <=> InClass(nesting))'
        /\ (in_method <=> InMethod(nesting))'
        /\ Follows(nesting, in_loop_counter, switches, fors)'
    BY DEF ParserInv, Flags, Refuse, parserinfo
  <2>2. (active_class = IF in_class THEN declared[Len(declared)] ELSE NoClass)'
    BY DEF ParserInv, Flags, Refuse, parserinfo
  <2>. QED
    BY <2>1, <2>2 DEF Flags
<1>. QED
  BY <1>1, <1>2, <1>3 DEF ParserInv

\* A construct that leaves the nesting and the flags, and either leaves the modifiers
\* or has used them.
LEMMA Kept ==
  ASSUME ParserInv,
         UNCHANGED <<nesting, parserinfo, result, declared, fors>>,
         UNCHANGED <<mods, given>> \/ (mods' = {} /\ given' = <<>>)
  PROVE  ParserInv'
<1>1. Typed'
  <2>1. given' \in Seq(Modifiers) /\ mods' \subseteq Modifiers
    BY EmptySeq DEF ParserInv, Typed
  <2>. QED
    BY <2>1 DEF ParserInv, Typed, parserinfo
<1>2. Formed(nesting)' /\ Flags'
  BY DEF ParserInv, parserinfo, Flags
<1>3. Texts'
  BY DEF ParserInv, Texts, parserinfo
<1>. QED
  BY <1>1, <1>2, <1>3 DEF ParserInv

\* A construct that is opened, other than a class.
LEMMA Opens ==
  ASSUME ParserInv, Reading, Room, NEW c \in Constructs, c.defaults = 0, c.k # "class", Open(c),
         c.k = "interface" => nesting = <<>>,
         c.k = "method" => nesting # <<>> /\ Top.k = "class",
         UNCHANGED <<in_class, classes, active_class, result, declared, fors>>,
         in_method' = (in_method \/ c.k = "method"),
         in_loop_counter' = in_loop_counter + IF c.k \in LoopKinds THEN 1 ELSE 0,
         switches' = IF c.k = "switch" THEN Append(switches, FALSE) ELSE switches,
         UNCHANGED <<mods, given>> \/ (mods' = {} /\ given' = <<>>)
  PROVE  ParserInv'
<1>1. /\ nesting' \in Seq(Constructs) /\ Len(nesting') <= MaxNesting
  <2>1. nesting \in Seq(Constructs) /\ Len(nesting) < MaxNesting /\ nesting' = Append(nesting, c)
    BY DEF ParserInv, Typed, Room, Open
  <2>. QED
    BY <2>1, Opened, ParserAssumption
<1>2. Typed'
  <2>1. given' \in Seq(Modifiers) /\ mods' \subseteq Modifiers
    BY EmptySeq DEF ParserInv, Typed
  <2>2. switches' \in Seq(BOOLEAN)
    BY AppendProperties DEF ParserInv, Typed
  <2>3. in_loop_counter' \in Nat /\ in_method' \in BOOLEAN
    BY DEF ParserInv, Typed
  <2>. QED
    BY <1>1, <2>1, <2>2, <2>3 DEF ParserInv, Typed
<1>3. /\ Formed(Append(nesting, c))
      /\ InClass(Append(nesting, c)) <=> InClass(nesting) \/ c.k = "class"
      /\ InMethod(Append(nesting, c)) <=> InMethod(nesting) \/ c.k = "method"
      /\ Follows(Append(nesting, c),
                 in_loop_counter + IF c.k \in LoopKinds THEN 1 ELSE 0,
                 IF c.k = "switch" THEN Append(switches, FALSE) ELSE switches, fors)
  <2>1. /\ nesting \in Seq(Constructs) /\ Formed(nesting)
        /\ in_loop_counter \in Nat /\ fors \in Nat
        /\ switches \in Seq(BOOLEAN)
        /\ Follows(nesting, in_loop_counter, switches, fors)
        /\ c.k \in {"class", "interface"} => nesting = <<>>
        /\ c.k = "method" => nesting # <<>> /\ nesting[Len(nesting)].k = "class"
    BY DEF ParserInv, Typed, Flags, Open, Top
  <2>. QED
    BY <2>1, FollowsOpened
<1>4. /\ Formed(nesting')
      /\ InClass(nesting') <=> in_class'
      /\ InMethod(nesting') <=> in_method'
      /\ Follows(nesting', in_loop_counter', switches', fors')
  <2>1. (in_class <=> InClass(nesting)) /\ (in_method <=> InMethod(nesting))
    BY DEF ParserInv, Flags
  <2>. QED
    BY <1>3, <2>1 DEF Open
<1>5. Flags'
  BY <1>4 DEF ParserInv, Flags
<1>6. Texts'
  BY DEF ParserInv, Texts
<1>. QED
  BY <1>2, <1>4, <1>5, <1>6 DEF ParserInv

\* A construct that is shut, other than a class.
LEMMA Shuts ==
  ASSUME ParserInv, nesting # <<>>, Top.k # "class", Shut,
         UNCHANGED <<in_class, classes, active_class, result, declared, mods, given>>,
         in_method' = (in_method /\ Top.k # "method"),
         in_loop_counter' \in Nat, fors' \in Nat,
         Top.k \in LoopKinds => in_loop_counter' - fors' = in_loop_counter - fors - 1,
         Top.k \notin LoopKinds => in_loop_counter' - fors' = in_loop_counter - fors,
         switches' = IF Top.k = "switch" THEN SubSeq(switches, 1, Len(switches) - 1) ELSE switches,
         Top.k = "switch" => switches # <<>>
  PROVE  ParserInv'
<1>0. /\ nesting \in Seq(Constructs) /\ Formed(nesting) /\ Len(nesting) <= MaxNesting
      /\ nesting' = SubSeq(nesting, 1, Len(nesting) - 1)
      /\ in_loop_counter \in Nat /\ fors \in Nat
      /\ switches \in Seq(BOOLEAN) /\ MaxNesting \in Nat
      /\ Follows(nesting, in_loop_counter, switches, fors)
  BY ParserAssumption DEF ParserInv, Typed, Flags, Shut
<1>1. nesting' \in Seq(Constructs) /\ Len(nesting') <= MaxNesting
  BY <1>0, ShutOne
<1>2. Typed'
  <2>1. switches' \in Seq(BOOLEAN)
    BY <1>0, Front
  <2>. QED
    BY <1>1, <2>1 DEF ParserInv, Typed
<1>3. /\ nesting[Len(nesting)].k \in LoopKinds => in_loop_counter' - fors' = in_loop_counter - fors - 1
      /\ nesting[Len(nesting)].k \notin LoopKinds => in_loop_counter' - fors' = in_loop_counter - fors
  BY DEF Top
<1>4. /\ Formed(SubSeq(nesting, 1, Len(nesting) - 1))
      /\ InClass(SubSeq(nesting, 1, Len(nesting) - 1))
            <=> InClass(nesting) /\ nesting[Len(nesting)].k # "class"
      /\ InMethod(SubSeq(nesting, 1, Len(nesting) - 1))
            <=> InMethod(nesting) /\ nesting[Len(nesting)].k # "method"
      /\ Follows(SubSeq(nesting, 1, Len(nesting) - 1),
                 in_loop_counter',
                 IF nesting[Len(nesting)].k = "switch" THEN SubSeq(switches, 1, Len(switches) - 1)
                                                       ELSE switches,
                 fors')
  BY <1>0, <1>3, FollowsShut
<1>5. /\ Formed(nesting')
      /\ InClass(nesting') <=> in_class'
      /\ InMethod(nesting') <=> in_method'
      /\ Follows(nesting', in_loop_counter', switches', fors')
  <2>1. (in_class <=> InClass(nesting)) /\ (in_method <=> InMethod(nesting))
    BY DEF ParserInv, Flags
  <2>. QED
    BY <1>0, <1>4, <2>1 DEF Top
<1>6. Flags'
  BY <1>5 DEF ParserInv, Flags
<1>7. Texts'
  BY DEF ParserInv, Texts
<1>. QED
  BY <1>2, <1>5, <1>6, <1>7 DEF ParserInv

\* What the flags are where a construct is open, and where none is.
LEMMA Inside ==
  ASSUME ParserInv, nesting # <<>>
  PROVE  /\ Top \in Constructs
         /\ Top.k \in {"class", "interface"} => Len(nesting) = 1 /\ ~in_method
         /\ Top.k = "class" => in_class
         /\ Top.k = "class" /\ Reading => active_class # NoClass
         /\ Top.k = "method" => in_method
         /\ Top.k \in LoopKinds => in_loop_counter > fors
         /\ Top.k = "switch" => switches # <<>> /\ (switches[Len(switches)] <=> Top.defaults = 1)
<1>1. /\ nesting \in Seq(Constructs) /\ Formed(nesting) /\ switches \in Seq(BOOLEAN) /\ fors \in Nat
      /\ (in_class <=> InClass(nesting)) /\ (in_method <=> InMethod(nesting))
      /\ Follows(nesting, in_loop_counter, switches, fors)
  BY DEF ParserInv, Typed, Flags
<1>2. Len(nesting) \in DOMAIN nesting /\ Top \in Constructs
  BY <1>1, EmptySeq, LenProperties, ElementOfSeq DEF Top
<1>3. /\ Top.k \in {"class", "interface"} => Len(nesting) = 1 /\ ~in_method
      /\ Top.k = "class" => in_class
      /\ Top.k = "method" => in_method
  BY <1>1, Inner DEF Top, InClass, InMethod
<1>4. Top.k \in LoopKinds => in_loop_counter > fors
  BY <1>1, Inner, Bodies DEF Top, Follows
<1>5. Top.k = "switch" => switches # <<>> /\ (switches[Len(switches)] <=> Top.defaults = 1)
  <2>1. SUFFICES ASSUME Top.k = "switch"
                 PROVE  switches # <<>> /\ (switches[Len(switches)] <=> Top.defaults = 1)
    OBVIOUS
  <2>2. Len(nesting) \in Switches(nesting)
    BY <1>2, <2>1 DEF Switches, At, Top
  <2>3. /\ Rank(nesting, Len(nesting)) = Cardinality(Switches(nesting))
        /\ Cardinality(Switches(nesting)) # 0
    BY <1>1, <2>2, Ranks
  <2>4. Len(switches) = Cardinality(Switches(nesting)) /\ switches # <<>>
    BY <1>1, <2>3, NotEmpty DEF Follows, SwitchStack
  <2>. QED
    BY <1>1, <2>2, <2>3, <2>4, Zenon DEF Follows, SwitchStack, Top
<1>6. Top.k = "class" /\ Reading => active_class # NoClass
  <2>1. SUFFICES ASSUME Top.k = "class", Reading
                 PROVE  active_class # NoClass
    OBVIOUS
  <2>2. declared # <<>> /\ declared \in Seq(ClassNames) /\ active_class = declared[Len(declared)]
    BY <1>3, <2>1 DEF ParserInv, Typed, Texts, Flags, Reading
  <2>3. Len(declared) \in 1 .. Len(declared)
    BY <2>2, EmptySeq
  <2>4. active_class \in ClassNames
    BY <2>2, <2>3, ElementOfSeq
  <2>. QED
    BY <2>4, ParserAssumption
<1>. QED
  BY <1>2, <1>3, <1>4, <1>5, <1>6

\* Where nothing is open the parser is in no class and in no method.
LEMMA Outside ==
  ASSUME ParserInv, nesting = <<>>
  PROVE  ~in_class /\ ~in_method
<1>1. /\ nesting \in Seq(Constructs) /\ Formed(nesting)
      /\ (in_class <=> InClass(nesting)) /\ (in_method <=> InMethod(nesting))
  BY DEF ParserInv, Typed, Flags
<1>2. \A kinds : Cardinality(At(nesting, kinds)) = 0
  BY <1>1, Bodies
<1>3. Cardinality(At(nesting, {"class"})) = 0 /\ Cardinality(At(nesting, {"method"})) = 0
  BY <1>2
<1>. QED
  BY <1>1, <1>3 DEF InClass, InMethod

\* The program begins with nothing open and nothing read.
LEMMA Starts ==
  ASSUME Init
  PROVE  ParserInv
<1>1. <<>> \in Seq(Constructs) /\ <<>> \in Seq(BOOLEAN) /\ <<>> \in Seq(Modifiers) /\ <<>> \in Seq(ClassNames)
  BY EmptySeq
<1>2. Len(<<>>) = 0
  OBVIOUS
<1>3. Typed
  <2>1. nesting \in Seq(Constructs) /\ Len(nesting) <= MaxNesting
    BY <1>1, <1>2, ParserAssumption DEF Init
  <2>2. switches \in Seq(BOOLEAN) /\ given \in Seq(Modifiers) /\ declared \in Seq(ClassNames)
    BY <1>1, Zenon DEF Init
  <2>3. /\ mods \subseteq Modifiers /\ in_class \in BOOLEAN /\ in_method \in BOOLEAN
        /\ in_loop_counter \in Nat /\ fors \in Nat /\ classes \subseteq ClassNames
        /\ active_class \in classes \cup {NoClass} /\ result \in {"parsing", "error", "done"}
    BY DEF Init
  <2>. QED
    BY <2>1, <2>2, <2>3 DEF Typed
<1>4. Formed(nesting)
  BY DEF Init, Formed
<1>5. \A kinds : Cardinality(At(<<>>, kinds)) = 0
  BY <1>1, <1>4, Bodies DEF Init
<1>6. /\ Cardinality(At(<<>>, {"class"})) = 0 /\ Cardinality(At(<<>>, {"method"})) = 0
      /\ Cardinality(At(<<>>, {"switch"})) = 0 /\ Cardinality(At(<<>>, LoopKinds)) = 0
  BY <1>5
<1>7. Switches(<<>>) = {}
  BY DEF Switches, At
<1>8. ~InClass(<<>>) /\ ~InMethod(<<>>) /\ Follows(<<>>, 0, <<>>, 0)
  <2>1. SwitchStack(<<>>, <<>>)
    BY <1>2, <1>6, <1>7 DEF SwitchStack, Switches
  <2>. QED
    BY <1>6, <2>1 DEF InClass, InMethod, Follows
<1>9. Flags
  BY <1>8 DEF Init, Flags
<1>10. Texts
  BY DEF Init, Texts
<1>. QED
  BY <1>3, <1>4, <1>9, <1>10 DEF ParserInv

-----------------------------------------------------------------------------
(* The actions that change the modifiers or the classes.                   *)

\* A modifier that parser_validate_flags lets through is new and clashes with none.
LEMMA ModifierStep ==
  ASSUME ParserInv, NEW m \in Modifiers, Modifier(m)
  PROVE  ParserInv'
<1>1. Reading /\ result = "parsing"
  BY DEF Modifier, AtTop, In, Reading
<1>2. /\ given' = Append(given, m) /\ UNCHANGED <<declared, fors>>
      /\ given \in Seq(Modifiers) /\ declared \in Seq(ClassNames)
  BY DEF Modifier, ParserInv, Typed
<1>3. /\ given' \in Seq(Modifiers) /\ DOMAIN given' = DOMAIN given \cup {Len(given')}
      /\ Len(given') \notin DOMAIN given /\ given'[Len(given')] = m
      /\ \A i \in DOMAIN given : given'[i] = given[i]
  BY <1>2, AppendProperties
<1>4. CASE FlagsRefused(m) /\ Refuse("error")
  BY <1>2, <1>3, <1>4, Refused
<1>5. CASE ~FlagsRefused(m) /\ mods' = mods \cup {m} /\ Accept /\ UNCHANGED <<nesting, parserinfo>>
  <2>1. Typed'
    BY <1>2, <1>3, <1>5 DEF ParserInv, Typed, Accept, parserinfo
  <2>2. Formed(nesting)' /\ Flags'
    BY <1>2, <1>5 DEF ParserInv, Flags, parserinfo
  <2>3. /\ mods = {given[i] : i \in DOMAIN given}
        /\ \A i, j \in DOMAIN given : given[i] = given[j] => i = j
        /\ \A x, y \in mods : x \in Visibilities /\ y \in Visibilities => x = y
        /\ ~({"abstract", "final"} \subseteq mods)
        /\ m \notin mods
        /\ m \in Visibilities => mods \cap Visibilities = {}
        /\ ~({"abstract", "final"} \subseteq mods \cup {m})
    BY <1>1, <1>5 DEF ParserInv, Texts, FlagsRefused
  <2>4. mods' = {given'[i] : i \in DOMAIN given'}
    <3>1. \A i \in DOMAIN given : given'[i] \in mods
      BY <1>3, <2>3
    <3>2. \A x \in mods : \E i \in DOMAIN given : given'[i] = x
      BY <1>3, <2>3
    <3>3. \A i \in DOMAIN given' : given'[i] \in mods'
      BY <1>3, <1>5, <3>1
    <3>4. \A x \in mods' : \E i \in DOMAIN given' : given'[i] = x
      BY <1>3, <1>5, <3>2
    <3>. QED
      BY <3>3, <3>4
  <2>5. \A i, j \in DOMAIN given' : given'[i] = given'[j] => i = j
    <3>1. \A i \in DOMAIN given : given[i] \in mods
      BY <2>3
    <3>. QED
      BY <1>3, <2>3, <3>1
  <2>6. \A x, y \in mods' : x \in Visibilities /\ y \in Visibilities => x = y
    BY <1>5, <2>3
  <2>7. ~({"abstract", "final"} \subseteq mods')
    BY <1>5, <2>3
  <2>8. (classes = {declared[i] : i \in DOMAIN declared} /\ (in_class => declared # <<>>))'
    BY <1>1, <1>2, <1>5 DEF ParserInv, Texts, parserinfo
  <2>9. Texts'
    BY <2>4, <2>5, <2>6, <2>7, <2>8 DEF Texts
  <2>. QED
    BY <2>1, <2>2, <2>9 DEF ParserInv
<1>. QED
  BY <1>4, <1>5 DEF Modifier

\* A class is declared once, and is the active one until its end.
LEMMA ClassStep ==
  ASSUME ParserInv, NEW name \in ClassNames, parser_init_class(name)
  PROVE  ParserInv'
<1>1. /\ result = "parsing" /\ nesting = <<>> /\ Room /\ ~in_class /\ ~in_method
      /\ declared' = Append(declared, name) /\ UNCHANGED fors
      /\ declared \in Seq(ClassNames) /\ given \in Seq(Modifiers)
  BY Outside DEF parser_init_class, AtTop, Reading, ParserInv, Typed
<1>2. /\ declared' \in Seq(ClassNames) /\ Len(declared') = Len(declared) + 1
      /\ DOMAIN declared' = DOMAIN declared \cup {Len(declared')}
      /\ declared'[Len(declared')] = name /\ declared' # <<>>
      /\ \A i \in DOMAIN declared : declared'[i] = declared[i]
  BY <1>1, AppendProperties
<1>3. CASE Refuse("error") /\ UNCHANGED given
  BY <1>1, <1>2, <1>3, Refused
<1>4. CASE /\ Open(construct("class"))
           /\ classes' = classes \cup {name} /\ active_class' = name /\ in_class' = TRUE
           /\ mods' = {} /\ given' = <<>> /\ Accept
           /\ UNCHANGED <<in_method, in_loop_counter, switches>>
  <2>1. /\ construct("class") \in Constructs /\ construct("class").k = "class"
        /\ construct("class").defaults = 0 /\ "class" \notin LoopKinds
    BY DEF construct, Constructs, Kinds, LoopKinds, Loops
  <2>2. /\ nesting \in Seq(Constructs) /\ Formed(nesting) /\ switches \in Seq(BOOLEAN)
        /\ in_loop_counter \in Nat /\ fors \in Nat /\ Len(nesting) < MaxNesting
        /\ Follows(nesting, in_loop_counter, switches, fors)
        /\ ~InMethod(nesting)
    BY <1>1 DEF ParserInv, Typed, Flags, Room
  <2>3. /\ Formed(Append(nesting, construct("class")))
        /\ InClass(Append(nesting, construct("class")))
        /\ ~InMethod(Append(nesting, construct("class")))
        /\ Follows(Append(nesting, construct("class")),
                   in_loop_counter + IF construct("class").k \in LoopKinds THEN 1 ELSE 0,
                   IF construct("class").k = "switch" THEN Append(switches, FALSE) ELSE switches, fors)
    <3>. HIDE DEF construct
    <3>. QED
      BY <1>1, <2>1, <2>2, FollowsOpened
  <2>4. Follows(Append(nesting, construct("class")), in_loop_counter, switches, fors)
    <3>1. construct("class").k # "switch" /\ construct("class").k \notin LoopKinds
      BY <2>1
    <3>2. in_loop_counter + 0 = in_loop_counter
      BY <2>2
    <3>. HIDE DEF construct
    <3>. QED
      BY <2>3, <3>1, <3>2, Zenon
  <2>5. nesting' \in Seq(Constructs) /\ Len(nesting') <= MaxNesting
    <3>. HIDE DEF construct
    <3>. QED
      BY <1>4, <2>1, <2>2, Opened, ParserAssumption DEF Open
  <2>6. Typed'
    <3>1. given' \in Seq(Modifiers)
      BY <1>4, EmptySeq
    <3>. QED
      BY <1>1, <1>2, <1>4, <2>5, <3>1 DEF ParserInv, Typed, Accept
  <2>7. Formed(nesting)' /\ Flags'
    BY <1>1, <1>2, <1>4, <2>3, <2>4 DEF Flags, Open
  <2>8. classes' = {declared'[i] : i \in DOMAIN declared'}
    <3>1. classes = {declared[i] : i \in DOMAIN declared}
      BY <1>1 DEF ParserInv, Texts
    <3>. QED
      BY <1>2, <1>4, <3>1
  <2>9. Texts'
    BY <1>2, <1>4, <2>8 DEF Texts
  <2>. QED
    BY <2>6, <2>7, <2>9 DEF ParserInv
<1>. QED
  BY <1>1, <1>3, <1>4 DEF parser_init_class

\* The end of a class: in_class and active_class are what it had set, so that
\* parser_fini_class finds them.
LEMMA EndClassStep ==
  ASSUME ParserInv, parser_fini_class
  PROVE  ParserInv'
<1>1. /\ nesting # <<>> /\ Top.k = "class" /\ result = "parsing" /\ in_class /\ active_class # NoClass
      /\ ~in_method /\ UNCHANGED text
  BY Inside DEF parser_fini_class, In, Reading, NoText
<1>2. /\ Shut /\ in_class' = FALSE /\ active_class' = NoClass /\ result' = result
      /\ UNCHANGED <<mods, in_method, in_loop_counter, switches, classes, given, declared, fors>>
  BY <1>1 DEF parser_fini_class, Accept, text
<1>3. "class" \notin LoopKinds
  BY DEF LoopKinds, Loops
<1>4. /\ nesting \in Seq(Constructs) /\ Formed(nesting) /\ switches \in Seq(BOOLEAN)
      /\ in_loop_counter \in Nat /\ fors \in Nat /\ Len(nesting) <= MaxNesting
      /\ Follows(nesting, in_loop_counter, switches, fors)
      /\ ~InMethod(nesting) /\ nesting[Len(nesting)].k = "class"
      /\ nesting' = SubSeq(nesting, 1, Len(nesting) - 1)
  BY <1>1, <1>2 DEF ParserInv, Typed, Flags, Top, Shut
<1>5. /\ nesting[Len(nesting)].k \in LoopKinds => in_loop_counter - fors = in_loop_counter - fors - 1
      /\ nesting[Len(nesting)].k \notin LoopKinds => in_loop_counter - fors = in_loop_counter - fors
  BY <1>3, <1>4
<1>6. /\ Formed(SubSeq(nesting, 1, Len(nesting) - 1))
      /\ ~InClass(SubSeq(nesting, 1, Len(nesting) - 1))
      /\ ~InMethod(SubSeq(nesting, 1, Len(nesting) - 1))
      /\ Follows(SubSeq(nesting, 1, Len(nesting) - 1), in_loop_counter,
                 IF nesting[Len(nesting)].k = "switch" THEN SubSeq(switches, 1, Len(switches) - 1)
                                                       ELSE switches, fors)
  BY <1>1, <1>4, <1>5, FollowsShut
<1>7. /\ Formed(nesting') /\ ~InClass(nesting') /\ ~InMethod(nesting')
      /\ Follows(nesting', in_loop_counter, switches, fors)
  BY <1>4, <1>6
<1>8. nesting' \in Seq(Constructs) /\ Len(nesting') <= MaxNesting
  BY <1>1, <1>4, ShutOne, ParserAssumption
<1>9. Typed'
  BY <1>2, <1>8 DEF ParserInv, Typed
<1>10. Flags'
  BY <1>1, <1>2, <1>7 DEF Flags
<1>11. Texts'
  BY <1>2 DEF ParserInv, Texts
<1>. QED
  BY <1>7, <1>9, <1>10, <1>11 DEF ParserInv

-----------------------------------------------------------------------------
(* The other members.                                                      *)

\* What can be opened, and what a member that is opened keeps of its modifiers.
LEMMA Construction ==
  ASSUME NEW k \in Kinds, NEW m \in SUBSET Modifiers
  PROVE  /\ construct(k) \in Constructs /\ construct(k).k = k /\ construct(k).defaults = 0
         /\ [construct(k) EXCEPT !.mods = m] \in Constructs
         /\ [construct(k) EXCEPT !.mods = m].k = k
         /\ [construct(k) EXCEPT !.mods = m].defaults = 0
  BY DEF construct, Constructs

\* The kinds of construct, of which the loops and the switch count as loops.
LEMMA KindsDiffer ==
  /\ Loops \subseteq LoopKinds /\ LoopKinds \subseteq Kinds
  /\ {"block", "class", "interface", "method"} \subseteq Kinds
  /\ {"for", "switch"} \subseteq LoopKinds
  /\ LoopKinds \cap {"block", "class", "interface", "method"} = {}
  /\ Loops \cap {"for", "switch"} = {}
  BY DEF Loops, LoopKinds, Kinds

\* The members of a class or an interface keep the invariant.
LEMMA MemberStep ==
  ASSUME ParserInv,
         \/ Interface \/ EndInterface \/ InterfaceMethod \/ Property
         \/ \E identifier \in {"null", "true", "other"} : Scalar(identifier)
         \/ parser_init_method \/ parser_fini_method \/ MethodDeclaration
  PROVE  ParserInv'
<1>0. /\ mods \in SUBSET Modifiers /\ given \in Seq(Modifiers) /\ declared \in Seq(ClassNames)
      /\ in_loop_counter \in Nat /\ fors \in Nat /\ in_method \in BOOLEAN
      /\ UNCHANGED text => given' \in Seq(Modifiers) /\ declared' \in Seq(ClassNames)
                            /\ declared' = declared /\ UNCHANGED fors
  BY DEF ParserInv, Typed, text
<1>1. CASE Interface
  <2> DEFINE c == [construct("interface") EXCEPT !.mods = mods]
  <2>1. c \in Constructs /\ c.k = "interface" /\ c.defaults = 0 /\ c.k \notin LoopKinds
    BY <1>0, Construction, KindsDiffer
  <2>2. /\ Reading /\ Room /\ Open(c) /\ nesting = <<>>
        /\ UNCHANGED <<in_class, in_method, in_loop_counter, switches, classes, active_class,
                       result, declared, fors>>
        /\ mods' = {} /\ given' = <<>>
    BY <1>1 DEF Interface, AtTop, NoModifiers, Accept, parserinfo
  <2> HIDE DEF c
  <2>3. /\ in_method' = (in_method \/ c.k = "method")
        /\ in_loop_counter' = in_loop_counter + IF c.k \in LoopKinds THEN 1 ELSE 0
        /\ switches' = IF c.k = "switch" THEN Append(switches, FALSE) ELSE switches
    BY <1>0, <2>1, <2>2
  <2>. QED
    BY <2>1, <2>2, <2>3, Opens
<1>2. CASE EndInterface
  <2>1. nesting # <<>> /\ Top.k = "interface" /\ Top.k \notin LoopKinds /\ UNCHANGED text
    BY <1>2, KindsDiffer DEF EndInterface, In, NoText
  <2>2. CASE Refuse("error")
    BY <1>0, <2>1, <2>2, Refused
  <2>3. CASE Shut /\ Accept /\ UNCHANGED <<mods, parserinfo>>
    <3>1. UNCHANGED <<in_class, in_method, in_loop_counter, switches, classes, active_class,
                      result, mods, given, declared, fors>>
      BY <2>1, <2>3 DEF Accept, parserinfo, text
    <3>2. in_loop_counter' \in Nat /\ fors' \in Nat /\ in_loop_counter' - fors' = in_loop_counter - fors
      BY <1>0, <3>1
    <3>3. in_method' = (in_method /\ Top.k # "method")
      BY <1>0, <2>1, <3>1
    <3>. QED
      BY <2>1, <2>3, <3>1, <3>2, <3>3, Shuts
  <2>. QED
    BY <1>2, <2>2, <2>3 DEF EndInterface
<1>3. CASE InterfaceMethod
  <2>1. ~in_method /\ UNCHANGED <<text, result>>
    BY <1>3, Inside DEF InterfaceMethod, In, NoText, Accept
  <2>2. UNCHANGED <<nesting, parserinfo, result, declared, fors, mods, given>>
    BY <1>0, <1>3, <2>1 DEF InterfaceMethod, parserinfo, text
  <2>. QED
    BY <2>2, Kept
<1>4. CASE Property
  <2>1. CASE Refuse("error") /\ NoText
    BY <1>0, <2>1, Refused DEF NoText
  <2>2. CASE NoModifiers /\ Accept /\ UNCHANGED <<nesting, parserinfo>>
    BY <2>2, Kept DEF NoModifiers, Accept
  <2>. QED
    BY <1>4, <2>1, <2>2 DEF Property
<1>5. ASSUME NEW identifier, Scalar(identifier)
      PROVE  ParserInv'
  <2>1. UNCHANGED text
    BY <1>5 DEF Scalar, NoText
  <2>2. CASE Refuse("error")
    BY <1>0, <2>1, <2>2, Refused
  <2>3. CASE Accept /\ UNCHANGED <<nesting, mods, parserinfo>>
    BY <2>1, <2>3, Kept DEF Accept, text
  <2>. QED
    BY <1>5, <2>2, <2>3 DEF Scalar
<1>6. CASE parser_init_method
  <2> DEFINE c == [construct("method") EXCEPT !.mods = mods]
  <2>1. CASE Refuse("error") /\ NoText
    BY <1>0, <2>1, Refused DEF NoText
  <2>2. CASE /\ Open(c) /\ in_method' = TRUE /\ NoModifiers /\ Accept
             /\ UNCHANGED <<in_class, in_loop_counter, switches, classes, active_class>>
    <3>1. c \in Constructs /\ c.k = "method" /\ c.defaults = 0 /\ c.k \notin LoopKinds
      BY <1>0, Construction, KindsDiffer
    <3>2. Reading /\ Room /\ nesting # <<>> /\ Top.k = "class"
      BY <1>6 DEF parser_init_method, In
    <3> HIDE DEF c
    <3>3. /\ UNCHANGED <<in_class, in_loop_counter, switches, classes, active_class, result, declared, fors>>
          /\ mods' = {} /\ given' = <<>> /\ Open(c)
      BY <2>2 DEF NoModifiers, Accept
    <3>4. /\ in_method' = (in_method \/ c.k = "method")
          /\ in_loop_counter' = in_loop_counter + IF c.k \in LoopKinds THEN 1 ELSE 0
          /\ switches' = IF c.k = "switch" THEN Append(switches, FALSE) ELSE switches
      <4>1. UNCHANGED <<in_loop_counter, switches>> /\ in_method' = TRUE
        BY <2>2
      <4>2. in_method' = (in_method \/ c.k = "method")
        BY <3>1, <4>1, Zenon
      <4>. QED
        BY <1>0, <3>1, <4>1, <4>2
    <3>. QED
      BY <3>1, <3>2, <3>3, <3>4, Opens
  <2>. QED
    BY <1>6, <2>1, <2>2 DEF parser_init_method
<1>7. CASE parser_fini_method
  <2>1. nesting # <<>> /\ Top.k = "method" /\ Top.k \notin LoopKinds /\ UNCHANGED text
    BY <1>7, KindsDiffer DEF parser_fini_method, In, NoText
  <2>2. CASE Refuse("error")
    BY <1>0, <2>1, <2>2, Refused
  <2>3. CASE /\ Shut /\ in_method' = FALSE /\ Accept
             /\ UNCHANGED <<mods, in_class, in_loop_counter, switches, classes, active_class>>
    <3>1. UNCHANGED <<in_class, in_loop_counter, switches, classes, active_class,
                      result, mods, given, declared, fors>>
      BY <2>1, <2>3 DEF Accept, text
    <3>2. in_loop_counter' \in Nat /\ fors' \in Nat /\ in_loop_counter' - fors' = in_loop_counter - fors
      BY <1>0, <3>1
    <3>3. in_method' = (in_method /\ Top.k # "method")
      BY <1>0, <2>1, <2>3
    <3>. QED
      BY <2>1, <2>3, <3>1, <3>2, <3>3, Shuts
  <2>. QED
    BY <1>7, <2>2, <2>3 DEF parser_fini_method
<1>8. CASE MethodDeclaration
  <2>1. CASE Refuse("error") /\ NoText
    BY <1>0, <2>1, Refused DEF NoText
  <2>2. CASE /\ in_method' = FALSE /\ NoModifiers /\ Accept
             /\ UNCHANGED <<nesting, in_class, in_loop_counter, switches, classes, active_class>>
    <3>1. ~in_method
      BY <1>8, Inside DEF MethodDeclaration, In
    <3>2. UNCHANGED <<nesting, parserinfo, result, declared, fors>> /\ mods' = {} /\ given' = <<>>
      BY <1>0, <2>2, <3>1 DEF NoModifiers, Accept, parserinfo
    <3>. QED
      BY <3>2, Kept
  <2>. QED
    BY <1>8, <2>1, <2>2 DEF MethodDeclaration
<1>. QED
  BY <1>1, <1>2, <1>3, <1>4, <1>5, <1>6, <1>7, <1>8

-----------------------------------------------------------------------------
(* The statements.                                                         *)

\* A statement that is opened: a block or a loop of some kind.
LEMMA StatementOpens ==
  ASSUME ParserInv, Reading, Room, NEW k \in LoopKinds \cup {"block"}, Open(construct(k)),
         UNCHANGED <<in_class, in_method, classes, active_class, result, mods, given, declared, fors>>,
         k \in LoopKinds => in_loop_counter' = in_loop_counter + 1,
         k \notin LoopKinds => in_loop_counter' = in_loop_counter,
         k = "switch" => switches' = Append(switches, FALSE),
         k # "switch" => switches' = switches
  PROVE  ParserInv'
<1> DEFINE c == construct(k)
<1>1. c \in Constructs /\ c.k = k /\ c.defaults = 0 /\ c.k \notin {"class", "interface", "method"}
  BY Construction, KindsDiffer
<1>2. Open(c)
  OBVIOUS
<1> HIDE DEF c
<1>3. in_method \in BOOLEAN /\ in_loop_counter \in Nat
  BY DEF ParserInv, Typed
<1>4. /\ in_method' = (in_method \/ c.k = "method")
      /\ in_loop_counter' = in_loop_counter + IF c.k \in LoopKinds THEN 1 ELSE 0
      /\ switches' = IF c.k = "switch" THEN Append(switches, FALSE) ELSE switches
  <2>1. in_method' = (in_method \/ c.k = "method")
    BY <1>1, <1>3
  <2>2. in_loop_counter' = in_loop_counter + IF c.k \in LoopKinds THEN 1 ELSE 0
    BY <1>1, <1>3
  <2>3. switches' = IF c.k = "switch" THEN Append(switches, FALSE) ELSE switches
    BY <1>1
  <2>. QED
    BY <2>1, <2>2, <2>3
<1>. QED
  BY <1>1, <1>2, <1>4, Opens

\* A label of the innermost switch.
LEMMA Labels ==
  ASSUME ParserInv, Reading, nesting # <<>>, Top.k = "switch",
         NEW d \in Constructs, d.k = "switch", NEW top \in BOOLEAN, top <=> d.defaults = 1,
         nesting' = [nesting EXCEPT ![Len(nesting)] = d],
         switches' = [switches EXCEPT ![Len(switches)] = top],
         UNCHANGED <<in_class, in_method, in_loop_counter, classes, active_class, result,
                     mods, given, declared, fors>>
  PROVE  ParserInv'
<1>1. /\ nesting \in Seq(Constructs) /\ Formed(nesting) /\ switches \in Seq(BOOLEAN)
      /\ Follows(nesting, in_loop_counter, switches, fors) /\ nesting[Len(nesting)].k = "switch"
  BY DEF ParserInv, Typed, Flags, Top
<1> DEFINE t == [nesting EXCEPT ![Len(nesting)] = d]
           s == [switches EXCEPT ![Len(switches)] = top]
<1>2. /\ t \in Seq(Constructs) /\ Len(t) = Len(nesting) /\ Formed(t)
      /\ InClass(t) <=> InClass(nesting)
      /\ InMethod(t) <=> InMethod(nesting)
      /\ Follows(t, in_loop_counter, s, fors)
  BY <1>1, FollowsLabelled
<1>3. s \in Seq(BOOLEAN)
  <2>1. switches # <<>>
    BY Inside
  <2>2. Len(switches) \in 1 .. Len(switches)
    BY <1>1, <2>1, EmptySeq
  <2>. QED
    BY <1>1, <2>2, ExceptSeq
<1>4. nesting' = t /\ switches' = s
  OBVIOUS
<1> HIDE DEF t, s
<1>5. Typed'
  BY <1>2, <1>3, <1>4 DEF ParserInv, Typed
<1>6. Flags'
  BY <1>2, <1>4 DEF ParserInv, Flags
<1>7. Texts'
  BY DEF ParserInv, Texts
<1>. QED
  BY <1>2, <1>4, <1>5, <1>6, <1>7 DEF ParserInv

\* A statement that opens a body keeps it.
LEMMA OpenStep ==
  ASSUME ParserInv,
         Block \/ (\E k \in Loops : Loop(k)) \/ For \/ parser_switch_begin
  PROVE  ParserInv'
<1>1. ASSUME AtStatement
      PROVE  Reading
  BY <1>1 DEF AtStatement, AtTop, In
<1>2. CASE Block
  <2>1. /\ Reading /\ Room /\ Open(construct("block"))
        /\ UNCHANGED <<in_class, in_method, in_loop_counter, switches, classes, active_class,
                       result, mods, given, declared, fors>>
    BY <1>1, <1>2 DEF Block, NoText, Accept, text, parserinfo
  <2>2. "block" \notin LoopKinds /\ "block" # "switch"
    BY KindsDiffer
  <2>. QED
    BY <2>1, <2>2, StatementOpens
<1>3. ASSUME NEW k \in Loops, Loop(k)
      PROVE  ParserInv'
  <2>1. /\ Reading /\ Room /\ Open(construct(k)) /\ in_loop_counter' = in_loop_counter + 1
        /\ UNCHANGED <<in_class, in_method, switches, classes, active_class,
                       result, mods, given, declared, fors>>
    BY <1>1, <1>3 DEF Loop, NoText, Accept, text, OnlyLoops, parser_loop_enter
  <2>2. k \in LoopKinds /\ k # "switch"
    BY KindsDiffer
  <2>. QED
    BY <2>1, <2>2, StatementOpens
<1>4. CASE For
  <2>1. /\ Reading /\ Room /\ Open(construct("for")) /\ in_loop_counter' = in_loop_counter + 1
        /\ UNCHANGED <<in_class, in_method, switches, classes, active_class,
                       result, mods, given, declared, fors>>
    BY <1>1, <1>4 DEF For, NoText, Accept, text, OnlyLoops, parser_loop_enter
  <2>2. "for" \in LoopKinds /\ "for" # "switch"
    BY KindsDiffer
  <2>. QED
    BY <2>1, <2>2, StatementOpens
<1>5. CASE parser_switch_begin
  <2>1. /\ Reading /\ Room /\ Open(construct("switch")) /\ in_loop_counter' = in_loop_counter + 1
        /\ switches' = Append(switches, FALSE)
        /\ UNCHANGED <<in_class, in_method, classes, active_class,
                       result, mods, given, declared, fors>>
    BY <1>1, <1>5 DEF parser_switch_begin, NoText, Accept, text, OnlyLoops, parser_loop_enter
  <2>2. "switch" \in LoopKinds
    BY KindsDiffer
  <2>. QED
    BY <2>1, <2>2, StatementOpens
<1>. QED
  BY <1>2, <1>3, <1>4, <1>5

\* So does the end of one: in_loop_counter, which it looks at, is never 0 there.
LEMMA ShutStep ==
  ASSUME ParserInv, EndBlock \/ EndLoop \/ EndFor \/ parser_switch_end
  PROVE  ParserInv'
<1>1. in_loop_counter \in Nat /\ fors \in Nat /\ in_method \in BOOLEAN
  BY DEF ParserInv, Typed
<1>2. CASE EndBlock
  <2>1. nesting # <<>> /\ Top.k = "block" /\ Shut
    BY <1>2 DEF EndBlock, In
  <2>2. UNCHANGED <<in_class, in_method, in_loop_counter, switches, classes, active_class,
                    result, mods, given, declared, fors>>
    BY <1>2 DEF EndBlock, NoText, Accept, text, parserinfo
  <2>3. /\ Top.k \notin LoopKinds /\ in_loop_counter' - fors' = in_loop_counter - fors
        /\ in_loop_counter' \in Nat /\ fors' \in Nat /\ in_method' = (in_method /\ Top.k # "method")
    BY <1>1, <2>1, <2>2, KindsDiffer
  <2>. QED
    BY <2>1, <2>2, <2>3, Shuts
<1>3. CASE EndLoop
  <2>1. nesting # <<>> /\ Top.k \in Loops /\ in_loop_counter > 0
    BY <1>1, <1>3, Inside, KindsDiffer DEF EndLoop, In
  <2>2. /\ Shut /\ in_loop_counter' = in_loop_counter - 1
        /\ UNCHANGED <<in_class, in_method, switches, classes, active_class,
                       result, mods, given, declared, fors>>
    BY <1>1, <1>3, <2>1 DEF EndLoop, NoText, Accept, text, OnlyLoops, parser_loop_leave
  <2>3. Top.k \in LoopKinds /\ Top.k # "switch" /\ Top.k # "class" /\ Top.k # "method"
    BY <2>1, KindsDiffer
  <2>4. /\ in_loop_counter' - fors' = in_loop_counter - fors - 1
        /\ in_loop_counter' \in Nat /\ fors' \in Nat /\ in_method' = (in_method /\ Top.k # "method")
    BY <1>1, <2>1, <2>2, <2>3
  <2>. QED
    BY <2>1, <2>2, <2>3, <2>4, Shuts
<1>4. CASE EndFor
  <2>1. nesting # <<>> /\ Top.k = "for" /\ Shut /\ fors' = fors + 1
    BY <1>4 DEF EndFor, In
  <2>2. UNCHANGED <<in_class, in_method, in_loop_counter, switches, classes, active_class,
                    result, mods, given, declared>>
    BY <1>4 DEF EndFor, Accept, parserinfo
  <2>3. /\ Top.k \in LoopKinds /\ in_loop_counter' - fors' = in_loop_counter - fors - 1
        /\ in_loop_counter' \in Nat /\ fors' \in Nat /\ in_method' = (in_method /\ Top.k # "method")
    BY <1>1, <2>1, <2>2, KindsDiffer
  <2>. QED
    BY <2>1, <2>2, <2>3, Shuts
<1>5. CASE parser_switch_end
  <2>1. nesting # <<>> /\ Top.k = "switch" /\ in_loop_counter > 0 /\ switches # <<>>
    BY <1>1, <1>5, Inside, KindsDiffer DEF parser_switch_end, In
  <2>2. /\ Shut /\ in_loop_counter' = in_loop_counter - 1
        /\ switches' = SubSeq(switches, 1, Len(switches) - 1)
        /\ UNCHANGED <<in_class, in_method, classes, active_class,
                       result, mods, given, declared, fors>>
    BY <1>1, <1>5, <2>1 DEF parser_switch_end, NoText, Accept, text, OnlyLoops, parser_loop_leave
  <2>3. /\ Top.k \in LoopKinds /\ in_loop_counter' - fors' = in_loop_counter - fors - 1
        /\ in_loop_counter' \in Nat /\ fors' \in Nat /\ in_method' = (in_method /\ Top.k # "method")
    BY <1>1, <2>1, <2>2, KindsDiffer
  <2>. QED
    BY <2>1, <2>2, <2>3, Shuts
<1>. QED
  BY <1>2, <1>3, <1>4, <1>5

\* The two fields that a default changes, as one new construct.
LEMMA Relabelled ==
  ASSUME NEW s \in Seq(Constructs), NEW n \in DOMAIN s
  PROVE  [s EXCEPT ![n].labels = 1, ![n].defaults = @ + 1]
            = [s EXCEPT ![n] = [s[n] EXCEPT !.labels = 1, !.defaults = @ + 1]]
<1> DEFINE t == [s EXCEPT ![n].labels = 1, ![n].defaults = @ + 1]
           u == [s EXCEPT ![n] = [s[n] EXCEPT !.labels = 1, !.defaults = @ + 1]]
<1>1. s[n] \in Constructs
  BY ElementOfSeq
<1>2. \A i \in DOMAIN s : i # n => t[i] = s[i]
  OBVIOUS
<1>3. t[n] = [s[n] EXCEPT !.labels = 1, !.defaults = @ + 1]
  BY <1>1 DEF Constructs
<1>4. t = [i \in DOMAIN s |-> t[i]] /\ u = [i \in DOMAIN s |-> u[i]]
  OBVIOUS
<1>5. \A i \in DOMAIN s : t[i] = u[i]
  BY <1>2, <1>3
<1> HIDE DEF t, u
<1>6. t = u
  BY <1>4, <1>5, Zenon
<1>. QED
  BY <1>6 DEF t, u

\* A label keeps it: the switch it belongs to is the top of current_switch.
LEMMA LabelStep ==
  ASSUME ParserInv, parser_switch_case \/ parser_switch_default
  PROVE  ParserInv'
<1>1. /\ nesting # <<>> /\ Top.k = "switch" /\ Reading /\ UNCHANGED text
      /\ given \in Seq(Modifiers) /\ declared \in Seq(ClassNames)
  BY DEF parser_switch_case, parser_switch_default, In, NoText, ParserInv, Typed
<1>2. Top \in Constructs /\ switches # <<>> /\ (switches[Len(switches)] <=> Top.defaults = 1)
  BY <1>1, Inside
<1>3. nesting \in Seq(Constructs) /\ switches \in Seq(BOOLEAN) /\ Len(switches) \in 1 .. Len(switches)
  BY <1>2, EmptySeq DEF ParserInv, Typed
<1>4. CASE parser_switch_case
  <2> DEFINE d == [Top EXCEPT !.labels = 1]
             top == switches[Len(switches)]
  <2>1. d \in Constructs /\ d.k = "switch" /\ d.defaults = Top.defaults
    BY <1>1, <1>2 DEF Constructs
  <2>2. nesting' = [nesting EXCEPT ![Len(nesting)] = d]
    BY <1>4 DEF parser_switch_case, Top
  <2>3. top \in BOOLEAN
    BY <1>3, ElementOfSeq
  <2>4. switches' = [switches EXCEPT ![Len(switches)] = top]
    BY <1>3, <1>4 DEF parser_switch_case, parserinfo
  <2>5. UNCHANGED <<in_class, in_method, in_loop_counter, classes, active_class, result,
                    mods, given, declared, fors>>
    BY <1>1, <1>4 DEF parser_switch_case, parserinfo, Accept, text
  <2>6. top <=> d.defaults = 1
    BY <1>2, <2>1
  <2>. HIDE DEF d, top
  <2>. QED
    BY <1>1, <2>1, <2>2, <2>3, <2>4, <2>5, <2>6, Labels
<1>5. CASE parser_switch_default
  <2>1. CASE switches[Len(switches)]
    <3>1. Refuse("error") /\ UNCHANGED fors /\ declared' = declared /\ given' = given
      BY <1>1, <1>2, <1>5, <2>1 DEF parser_switch_default, text
    <3>. QED
      BY <1>1, <3>1, Refused
  <2>2. CASE ~switches[Len(switches)]
    <3> DEFINE d == [Top EXCEPT !.labels = 1, !.defaults = @ + 1]
    <3>1. Top.defaults = 0
      BY <1>2, <2>2 DEF Constructs
    <3>2. d \in Constructs /\ d.k = "switch" /\ d.defaults = 1
      <4>1. d = [Top EXCEPT !.labels = 1, !.defaults = 1]
        BY <1>2, <3>1 DEF Constructs
      <4>2. /\ [Top EXCEPT !.labels = 1, !.defaults = 1] \in Constructs
            /\ [Top EXCEPT !.labels = 1, !.defaults = 1].k = Top.k
            /\ [Top EXCEPT !.labels = 1, !.defaults = 1].defaults = 1
        BY <1>2 DEF Constructs
      <4>. HIDE DEF d
      <4>. QED
        BY <1>1, <4>1, <4>2
    <3>3. /\ nesting' = [nesting EXCEPT ![Len(nesting)].labels = 1, ![Len(nesting)].defaults = @ + 1]
          /\ switches' = [switches EXCEPT ![Len(switches)] = TRUE]
          /\ UNCHANGED <<in_class, in_method, in_loop_counter, classes, active_class, result,
                         mods, given, declared, fors>>
      BY <1>1, <1>2, <1>5, <2>2 DEF parser_switch_default, OnlyLoops, Accept, text
    <3>4. Len(nesting) \in DOMAIN nesting
      BY <1>1, <1>3, EmptySeq, LenProperties
    <3>5. nesting' = [nesting EXCEPT ![Len(nesting)] = d]
      BY <1>3, <3>3, <3>4, Relabelled DEF Top
    <3>. HIDE DEF d
    <3>. QED
      BY <1>1, <3>2, <3>3, <3>5, Labels
  <2>. QED
    BY <2>1, <2>2
<1>. QED
  BY <1>4, <1>5

\* The other statements, and the end of the file, change no flag.
LEMMA OtherStep ==
  ASSUME ParserInv,
         \/ Jump \/ parser_validate_return \/ Done
         \/ \E to \in {"identifier", "property", "literal"} \cup DOMAIN Operands : Assign(to)
  PROVE  ParserInv'
<1>1. /\ UNCHANGED text
      /\ given' \in Seq(Modifiers) /\ declared' \in Seq(ClassNames) /\ declared' = declared /\ fors' = fors
  BY DEF Jump, parser_validate_return, Done, Assign, NoText, ParserInv, Typed, text
<1>2. CASE Refuse("error")
  BY <1>1, <1>2, Refused
<1>3. CASE Accept /\ UNCHANGED <<nesting, mods, parserinfo>>
  BY <1>1, <1>3, Kept DEF Accept, text
<1>4. CASE Done
  <2>1. result' = "done" /\ UNCHANGED <<nesting, mods, parserinfo>>
    BY <1>4 DEF Done
  <2>2. Typed'
    BY <1>1, <2>1 DEF ParserInv, Typed, parserinfo
  <2>3. Formed(nesting)' /\ Flags'
    BY <1>1, <2>1 DEF ParserInv, Flags, parserinfo
  <2>4. Texts'
    BY <2>1 DEF Texts
  <2>. QED
    BY <2>2, <2>3, <2>4 DEF ParserInv
<1>. QED
  BY <1>2, <1>3, <1>4 DEF Jump, parser_validate_return, Assign

-----------------------------------------------------------------------------
(* The theorems.                                                           *)

\* Every step of the parser keeps the invariant, and so it holds throughout.
LEMMA ParserSteps ==
  ASSUME ParserInv, [Next]_vars
  PROVE  ParserInv'
<1>1. CASE UNCHANGED vars
  BY <1>1 DEF vars, parserinfo, text, ParserInv, Typed, Flags, Texts
<1>2. CASE Next
  BY <1>2, ModifierStep, ClassStep, EndClassStep, MemberStep, OpenStep, ShutStep, LabelStep, OtherStep
     DEF Next
<1>. QED
  BY <1>1, <1>2

\* The inductive invariant holds of every program that is read.
LEMMA ParserInvariant ==
  Spec => []ParserInv
<1>1. Init => ParserInv
  BY Starts
<1>2. ParserInv /\ [Next]_vars => ParserInv'
  BY ParserSteps
<1>. QED
  BY <1>1, <1>2, PTL DEF Spec

\* The constructs that are open, the modifiers and the flags stay what they are, and
\* no check for an internal error of the parser ever fails.
THEOREM ParserType ==
  Spec => []TypeOK
<1>1. ParserInv => TypeOK
  BY DEF ParserInv, Typed, TypeOK
<1>. QED
  BY <1>1, ParserInvariant, PTL

\* parserinfo says what is open, a for that was ever read counting as open, and a
\* switch has a default when it is a label of its own. (the actions of saffire.y)
THEOREM ParserFlags ==
  Spec => []FlagsFollowNesting
<1>1. ParserInv => FlagsFollowNesting
  <2>1. SUFFICES ASSUME ParserInv
                 PROVE  FlagsFollowNesting
    OBVIOUS
  <2>2. /\ in_class <=> Count({"class"}) = 1
        /\ in_method <=> Count({"method"}) = 1
        /\ in_loop_counter = Count(Loops \cup {"for", "switch"}) + fors
        /\ active_class = IF in_class THEN declared[Len(declared)] ELSE NoClass
    BY <2>1 DEF ParserInv, Flags, InClass, InMethod, Follows, LoopKinds, Count, At
  <2> DEFINE open == {i \in DOMAIN nesting : nesting[i].k = "switch"}
  <2>3. open = Switches(nesting)
    BY DEF Switches, At
  <2>4. /\ Len(switches) = Cardinality(open)
        /\ \A i \in open : switches[Cardinality({j \in open : j <= i})] <=> nesting[i].defaults = 1
    BY <2>1, <2>3, Zenon DEF ParserInv, Flags, Follows, SwitchStack, Rank
  <2>. QED
    BY <2>2, <2>4, Zenon DEF FlagsFollowNesting
<1>. QED
  BY <1>1, ParserInvariant, PTL

-----------------------------------------------------------------------------
(* What is refused, and what breaks a rule.                                *)

\* Broken of the things read that are no more than that.
BrokenMeans ==
    /\ input.k = "modifier" =>
          (Broken <=> \/ \E i, j \in DOMAIN given : i # j /\ given[i] = given[j]
                      \/ Cardinality(Has(given, Visibilities)) > 1
                      \/ Has(given, {"abstract"}) # {} /\ Has(given, {"final"}) # {})
    /\ input.k = "class" =>
          (Broken <=> \/ Has(input.mods, Visibilities) # {}
                      \/ \E i \in 1..(Len(declared) - 1) : declared[i] = declared[Len(declared)])
    /\ input.k = "end interface" => (Broken <=> input.mods \cap Visibilities # {})
    /\ input.k = "property" => (Broken <=> Has(input.mods, Visibilities) = {})
    /\ input.k = "scalar" => (Broken <=> input.id = "other")
    /\ input.k = "method" =>
          (Broken <=> \/ Has(input.mods, Visibilities) = {}
                      \/ Has(input.mods, {"abstract"}) # {} /\ Has(input.mods, {"private"}) # {})
    /\ input.k = "end method" => (Broken <=> "abstract" \in input.mods)
    /\ input.k = "jump" => (Broken <=> InNoLoop)
    /\ input.k = "return" => (Broken <=> Count({"method"}) = 0)
    /\ input.k = "default" => (Broken <=> Top.defaults + (IF result = "error" THEN 1 ELSE 0) > 1)
    /\ input.k = "assign" => (Broken <=> input.to \in {"call", "datastruct"})
    /\ input.k \in {"nothing", "end", "interface", "declaration", "block", "case", "eof"} => ~Broken

\* Broken, case by case: the kinds of thing that are read are different ones.
LEMMA BrokenOf ==
  BrokenMeans
<1>1. input.k = "modifier" =>
        (Broken <=> \/ \E i, j \in DOMAIN given : i # j /\ given[i] = given[j]
                    \/ Cardinality(Has(given, Visibilities)) > 1
                    \/ Has(given, {"abstract"}) # {} /\ Has(given, {"final"}) # {})
  BY DEF Broken
<1>2. input.k = "class" =>
        (Broken <=> \/ Has(input.mods, Visibilities) # {}
                    \/ \E i \in 1..(Len(declared) - 1) : declared[i] = declared[Len(declared)])
  BY DEF Broken
<1>3. /\ input.k = "end interface" => (Broken <=> input.mods \cap Visibilities # {})
      /\ input.k = "property" => (Broken <=> Has(input.mods, Visibilities) = {})
      /\ input.k = "scalar" => (Broken <=> input.id = "other")
  BY DEF Broken
<1>4. input.k = "method" =>
        (Broken <=> \/ Has(input.mods, Visibilities) = {}
                    \/ Has(input.mods, {"abstract"}) # {} /\ Has(input.mods, {"private"}) # {})
  BY DEF Broken
<1>5. /\ input.k = "end method" => (Broken <=> "abstract" \in input.mods)
      /\ input.k = "jump" => (Broken <=> InNoLoop)
      /\ input.k = "return" => (Broken <=> Count({"method"}) = 0)
  BY DEF Broken
<1>6. /\ input.k = "default" => (Broken <=> Top.defaults + (IF result = "error" THEN 1 ELSE 0) > 1)
      /\ input.k = "assign" => (Broken <=> input.to \in {"call", "datastruct"})
  BY DEF Broken
<1>7. input.k \in {"nothing", "end", "interface", "declaration", "block", "case", "eof"} => ~Broken
  BY DEF Broken
<1>. QED
  BY <1>1, <1>2, <1>3, <1>4, <1>5, <1>6, <1>7 DEF BrokenMeans

\* A finite set has two elements when it has more than one.
LEMMA Two ==
  ASSUME NEW P, IsFiniteSet(P)
  PROVE  Cardinality(P) > 1 <=> \E i, j \in P : i # j
<1>1. Cardinality(P) \in Nat
  BY FS_CardinalityType
<1>2. ASSUME NEW i \in P, NEW j \in P, i # j
      PROVE  Cardinality(P) > 1
  <2>1. IsFiniteSet({i}) /\ Cardinality({i}) = 1 /\ j \notin {i}
    BY <1>2, FS_Singleton
  <2>2. Cardinality({i} \cup {j}) = 2
    BY <2>1, FS_AddElement
  <2>3. {i} \cup {j} \subseteq P
    OBVIOUS
  <2>4. Cardinality({i} \cup {j}) <= Cardinality(P)
    BY <2>3, FS_Subset
  <2>. QED
    BY <1>1, <2>2, <2>4
<1>3. ASSUME \A i, j \in P : i = j
      PROVE  Cardinality(P) \in {0, 1}
  <2>1. CASE P = {}
    BY <2>1, FS_EmptySet
  <2>2. ASSUME NEW x \in P
        PROVE  P = {x}
    BY <1>3
  <2>3. CASE P # {}
    <3>1. PICK x \in P : TRUE
      BY <2>3
    <3>2. P = {x}
      BY <2>2
    <3>. QED
      BY <3>2, FS_Singleton
  <2>. QED
    BY <2>1, <2>3
<1>. QED
  BY <1>1, <1>2, <1>3

\* The modifiers that were read and the flags that parser_helpers.c looks at.
LEMMA HasFlags ==
  ASSUME ParserInv, Reading, NEW kinds
  PROVE  Has(given, kinds) # {} <=> mods \cap kinds # {}
<1>1. mods = {given[i] : i \in DOMAIN given}
  BY DEF ParserInv, Texts, Reading
<1>. QED
  BY <1>1 DEF Has

\* parser_validate_flags refuses what a list of modifiers may not have.
LEMMA ModifierVerdict ==
  ASSUME ParserInv, BrokenMeans', NEW m \in Modifiers, Modifier(m)
  PROVE  VerdictFollowsRules'
<1>1. /\ Reading /\ result = "parsing" /\ input' = [k |-> "modifier"]
      /\ given' = Append(given, m) /\ given \in Seq(Modifiers)
  BY DEF Modifier, AtTop, In, Reading, Read, ParserInv, Typed
<1>2. /\ given' \in Seq(Modifiers) /\ DOMAIN given' = DOMAIN given \cup {Len(given')}
      /\ Len(given') \notin DOMAIN given /\ given'[Len(given')] = m
      /\ \A i \in DOMAIN given : given'[i] = given[i]
      /\ DOMAIN given' = 1 .. Len(given') /\ Len(given') \in Nat
  BY <1>1, AppendProperties
<1>3. /\ mods = {given[i] : i \in DOMAIN given}
      /\ \A i, j \in DOMAIN given : given[i] = given[j] => i = j
      /\ \A x, y \in mods : x \in Visibilities /\ y \in Visibilities => x = y
  BY <1>1 DEF ParserInv, Texts
<1>4. /\ \A i \in DOMAIN given : given'[i] \in mods
      /\ \A x \in mods : \E i \in DOMAIN given : given'[i] = x
  BY <1>2, <1>3
<1>5. m \in mods <=> \E i, j \in DOMAIN given' : i # j /\ given'[i] = given'[j]
  <2>1. ASSUME m \in mods
        PROVE  \E i, j \in DOMAIN given' : i # j /\ given'[i] = given'[j]
    BY <1>2, <1>4, <2>1
  <2>2. ASSUME m \notin mods, NEW i \in DOMAIN given', NEW j \in DOMAIN given', given'[i] = given'[j]
        PROVE  i = j
    BY <1>2, <1>3, <1>4, <2>2
  <2>. QED
    BY <2>1, <2>2
<1>6. mods \cap Visibilities # {} /\ m \in Visibilities <=> Cardinality(Has(given', Visibilities)) > 1
  <2> DEFINE P == Has(given', Visibilities)
  <2>1. P \subseteq 1 .. Len(given') /\ \A i : i \in P <=> i \in DOMAIN given' /\ given'[i] \in Visibilities
    BY <1>2 DEF Has
  <2>2. IsFiniteSet(P)
    <3>1. IsFiniteSet(1 .. Len(given'))
      BY <1>2, FS_Interval
    <3>. HIDE DEF P
    <3>. QED
      BY <2>1, <3>1, FS_Subset
  <2>. HIDE DEF P
  <2>3. Cardinality(P) > 1 <=> \E i, j \in P : i # j
    BY <2>2, Two
  <2>4. ASSUME NEW x \in mods, x \in Visibilities, m \in Visibilities
        PROVE  \E i, j \in P : i # j
    <3>1. PICK i \in DOMAIN given : given'[i] = x
      BY <1>4
    <3>2. i \in P /\ Len(given') \in P /\ i # Len(given')
      BY <1>2, <2>1, <2>4, <3>1
    <3>. QED
      BY <3>2
  <2>5. ASSUME NEW i \in P, NEW j \in P, i # j
        PROVE  mods \cap Visibilities # {} /\ m \in Visibilities
    <3>1. /\ i \in DOMAIN given' /\ given'[i] \in Visibilities
          /\ j \in DOMAIN given' /\ given'[j] \in Visibilities
      BY <2>1
    <3>2. ~(i \in DOMAIN given /\ j \in DOMAIN given)
      <4>1. SUFFICES ASSUME i \in DOMAIN given, j \in DOMAIN given PROVE FALSE
        OBVIOUS
      <4>2. given'[i] = given'[j]
        BY <1>3, <1>4, <3>1, <4>1
      <4>. QED
        BY <1>2, <1>3, <2>5, <4>1, <4>2
    <3>3. CASE i = Len(given')
      BY <1>2, <1>4, <2>5, <3>1, <3>3
    <3>4. CASE j = Len(given')
      BY <1>2, <1>4, <2>5, <3>1, <3>4
    <3>. QED
      BY <1>2, <3>1, <3>2, <3>3, <3>4
  <2>6. (\E x \in mods : x \in Visibilities) <=> mods \cap Visibilities # {}
    OBVIOUS
  <2>. QED
    BY <2>3, <2>4, <2>5, <2>6 DEF P
<1>7. {"abstract", "final"} \subseteq mods \cup {m}
        <=> Has(given', {"abstract"}) # {} /\ Has(given', {"final"}) # {}
  <2>1. \A x : x \in mods \cup {m} <=> \E i \in DOMAIN given' : given'[i] = x
    BY <1>2, <1>4
  <2>. QED
    BY <2>1 DEF Has
<1>8. Broken' <=> FlagsRefused(m)
  <2>1. Broken' <=> \/ \E i, j \in DOMAIN given' : i # j /\ given'[i] = given'[j]
                    \/ Cardinality(Has(given', Visibilities)) > 1
                    \/ Has(given', {"abstract"}) # {} /\ Has(given', {"final"}) # {}
    <3>1. input'.k = "modifier"
      BY <1>1
    <3>. QED
      BY <3>1 DEF BrokenMeans, Has
  <2>. QED
    BY <1>5, <1>6, <1>7, <2>1 DEF FlagsRefused
<1>9. result' = "error" <=> FlagsRefused(m)
  BY <1>1 DEF Modifier, Refuse, Accept
<1>. QED
  BY <1>8, <1>9 DEF VerdictFollowsRules

\* parser_init_class refuses a class of a name there is, and one with a visibility.
LEMMA ClassVerdict ==
  ASSUME ParserInv, BrokenMeans', NEW name \in ClassNames, parser_init_class(name)
  PROVE  VerdictFollowsRules'
<1>1. /\ Reading /\ result = "parsing" /\ nesting = <<>> /\ ~in_class
      /\ input' = [k |-> "class", mods |-> given]
      /\ declared' = Append(declared, name) /\ declared \in Seq(ClassNames)
      /\ classes = {declared[i] : i \in DOMAIN declared}
  BY Outside DEF parser_init_class, AtTop, Reading, Read, ParserInv, Typed, Texts
<1>2. /\ Len(declared') = Len(declared) + 1 /\ declared'[Len(declared')] = name
      /\ Len(declared) \in Nat /\ DOMAIN declared = 1 .. Len(declared)
      /\ \A i \in DOMAIN declared : declared'[i] = declared[i]
  BY <1>1, AppendProperties
<1>3. name \in classes <=> \E i \in 1 .. (Len(declared') - 1) : declared'[i] = declared'[Len(declared')]
  BY <1>1, <1>2
<1>4. mods \cap Visibilities # {} <=> Has(given, Visibilities) # {}
  BY <1>1, HasFlags
<1>5. Broken' <=> mods \cap Visibilities # {} \/ name \in classes
  <2>1. input'.k = "class" /\ input'.mods = given
    BY <1>1
  <2>2. Broken' <=> \/ Has(given, Visibilities) # {}
                    \/ \E i \in 1 .. (Len(declared') - 1) : declared'[i] = declared'[Len(declared')]
    BY <2>1 DEF BrokenMeans, Has
  <2>. QED
    BY <1>3, <1>4, <2>2
<1>6. result' = "error" <=> mods \cap Visibilities # {} \/ name \in classes
  BY <1>1 DEF parser_init_class, Refuse, Accept
<1>. QED
  BY <1>5, <1>6 DEF VerdictFollowsRules

\* The checks of members refuse what breaks a rule of theirs.
LEMMA MemberVerdict ==
  ASSUME ParserInv, BrokenMeans',
         \/ parser_fini_class
         \/ Interface \/ EndInterface \/ InterfaceMethod \/ Property
         \/ \E identifier \in {"null", "true", "other"} : Scalar(identifier)
         \/ parser_init_method \/ parser_fini_method \/ MethodDeclaration
  PROVE  VerdictFollowsRules'
<1>1. Reading /\ result = "parsing"
  BY DEF parser_fini_class, Interface, EndInterface, InterfaceMethod, Property, Scalar,
         parser_init_method, parser_fini_method, MethodDeclaration, AtTop, In, Reading
<1>2. /\ Has(given, Visibilities) # {} <=> mods \cap Visibilities # {}
      /\ Has(given, {"abstract"}) # {} <=> "abstract" \in mods
      /\ Has(given, {"private"}) # {} <=> "private" \in mods
  <2>1. /\ Has(given, Visibilities) # {} <=> mods \cap Visibilities # {}
        /\ Has(given, {"abstract"}) # {} <=> mods \cap {"abstract"} # {}
        /\ Has(given, {"private"}) # {} <=> mods \cap {"private"} # {}
    BY <1>1, HasFlags
  <2>. QED
    BY <2>1
<1>3. CASE parser_fini_class
  <2>1. input'.k = "end" /\ result' # "error"
    BY <1>1, <1>3 DEF parser_fini_class, Read, Refuse, Accept
  <2>. QED
    BY <2>1 DEF BrokenMeans, VerdictFollowsRules
<1>4. CASE Interface
  <2>1. input'.k = "interface" /\ result' # "error"
    BY <1>1, <1>4 DEF Interface, Read, Accept
  <2>. QED
    BY <2>1 DEF BrokenMeans, VerdictFollowsRules
<1>5. CASE EndInterface
  <2>1. /\ input'.k = "end interface" /\ input'.mods = Top.mods
        /\ result' = "error" <=> Top.mods \cap Visibilities # {}
    BY <1>1, <1>5 DEF EndInterface, Read, Refuse, Accept
  <2>. QED
    BY <2>1 DEF BrokenMeans, VerdictFollowsRules
<1>6. CASE InterfaceMethod
  <2>1. input'.k = "declaration" /\ result' # "error"
    BY <1>1, <1>6 DEF InterfaceMethod, Read, Accept
  <2>. QED
    BY <2>1 DEF BrokenMeans, VerdictFollowsRules
<1>7. CASE Property
  <2>1. /\ input'.k = "property" /\ input'.mods = given
        /\ result' = "error" <=> mods \cap Visibilities = {}
    BY <1>1, <1>7 DEF Property, Read, Refuse, Accept
  <2>2. Broken' <=> Has(given, Visibilities) = {}
    BY <2>1 DEF BrokenMeans, Has
  <2>. QED
    BY <1>2, <2>1, <2>2 DEF VerdictFollowsRules
<1>8. ASSUME NEW identifier \in {"null", "true", "other"}, Scalar(identifier)
      PROVE  VerdictFollowsRules'
  <2>1. /\ input'.k = "scalar" /\ input'.id = identifier
        /\ result' = "error" <=> identifier = "other"
    BY <1>1, <1>8 DEF Scalar, Read, Refuse, Accept
  <2>. QED
    BY <2>1 DEF BrokenMeans, VerdictFollowsRules
<1>9. CASE parser_init_method \/ MethodDeclaration
  <2>1. /\ input'.k = "method" /\ input'.mods = given
        /\ result' = "error" <=> MethodRefused
    BY <1>1, <1>9 DEF parser_init_method, MethodDeclaration, Read, Refuse, Accept
  <2>2. Broken' <=> \/ Has(given, Visibilities) = {}
                    \/ Has(given, {"abstract"}) # {} /\ Has(given, {"private"}) # {}
    BY <2>1 DEF BrokenMeans, Has
  <2>. QED
    BY <1>2, <2>1, <2>2 DEF VerdictFollowsRules, MethodRefused
<1>10. CASE parser_fini_method
  <2>1. /\ input'.k = "end method" /\ input'.mods = Top.mods
        /\ result' = "error" <=> "abstract" \in Top.mods
    BY <1>1, <1>10 DEF parser_fini_method, Read, Refuse, Accept
  <2>. QED
    BY <2>1 DEF BrokenMeans, VerdictFollowsRules
<1>. QED
  BY <1>3, <1>4, <1>5, <1>6, <1>7, <1>8, <1>9, <1>10

\* The checks of statements refuse what breaks a rule of theirs.
LEMMA StatementVerdict ==
  ASSUME ParserInv, BrokenMeans',
         \/ Block \/ (\E k \in Loops : Loop(k)) \/ For \/ parser_switch_begin
         \/ EndBlock \/ EndLoop \/ EndFor \/ parser_switch_end
         \/ parser_switch_case \/ parser_switch_default
         \/ Jump \/ parser_validate_return \/ Done
         \/ \E to \in {"identifier", "property", "literal"} \cup DOMAIN Operands : Assign(to)
  PROVE  VerdictFollowsRules'
<1>1. result = "parsing"
  BY DEF Block, Loop, For, parser_switch_begin, EndBlock, EndLoop, EndFor, parser_switch_end,
         parser_switch_case, parser_switch_default, Jump, parser_validate_return, Done, Assign,
         AtStatement, AtTop, In, Reading
<1>2. CASE \/ Block \/ (\E k \in Loops : Loop(k)) \/ For \/ parser_switch_begin
           \/ EndBlock \/ EndLoop \/ EndFor \/ parser_switch_end
           \/ parser_switch_case \/ Done
  <2>1. input'.k \in {"block", "end", "case", "eof"} /\ result' # "error"
    <3>1. CASE Block \/ (\E k \in Loops : Loop(k)) \/ For \/ parser_switch_begin
      <4>1. input' = [k |-> "block"] /\ result' = result
        BY <3>1 DEF Block, Loop, For, parser_switch_begin, Read, Accept
      <4>. QED
        BY <1>1, <4>1
    <3>2. CASE EndBlock \/ EndFor
      <4>1. input' = [k |-> "end"] /\ result' = result
        BY <3>2 DEF EndBlock, EndFor, Read, Accept
      <4>. QED
        BY <1>1, <4>1
    <3>3. CASE EndLoop \/ parser_switch_end
      <4>1. input' = [k |-> "end"] /\ result' \in {result, "internal"}
        BY <3>3 DEF EndLoop, parser_switch_end, Read, Accept, Refuse
      <4>. QED
        BY <1>1, <4>1
    <3>4. CASE parser_switch_case
      <4>1. input' = [k |-> "case"] /\ result' = result
        BY <3>4 DEF parser_switch_case, Read, Accept
      <4>. QED
        BY <1>1, <4>1
    <3>5. CASE Done
      <4>1. input' = [k |-> "eof"] /\ result' = "done"
        BY <3>5 DEF Done, Read
      <4>. QED
        BY <4>1
    <3>. QED
      BY <1>2, <3>1, <3>2, <3>3, <3>4, <3>5
  <2>. QED
    BY <2>1 DEF BrokenMeans, VerdictFollowsRules
<1>3. CASE parser_switch_default
  <2>1. /\ nesting # <<>> /\ Top.k = "switch" /\ input'.k = "default"
    BY <1>3 DEF parser_switch_default, In, Read
  <2>2. Top \in Constructs /\ switches # <<>> /\ (switches[Len(switches)] <=> Top.defaults = 1)
    BY <2>1, Inside
  <2>3. Broken' <=> Top'.defaults + (IF result' = "error" THEN 1 ELSE 0) > 1
    BY <2>1 DEF BrokenMeans
  <2>4. CASE switches[Len(switches)]
    <3>1. result' = "error" /\ nesting' = nesting
      BY <1>3, <2>2, <2>4 DEF parser_switch_default, Refuse
    <3>2. Top'.defaults = 1
      BY <2>2, <2>4, <3>1 DEF Top
    <3>. QED
      BY <2>3, <3>1, <3>2 DEF VerdictFollowsRules
  <2>5. CASE ~switches[Len(switches)]
    <3>1. /\ result' # "error"
          /\ nesting' = [nesting EXCEPT ![Len(nesting)].labels = 1, ![Len(nesting)].defaults = @ + 1]
      BY <1>1, <1>3, <2>2, <2>5 DEF parser_switch_default, Accept
    <3>2. Top.defaults = 0
      BY <2>2, <2>5 DEF Constructs
    <3>3. nesting \in Seq(Constructs) /\ Len(nesting) \in DOMAIN nesting
      BY <2>1, EmptySeq, LenProperties DEF ParserInv, Typed
    <3>4. nesting' = [nesting EXCEPT ![Len(nesting)] = [Top EXCEPT !.labels = 1, !.defaults = @ + 1]]
      BY <3>1, <3>3, Relabelled DEF Top
    <3>5. [Top EXCEPT !.labels = 1, !.defaults = @ + 1].defaults = 1
      BY <2>2, <3>2 DEF Constructs
    <3>6. Len(nesting') = Len(nesting)
      BY <3>3, <3>4
    <3>7. Top' = [Top EXCEPT !.labels = 1, !.defaults = @ + 1]
      BY <3>3, <3>4, <3>6 DEF Top
    <3>. QED
      BY <2>3, <3>1, <3>5, <3>7 DEF VerdictFollowsRules
  <2>. QED
    BY <2>4, <2>5
<1>4. /\ nesting \in Seq(Constructs) /\ Formed(nesting) /\ fors \in Nat
      /\ (in_method <=> InMethod(nesting)) /\ Follows(nesting, in_loop_counter, switches, fors)
  BY DEF ParserInv, Typed, Flags
<1>5. CASE Jump
  <2>1. /\ input'.k = "jump" /\ nesting' = nesting /\ fors' = fors
        /\ result' = "error" <=> in_loop_counter = 0
    BY <1>1, <1>5 DEF Jump, Read, Refuse, Accept, NoText, text
  <2>2. /\ InNoLoop' <=> Cardinality(At(nesting, LoopKinds)) = 0
        /\ Broken' <=> InNoLoop'
    BY <2>1 DEF BrokenMeans, InNoLoop, Count, At, LoopKinds
  <2>3. in_loop_counter = 0 <=> Cardinality(At(nesting, LoopKinds)) = 0 /\ fors = 0
    BY <1>4, Bodies DEF Follows
  <2>4. fors = 0 \/ fors > 0
    BY <1>4
  <2>. QED
    BY <2>1, <2>2, <2>3, <2>4 DEF VerdictFollowsRules, Disputed
<1>6. CASE parser_validate_return
  <2>1. /\ input'.k = "return" /\ nesting' = nesting
        /\ result' = "error" <=> ~in_method
    BY <1>1, <1>6 DEF parser_validate_return, Read, Refuse, Accept
  <2>2. Broken' <=> Cardinality(At(nesting, {"method"})) = 0
    BY <2>1 DEF BrokenMeans, Count, At
  <2>3. ~in_method <=> Cardinality(At(nesting, {"method"})) = 0
    BY <1>4, Bodies DEF InMethod
  <2>. QED
    BY <2>1, <2>2, <2>3 DEF VerdictFollowsRules
<1>7. ASSUME NEW to \in {"identifier", "property", "literal"} \cup DOMAIN Operands, Assign(to)
      PROVE  VerdictFollowsRules'
  <2>1. input'.k = "assign" /\ input'.to = to
    BY <1>7 DEF Assign, Read
  <2>2. DOMAIN Operands = {"call", "subscript", "datastruct"} /\ Operands["datastruct"] = 2
    BY DEF Operands
  <2>3. result' = "error" <=> to \in {"call", "subscript", "datastruct"}
    BY <1>1, <1>7, <2>2 DEF Assign, Refuse, Accept
  <2>. QED
    BY <2>1, <2>3 DEF BrokenMeans, VerdictFollowsRules, Disputed
<1>. QED
  BY <1>2, <1>3, <1>5, <1>6, <1>7

\* A program is refused exactly for a construct that breaks a rule of the language,
\* whatever was read before it, but for the two constructs of Disputed.
\* (parser_error in parser_helpers.c)
THEOREM ParserVerdict ==
  Spec => []VerdictFollowsRules
<1>1. Init => VerdictFollowsRules
  <2>1. Init => input.k = "nothing" /\ result # "error"
    BY DEF Init
  <2>. QED
    BY <2>1, BrokenOf DEF BrokenMeans, VerdictFollowsRules
<1>2. BrokenMeans'
  BY BrokenOf, PTL
<1>3. ParserInv /\ VerdictFollowsRules /\ [Next]_vars => VerdictFollowsRules'
  <2>1. SUFFICES ASSUME ParserInv, VerdictFollowsRules, [Next]_vars
                 PROVE  VerdictFollowsRules'
    OBVIOUS
  <2>2. CASE UNCHANGED vars
    <3>1. UNCHANGED <<nesting, input, given, declared, fors, result>>
      BY <2>2 DEF vars, text
    <3>2. Broken' <=> Broken
      BY <3>1 DEF Broken, InNoLoop, Count, Top, Has
    <3>3. Disputed' <=> Disputed
      BY <3>1 DEF Disputed, InNoLoop, Count
    <3>. QED
      BY <2>1, <3>1, <3>2, <3>3 DEF VerdictFollowsRules
  <2>3. CASE Next
    BY <1>2, <2>1, <2>3, ModifierVerdict, ClassVerdict, MemberVerdict, StatementVerdict DEF Next
  <2>. QED
    BY <2>1, <2>2, <2>3
<1>. QED
  BY <1>1, <1>3, ParserInvariant, PTL DEF Spec
=============================================================================
