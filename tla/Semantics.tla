----------------------------- MODULE Semantics -----------------------------
(***************************************************************************)
(* What the statements of Compiler mean, independently of the code they    *)
(* are compiled to.                                                        *)
(*                                                                         *)
(* Follow(s, log) runs statement s against a log of events: the answers of *)
(* comparisons, the results of calls, the exceptions that catch clauses    *)
(* store.  It consumes the events s produces and says how s ends:          *)
(*   "normal", "break", "breakelse", "continue", "return", <<"exc", c>>,   *)
(*   "more" when the log ends first, "wrong" when s cannot produce it.     *)
(* Eval(e, log) does the same for an expression, which ends "normal", and  *)
(* "true" or "false" when it is a test.                                    *)
(***************************************************************************)
EXTENDS Compiler

LOCAL Outcome(o, rest) == [out |-> <<o>>, rest |-> rest]
LOCAL Raised(c, rest) == [out |-> <<"exc", c>>, rest |-> rest]
Ended(r, o) == r.out = <<o>>
Catches(class, c) == class \in {c, "exception"}

\* The event of call, comparison or iteration n.
LOCAL Asked(n, log, then(_, _)) ==
    IF log = <<>> THEN Outcome("more", <<>>)
    ELSE IF Head(log)[1] # n THEN Outcome("wrong", log)
    ELSE then(Head(log)[2], Tail(log))

RECURSIVE Eval(_, _)
Eval(e, log) ==
    CASE e.t = "value" -> Outcome("normal", log)
      [] e.t = "call" ->
            Asked(e.n, log, LAMBDA c, rest :
                IF c = "none" THEN Outcome("normal", rest) ELSE Raised(c, rest))
      [] e.t = "test" ->
            Asked(e.n, log, LAMBDA b, rest : Outcome(IF b THEN "true" ELSE "false", rest))
      [] e.t = "and" ->
            LET a == Eval(e.a, log) IN IF Ended(a, "true") THEN Eval(e.b, a.rest) ELSE a
      [] e.t = "or" ->
            LET a == Eval(e.a, log) IN IF Ended(a, "false") THEN Eval(e.b, a.rest) ELSE a
      [] e.t = "ternary" ->
            LET c == Eval(e.c, log)
            IN CASE Ended(c, "true") -> Eval(e.a, c.rest)
                 [] Ended(c, "false") -> Eval(e.b, c.rest)
                 [] OTHER -> c
      [] e.t = "coalesce" ->
            Asked(e.n, log, LAMBDA b, rest :
                IF b THEN Outcome("normal", rest) ELSE Eval(e.b, rest))

\* Statement a when test c holds, b when it does not.
LOCAL Branch(c, log, a(_), b(_)) ==
    LET r == Eval(c, log)
    IN CASE Ended(r, "true") -> a(r.rest)
         [] Ended(r, "false") -> b(r.rest)
         [] OTHER -> r

\* A loop takes up the outcomes of its body that are meant for it.
RECURSIVE Follow(_, _), Loop(_, _), FollowTest(_, _, _), FollowItems(_, _, _), FollowCases(_, _, _)

\* What runs when the first test fails, or on a breakelse.
LOCAL ElseOf(s) ==
    IF s.t \in {"while", "foreach"} /\ s.else # <<>> THEN s.else[1] ELSE Nop

\* The body of loop s ended as r: s.inc follows in a for loop.
Loop(s, r) ==
    CASE Ended(r, "normal") \/ Ended(r, "continue") ->
            IF s.t = "for"
            THEN LET inc == Follow(s.inc, r.rest)
                 IN IF Ended(inc, "normal") THEN FollowTest(s, inc.rest, Nop) ELSE inc
            ELSE FollowTest(s, r.rest, Nop)
      [] Ended(r, "break") -> Outcome("normal", r.rest)
      [] Ended(r, "breakelse") -> Follow(ElseOf(s), r.rest)
      [] OTHER -> r

\* The test of loop s: else is what a failing one runs.
FollowTest(s, log, else) ==
    Branch(IF s.t = "foreach" THEN Test(s.n) ELSE s.c, log,
           LAMBDA rest : Loop(s, Follow(s.body, rest)), LAMBDA rest : Follow(else, rest))

\* The bodies of a switch from item k on, and the tests from item k on.
FollowItems(s, k, log) ==
    IF k > Len(s.items) THEN Outcome("normal", log) ELSE
    LET r == Follow(s.items[k].body, log)
    IN CASE Ended(r, "normal") -> FollowItems(s, k + 1, r.rest)
         [] Ended(r, "breakelse") -> FollowItems(s, DefaultOf(s), r.rest)
         [] Ended(r, "break") -> Outcome("normal", r.rest)
         [] OTHER -> r

FollowCases(s, k, log) ==
    IF k > Len(s.items) THEN FollowItems(s, DefaultOf(s), log)
    ELSE IF IsDefault(s.items[k]) THEN FollowCases(s, k + 1, log)
    ELSE Asked(s.items[k].n, log, LAMBDA b, rest :
             IF b THEN FollowItems(s, k, rest) ELSE FollowCases(s, k + 1, rest))

\* The body of a try statement ended as r: the first clause that matches an
\* exception gets it.
LOCAL Handled(s, r) ==
    LET c == r.out[2]
        matching == {k \in DOMAIN s.catches : Catches(s.catches[k][1], c)}
        handler == CHOOSE k \in matching : \A j \in matching : k <= j
    IN IF r.out[1] # "exc" \/ matching = {} THEN r
       ELSE IF r.rest = <<>> THEN Outcome("more", <<>>)
       ELSE IF Head(r.rest) # r.out THEN Outcome("wrong", r.rest)
       ELSE Follow(s.catches[handler][2], Tail(r.rest))

Follow(s, log) ==
    CASE s.t = "nop" -> Outcome("normal", log)
      [] s.t = "assign" ->
            LET r == Eval(s.e, log)
            IN IF Ended(r, "true") \/ Ended(r, "false") THEN Outcome("normal", r.rest) ELSE r
      [] s.t = "throw" -> Raised(IF s.v[1] = "exc" THEN s.v[2] ELSE "extend", log)
      [] s.t \in {"return", "break", "breakelse", "continue"} -> Outcome(s.t, log)
      [] s.t = "seq" ->
            LET a == Follow(s.a, log)
            IN IF Ended(a, "normal") THEN Follow(s.b, a.rest) ELSE a
      [] s.t = "if" ->
            Branch(s.c, log, LAMBDA rest : Follow(s.a, rest), LAMBDA rest : Follow(s.b, rest))
      [] s.t \in {"while", "for", "foreach"} -> FollowTest(s, log, ElseOf(s))
      [] s.t = "do" -> Loop(s, Follow(s.body, log))
      [] s.t = "switch" -> FollowCases(s, 1, log)
      [] s.t = "try" ->
            LET handled == Handled(s, Follow(s.body, log))
                after == Follow(s.finally, handled.rest)
            IN IF Ended(handled, "more") \/ Ended(handled, "wrong") THEN handled
               ELSE IF Ended(after, "normal") THEN [handled EXCEPT !.rest = after.rest]
               ELSE after
-----------------------------------------------------------------------------
(* The programs unwind_blocks() can carry out.  Where a jump or an         *)
(* exception starts, inside (the constructs around it, innermost first)    *)
(* must be a case it has:                                                  *)
(*   - break, continue and breakelse: directly in a loop (breakelse in one *)
(*     with an else, or in a switch before its default; continue in no     *)
(*     switch), with no try between;                                       *)
(*   - return: with no loop or switch between it and the innermost try or  *)
(*     the frame, and in one try at most;                                  *)
(*   - an exception: in no try at all, or in the body of one that catches  *)
(*     it, not in its catch or finally bodies.                             *)

Loops == {"loop", "else loop"}
Tries == {"caught", "uncaught", "catch", "finally"}
InnermostTry(inside) == SelectSeq(inside, LAMBDA x : x \in Tries)

MayReturn(inside) ==
    \/ inside = <<>>
    \/ Head(inside) \in Tries /\ Len(InnermostTry(inside)) = 1

MayRaise(inside) ==
    InnermostTry(inside) = <<>> \/ Head(InnermostTry(inside)) = "caught"

RECURSIVE Calls(_)
Calls(e) ==
    CASE e.t \in {"value", "test"} -> FALSE
      [] e.t = "call" -> TRUE
      [] e.t \in {"and", "or"} -> Calls(e.a) \/ Calls(e.b)
      [] e.t = "ternary" -> Calls(e.c) \/ Calls(e.a) \/ Calls(e.b)
      [] e.t = "coalesce" -> Calls(e.b)

CatchesAll(s) == \E k \in DOMAIN s.catches : s.catches[k][1] = "exception"

RECURSIVE Supported(_, _)
Supported(s, inside) ==
    LET In(kind, body) == Supported(body, <<kind>> \o inside)
        innermost == IF inside = <<>> THEN "frame" ELSE Head(inside)
        clause == IF s.else = <<>> THEN TRUE ELSE In("else", s.else[1])
        kind == IF s.else = <<>> THEN "loop" ELSE "else loop"
    IN
    CASE s.t = "nop" -> TRUE
      [] s.t = "assign" -> Calls(s.e) => MayRaise(inside)
      [] s.t = "throw" -> MayRaise(inside)
      [] s.t = "return" -> MayReturn(inside)
      [] s.t = "break" -> innermost \in Loops \cup {"case", "default"}
      [] s.t = "continue" -> innermost \in Loops
      [] s.t = "breakelse" -> innermost \in {"else loop", "case"}
      [] s.t = "seq" -> Supported(s.a, inside) /\ Supported(s.b, inside)
      [] s.t = "if" -> Supported(s.a, inside) /\ Supported(s.b, inside)
      [] s.t = "while" -> In(kind, s.body) /\ clause
      [] s.t = "do" -> In("loop", s.body)
      [] s.t = "for" -> In("loop", s.body) /\ In("loop", s.inc)
      \* A foreach leaves its iterator behind.
      [] s.t = "foreach" -> inside = <<>> /\ In(kind, s.body) /\ clause
      [] s.t = "switch" ->
            \A k \in DOMAIN s.items :
               In(IF k < DefaultOf(s) THEN "case" ELSE "default", s.items[k].body)
      [] s.t = "try" ->
            /\ In(IF CatchesAll(s) THEN "caught" ELSE "uncaught", s.body)
            /\ \A k \in DOMAIN s.catches : In("catch", s.catches[k][2])
            /\ In("finally", s.finally)
=============================================================================
