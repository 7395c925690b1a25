------------------------------ MODULE MCScript -----------------------------
(* The programs: every statement kind around every kind of leaf.  Numbers of *)
(* calls and comparisons are distinct within a program.                      *)
EXTENDS Script

Throws(c) == ThrowStmt(<<"exc", c>>)
Quiet == Assign(Value)
Calling(n) == Assign(Call(n))
\* A comparison is observed and never raises.
Ask(n) == Assign(Test(n))
Leaf(n) == {Calling(n), ReturnStmt, Throws("a"), Quiet}
LoopLeaf(n) == Leaf(n) \cup {BreakStmt, ContinueStmt}
\* A jump taken on a condition, something after it.
Maybe(n, s) == Seq2(If(Test(n), s, Nop), Calling(n + 1))
Repeat(n, body) == While(Test(n), body, <<>>)
RepeatElse(n, body, else) == While(Test(n), body, <<else>>)
\* A try that catches everything; one that catches what cannot be raised.
Guard(body, handler, finally) == Try(body, <<<<"exception", handler>>>>, finally)
Miss(body, finally) == Try(body, <<<<"a", Quiet>>>>, finally)

Expressions ==
    {And(Test(1), Or(Test(2), Test(3))), Or(And(Test(1), Test(2)), Test(3)),
     Ternary(And(Test(1), Test(2)), Call(3), Value), Coalesce(1, Call(2)),
     Coalesce(1, Ternary(Test(2), Call(3), Coalesce(4, Call(5))))}
OfExpressions ==
    {Assign(e) : e \in Expressions} \cup {Guard(Assign(e), Ask(10), Ask(11)) : e \in Expressions}
    \cup {While(And(Test(1), Or(Test(2), Test(3))), b, e) :
            b \in {Calling(4), Maybe(4, BreakStmt)}, e \in {<<>>, <<Calling(6)>>}}

\* One construct.
TryStatements(n) ==
    {Try(b, <<<<c, h>>>>, f) :
        b \in Leaf(n) \cup {Maybe(n, ReturnStmt)}, c \in {"exception", "a"},
        h \in Leaf(n + 2) \cup {Ask(n + 2)}, f \in Leaf(n + 3) \cup {Ask(n + 3)}}
    \cup {Try(b, <<<<c, Quiet>>, <<"exception", Calling(n + 1)>>>>, Nop) :
            b \in {Calling(n), Throws("a"), Throws("system")}, c \in {"a", "system"}}
LoopStatements(n) ==
    UNION {{Repeat(n, b), RepeatElse(n, b, Calling(n + 3)), Do(Test(n), b),
            For(Test(n), b, Ask(n + 3)), Foreach(n, 1, b, <<>>),
            Foreach(n, 3, b, <<Calling(n + 3)>>)} :
              b \in LoopLeaf(n + 1) \cup
                    {Maybe(n + 1, j) : j \in {BreakStmt, ContinueStmt, ReturnStmt}}}
    \cup {l : l \in UNION {{RepeatElse(n, b, Calling(n + 3)), Foreach(n, 2, b, <<Calling(n + 3)>>)} :
                             b \in {BreakElseStmt, Maybe(n + 1, BreakElseStmt)}}}
SwitchStatements(n) ==
    {Switch(<<Case(n, b), Default(d)>>) :
        b \in Leaf(n + 1) \cup {BreakStmt, BreakElseStmt}, d \in {Calling(n + 3), BreakStmt}}
    \cup {Switch(<<Default(d), Case(n, b)>>) :
            b \in {Calling(n + 1), BreakStmt}, d \in {Calling(n + 3), BreakStmt}}
    \cup {Switch(<<Case(n, b), Case(n + 2, Maybe(n + 3, BreakStmt))>> \o i) :
            b \in {Calling(n + 1), BreakElseStmt}, i \in {<<>>, <<Default(Ask(n + 5)), Case(n + 6, Nop)>>}}

\* Constructs within constructs.
Nested ==
    {Guard(s, Ask(20), Ask(21)) : s \in LoopStatements(1) \cup SwitchStatements(1)}
    \cup {Guard(Calling(1), s, t) :
            s \in {Repeat(2, Maybe(3, BreakStmt)), Guard(Calling(2), Quiet, ReturnStmt),
                   Miss(Calling(2), Quiet)},
            t \in {Ask(9), Repeat(10, Quiet), ReturnStmt, Guard(Calling(12), Ask(13), Quiet)}}
    \cup {Repeat(30, s) :
            s \in {t \in TryStatements(1) : t.body # Calling(1)} \cup
                  {Seq2(u, Calling(9)) : u \in {t \in LoopStatements(1) : t.t # "foreach"}}}
Deep ==
    {Repeat(30, Seq2(s, Maybe(20, j))) :
        s \in {Repeat(1, Maybe(2, k)) : k \in {BreakStmt, ContinueStmt}}
              \cup {RepeatElse(1, Maybe(2, BreakElseStmt), Calling(4))},
        j \in {BreakStmt, ContinueStmt}}
    \cup {Guard(Repeat(30, s), t, u) :
            s \in {Guard(Calling(1), Maybe(2, Nop), Ask(4)),
                   Miss(Quiet, Try(Calling(2), <<<<"system", Quiet>>>>, Nop)),
                   For(Test(1), Maybe(2, ContinueStmt), Ask(4)),
                   Switch(<<Case(1, Maybe(2, BreakStmt)), Default(Calling(4))>>)},
            t \in {Quiet, Do(Test(5), Maybe(6, BreakStmt)), Try(Throws("a"), <<<<"a", Ask(5)>>>>, Quiet)},
            u \in {Ask(9), Guard(Calling(10), Ask(11), Quiet), Repeat(10, Maybe(11, ContinueStmt))}}

Statements ==
    {Seq2(s, Calling(40)) :
        s \in TryStatements(1) \cup LoopStatements(1) \cup SwitchStatements(1)
              \cup OfExpressions \cup Nested \cup Deep}
    \cup {ThrowStmt(<<"object">>)}

Compiled(texts) == {[text |-> s, code |-> Compile(s)] : s \in texts}
MCPrograms == Compiled(Statements)

\* The programs of the runs that show where the machine departs from its
\* comments.
HangPrograms == Compiled({Repeat(1, ReturnStmt)})
LostPrograms == Compiled({Seq2(Guard(Quiet, Quiet, Nop), Throws("a"))})
\* A loop over foreach statements: each pass through one leaves its iterator on
\* the stack (which this run scales down to 12 slots).
Foreachs == Seq2(Foreach(1, 1, Nop, <<>>), Seq2(Foreach(2, 1, Nop, <<>>),
                 Seq2(Foreach(3, 1, Nop, <<>>), Foreach(4, 1, Nop, <<>>))))
FullPrograms == Compiled({Repeat(30, Foreachs)})
=============================================================================
