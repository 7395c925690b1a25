----------------------------- MODULE MCScripts ------------------------------
(* The programs MCRuntime runs: each the text of a script of a few lines    *)
(* that the grammar accepts: imports come first in a file, return statements *)
(* are in methods.                                                          *)
EXTENDS Declarations

\* sfl/saffire.sf and sfl/io.sf, without the methods no program here calls.
SflFiles ==
    (<<"saffire">> :> <<
        Import(<<"io">>, "io", <<"", "io">>),
        Class("saffire", "", <<
            Static("version", <<>>, <<Return(Call(Attr(Id("::_sfl::saffire::saffire"), "version"), <<>>))>>),
            Static("uncaughtExceptionHandler", <<Param("exception", "e", Null)>>, <<
                Expr(Call(Attr(Id("io"), "printf"), <<Str("Uncaught"), Call(Attr(Id("e"), "getMessage"), <<>>)>>)),
                Return(Call(Attr(Id("e"), "getCode"), <<>>))>>)>>)>>)
    @@ (<<"io">> :> <<
        Class("io", "", <<
            Const("STDIN", Num(0)),
            Static("print", <<Param("...", "args", Null)>>,
                <<Return(CallAll(Attr(Id("::_sfl::io::io"), "print"), <<>>, Id("args")))>>),
            Static("printf", <<Param("string", "format", Null), Param("...", "args", Null)>>,
                <<Return(CallAll(Attr(Id("::_sfl::io::io"), "printf"), <<Id("format")>>, Id("args")))>>)>>)>>)

Script(main) == [main |-> main, roots |-> <<>>]
New(c) == Call(Id(c), <<>>)
Send(o, m, args) == Call(Attr(o, m), args)
Do_(o, m) == Expr(Send(Id(o), m, <<>>))
Ls(es) == Data(Id("list"), [i \in DOMAIN es |-> <<es[i]>>])
Ha(pairs) == Data(Id("hash"), pairs)
Numbers(n) == [i \in 1..n |-> Num(i)]
Handled == <<Catch("exception", "e", <<>>)>>
Attempt(s) == Try(<<s>>, Handled, <<>>)

\* The i-th of all choices of one element from each of a number of sequences is the
\* one whose elements are the digits of i.
Digit(s, i) == s[(i % Len(s)) + 1]

\* Arguments: every list of up to two parameters of each sort, and some of three,
\* called with every list of up to three arguments of two classes.
Sorts(x) == <<Param("", x, Null), Param("", x, Num(7)), Param("string", x, Null),
              Param("string", x, Str("d")), Param("...", x, Null)>>
Parameters ==
    <<<<>>>> \o [i \in 1..5 |-> <<Sorts("x")[i]>>]
    \o [i \in 1..25 |-> <<Digit(Sorts("x"), i), Digit(Sorts("y"), i \div 5)>>]
    \o [i \in 1..4 |-> <<Param("", "x", Null),
                         Digit(<<Param("", "y", Num(7)), Param("...", "y", Null)>>, i),
                         Digit(<<Param("", "z", Num(8)), Param("...", "z", Null)>>, i \div 2)>>]
Values == <<Num(1), Str("s")>>
ArgumentLists ==
    <<<<>>, <<Num(1)>>, <<Str("s")>>>>
    \o [i \in 1..4 |-> <<Digit(Values, i), Digit(Values, i \div 2)>>]
    \o [i \in 1..4 |-> <<Digit(Values, i), Num(1), Digit(Values, i \div 2)>>]
ArgumentScripts ==
    [j \in DOMAIN Parameters |->
        Script(<<Class("K", "", <<Static("m", Parameters[j], <<>>)>>)>>
               \o [i \in DOMAIN ArgumentLists |-> Attempt(Expr(Send(Id("K"), "m", ArgumentLists[i])))])]
    \o [j \in DOMAIN ArgumentLists |->
          Script(<<Class("K", "", <<Static("m", <<Param("...", "x", Null)>>,
                                        <<Return(CallAll(Attr(Id("K"), "n"), <<Num(1)>>, Id("x")))>>),
                                    Static("n", <<Param("", "x", Null), Param("...", "y", Null)>>, <<>>)>>),
                   Expr(Send(Id("K"), "m", ArgumentLists[j]))>>)]

\* Attributes: A, B that extends A and C that extends B each have x or not, as a
\* property, a constant or a method; objects of them store into it in two orders.
Declared == <<<<>>, <<Prop("x", Num(1))>>, <<Const("x", Num(2))>>, <<Method("x", <<>>, <<>>)>>>>
Store(o, n) == Attempt(Assign(Attr(Id(o), "x"), Num(n)))
StoreOrders == <<<<"b", "a", "c", "d">>, <<"c", "d", "b", "a">>>>
AttributeScripts ==
    [i \in 1..64 |->
        Script(<<Class("A", "", Digit(Declared, i)), Class("B", "A", Digit(Declared, i \div 4)),
                 Class("C", "B", Digit(<<<<>>, <<Prop("x", Num(3))>>>>, i \div 16)),
                 Assign(Id("a"), New("A")), Assign(Id("b"), New("B")),
                 Assign(Id("c"), New("C")), Assign(Id("d"), New("B"))>>
               \o [j \in 1..4 |-> Store(Digit(StoreOrders, i \div 32)[j], 10 + j)]
               \o <<Attempt(Assign(Id("r"), Attr(Id("C"), "x"))), Assign(Id("r"), Attr(Id("c"), "x")),
                    Attempt(Expr(Send(Id("c"), "x", <<>>)))>>)]

\* Exceptions: main calls f, f calls g and g calls h, which raises.  Each calls as
\* it is, in a try statement, after one, for a condition, or (a method) from one
\* that returns.
Level(flavour, call, o) ==
    CASE flavour = "plain" -> <<Expr(call)>>
      [] flavour = "try" -> <<Attempt(Expr(call)), Assign(Id("r"), Num(1))>>
      [] flavour = "tried" -> <<Try(<<>>, Handled, <<>>), Expr(call)>>
      [] flavour = "return" -> <<Try(<<Return(call)>>, Handled, <<Assign(Id("r"), Num(2))>>)>>
      [] flavour = "condition" -> <<Assign(Id("o"), New(o)), If(Id("o"), <<>>, <<>>)>>
Flavours == <<"plain", "try", "tried", "condition", "return">>
Raisers == <<Throw(Call(Id("exception"), <<Str("m"), Num(3)>>)), Expr(Opr("div", Num(1), Num(0))),
             Expr(Id("unknown"))>>
\* Class T<i> has the condition that calls the next level.
Truth(name, call) == Class(name, "", <<Method("__boolean", <<>>, <<Return(call)>>)>>)
K(m) == Send(Id("K"), m, <<>>)
ExceptionScripts ==
    [i \in 1..300 |->
        Script(<<Class("K", "", <<Static("f", <<>>, Level(Digit(Flavours, i), K("g"), "U")),
                                  Static("g", <<>>, Level(Digit(Flavours, i \div 5), K("h"), "V")),
                                  Static("h", <<>>, <<Digit(Raisers, i \div 100)>>)>>),
                 Truth("T", K("f")), Truth("U", K("g")), Truth("V", K("h"))>>
               \o Level(Digit(SubSeq(Flavours, 1, 4), i \div 25), K("f"), "T"))]

InMethod(body) == Script(<<Class("K", "", <<Static("f", <<>>, body)>>), Expr(K("f"))>>)
With(files, main) == [main |-> main, roots |-> <<files>>]
\* A saffire.sf found before that of sfl/, whose handler returns e.
Handler(class, e) ==
    With(<<"saffire">> :> <<class, Class("saffire", "", <<Static("uncaughtExceptionHandler",
                                       <<Param("", "e", Null)>>, <<Return(e)>>)>>)>>,
         <<Expr(Id("unknown"))>>)
Unused == Class("A", "", <<>>)
MyException == Class("MyException", "exception", <<>>)
ThrowMine == Throw(Call(Id("MyException"), <<Str("m"), Num(9)>>))
OtherExceptionScripts == <<
    Script(<<Try(<<Throw(Call(Id("exception"), <<Str("m")>>))>>, <<Catch("exception", "e", <<Throw(Id("e"))>>)>>, <<>>)>>),
    Script(<<Try(<<Expr(Id("unknown"))>>, <<Catch("typeException", "e", <<>>)>>, <<>>)>>),
    Script(<<MyException, Try(<<ThrowMine>>, <<Catch("typeException", "e", <<>>)>>, <<>>)>>),
    Script(<<MyException, Try(<<ThrowMine>>, <<Catch("typeException", "e", <<>>), Catch("MyException", "e", <<>>)>>, <<>>),
             ThrowMine>>),
    Script(<<MyException, ThrowMine>>),
    Script(<<Throw(Num(1))>>),
    Script(<<Assign(Id("saffire"), Num(1)), Throw(Call(Id("exception"), <<Str("m"), Num(3)>>))>>),
    InMethod(<<Try(<<Return(Num(1))>>, Handled, <<Return(Num(2))>>)>>),
    InMethod(<<Try(<<Try(<<Return(Num(1))>>, Handled, <<Assign(Id("r"), Num(2))>>)>>, Handled, <<Assign(Id("r"), Num(3))>>)>>),
    Handler(Unused, Num(5)), Handler(Unused, Str("s")), Handler(Unused, Id("true")), Handler(Unused, New("A")),
    Handler(Class("A", "", <<Method("__numerical", <<>>, <<Expr(Id("unknown"))>>)>>), New("A")),
    Handler(Class("A", "", <<Method("__numerical", <<>>, <<Return(Num(6))>>)>>), New("A")),
    Handler(Class("A", "", <<Prop("__numerical", Num(1))>>), New("A")),
    Handler(Unused, Id("unknown")),
    Script(<<Class("A", "", <<Method("__cmp_eq", <<Param("", "o", Null)>>, <<>>)>>),
             Expr(Cmp("eq", New("A"), New("A")))>>),
    Script(<<Class("A", "Missing", <<>>)>>)>>

\* Conditions, and the results of calls.
Yes == <<Assign(Id("r"), Num(1))>>
FlagClass == Class("A", "", <<Prop("flag", Id("false")), Method("me", <<>>, <<>>), Static("no", <<>>, <<Return(Id("false"))>>)>>)
Condition(c) == Script(<<FlagClass, Assign(Id("a"), New("A")), If(c, Yes, <<>>)>>)
Conditions == <<Attr(Id("a"), "flag"), Send(Id("A"), "no", <<>>), Num(0), Id("a"), Id("null"),
                And(Num(1), Id("false")), Or(Num(1), Id("false")), Cmp("eq", Attr(Id("a"), "flag"), Id("false"))>>
StackScripts ==
    [i \in DOMAIN Conditions |-> Condition(Conditions[i])]
    \o <<Script(<<FlagClass, Expr(Send(Send(Id("A"), "no", <<>>), "__boolean", <<>>))>>),
         Script(<<FlagClass, Attempt(Expr(Send(Send(Id("A"), "no", <<>>), "__boolean", <<>>)))>>),
         Script(<<FlagClass, Assign(Id("a"), New("A")),
                  Assign(Id("r"), Send(Send(Id("a"), "me", <<>>), "me", <<>>)),
                  Assign(Attr(Id("r"), "flag"), Id("true")), Assign(Id("s"), Attr(Id("a"), "flag"))>>)>>

\* Calls of what is no method and no class, and spread arguments that are no list.
Refused == <<Num(0), Num(1), Str("s"), Id("true"), Id("false"), Id("null"), Ls(<<>>), Id("o"), Id("e"), Id("m"),
             Id("typeException")>>
Rests == <<Ls(Numbers(2)), Tuple(Numbers(2)), Ha(<<<<Str("k"), Num(1)>>>>), Id("null"), Num(1)>>
CallScripts ==
    [i \in DOMAIN Refused |->
        Script(<<Class("K", "", <<Static("n", <<>>, <<>>), Static("m", <<>>, <<Return(Num(1))>>)>>),
                 Assign(Id("o"), New("K")), Assign(Id("e"), Call(Id("exception"), <<Str("m")>>)), Assign(Id("m"), Attr(Id("K"), "n")),
                 Assign(Id("f"), Refused[i]),
                 Attempt(Assign(Id("r"), Call(Id("f"), <<Num(1), Send(Id("K"), "m", <<>>)>>))),
                 Expr(Call(Id("f"), <<>>))>>)]
    \o [i \in DOMAIN Rests |->
          Script(<<Class("K", "", <<Static("m", <<Param("...", "x", Null)>>, <<>>)>>),
                   Expr(CallAll(Attr(Id("K"), "m"), <<Num(5)>>, Rests[i]))>>)]

\* Operators and comparisons of values of every two classes.
Operands_ == <<Num(6), Str("6"), Id("true"), Id("null"), New("A"), New("B"), Num(0)>>
OperatorClasses == <<
    Class("A", "", <<Method("__opr_add", <<Param("", "o", Null)>>, <<Return(Num(1))>>),
                     Method("__cmp_eq", <<Param("", "o", Null)>>, <<Return(Num(0))>>)>>),
    Class("B", "", <<Method("numerical", <<>>, <<Return(Num(6))>>), Method("string", <<>>, <<Expr(Id("unknown"))>>)>>)>>
OperatorScripts ==
    [i \in 1..36 |->
        LET l == Digit(SubSeq(Operands_, 1, 6), i)
            r == Digit(SubSeq(Operands_, 1, 6), i \div 6)
        IN Script(OperatorClasses
                  \o [j \in 1..4 |-> Attempt(Assign(Id("r"), Cmp(<<"eq", "ne", "lt", "ge">>[j], l, r)))])]
    \o [i \in 1..7 |->
          Script(OperatorClasses
                 \o [j \in 1..9 |-> Attempt(Assign(Id("r"), Opr(
                        <<"add", "sub", "mul", "div", "and", "or", "xor", "shl", "shr">>[j], Operands_[i], Operands_[i])))])]
    \o <<Script(<<Assign(Id("r"), Opr("add", Num(1), Str("1")))>>),
         Script(<<Assign(Id("r"), Opr("mod", Num(1), Num(0)))>>),
         Script(<<Assign(Id("r"), Opr("mod", Num(7), Num(3)))>>)>>

\* Imports.  The files of one directory unless said otherwise.
A_(body) == <<Class("A", "", body)>>
From(c, from) == Import(<<c>>, c, from)
Ask(c) == Assign(Id("r"), Send(Id(c), "who", <<>>))
Who(n) == <<Static("who", <<>>, <<Return(Num(n))>>)>>
ImportScripts == <<
    With(<<"a">> :> A_(Who(1)), <<From("A", <<"a">>), From("A", <<"", "a">>), Ask("A")>>),
    With((<<"a">> :> <<From("B", <<"b">>)>> \o A_(Who(1))) @@ (<<"b">> :> <<Class("B", "", Who(2))>>),
         <<From("A", <<"a">>), From("B", <<"b">>), Ask("B")>>),
    With((<<"a">> :> A_(Who(1))) @@ (<<"b">> :> A_(Who(2))),
         <<Import(<<"A">>, "X", <<"a">>), Import(<<"A">>, "Y", <<"b">>), Ask("Y")>>),
    With((<<"a">> :> A_(Who(1))) @@ (<<"b">> :> A_(Who(2)) \o <<Class("B", "", <<>>)>>),
         <<From("B", <<"b">>), Import(<<"A">>, "X", <<"a">>), Ask("X")>>),
    With(<<"a">> :> A_(Who(1)), <<From("B", <<"a">>)>>),
    With(<<"a">> :> A_(Who(1)), <<From("A", <<"missing">>)>>),
    With(<<"a">> :> <<Attempt(Expr(Id("unknown")))>> \o A_(Who(1)), <<From("A", <<"a">>), Ask("A")>>),
    With((<<"a">> :> A_(Who(1)) \o <<Attempt(Expr(Id("unknown")))>>) @@ (<<"b">> :> <<From("A", <<"a">>)>>),
         <<From("A", <<"b">>), From("A", <<"a">>), Ask("A")>>),
    With((<<"a">> :> <<Throw(Call(Id("exception"), <<Str("m"), Num(4)>>))>>), <<From("A", <<"a">>)>>),
    With((<<"a">> :> <<From("B", <<"b">>)>> \o A_(Who(1))) @@ (<<"b">> :> <<From("A", <<"a">>), Class("B", "", <<>>)>>),
         <<From("A", <<"a">>)>>),
    With((<<"n", "a">> :> <<From("B", <<"b">>)>> \o A_(Who(1))) @@ (<<"n", "b">> :> <<Class("B", "", <<>>)>>),
         <<From("A", <<"n", "a">>), Import(<<"n", "B">>, "C", <<"n", "b">>), Ask("A")>>),
    With((<<"a">> :> <<Assign(Id("x"), Num(5))>>), <<From("x", <<"a">>), Assign(Id("r"), Id("x"))>>),
    With((<<"saffire">> :> <<>>), <<>>),
    With((<<"saffire">> :> <<Assign(Id("saffire"), Num(1))>>), <<Expr(Id("unknown"))>>),
    With((<<"io">> :> <<Expr(Id("unknown"))>>), <<>>),
    With((<<"io">> :> <<Class("io", "", <<>>)>>), <<Expr(Id("unknown"))>>),
    Script(<<Class("io", "", Who(1)), Ask("io")>>),
    Script(<<Assign(Id("r"), Send(Id("saffire"), "version", <<>>))>>),
    [main |-> <<From("A", <<"a">>), Ask("A")>>, roots |-> <<<<"b">> :> <<>>, <<"a">> :> A_(Who(1)), <<"a">> :> A_(Who(2))>>]>>

\* "parent": B.m calls the m of A, and C has no m of its own.
Parents(c) == Script(<<
    Class("A", "", <<Method("m", <<>>, <<Return(Num(1))>>)>>),
    Class("B", "A", <<Method("m", <<>>, <<Return(Send(Id("parent"), "m", <<>>))>>)>>),
    Class("C", "B", <<>>),
    Assign(Id("o"), New(c)), Assign(Id("r"), Send(Id("o"), "m", <<>>))>>)

\* Tuples and data structures.
X == Id("x")
Y == Id("y")
Z == Id("z")
Targets == <<X, Tuple(<<X>>), Tuple(<<X, Y>>), Tuple(<<X, Y, Z>>), Tuple(<<X, X>>), Tuple(<<Tuple(<<X, Y>>), Z>>),
             Tuple(<<X, Tuple(<<Y, X>>)>>), Tuple(<<X, Tuple(<<Y>>), Z>>)>>
Sources == <<Tuple(Numbers(1)), Tuple(Numbers(2)), Tuple(Numbers(3)), Tuple(<<Tuple(Numbers(2)), Num(3)>>),
             Tuple(<<Num(1), Tuple(<<Num(2), Num(3)>>), Num(4)>>), Data(Id("tuple"), <<<<Num(1)>>, <<Num(2)>>>>),
             Data(Id("tuple"), <<>>), Ls(Numbers(2)), Num(1), Id("tuple")>>
TupleScripts ==
    [i \in 1..80 |-> Script(<<Assign(Z, Num(0)), Assign(Digit(Targets, i), Digit(Sources, i \div 8))>>)]

\* Two values, then chains and exchanges.
A1B2(s) == Script(<<Assign(X, Num(10)), Assign(Y, Num(20)), s>>)
XY == Tuple(<<X, Y>>)
AssignmentScripts ==
    <<A1B2(Assign(XY, Tuple(<<Y, X>>))),
      A1B2(Assign(XY, Assign(Z, Tuple(<<Y, X>>)))),
      A1B2(Assign(Z, Assign(XY, Tuple(<<Y, X>>)))),
      A1B2(Assign(Z, Assign(X, Y))),
      A1B2(Assign(Tuple(<<Y, X>>), Assign(XY, Tuple(<<Num(1), Num(2)>>)))),
      A1B2(AssignOp("add", XY, Tuple(<<Num(1), Num(2)>>)))>>
    \o [i \in 1..27 |->
          LET op(j) == Digit(<<"", "add", "sub">>, j)
          IN A1B2(AssignOp(op(i), X, AssignOp(op(i \div 3), Y, AssignOp(op(i \div 9), X, Num(3)))))]

Tested == <<Num(0), Num(1), Str(""), Str("s"), Id("null"), Id("true"), Id("false"), Ls(<<>>), Ls(Numbers(1)),
            Ha(<<>>), Ha(<<<<Num(1), Num(2)>>>>), Data(Id("tuple"), <<>>), Tuple(Numbers(2)), Id("unknown")>>
ChoiceScripts ==
    [i \in DOMAIN Tested |->
        LET t == Tested[i]
        IN Script(<<Assign(X, Ternary(t, Num(1), Num(2))), Assign(Y, Coalesce(t, Num(3))),
                    Assign(Z, Tuple(<<Coalesce(Id("null"), Coalesce(t, t)),
                                      Ternary(t, Ternary(t, Num(1), Num(2)), Ternary(t, Num(3), Num(4)))>>))>>)]

\* Elements and keys.
Table == Ha(<<<<Num(1), Str("a")>>, <<Str("k"), Num(2)>>, <<Num(1), Str("b")>>, <<Id("null")>>>>)
Keys == <<Num(1), Num(2), Str("k"), Sub(Table, <<Num(1)>>), Sub(Table, <<Str("k")>>), Id("unknown")>>
SubscriptScripts ==
    [i \in DOMAIN Keys |-> Script(<<Assign(X, Table), Assign(Y, Sub(X, <<Keys[i]>>)),
                                    Assign(Z, Sub(Ha(<<<<Y, X>>>>), <<Y>>))>>)]
    \o [i \in 1..5 |-> Script(<<Assign(X, Str("ab")), Assign(Y, Sub(X, <<Num(i - 2)>>))>>)]
    \o [i \in 1..4 |->
          Script(<<Assign(X, Data(Digit(<<Id("list"), Id("tuple"), Id("hash"), Id("exception")>>, i),
                                  <<<<Num(1), Num(2)>>, <<Tuple(<<Num(3), Str("s")>>)>>, <<Ls(Numbers(3))>>>>))>>)]
    \o [i \in 1..6 |->
          Script(<<Assign(X, Sub(Digit(<<Ls(Numbers(2)), Table, Num(1)>>, i),
                                 SubSeq(<<Num(0), Num(1)>>, 1, 1 + i \div 4)))>>)]
    \o <<Script(<<Assign(X, Data(Num(1), <<>>))>>), Script(<<Assign(X, Data(Id("typeException"), <<>>))>>),
         Script(<<Assign(X, Data(Id("null"), <<>>))>>),
         Script(<<Attempt(Assign(X, Sub(Ls(Numbers(1)), <<Num(0)>>)))>>),
         Condition(Ls(<<Send(Id("A"), "no", <<>>)>>)),
         Condition(Sub(Table, <<Send(Id("A"), "no", <<>>)>>))>>

\* A subscript in a tuple that is assigned to; A has a __set, that throws or not.
Setter(body) == Class("A", "", <<Method("__set", <<Param("", "v", Null)>>, body)>>)
SetterScripts ==
    [i \in 1..2 |->
        Script(<<Assign(X, Table), Assign(Digit(<<Tuple(<<Y, Sub(X, <<Num(0)>>)>>), Tuple(<<Sub(X, <<Num(0)>>), Y>>)>>, i),
                                          Tuple(Numbers(2)))>>)]
    \o [i \in 1..4 |->
          Script(<<Setter(Digit(<<<<>>, <<Expr(Id("unknown"))>>>>, i)), Assign(X, New("A")),
                   Assign(Digit(<<Tuple(<<Y, Sub(X, <<Num(0)>>)>>), Tuple(<<Sub(X, <<Num(0)>>), Y>>)>>, i \div 2),
                          Tuple(Numbers(2)))>>)]

\* Methods of the three classes.
Asked == <<"length", "get", "has">>
MethodScripts ==
    [i \in 1..36 |->
        Script(<<Attempt(Assign(X, Send(Digit(<<Ls(Numbers(2)), Tuple(Numbers(2)), Table>>, i), Digit(Asked, i \div 3),
                                        Digit(<<<<>>, <<Num(1)>>, <<Num(5)>>, <<Str("k"), Num(0)>>>>, i \div 9))))>>)]

DataScripts == TupleScripts \o AssignmentScripts \o ChoiceScripts \o SubscriptScripts \o SetterScripts \o MethodScripts

Menu == ArgumentScripts \o AttributeScripts \o ExceptionScripts \o OtherExceptionScripts
        \o StackScripts \o CallScripts \o OperatorScripts \o ImportScripts \o DataScripts
        \o <<Parents("A"), Parents("B"), Parents("C")>>
=============================================================================
