----------------------------- MODULE Compiler ------------------------------
(***************************************************************************)
(* The statements of the language and the code the compiler makes of them: *)
(* __ast_walker() of components/compiler/ast_to_asm.c, and the resolution  *)
(* of labels in components/compiler/output/asm.c.                          *)
(*                                                                         *)
(* A statement or an expression is a record whose t names its kind.  Every *)
(* call, comparison and iteration has a number of its own, by which the    *)
(* environment's answers to it are known.                                  *)
(***************************************************************************)
EXTENDS Integers, Sequences

\* Expressions: a value, a call, a comparison, && and ||, ?: and ??.
Value == [t |-> "value"]
Call(n) == [t |-> "call", n |-> n]
Test(n) == [t |-> "test", n |-> n]
And(a, b) == [t |-> "and", a |-> a, b |-> b]
Or(a, b) == [t |-> "or", a |-> a, b |-> b]
Ternary(c, a, b) == [t |-> "ternary", c |-> c, a |-> a, b |-> b]
Coalesce(n, b) == [t |-> "coalesce", n |-> n, b |-> b]

\* Statements.  An else clause is a sequence of no or one statement.
Nop == [t |-> "nop"]
Assign(e) == [t |-> "assign", e |-> e]              \* x = a + e
ThrowStmt(v) == [t |-> "throw", v |-> v]
ReturnStmt == [t |-> "return"]
BreakStmt == [t |-> "break"]
BreakElseStmt == [t |-> "breakelse"]
ContinueStmt == [t |-> "continue"]
Seq2(a, b) == [t |-> "seq", a |-> a, b |-> b]
If(c, a, b) == [t |-> "if", c |-> c, a |-> a, b |-> b]
While(c, body, else) == [t |-> "while", c |-> c, body |-> body, else |-> else]
Do(c, body) == [t |-> "do", c |-> c, body |-> body]
For(c, body, inc) == [t |-> "for", c |-> c, body |-> body, inc |-> inc]
\* vars: 1 for the value, 2 with the key, 3 with the meta data
Foreach(n, vars, body, else) ==
    [t |-> "foreach", n |-> n, vars |-> vars, body |-> body, else |-> else]
\* items: Case(n, body), and at most one Default(body)
Switch(items) == [t |-> "switch", items |-> items]
Case(n, body) == [n |-> n, body |-> body]
Default(body) == [n |-> 0, body |-> body]
\* catches: a sequence of <<class, body>>
Try(body, catches, finally) ==
    [t |-> "try", body |-> body, catches |-> catches, finally |-> finally]

IsDefault(item) == item.n = 0
\* Where a switch goes when no case matches, and on a breakelse.
DefaultOf(s) ==
    IF \E k \in DOMAIN s.items : IsDefault(s.items[k])
    THEN CHOOSE k \in DOMAIN s.items : IsDefault(s.items[k])
    ELSE Len(s.items) + 1
-----------------------------------------------------------------------------
(* The walker's state: the code so far, labels included, the counter that  *)
(* makes labels unique, and the label a continue goes to for each open     *)
(* block (state->blocks, state->block_cnt).                                *)

Start == [code |-> <<>>, cnt |-> 0, blocks |-> <<>>]

\* An instruction with a data operand, with operands that are labels of
\* construct c, and a label line.  Numbered labels are of a list's k-th item.
I(op, arg) == [op |-> op, arg |-> arg, to |-> <<>>]
J(op, names, c) == [op |-> op, arg |-> 0, to |-> [k \in DOMAIN names |-> <<names[k], c>>]]
L(name, c) == [op |-> "label", arg |-> <<name, c>>, to |-> <<>>]
JItem(op, name, c, k) == [op |-> op, arg |-> 0, to |-> <<<<name, c, k>>>>]
LItem(name, c, k) == [op |-> "label", arg |-> <<name, c, k>>, to |-> <<>>]
PopTops(n) == [k \in 1 .. n |-> I("POP_TOP", 0)]
LoadValue == I("LOAD", <<"object">>)

Emit(st, lines) == [st EXCEPT !.code = @ \o lines]
Count(st) == [st EXCEPT !.cnt = @ + 1]
Open(st, label) == [st EXCEPT !.blocks = Append(@, label)]
Close(st) == [st EXCEPT !.blocks = SubSeq(@, 1, Len(@) - 1)]

RECURSIVE Walk(_, _)

\* && and ||: the left operand is the result, or makes way for the right one.
WalkBool(S, e, c, jump) ==
    LET left == Emit(Walk(S, e.a), <<J(jump, <<"end">>, c), I("POP_TOP", 0)>>)
    IN Emit(Walk(left, e.b), <<L("end", c)>>)

\* if and ?:
WalkIf(S, s, c) ==
    LET test == Emit(Walk(S, s.c), <<J("JUMP_IF_FALSE", <<"else">>, c), I("POP_TOP", 0)>>)
        then == Emit(Walk(test, s.a),
                     <<J("JUMP", <<"end">>, c), L("else", c), I("POP_TOP", 0)>>)
    IN Emit(Walk(then, s.b), <<J("JUMP", <<"end">>, c), L("end", c)>>)

WalkCoalesce(S, e, c) ==
    LET left == Emit(S, <<LoadValue, I("DUP_TOP", 0),
                          [J("JUMP_IF_FALSE", <<"default">>, c) EXCEPT !.arg = e.n],
                          I("POP_TOP", 0), J("JUMP", <<"end">>, c),
                          L("default", c), I("POP_TOP", 0), I("POP_TOP", 0)>>)
    IN Emit(Walk(left, e.b), <<J("JUMP", <<"end">>, c), L("end", c)>>)

\* A call has its list of further arguments and its callable on the stack.
WalkCall(st, e) == Emit(st, <<LoadValue, LoadValue, I("CALL", e.n)>>)

WalkAssign(st, s) ==
    Emit(Walk(Emit(st, <<LoadValue>>), s.e), <<I("OPERATOR", 0), I("STORE_ID", "x")>>)

\* A loop with an else clause: where a break and a breakelse go, the clause, run
\* when the first test fails, with what the test pushed popped first.
SetupLine(s, c) == J("SETUP_LOOP", IF s.else = <<>> THEN <<"end">> ELSE <<"end", "else">>, c)
FirstTest(s, c) ==
    IF s.else = <<>> THEN <<>> ELSE <<J("JUMP_IF_FIRST_FALSE", <<"pre_else">>, c)>>
WalkElse(st, s, c, n) ==
    IF s.else = <<>> THEN st
    ELSE Emit(Walk(Emit(st, <<L("pre_else", c)>> \o PopTops(n) \o <<L("else", c)>>), s.else[1]),
              <<J("JUMP", <<"end">>, c)>>)

\* The end of every loop: leaving at pre_end pops the n values of the last test.
LoopEnd(c, n) == <<L("pre_end", c)>> \o PopTops(n) \o <<L("end", c), I("POP_BLOCK", 0)>>

WalkWhile(S, s, c) ==
    LET head == Emit(Open(S, <<"loop", c>>), <<SetupLine(s, c), L("loop", c)>>)
        test == Emit(Walk(head, s.c), FirstTest(s, c) \o
                     <<J("JUMP_IF_FALSE", <<"pre_end">>, c), I("POP_TOP", 0)>>)
        body == Emit(Walk(test, s.body), <<J("JUMP", <<"loop">>, c)>>)
    IN Close(Emit(WalkElse(body, s, c, 1), LoopEnd(c, 1)))

WalkDo(S, s, c) ==
    LET head == Emit(Open(S, <<"cmp", c>>), <<J("SETUP_LOOP", <<"end">>, c), L("loop", c)>>)
        test == Walk(Emit(Walk(head, s.body), <<L("cmp", c)>>), s.c)
        again == Emit(test, <<J("JUMP_IF_FALSE", <<"pre_end">>, c), I("POP_TOP", 0),
                              J("JUMP", <<"loop">>, c)>>)
    IN Close(Emit(again, LoopEnd(c, 1)))

WalkFor(S, s, c) ==
    LET head == Emit(Open(S, <<"inc", c>>), <<J("SETUP_LOOP", <<"end">>, c), L("test", c)>>)
        test == Emit(Walk(head, s.c), <<J("JUMP_IF_FALSE", <<"pre_end">>, c), I("POP_TOP", 0)>>)
        body == Emit(Walk(test, s.body), <<L("inc", c)>>)
        inc == Emit(Walk(body, s.inc), <<J("JUMP", <<"test">>, c)>>)
    IN Close(Emit(inc, LoopEnd(c, 1)))

WalkForeach(S, s, c) ==
    LET stores == [k \in 1 .. s.vars |-> I("STORE_ID", "x")]
        fetch == [op |-> "ITER_FETCH", arg |-> s.n, vars |-> s.vars, to |-> <<>>]
        head == Emit(Open(S, <<"loop", c>>),
                     <<LoadValue, I("ITER_RESET", 0), SetupLine(s, c), L("loop", c),
                       I("DUP_TOP", 0), fetch>> \o FirstTest(s, c) \o
                     <<J("JUMP_IF_FALSE", <<"pre_end">>, c), I("POP_TOP", 0)>> \o stores)
        body == Emit(Walk(head, s.body), <<J("JUMP", <<"loop">>, c)>>)
    IN Close(Emit(WalkElse(body, s, c, s.vars + 1), LoopEnd(c, s.vars + 1)))

\* The tests and the bodies of a switch's items, in one list: a failing test
\* goes on at the next item's "pre", a body falls through to the next body.
RECURSIVE WalkItems(_, _, _, _)
WalkItems(st, items, c, k) ==
    IF k > Len(items) THEN st ELSE
    LET item == items[k]
        test == IF IsDefault(item)
                THEN (IF k = 1 THEN <<I("DUP_TOP", 0)>> ELSE <<>>) \o
                     <<JItem("JUMP", "pre", c, k + 1), L("default", c)>>
                ELSE (IF k = 1 THEN <<>> ELSE <<I("POP_TOP", 0)>>) \o
                     <<I("DUP_TOP", 0), LoadValue, I("COMPARE", item.n),
                       JItem("JUMP_IF_FALSE", "pre", c, k + 1), I("POP_TOP", 0)>>
        head == Emit(st, <<LItem("pre", c, k)>> \o test \o <<LItem("body", c, k)>>)
        body == Emit(Walk(head, item.body), <<JItem("JUMP", "body", c, k + 1)>>)
    IN WalkItems(body, items, c, k + 1)

\* The block is opened with no label of its own, and never closed.
WalkSwitch(S, s, c) ==
    LET last == Len(s.items) + 1
        head == Emit(Open(S, <<"unset", c>>),
                     <<LoadValue, J("SETUP_LOOP", <<"end", "default">>, c)>>)
        items == Emit(WalkItems(head, s.items, c, 1),
                      <<LItem("pre", c, last), I("POP_TOP", 0), J("JUMP", <<"default">>, c),
                        LItem("body", c, last)>>)
        end == <<L("end", c), I("POP_BLOCK", 0), I("POP_TOP", 0)>>
    IN Emit(items, IF DefaultOf(s) = last THEN <<L("default", c)>> \o end ELSE end)

\* One catch after the other: the exception is kept under its copy until a
\* class matches.
RECURSIVE WalkCatches(_, _, _, _)
WalkCatches(st, catches, c, k) ==
    IF k > Len(catches) THEN st ELSE
    LET test == Emit(st, (IF k = 1 THEN <<>> ELSE <<I("POP_TOP", 0)>>) \o
                    <<I("DUP_TOP", 0), I("LOAD", <<"class", catches[k][1]>>), I("COMPARE_EX", 0),
                      JItem("JUMP_IF_FALSE", "nomatch", c, k),
                      I("POP_TOP", 0), I("STORE_ID", "e")>>)
        body == Emit(Walk(test, catches[k][2]),
                     <<J("JUMP", <<"finally">>, c), LItem("nomatch", c, k)>>)
    IN WalkCatches(body, catches, c, k + 1)

WalkTry(S, s, c) ==
    LET setup == Emit(S, <<J("SETUP_EXCEPT", <<"catch", "finally", "end_finally">>, c)>>)
        body == Emit(Walk(setup, s.body), <<J("JUMP", <<"finally">>, c), L("catch", c)>>)
        catches == Emit(WalkCatches(body, s.catches, c, 1),
                        <<I("POP_TOP", 0), J("JUMP", <<"finally">>, c), L("finally", c)>>)
    IN Emit(Walk(catches, s.finally), <<L("end_finally", c), I("END_FINALLY", 0)>>)

Walk(st, s) ==
    LET c == st.cnt + 1
        S == Count(st)
    IN
    CASE s.t = "nop" -> st
      [] s.t = "value" -> Emit(st, <<LoadValue>>)
      [] s.t = "call" -> WalkCall(st, s)
      [] s.t = "test" -> Emit(st, <<LoadValue, LoadValue, I("COMPARE", s.n)>>)
      [] s.t = "and" -> WalkBool(S, s, c, "JUMP_IF_FALSE")
      [] s.t = "or" -> WalkBool(S, s, c, "JUMP_IF_TRUE")
      [] s.t = "coalesce" -> WalkCoalesce(S, s, c)
      [] s.t = "assign" -> WalkAssign(st, s)
      [] s.t = "throw" -> Emit(st, <<I("LOAD", s.v), I("THROW", 0)>>)
      [] s.t = "return" -> Emit(st, <<LoadValue, I("RETURN", 0)>>)
      [] s.t = "break" -> Emit(st, <<I("BREAK_LOOP", 0)>>)
      [] s.t = "breakelse" -> Emit(st, <<I("BREAKELSE_LOOP", 0)>>)
      [] s.t = "continue" ->
            Emit(st, <<[I("CONTINUE_LOOP", 0) EXCEPT !.to = <<st.blocks[Len(st.blocks)]>>]>>)
      [] s.t = "seq" -> Walk(Walk(st, s.a), s.b)
      [] s.t \in {"if", "ternary"} -> WalkIf(S, s, c)
      [] s.t = "while" -> WalkWhile(S, s, c)
      [] s.t = "do" -> WalkDo(S, s, c)
      [] s.t = "for" -> WalkFor(S, s, c)
      [] s.t = "foreach" -> WalkForeach(S, s, c)
      [] s.t = "switch" -> WalkSwitch(S, s, c)
      [] s.t = "try" -> WalkTry(S, s, c)
-----------------------------------------------------------------------------
\* _ast_to_frame: a last "return" is added to every frame.
Lines(s) == Emit(Walk(Start, s), <<LoadValue, I("RETURN", 0)>>).code

IsLabel(line) == line.op = "label"

\* Mutant: label lines are counted as instructions.
AddressOfLine(lines, label) ==
    CHOOSE k \in 1 .. Len(lines) : IsLabel(lines[k]) /\ lines[k].arg = label

\* The address of a label: the instruction that follows it.
AddressOf(lines, label) ==
    LET at == CHOOSE k \in 1 .. Len(lines) : IsLabel(lines[k]) /\ lines[k].arg = label
    IN 1 + Len(SelectSeq(SubSeq(lines, 1, at), LAMBDA x : ~IsLabel(x)))

\* assemble_frame, _backpatch_labels
Assemble(lines) ==
    LET ins == SelectSeq(lines, LAMBDA x : ~IsLabel(x))
    IN [k \in 1 .. Len(ins) |->
          [ins[k] EXCEPT !.to = [j \in 1 .. Len(@) |-> AddressOf(lines, @[j])]]]

Compile(s) == Assemble(Lines(s))
=============================================================================
