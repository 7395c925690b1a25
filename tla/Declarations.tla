---------------------------- MODULE Declarations ----------------------------
(***************************************************************************)
(* What compiler/ast_to_asm.c makes of imports, classes, calls and try     *)
(* statements.  A tree is nested records with a kind k; a file is a        *)
(* sequence of statements.  It compiles to the code of its main frame and  *)
(* that of every method: _ast_to_frame() calls the frame of attribute j of *)
(* statement i "frame_NNN", here <<i, j>>, and the main frame <<>>.        *)
(*                                                                         *)
(* An instruction is a record with an op and its operands; jumps count     *)
(* from the instruction that follows.                                      *)
(***************************************************************************)
EXTENDS Integers, Sequences, SequencesExt

(* Trees.                                                                  *)
Num(n) == [k |-> "num", n |-> n]
Str(s) == [k |-> "str", s |-> s]
Id(x) == [k |-> "id", id |-> x]
Null == Id("null")
Attr(e, name) == [k |-> "attr", of |-> e, name |-> name]
CallAll(e, args, rest) == [k |-> "call", fn |-> e, args |-> args, rest |-> rest]
Call(e, args) == CallAll(e, args, Null)
Opr(o, l, r) == [k |-> "opr", opr |-> o, l |-> l, r |-> r]
Cmp(c, l, r) == [k |-> "cmp", cmp |-> c, l |-> l, r |-> r]
And(l, r) == [k |-> "bool", op |-> "JUMP_IF_FALSE", l |-> l, r |-> r]
Or(l, r) == [k |-> "bool", op |-> "JUMP_IF_TRUE", l |-> l, r |-> r]
Ternary(c, l, r) == [k |-> "ternary", cond |-> c, l |-> l, r |-> r]
Coalesce(l, r) == [k |-> "coalesce", l |-> l, r |-> r]
Tuple(items) == [k |-> "tuple", items |-> items]
\* class[[a : b, c]] has the elements <<a, b>> and <<c>>; e[], e[n] and e[n..m] have
\* 0, 1 and 2 keys.
Data(e, elements) == [k |-> "data", of |-> e, elements |-> elements]
Sub(e, keys) == [k |-> "sub", of |-> e, keys |-> keys]
Expr(e) == [k |-> "expr", e |-> e]
\* An assignment can be the right side of another one.
AssignOp(op, to, e) == [k |-> "assign", op |-> op, to |-> to, e |-> e]
Assign(to, e) == AssignOp("", to, e)
If(c, then, else) == [k |-> "if", cond |-> c, then |-> then, else |-> else]
Return(e) == [k |-> "return", e |-> e]
Throw(e) == [k |-> "throw", e |-> e]
Catch(c, x, body) == [class |-> c, id |-> x, body |-> body]
Try(body, catches, finally) ==
    [k |-> "try", body |-> body, catches |-> catches, finally |-> finally]
\* A qualified name is its components: "a::B" is <<"a", "B">>, "::B" <<"", "B">>.
Import(class, as, from) == [k |-> "import", class |-> class, as |-> as, from |-> from]
Param(hint, name, default) == [hint |-> hint, name |-> name, default |-> default]
Const(name, e) == [type |-> "constant", name |-> name, value |-> e]
Prop(name, e) == [type |-> "property", name |-> name, value |-> e]
MethodAttr(static, name, params, body) ==
    [type |-> "method", name |-> name, static |-> static, params |-> params, body |-> body]
Method(name, params, body) == MethodAttr(FALSE, name, params, body)
Static(name, params, body) == MethodAttr(TRUE, name, params, body)
Class(name, extends, attrs) ==
    [k |-> "class", name |-> name, extends |-> extends, attrs |-> attrs]

-----------------------------------------------------------------------------
(* Instructions.                                                           *)
I(op) == [op |-> op]
LoadConst(v) == [op |-> "LOAD_CONST", const |-> v]
LoadId(x) == [op |-> "LOAD_ID", id |-> x]
Name(x) == [op |-> "LOAD_CONST", const |-> [k |-> "name", name |-> x]]
Jump(op, to) == [op |-> op, to |-> to]

RECURSIVE ExprCode(_, _), StmtCode(_, _), BlockCode(_), TargetCode(_, _), AssignmentCode(_, _, _)

\* A call whose result is not needed is followed by POP_TOP; stay says that it
\* is: call_state has st_call_stay on top.  Only an argument, an operand of a
\* comparison, the right side of an assignment, and what is returned or thrown
\* push that, whatever it is a part of.
PropertyCode(e, stay) ==
    LET parent == e.of = Id("parent")
    IN ExprCode(IF parent THEN Id("self") ELSE e.of, stay)
       \o <<[op |-> "LOAD_ATTRIB", name |-> e.name, scope |-> IF parent THEN "parent" ELSE "self"]>>

AllCode(es, stay) == FlattenSeq([i \in DOMAIN es |-> ExprCode(es[i], stay)])

\* Mutant for StackFits: no result is popped.
CallCodeUnpopped(e, stay) ==
    AllCode(e.args, TRUE) \o ExprCode(e.rest, TRUE) \o ExprCode(e.fn, stay)
    \o <<[op |-> "CALL", argc |-> Len(e.args)]>>

CallCode(e, stay) ==
    AllCode(e.args, TRUE) \o ExprCode(e.rest, TRUE) \o ExprCode(e.fn, stay)
    \o <<[op |-> "CALL", argc |-> Len(e.args)]>>
    \o IF stay THEN <<>> ELSE <<I("POP_TOP")>>

OperatorCode(e, stay) ==
    ExprCode(e.l, stay) \o ExprCode(e.r, stay) \o <<[op |-> "OPERATOR", opr |-> e.opr]>>

ComparisonCode(e) ==
    ExprCode(e.r, TRUE) \o ExprCode(e.l, TRUE) \o <<[op |-> "COMPARE_OP", cmp |-> e.cmp]>>

BoolCode(e, stay) ==
    LET r == <<I("POP_TOP")>> \o ExprCode(e.r, stay)
    IN ExprCode(e.l, stay) \o <<Jump(e.op, Len(r))>> \o r

TernaryCode(e, stay) ==
    LET r == <<I("POP_TOP")>> \o ExprCode(e.r, stay) \o <<Jump("JUMP", 0)>>
        l == <<I("POP_TOP")>> \o ExprCode(e.l, stay) \o <<Jump("JUMP", Len(r))>>
    IN ExprCode(e.cond, stay) \o <<Jump("JUMP_IF_FALSE", Len(l))>> \o l \o r

\* The left side, unless it counts as false.
CoalesceCode(e, stay) ==
    LET default == <<I("POP_TOP"), I("POP_TOP")>> \o ExprCode(e.r, stay) \o <<Jump("JUMP", 0)>>
        given == <<I("POP_TOP"), Jump("JUMP", Len(default))>>
    IN ExprCode(e.l, stay) \o <<I("DUP_TOP"), Jump("JUMP_IF_FALSE", Len(given))>> \o given \o default

TupleCode(e, stay) ==
    AllCode(e.items, stay) \o <<[op |-> "PACK_TUPLE", n |-> Len(e.items)]>>

\* The last element is pushed first.  (An assignment that is an element is left
\* out: it pushes nothing.)
DataCode(e, stay) ==
    LET all == FlattenSeq(e.elements)
    IN AllCode(Reverse(all), stay) \o ExprCode(e.of, stay) \o <<[op |-> "BUILD_DATASTRUCT", n |-> Len(all)]>>

SubscriptCode(e, stay, op) ==
    AllCode(e.keys, stay) \o ExprCode(e.of, stay) \o <<[op |-> op, n |-> Len(e.keys)]>>

ExprCode(e, stay) ==
    CASE e.k \in {"num", "str"} -> <<LoadConst(e)>>
      [] e.k = "id" -> <<LoadId(e.id)>>
      [] e.k = "attr" -> PropertyCode(e, stay)
      [] e.k = "call" -> CallCode(e, stay)
      [] e.k = "opr" -> OperatorCode(e, stay)
      [] e.k = "cmp" -> ComparisonCode(e)
      [] e.k = "bool" -> BoolCode(e, stay)
      [] e.k = "ternary" -> TernaryCode(e, stay)
      [] e.k = "coalesce" -> CoalesceCode(e, stay)
      [] e.k = "tuple" -> TupleCode(e, stay)
      [] e.k = "data" -> DataCode(e, stay)
      [] e.k = "sub" -> SubscriptCode(e, stay, "LOAD_SUBSCRIPT")

\* In a store context.  The parser refuses a subscript, but not one in a tuple.
TargetCode(t, stay) ==
    CASE t.k = "id" -> <<[op |-> "STORE_ID", id |-> t.id]>>
      [] t.k = "attr" -> ExprCode(t.of, stay) \o <<[op |-> "STORE_ATTRIB", name |-> t.name]>>
      [] t.k = "tuple" ->
           <<[op |-> "UNPACK_TUPLE", n |-> Len(t.items)]>>
           \o FlattenSeq([i \in DOMAIN t.items |-> TargetCode(Reverse(t.items)[i], stay)])
      [] t.k = "sub" -> SubscriptCode(t, stay, "STORE_SUBSCRIPT")

\* inner says that it is the right side of another one.  (The counter that tells
\* how many assignments have to leave their value, multi_assignment, is 0 at the
\* outermost.)
AssignmentCode(s, stay, inner) ==
    (IF s.op = "" THEN <<>> ELSE ExprCode(s.to, stay))
    \o (IF s.e.k = "assign" THEN AssignmentCode(s.e, TRUE, TRUE) ELSE ExprCode(s.e, TRUE))
    \o (IF s.op = "" THEN <<>> ELSE <<[op |-> "OPERATOR", opr |-> s.op]>>)
    \o (IF inner THEN <<I("DUP_TOP")>> ELSE <<>>)
    \o TargetCode(s.to, stay)

IfCode(s) ==
    LET else == <<I("POP_TOP")>> \o BlockCode(s.else)
        then == <<I("POP_TOP")>> \o BlockCode(s.then) \o <<Jump("JUMP", Len(else))>>
    IN ExprCode(s.cond, FALSE) \o <<Jump("JUMP_IF_FALSE", Len(then))>> \o then \o else

ImportCode(s) ==
    <<Name(s.class), Name(s.from), I("IMPORT"), [op |-> "STORE_FRAME_ID", id |-> s.as]>>

\* The type hint, the name and the default value of every parameter, the last
\* parameter first; no hint and no default are null.
ParameterCode(params) ==
    FlattenSeq([i \in DOMAIN params |->
        LET a == params[Len(params) + 1 - i]
        IN <<IF a.hint = "" THEN LoadId("null") ELSE Name(a.hint), Name(a.name)>>
           \o ExprCode(a.default, FALSE)])

\* (Visibility goes with the attribute too, but vm.c never refuses for it.)
AttributeCode(a, label) ==
    (IF a.type = "method"
     THEN ParameterCode(a.params)
          \o <<LoadConst([k |-> "flags", static |-> a.static]),
               LoadConst([k |-> "code", label |-> label])>>
     ELSE ExprCode(a.value, FALSE))
    \o <<LoadConst([k |-> "access", ro |-> a.type # "property"]),
         [op |-> "BUILD_ATTRIB", type |-> a.type, argc |-> IF a.type = "method" THEN Len(a.params) ELSE 0],
         Name(a.name)>>

ClassCode(c, i) ==
    FlattenSeq([j \in DOMAIN c.attrs |-> AttributeCode(c.attrs[j], <<i, j>>)])
    \o <<Name(c.name), IF c.extends = "" THEN LoadId("null") ELSE Name(c.extends),
         [op |-> "BUILD_CLASS", attributes |-> Len(c.attrs)],
         [op |-> "STORE_FRAME_ID", id |-> c.name]>>

\* One catch: the exception is on the stack, and again below it for the next.
CatchCode(c, first, after) ==
    LET body == <<I("POP_TOP"), [op |-> "STORE_ID", id |-> c.id]>> \o BlockCode(c.body)
                \o <<Jump("JUMP", after)>>
    IN (IF first THEN <<>> ELSE <<I("POP_TOP")>>)
       \o <<I("DUP_TOP"), LoadId(c.class), [op |-> "COMPARE_OP", cmp |-> "ex"],
            Jump("JUMP_IF_FALSE", Len(body))>> \o body

RECURSIVE CatchesCode(_, _)
CatchesCode(catches, first) ==
    IF catches = <<>> THEN <<I("POP_TOP"), Jump("JUMP", 0)>>
    ELSE LET rest == CatchesCode(Tail(catches), FALSE)
         IN CatchCode(catches[1], first, Len(rest)) \o rest

TryCode(s) ==
    LET catches == CatchesCode(s.catches, TRUE)
        try == BlockCode(s.body) \o <<Jump("JUMP", Len(catches))>>
        finally == BlockCode(s.finally)
    IN <<[op |-> "SETUP_EXCEPT", catch |-> Len(try), finally |-> Len(try \o catches),
          end |-> Len(try \o catches \o finally)]>>
       \o try \o catches \o finally \o <<I("END_FINALLY")>>

StmtCode(s, i) ==
    CASE s.k = "expr" -> ExprCode(s.e, FALSE)
      [] s.k = "assign" -> AssignmentCode(s, FALSE, FALSE)
      [] s.k = "if" -> IfCode(s)
      [] s.k = "try" -> TryCode(s)
      [] s.k = "return" -> ExprCode(s.e, TRUE) \o <<I("RETURN")>>
      [] s.k = "throw" -> ExprCode(s.e, TRUE) \o <<I("THROW")>>
      [] s.k = "import" -> ImportCode(s)
      [] s.k = "class" -> ClassCode(s, i)

BlockCode(b) == FlattenSeq([i \in DOMAIN b |-> StmtCode(b[i], i)])

\* The frames of a file.  What falls off the end of a method returns self, what
\* falls off the end of main 0.
Labels(file) ==
    {<<>>} \cup UNION {{<<i, j>> : j \in {j \in DOMAIN file[i].attrs : file[i].attrs[j].type = "method"}} :
                       i \in {i \in DOMAIN file : file[i].k = "class"}}
MethodAt(file, label) == file[label[1]].attrs[label[2]]
ast_to_asm(file) ==
    [label \in Labels(file) |->
        IF label = <<>> THEN BlockCode(file) \o <<LoadConst(Num(0)), I("RETURN")>>
        ELSE BlockCode(MethodAt(file, label).body) \o <<LoadId("self"), I("RETURN")>>]

=============================================================================
