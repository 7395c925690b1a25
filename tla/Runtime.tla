------------------------------ MODULE Runtime -------------------------------
(***************************************************************************)
(* A whole run of a script: frames that call each other, imports and the   *)
(* files they execute, classes, exceptions across frames, and the exit     *)
(* code (components/vm/vm.c, import.c, context.c, stackframe.c, thread.c). *)
(* Frame.tla has loops and the block stack of one frame in full; here a    *)
(* frame's only blocks are those of try statements.                        *)
(*                                                                         *)
(* ctl says what the C code is in the middle of: _vm_execute dispatching   *)
(* ("run") or at block_end ("unwind"), _object_call_callable_with_args     *)
(* ("call"), or a C function going on with the value another has returned  *)
(* to it ("return").  The virtual machine calls itself for every frame, so *)
(* that what remains to be done then is in the C stack: it is the field    *)
(* cont of ctl and of the called frame.                                    *)
(***************************************************************************)
EXTENDS Declarations, Objects

CONSTANTS
    Programs,        \* programs: a main file, and the files of the search path
    Sfl,             \* the files of sfl/, the last directory of that path
    MaxDepth         \* frames the C stack has room for

VARIABLES
    p,               \* the program
    code,            \* what it is compiled to
    heap,
    names,           \* frame_identifiers: every frame shares those of its parent
    builtins,
    cache,           \* frame_import_cache: the local_identifiers of imported frames
    exc,             \* the thread's exception: set and overwritten, never cleared
    frames,          \* the stack frames, the running one last
    ctl

vars == <<p, code, heap, names, builtins, cache, exc, frames, ctl>>
script == <<p, code>>
tables == <<names, builtins, cache>>

\* REASON_*
RETURN == 1
EXCEPTION == 5
RERAISE == 6
FINALLY == 7

\* The code of every file: that of main, and of the search directories by number
\* and path.
Compiled(root) == [path \in DOMAIN root |-> ast_to_asm(root[path])]
Compile(q) ==
    [main |-> ast_to_asm(q.main),
     roots |-> [r \in DOMAIN q.roots |-> Compiled(q.roots[r])] \o <<Compiled(Sfl)>>]

\* A code frame's context: its file and the key it was imported by.
MainUnit == [root |-> 0, path |-> <<>>, key |-> <<"", "">>]
CodeOf(f) == IF f.unit.root = 0 THEN code.main[f.label]
             ELSE code.roots[f.unit.root][f.unit.path][f.label]

\* vm_stackframe_new.  The variable stack has its top first, and so has the stack
\* of blocks; ret is the return value _vm_execute() has so far.
vm_stackframe_new(unit, label, locals, cont) ==
    [unit |-> unit, label |-> label, ip |-> 1, stack |-> <<>>, blocks |-> <<>>,
     ret |-> NULL, locals |-> locals, cont |-> cont]

F == frames[Len(frames)]
Caller == SubSeq(frames, 1, Len(frames) - 1)
Ins == CodeOf(F)[F.ip]
Running == [at |-> "run"]
Unwind(reason) == [at |-> "unwind", reason |-> reason]
Given(v, cont) == [at |-> "return", v |-> v, cont |-> cont]
Push == [k |-> "push"]

Top(f) == Append(Caller, f)
\* vm_frame_stack_pop: of an attribute, its value.
Value(v) == IF v.k = "attr" THEN v.attr.value ELSE v
Pop(i) == Value(F.stack[i])
Below(n) == SubSeq(F.stack, n + 1, Len(F.stack))
Step(n, pushed) == [F EXCEPT !.ip = @ + 1, !.stack = pushed \o Below(n)]

\* vm_frame_find_identifier
Lookup(locals, x) ==
    CASE x \in DOMAIN locals -> locals[x]
      [] x \notin DOMAIN locals /\ x \in DOMAIN names -> names[x]
      [] x \notin DOMAIN locals \cup DOMAIN names /\ x \in DOMAIN builtins -> builtins[x]
      [] OTHER -> NULL

\* A pop asks the object it takes what it is.
At(op, n) ==
    ctl.at = "run" /\ Ins.op = op /\ Len(F.stack) >= n /\ \A i \in 1..n : F.stack[i] # NULL

\* The instruction ends with n values popped and those of pushed pushed.
Go(n, pushed) == frames' = Top(Step(n, pushed)) /\ UNCHANGED ctl
\* thread_create_exception
Create(class) == heap' = Exception(heap, class) /\ exc' = ref(Len(heap) + 1)
Raise(n, class) ==
    /\ Create(class)
    /\ frames' = Top(Step(n, <<>>))
    /\ ctl' = Unwind(EXCEPTION)
\* A call in the middle of the instruction, which goes on as cont says.
Do(n, self, attr, args, cont) ==
    /\ frames' = Top(Step(n, <<>>))
    /\ ctl' = [at |-> "call", self |-> self, attr |-> attr, args |-> args, cont |-> cont]

-----------------------------------------------------------------------------
(* Instructions that call nothing.                                         *)

\* The constant of a method's code is a callable of this code frame.
LOAD_CONST ==
    /\ At("LOAD_CONST", 0)
    /\ LET c == Ins.const
       IN Go(0, <<IF c.k = "code" THEN [k |-> "code", label |-> c.label, unit |-> F.unit, params |-> <<>>]
                  ELSE c>>)
    /\ UNCHANGED <<script, heap, exc, tables>>

LOAD_ID ==
    /\ At("LOAD_ID", 0)
    /\ LET v == Lookup(F.locals, Ins.id)
       IN IF v = NULL THEN Raise(0, "AttributeException")
          ELSE Go(0, <<v>>) /\ UNCHANGED <<heap, exc>>
    /\ UNCHANGED <<script, tables>>

STORE_ID ==
    /\ At("STORE_ID", 1)
    /\ frames' = Top([Step(1, <<>>) EXCEPT !.locals = (Ins.id :> Pop(1)) @@ @])
    /\ UNCHANGED <<script, heap, exc, tables, ctl>>

\* Mutant for ImportsFirst: the last binding of a name wins.
STORE_FRAME_IDLast ==
    /\ At("STORE_FRAME_ID", 1)
    /\ names' = (Ins.id :> Pop(1)) @@ names
    /\ Go(1, <<>>)
    /\ UNCHANGED <<script, heap, exc, builtins, cache>>

\* vm_frame_set_frame_identifier: the first binding of a name stays.
STORE_FRAME_ID ==
    /\ At("STORE_FRAME_ID", 1)
    /\ names' = names @@ (Ins.id :> Pop(1))
    /\ Go(1, <<>>)
    /\ UNCHANGED <<script, heap, exc, builtins, cache>>

POP_TOP ==
    /\ At("POP_TOP", 1)
    /\ Go(1, <<>>)
    /\ UNCHANGED <<script, heap, exc, tables>>

DUP_TOP ==
    /\ At("DUP_TOP", 0) /\ F.stack # <<>>
    /\ Go(0, <<F.stack[1]>>)
    /\ UNCHANGED <<script, heap, exc, tables>>

\* Mutant for Terminates: the offset counts from the jump itself.
JUMPFromItself ==
    /\ At("JUMP", 0)
    /\ frames' = Top([F EXCEPT !.ip = @ + Ins.to])
    /\ UNCHANGED <<script, heap, exc, tables, ctl>>

JUMP ==
    /\ At("JUMP", 0)
    /\ frames' = Top([F EXCEPT !.ip = @ + 1 + Ins.to])
    /\ UNCHANGED <<script, heap, exc, tables, ctl>>

\* "parent" starts at the parent of the object, not of the class the method is in.
LOAD_ATTRIB ==
    /\ At("LOAD_ATTRIB", 1)
    /\ LET self == Pop(1)
           from == IF Ins.scope = "parent" THEN heap[Entry(self)].parent ELSE Entry(self)
           a == object_attrib_find(heap, from, Ins.name)
       IN \/ /\ a = NULL
             /\ Raise(1, "AttributeException")
          \/ /\ a # NULL
             /\ IsClass(heap, self) /\ ~a.static     \* _check_attribute_for_static_call
             /\ Raise(1, "CallableException")
          \/ /\ a # NULL
             /\ IsClass(heap, self) => a.static
             /\ Go(1, <<[k |-> "attr", attr |-> a, self |-> self]>>)
             /\ UNCHANGED <<heap, exc>>
    /\ UNCHANGED <<script, tables>>

\* Mutant for ReadOnlyKept: an attribute that is inherited is not looked for.
STORE_ATTRIBOwn ==
    /\ At("STORE_ATTRIB", 2)
    /\ LET to == Entry(Pop(1))
           own == Attributes(heap, to)
       IN IF Ins.name \in DOMAIN own /\ own[Ins.name].ro
          THEN Raise(1, "VisibilityException")
          ELSE /\ heap' = object_add_property(heap, to, Ins.name, Pop(2))
               /\ Go(2, <<>>)
               /\ UNCHANGED exc
    /\ UNCHANGED <<script, tables>>

STORE_ATTRIB ==
    /\ At("STORE_ATTRIB", 2)
    /\ LET to == Entry(Pop(1))
           a == object_attrib_find(heap, to, Ins.name)
       IN IF a # NULL /\ a.ro
          THEN Raise(1, "VisibilityException")
          ELSE /\ heap' = object_add_property(heap, to, Ins.name, Pop(2))
               /\ Go(2, <<>>)
               /\ UNCHANGED exc
    /\ UNCHANGED <<script, tables>>

\* The parameters come off the stack in the order they were declared in.
BUILD_ATTRIB ==
    /\ At("BUILD_ATTRIB", 2)
    /\ LET method == Ins.type = "method"
           params == [i \in 1..Ins.argc |->
                        [default |-> Pop(3 * i + 1), name |-> Pop(3 * i + 2).name, hint |-> Pop(3 * i + 3)]]
       IN Go(IF method THEN 3 + 3 * Ins.argc ELSE 2,
             <<[k |-> "attr", self |-> NULL,
                attr |-> attribute(Ins.type, Pop(1).ro, method /\ Pop(3).static,
                                   IF method THEN [Pop(2) EXCEPT !.params = params] ELSE Pop(2))]>>)
    /\ UNCHANGED <<script, heap, exc, tables>>

\* Of two attributes with one name the table keeps the one popped first.
BUILD_CLASS ==
    /\ At("BUILD_CLASS", 2 + 2 * Ins.attributes)
    /\ LET extends == Pop(1)
           parent == IF extends = null THEN ref(Id0["base"]) ELSE Lookup(F.locals, extends.name)
           named == [j \in 1..Ins.attributes |-> [name |-> Pop(1 + 2 * j).name, attr |-> F.stack[2 + 2 * j].attr]]
           attrs == [x \in {named[j].name : j \in DOMAIN named} |->
                        named[CHOOSE j \in DOMAIN named :
                                /\ named[j].name = x
                                /\ \A i \in 1..(j - 1) : named[i].name # x].attr]
       IN IF parent = NULL
          THEN Raise(1, "AttributeException")
          ELSE /\ heap' = vm_create_user_object(heap, Pop(2).name, Entry(parent), attrs)
               /\ Go(2 + 2 * Ins.attributes, <<ref(Len(heap) + 1)>>)
               /\ UNCHANGED exc
    /\ UNCHANGED <<script, tables>>

-----------------------------------------------------------------------------
(* Tuples and data structures.                                             *)

\* Mutant for DataAsWritten: the element popped first is the first one.
PACK_TUPLEForward ==
    /\ At("PACK_TUPLE", Ins.n)
    /\ Go(Ins.n, <<tuple([i \in 1..Ins.n |-> Pop(i)])>>)
    /\ UNCHANGED <<script, heap, exc, tables>>

PACK_TUPLE ==
    /\ At("PACK_TUPLE", Ins.n)
    /\ Go(Ins.n, <<tuple([i \in 1..Ins.n |-> Pop(Ins.n + 1 - i)])>>)
    /\ UNCHANGED <<script, heap, exc, tables>>

\* As many elements as there are targets, the last on top; null for those there are
\* not.  The class tuple is of the type too, and has no table of elements.
UNPACK_TUPLE ==
    /\ At("UNPACK_TUPLE", 1)
    /\ LET v == Pop(1)
       IN \/ /\ TypeOf(heap, v) # "tuple"
             /\ Raise(1, "TypeException")
          \/ /\ v.k = "tuple"
             /\ Go(1, [i \in 1..Ins.n |-> ElementAt(v.t, Ins.n - i)])
             /\ UNCHANGED <<heap, exc>>
          \/ /\ TypeOf(heap, v) = "tuple" /\ v.k # "tuple"
             /\ ctl' = [at |-> "crash"]
             /\ UNCHANGED <<heap, exc, frames>>
    /\ UNCHANGED <<script, tables>>

\* obj_populate of the three classes with that interface.
Collection(class, s) ==
    CASE class = Id0["list"] -> list(s)
      [] class = Id0["tuple"] -> tuple(s)
      [] class = Id0["hash"] -> hash([i \in 1..(Len(s) \div 2) |-> <<s[2 * i - 1], s[2 * i]>>])

BUILD_DATASTRUCT ==
    /\ At("BUILD_DATASTRUCT", 1)
    /\ LET class == Pop(1)
       IN \/ /\ ~IsClass(heap, class)
             /\ Raise(1, "CallException")
          \/ /\ IsClass(heap, class) /\ ~IsDatastructure(heap, class)
             /\ Raise(1, "InterfaceException")
          \/ /\ IsClass(heap, class) /\ IsDatastructure(heap, class)
             /\ IF Len(F.stack) > Ins.n
                THEN Go(1 + Ins.n, <<Collection(class.id, [i \in 1..Ins.n |-> Pop(1 + i)])>>)
                ELSE ctl' = [at |-> "fatal"] /\ UNCHANGED frames
             /\ UNCHANGED <<heap, exc>>
    /\ UNCHANGED <<script, tables>>

-----------------------------------------------------------------------------
(* Instructions that call methods.                                         *)

\* e[n] calls __get, e[n..m] __splice.  A list has neither: the first ends in no
\* value and no exception, the second in an exception.
LOAD_SUBSCRIPT ==
    /\ At("LOAD_SUBSCRIPT", 1)
    /\ LET self == Pop(1)
           splice == Ins.n = 2
           a == object_attrib_find(heap, Entry(self), IF splice THEN "__splice" ELSE "__get")
           keys == [i \in 1..Ins.n |-> Pop(2 + Ins.n - i)]
       IN \/ /\ ~IsIterator(heap, self)
             /\ Raise(1, "InterfaceException")
          \/ /\ IsIterator(heap, self) /\ Len(F.stack) <= Ins.n
             /\ ctl' = [at |-> "fatal"]
             /\ UNCHANGED <<heap, exc, frames>>
          \/ /\ IsIterator(heap, self) /\ Len(F.stack) > Ins.n
             /\ IF splice /\ a = NULL
                THEN Raise(1 + Ins.n, "AttributeException")
                ELSE Do(1 + Ins.n, self, a, keys, Push) /\ UNCHANGED <<heap, exc>>
    /\ UNCHANGED <<script, tables>>

\* It pops one key, however many were pushed, and leaves the value; what __set
\* returns is pushed, also when there is none.
STORE_SUBSCRIPT ==
    /\ At("STORE_SUBSCRIPT", 2)
    /\ LET self == Pop(1)
       IN Do(2, self, object_attrib_find(heap, Entry(self), "__set"), <<Pop(2)>>, [k |-> "subscript"])
    /\ UNCHANGED <<script, heap, exc, tables>>

\* objectOprMethods names the shifts __opr_shl and __opr_shr, which no object has.
OPERATOR ==
    /\ At("OPERATOR", 2)
    /\ LET right == Pop(1)
           left == Pop(2)
           a == object_attrib_find(heap, Entry(left), "__opr_" \o Ins.opr)
       IN \/ /\ TypeOf(heap, left) # TypeOf(heap, right)
             /\ ctl' = [at |-> "fatal"]
             /\ UNCHANGED <<heap, exc, frames>>
          \/ /\ TypeOf(heap, left) = TypeOf(heap, right)
             /\ a = NULL
             /\ Raise(2, "CallException")
          \/ /\ TypeOf(heap, left) = TypeOf(heap, right)
             /\ a # NULL
             /\ Do(2, left, a, <<right>>, Push)
             /\ UNCHANGED <<heap, exc>>
    /\ UNCHANGED <<script, tables>>

\* vm_object_comparison, with left and right popped or converted.
Comparison(n, left, right, cmp) ==
    LET a == object_attrib_find(heap, Entry(left), "__cmp_" \o cmp)
    IN IF a = NULL THEN Raise(n, "CallException")
       ELSE Do(n, left, a, <<right>>, [k |-> "boolean"]) /\ UNCHANGED <<heap, exc>>

\* Two types: the right side is converted by its method of the left class's name.
COMPARE_OP ==
    /\ At("COMPARE_OP", 2)
    /\ LET left == Pop(1)
           right == Pop(2)
           cast == /\ TypeOf(heap, left) # TypeOf(heap, right)
                   /\ "null" \notin {TypeOf(heap, left), TypeOf(heap, right)}
           a == object_attrib_find(heap, Entry(right), NameOf(heap, left))
       IN \/ /\ Ins.cmp = "ex"
             /\ Go(2, <<bool(object_instance_of(heap, right, NameOf(heap, left)))>>)
             /\ UNCHANGED <<heap, exc>>
          \/ /\ Ins.cmp # "ex" /\ cast /\ a = NULL
             /\ Raise(2, "TypeException")
          \/ /\ Ins.cmp # "ex" /\ cast /\ a # NULL
             /\ Do(2, right, a, <<>>, [k |-> "cast", left |-> left, cmp |-> Ins.cmp])
             /\ UNCHANGED <<heap, exc>>
          \/ /\ Ins.cmp # "ex" /\ ~cast
             /\ Comparison(2, left, right, Ins.cmp)
    /\ UNCHANGED <<script, tables>>

\* The condition stays on the stack.  It is looked at as it is: the attribute a
\* property was loaded as has no __boolean, whatever the property's value.
JUMP_IF ==
    /\ At("JUMP_IF_TRUE", 1) \/ At("JUMP_IF_FALSE", 1)
    /\ LET v == F.stack[1]
           jump == [k |-> "jump", when |-> bool(Ins.op = "JUMP_IF_TRUE"), to |-> Ins.to]
       IN IF v.k = "bool"
          THEN frames' = Top(Step(0, <<>>)) /\ ctl' = Given(v, jump)
          ELSE Do(0, v, IF v.k = "attr" THEN NULL ELSE object_attrib_find(heap, Entry(v), "__boolean"),
                  <<>>, jump)
    /\ UNCHANGED <<script, heap, exc, tables>>

\* A method or a class can be called.
Callable(fn) == IF fn.k = "attr" THEN fn.attr.type = "method" ELSE IsClass(heap, fn)

\* The message that something cannot be called has, for %s, what the object has where
\* a string object has its t_string: a pointer to something else, or a number that is
\* none: 1 and 2 are a constant and a property, and a number is itself.  An
\* object without data has anything there.
Printable(fn) ==
    CASE fn.k \in {"str", "list", "tuple", "hash"} -> {TRUE}
      [] fn.k = "num" -> {fn.n = 0}
      [] fn.k = "bool" -> {~fn.b}
      [] fn.k = "attr" -> {FALSE}
      [] OTHER -> IF TypeOf(heap, fn) = "exception" THEN {TRUE} ELSE BOOLEAN

CallRefused ==
    /\ At("CALL", 1) /\ ~Callable(F.stack[1])
    /\ \E printable \in Printable(F.stack[1]) :
         \/ printable /\ Raise(1, "AttributeException")
         \/ ~printable /\ ctl' = [at |-> "crash"] /\ UNCHANGED <<heap, exc, frames>>
    /\ UNCHANGED <<script, tables>>

\* A class is instantiated, by the __new of base, and the call is that of the
\* instance's __ctor.  What is spread over the arguments is taken for a list without
\* a look at its type; a tuple and a hash have their table in the same place.
Spread(v) ==
    CASE v.k = "null" -> <<>>
      [] v.k = "list" -> v.l
      [] v.k = "tuple" -> v.t
      [] v.k = "hash" -> [i \in DOMAIN v.pairs |-> v.pairs[i][2]]
Arguments == [i \in 1..Ins.argc |-> Pop(3 + Ins.argc - i)] \o Spread(Pop(2))
CALL ==
    /\ At("CALL", 2 + Ins.argc) /\ Callable(F.stack[1])
    /\ LET fn == F.stack[1]
           h == Instance(heap, fn.id)
           self == ref(Len(heap) + 1)
           spread == Pop(2).k \in {"null", "list", "tuple", "hash"}
       IN \/ /\ ~spread
             /\ ctl' = [at |-> "crash"]
             /\ UNCHANGED <<heap, frames>>
          \/ /\ spread /\ fn.k = "attr"
             /\ Do(2 + Ins.argc, fn.self, fn.attr, Arguments, Push)
             /\ UNCHANGED heap
          \/ /\ spread /\ fn.k = "obj"
             /\ heap' = h
             /\ Do(2 + Ins.argc, self, object_attrib_find(h, self.id, "__ctor"), Arguments, Push)
    /\ UNCHANGED <<script, exc, tables>>

-----------------------------------------------------------------------------
(* Calls.                                                                  *)

Variadic(a) == a.hint # null /\ a.hint.name = "..."

\* _parse_calling_arguments: one turn of its loop, for parameter b.i of params.
Bind(b, params, args) ==
    LET a == params[b.i]
        default == IF a.default = null THEN NULL ELSE a.default
        v == IF b.given = 0 THEN default
             ELSE IF b.i <= Len(args) THEN args[b.i] ELSE NULL
        next == [b EXCEPT !.i = @ + 1, !.given = @ - 1]
    IN CASE v = NULL /\ ~Variadic(a) -> [b EXCEPT !.ok = FALSE]
         [] Variadic(a) ->
              [next EXCEPT !.rest = a.name,
                           !.locals = (a.name :> list(IF v = NULL THEN <<>> ELSE <<v>>)) @@ @]
         [] v # NULL /\ ~Variadic(a) /\ a.hint # null /\ ~object_instance_of(heap, v, a.hint.name) ->
              [b EXCEPT !.ok = FALSE]
         [] OTHER -> [next EXCEPT !.locals = (a.name :> v) @@ @]

\* Mutant for BindsAsDeclared: arguments no parameter is for are dropped.
BindingLoose(self, params, args) ==
    LET start == [i |-> 1, given |-> Len(args), ok |-> TRUE, rest |-> "", locals |-> ("self" :> self)]
        bound == FoldLeft(LAMBDA b, a : IF b.ok THEN Bind(b, params, args) ELSE b, start, params)
        more == SubSeq(args, Len(params) + 1, Len(args))
    IN IF ~bound.ok \/ bound.given <= 0 \/ bound.rest = "" THEN bound
       ELSE [bound EXCEPT !.locals[bound.rest] = list(@.l \o more)]

\* The loop, and the arguments beyond the last parameter, which go to the list of
\* a "..." parameter if there is one.
Binding(self, params, args) ==
    LET start == [i |-> 1, given |-> Len(args), ok |-> TRUE, rest |-> "", locals |-> ("self" :> self)]
        bound == FoldLeft(LAMBDA b, a : IF b.ok THEN Bind(b, params, args) ELSE b, start, params)
        more == SubSeq(args, Len(params) + 1, Len(args))
    IN IF ~bound.ok \/ bound.given <= 0 THEN bound
       ELSE IF bound.rest = "" THEN [bound EXCEPT !.ok = FALSE]
       ELSE [bound EXCEPT !.locals[bound.rest] = list(@.l \o more)]

Calling == ctl.at = "call"

\* vm_object_call with no attribute
CallNothing ==
    /\ Calling /\ ctl.attr = NULL
    /\ ctl' = Given(NULL, ctl.cont)
    /\ UNCHANGED <<script, heap, exc, tables, frames>>

\* A property or a constant that C code calls as the method of a name: __boolean,
\* __cmp_eq or __numerical, or the __ctor of a class.
CallNoCallable ==
    /\ Calling /\ ctl.attr # NULL
    /\ ctl.attr.value.k \notin {"native", "code"}
    /\ Create("CallableException")
    /\ ctl' = Given(NULL, ctl.cont)
    /\ UNCHANGED <<script, tables, frames>>

CallNative ==
    /\ Calling /\ ctl.attr # NULL /\ ctl.attr.value.k = "native"
    /\ LET m == ctl.attr.value
           v == Native(heap, m, ctl.self, ctl.args)
       IN \/ /\ v.k = "raise"
             /\ Create(v.class)
             /\ ctl' = Given(NULL, ctl.cont)
          \/ /\ v.k = "crash"
             /\ ctl' = [at |-> "crash"]
             /\ UNCHANGED <<heap, exc>>
          \/ /\ v.k \notin {"raise", "crash"}
             /\ heap' = Effect(heap, m, ctl.self, ctl.args)
             /\ ctl' = Given(v, ctl.cont)
             /\ UNCHANGED exc
    /\ UNCHANGED <<script, tables, frames>>

CallMethod ==
    /\ Calling /\ ctl.attr # NULL /\ ctl.attr.value.k = "code"
    /\ LET m == ctl.attr.value
           b == Binding(ctl.self, m.params, ctl.args)
       IN \/ /\ Len(frames) = MaxDepth
             /\ ctl' = [at |-> "overflow"]
             /\ UNCHANGED <<heap, exc, frames>>
          \/ /\ Len(frames) < MaxDepth /\ ~b.ok
             /\ Create("ArgumentException")
             /\ ctl' = Given(NULL, ctl.cont)
             /\ UNCHANGED frames
          \/ /\ Len(frames) < MaxDepth /\ b.ok
             /\ frames' = Append(frames, vm_stackframe_new(m.unit, m.label, b.locals, ctl.cont))
             /\ ctl' = Running
             /\ UNCHANGED <<heap, exc>>
    /\ UNCHANGED <<script, tables>>

-----------------------------------------------------------------------------
(* Imports.  A name is its components: one that is absolute begins with "".*)

\* vm_context_strip_path
Path(key) == IF Len(key) = 2 /\ key[1] = "" THEN <<"", "">> ELSE SubSeq(key, 1, Len(key) - 1)
vm_context_absolute_namespace(context, name) ==
    CASE name[1] = "" -> name
      [] name[1] # "" /\ context = <<"", "">> -> <<"">> \o name
      [] OTHER -> Path(context) \o name

\* _construct_import_path: "::" becomes "/", and the file system ignores that there
\* are two of them.
FilePath(key) == SelectSeq(key, LAMBDA c : c # "")
Holding(key) == {r \in DOMAIN code.roots : FilePath(key) \in DOMAIN code.roots[r]}

\* The end of vm_import, with the tables it finds the class in: an exception, of
\* any time, fails it.
FindClass(locals, class, to) ==
    LET v == Lookup(locals, class)
    IN IF exc = NULL /\ v = NULL
       THEN Create("ImportException") /\ ctl' = Given(NULL, to)
       ELSE ctl' = Given(IF exc = NULL THEN v ELSE NULL, to) /\ UNCHANGED <<heap, exc>>

\* vm_import; f is the frame that imports.
vm_import(f, key, class, to) ==
    \/ /\ key \in DOMAIN cache
       /\ frames' = Top(f)
       /\ FindClass(cache[key], class, to)
    \/ /\ key \notin DOMAIN cache /\ Holding(key) = {}
       /\ frames' = Top(f)
       /\ IF exc = NULL THEN Create("ImportException") ELSE UNCHANGED <<heap, exc>>
       /\ ctl' = Given(NULL, to)
    \/ /\ key \notin DOMAIN cache /\ Holding(key) # {}
       /\ IF Len(frames) < MaxDepth
          THEN /\ LET root == CHOOSE r \in Holding(key) : \A q \in Holding(key) : r <= q
                  IN frames' = Append(Top(f),
                        vm_stackframe_new([root |-> root, path |-> FilePath(key), key |-> key], <<>>, Empty,
                                          [k |-> "import", key |-> key, class |-> class, to |-> to]))
               /\ ctl' = Running
          ELSE UNCHANGED frames /\ ctl' = [at |-> "overflow"]
       /\ UNCHANGED <<heap, exc>>

IMPORT ==
    /\ At("IMPORT", 2)
    /\ LET class == Pop(2).name
       IN vm_import(Step(2, <<>>), vm_context_absolute_namespace(F.unit.key, Pop(1).name), class[Len(class)], Push)
    /\ UNCHANGED <<script, tables>>

-----------------------------------------------------------------------------
(* Leaving blocks and frames.                                              *)

RETURN_ ==
    /\ At("RETURN", 1)
    /\ frames' = Top([Step(1, <<>>) EXCEPT !.ret = Pop(1)])
    /\ ctl' = Unwind(RETURN)
    /\ UNCHANGED <<script, heap, exc, tables>>

THROW ==
    /\ At("THROW", 1)
    /\ IF object_instance_of(heap, Pop(1), "exception")
       THEN /\ exc' = Pop(1)
            /\ frames' = Top(Step(1, <<>>))
            /\ ctl' = Unwind(EXCEPTION)
            /\ UNCHANGED heap
       ELSE Raise(1, "ExtendException")
    /\ UNCHANGED <<script, tables>>

\* The block keeps the height the stack has before FINALLY is pushed.
SETUP_EXCEPT ==
    /\ At("SETUP_EXCEPT", 0)
    /\ LET next == F.ip + 1
           block == [height |-> Len(F.stack), catch |-> next + Ins.catch,
                     finally |-> next + Ins.finally, end |-> next + Ins.end]
       IN frames' = Top([Step(0, <<number(FINALLY)>>) EXCEPT !.blocks = <<block>> \o @])
    /\ UNCHANGED <<script, heap, exc, tables, ctl>>

\* The number END_FINALLY pops, or what it pops below it, is the return value from
\* here on.
END_FINALLY ==
    /\ At("END_FINALLY", 1)
    /\ LET v == Pop(1)
           returns == v = number(RETURN)
       IN \/ /\ v.k = "num"
             /\ returns => Len(F.stack) >= 2
             /\ frames' = Top([Step(IF returns THEN 2 ELSE 1, <<>>)
                                EXCEPT !.ret = IF returns THEN Pop(2) ELSE v])
             /\ ctl' = Unwind(v.n)
             /\ UNCHANGED <<heap, exc>>
          \/ /\ TypeOf(heap, v) = "exception"
             /\ frames' = Top([Step(1, <<>>) EXCEPT !.ret = NULL])
             /\ ctl' = Unwind(RERAISE)
             /\ UNCHANGED <<heap, exc>>
          \/ /\ TypeOf(heap, v) \notin {"numerical", "exception"}
             /\ Create("SystemException")
             /\ frames' = Top([Step(1, <<>>) EXCEPT !.ret = v])
             /\ ctl' = Unwind(EXCEPTION)
    /\ UNCHANGED <<script, tables>>

\* unwind_blocks(), with the block of a try statement on top.
Unwinding(reason) == ctl.at = "unwind" /\ ctl.reason = reason /\ F.blocks # <<>>
Block == F.blocks[1]
Lowest(s, n) == IF Len(s) <= n THEN s ELSE SubSeq(s, Len(s) - n + 1, Len(s))

\* Mutant for UnwindsToHandler: it goes on at the finally of the statement.
UnwindExceptionFinally ==
    /\ Unwinding(EXCEPTION)
    /\ frames' = Top([F EXCEPT !.stack = <<exc>> \o Lowest(@, Block.height + 1), !.ip = Block.finally])
    /\ ctl' = Running
    /\ UNCHANGED <<script, heap, exc, tables>>

UnwindException ==
    /\ Unwinding(EXCEPTION)
    /\ frames' = Top([F EXCEPT !.stack = <<exc>> \o Lowest(@, Block.height + 1), !.ip = Block.catch])
    /\ ctl' = Running
    /\ UNCHANGED <<script, heap, exc, tables>>

UnwindReturn ==
    /\ Unwinding(RETURN)
    /\ frames' = Top([F EXCEPT !.stack = <<number(RETURN), F.ret>> \o @,
                               !.ip = IF @ <= Block.finally THEN Block.finally ELSE Block.end])
    /\ ctl' = IF F.ip <= Block.finally THEN Running ELSE [at |-> "leave"]
    /\ UNCHANGED <<script, heap, exc, tables>>

UnwindFinally ==
    /\ Unwinding(FINALLY)
    /\ frames' = Top([F EXCEPT !.stack = Lowest(@, Block.height), !.blocks = Tail(@)])
    /\ ctl' = Running
    /\ UNCHANGED <<script, heap, exc, tables>>

\* No case of the loop is for it, and the block is not popped.
UnwindReraise ==
    /\ Unwinding(RERAISE)
    /\ ctl' = [at |-> "hang"]
    /\ UNCHANGED <<script, heap, exc, tables, frames>>

\* The end of _vm_execute.
Leaving == ctl.at = "leave" \/ (ctl.at = "unwind" /\ F.blocks = <<>>)

LeaveMethod ==
    /\ Leaving /\ F.cont.k \notin {"main", "import"}
    /\ frames' = Caller
    /\ ctl' = Given(F.ret, F.cont)
    /\ UNCHANGED <<script, heap, exc, tables>>

\* Mutant for RunsOnce: a file that threw goes into the cache too.
LeaveImportCached ==
    /\ Leaving /\ F.cont.k = "import"
    /\ frames' = Caller
    /\ cache' = cache @@ (F.cont.key :> F.locals)
    /\ FindClass(F.locals, F.cont.class, F.cont.to)
    /\ UNCHANGED <<script, names, builtins>>

\* _vm_import: what it returns goes into the cache unless an exception was thrown.
LeaveImport ==
    /\ Leaving /\ F.cont.k = "import"
    /\ frames' = Caller
    /\ cache' = IF exc = NULL THEN cache @@ (F.cont.key :> F.locals) ELSE cache
    /\ FindClass(F.locals, F.cont.class, F.cont.to)
    /\ UNCHANGED <<script, names, builtins>>

-----------------------------------------------------------------------------
(* The rest of what was interrupted by a call.                             *)

Returns(k) == ctl.at = "return" /\ ctl.cont.k = k

\* CALL, OPERATOR, IMPORT, LOAD_SUBSCRIPT and the end of COMPARE_OP
ReturnPush ==
    /\ Returns("push")
    /\ IF ctl.v = NULL THEN UNCHANGED frames /\ ctl' = Unwind(EXCEPTION)
       ELSE frames' = Top([F EXCEPT !.stack = <<ctl.v>> \o @]) /\ ctl' = Running
    /\ UNCHANGED <<script, heap, exc, tables>>

\* STORE_SUBSCRIPT
ReturnSubscript ==
    /\ Returns("subscript")
    /\ frames' = Top([F EXCEPT !.stack = <<ctl.v>> \o @])
    /\ ctl' = Running
    /\ UNCHANGED <<script, heap, exc, tables>>

\* vm_object_comparison after the comparison: what is no boolean is converted.
ReturnBoolean ==
    /\ Returns("boolean")
    /\ ctl' = IF ctl.v = NULL \/ ctl.v.k = "bool" THEN Given(ctl.v, Push)
              ELSE [at |-> "call", self |-> ctl.v, args |-> <<>>, cont |-> Push,
                    attr |-> object_attrib_find(heap, Entry(ctl.v), "__boolean")]
    /\ UNCHANGED <<script, heap, exc, tables, frames>>

\* COMPARE_OP after the conversion of its right side
ReturnCast ==
    /\ Returns("cast")
    /\ LET a == object_attrib_find(heap, Entry(ctl.cont.left), "__cmp_" \o ctl.cont.cmp)
       IN \/ /\ ctl.v # NULL /\ a # NULL
             /\ ctl' = [at |-> "call", self |-> ctl.cont.left, attr |-> a, args |-> <<ctl.v>>,
                        cont |-> [k |-> "boolean"]]
             /\ UNCHANGED <<heap, exc>>
          \/ /\ ctl.v # NULL /\ a = NULL
             /\ Create("CallException")
             /\ ctl' = Unwind(EXCEPTION)
          \/ /\ ctl.v = NULL
             /\ ctl' = Unwind(EXCEPTION)
             /\ UNCHANGED <<heap, exc>>
    /\ UNCHANGED <<script, tables, frames>>

\* JUMP_IF after __boolean, whose exception nobody looks at.
ReturnJump ==
    /\ Returns("jump")
    /\ frames' = IF ctl.v = ctl.cont.when THEN Top([F EXCEPT !.ip = @ + ctl.cont.to]) ELSE frames
    /\ ctl' = Running
    /\ UNCHANGED <<script, heap, exc, tables>>

-----------------------------------------------------------------------------
(* vm_execute.                                                             *)

\* _vm_load_implicit_buildins imports ::saffire with the main frame current.
Start ==
    /\ ctl.at = "start"
    /\ vm_import(F, <<"", "saffire">>, "saffire", [k |-> "saffire"])
    /\ UNCHANGED <<script, tables>>

ReturnSaffire ==
    /\ Returns("saffire")
    /\ \/ /\ ctl.v # NULL
          /\ builtins' = builtins @@ ("saffire" :> ctl.v)
          /\ ctl' = Running
       \/ /\ ctl.v = NULL
          /\ ctl' = [at |-> "fatal"]
          /\ UNCHANGED builtins
    /\ UNCHANGED <<script, heap, exc, names, cache, frames>>

\* Mutant for ExitCode: an exception that was caught counts too.
LeaveMainOnException ==
    /\ Leaving /\ F.cont.k = "main"
    /\ LET saffire == Lookup(F.locals, "saffire")
       IN \/ /\ exc # NULL
             /\ ctl' = [at |-> "call", self |-> saffire, args |-> <<exc>>, cont |-> [k |-> "handler"],
                        attr |-> object_attrib_find(heap, Entry(saffire), "uncaughtExceptionHandler")]
          \/ /\ exc = NULL
             /\ ctl' = [at |-> "exit", v |-> IF F.ret = NULL THEN number(0) ELSE F.ret]
    /\ UNCHANGED <<script, heap, exc, tables, frames>>

\* The main frame has ended.  Its result is the exit code as a number; NULL is for
\* the script's handler if there was an exception, of any time, and else 0.
LeaveMain ==
    /\ Leaving /\ F.cont.k = "main"
    /\ LET saffire == Lookup(F.locals, "saffire")
       IN \/ /\ F.ret = NULL /\ exc # NULL
             /\ ctl' = [at |-> "call", self |-> saffire, args |-> <<exc>>, cont |-> [k |-> "handler"],
                        attr |-> object_attrib_find(heap, Entry(saffire), "uncaughtExceptionHandler")]
          \/ /\ F.ret # NULL \/ exc = NULL
             /\ ctl' = [at |-> "exit", v |-> IF F.ret = NULL THEN number(0) ELSE F.ret]
    /\ UNCHANGED <<script, heap, exc, tables, frames>>

ReturnHandler ==
    /\ Returns("handler")
    /\ ctl' = [at |-> "exit", v |-> IF ctl.v = NULL THEN number(0) ELSE ctl.v]
    /\ UNCHANGED <<script, heap, exc, tables, frames>>

\* What is no number is converted, and exits with 1 when it cannot be.
Exit ==
    /\ ctl.at = "exit"
    /\ LET a == object_attrib_find(heap, Entry(ctl.v), "__numerical")
       IN ctl' = CASE ctl.v.k = "num" -> [at |-> "done", code |-> ctl.v.n]
                   [] ctl.v.k # "num" /\ a # NULL ->
                        [at |-> "call", self |-> ctl.v, attr |-> a, args |-> <<>>, cont |-> [k |-> "exit"]]
                   [] OTHER -> [at |-> "done", code |-> 1]
    /\ UNCHANGED <<script, heap, exc, tables, frames>>

ReturnExit ==
    /\ Returns("exit")
    /\ ctl' = IF ctl.v = NULL THEN [at |-> "crash"] ELSE [at |-> "done", code |-> ctl.v.n]
    /\ UNCHANGED <<script, heap, exc, tables, frames>>

-----------------------------------------------------------------------------
(* Fewer values on the stack than an instruction takes: a pop is a fatal   *)
(* error, a look at the top reads past the end of the array.               *)
Operands ==
    CASE Ins.op \in {"STORE_ID", "POP_TOP", "LOAD_ATTRIB", "STORE_FRAME_ID", "RETURN", "THROW", "DUP_TOP",
                     "JUMP_IF_TRUE", "JUMP_IF_FALSE", "END_FINALLY", "UNPACK_TUPLE", "BUILD_DATASTRUCT",
                     "LOAD_SUBSCRIPT"} -> 1
      [] Ins.op \in {"STORE_ATTRIB", "OPERATOR", "COMPARE_OP", "IMPORT", "STORE_SUBSCRIPT"} -> 2
      [] Ins.op = "CALL" -> IF F.stack = <<>> \/ F.stack[1] = NULL \/ ~Callable(F.stack[1]) THEN 1 ELSE 2 + Ins.argc
      [] Ins.op = "PACK_TUPLE" -> Ins.n
      [] OTHER -> 0

Underflow ==
    /\ ctl.at = "run" /\ Len(F.stack) < Operands
    /\ ctl' = [at |-> IF Ins.op \in {"JUMP_IF_TRUE", "JUMP_IF_FALSE", "DUP_TOP"} THEN "outside" ELSE "fatal"]
    /\ UNCHANGED <<script, heap, exc, tables, frames>>

\* The NULL that a subscript was stored as, or that no exception was raised with.
NullOperand ==
    /\ ctl.at = "run" /\ Ins.op # "DUP_TOP" /\ Len(F.stack) >= Operands
    /\ \E i \in 1..Operands : F.stack[i] = NULL
    /\ ctl' = [at |-> "crash"]
    /\ UNCHANGED <<script, heap, exc, tables, frames>>

\* vm_init
Init ==
    /\ p \in DOMAIN Programs
    /\ code = Compile(Programs[p])
    /\ heap = heap0
    /\ names = Empty
    /\ builtins = builtins0
    /\ cache = Empty
    /\ exc = NULL
    /\ frames = <<vm_stackframe_new(MainUnit, <<>>, Empty, [k |-> "main"])>>
    /\ ctl = [at |-> "start"]

\* The next-state relation is CallsNext in Calls.tla, which lists these actions.

=============================================================================
