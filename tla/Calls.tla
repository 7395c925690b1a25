------------------------------- MODULE Calls --------------------------------
(***************************************************************************)
(* What a run of Runtime promises to the script.  The variables added here *)
(* only remember what has happened: they say what the properties compare   *)
(* the machine's tables with.                                              *)
(***************************************************************************)
EXTENDS Runtime, FiniteSets

VARIABLES
    raised,          \* an exception was created or thrown
    due,             \* where the last one is to stop, until it has
    classOf,         \* the class of every object of the heap; its own for a class
    written,         \* the last value of an attribute written through a class
    bound,           \* frame identifiers in the order they were stored
    ran              \* imported files in the order they were started

history == <<raised, due, classOf, written, bound, ran>>
callsVars == <<vars, history>>

Nowhere == [depth |-> 0, caught |-> FALSE]
None == [depth |-> 0 - 1, caught |-> FALSE]

CallsInit ==
    /\ Init
    /\ raised = FALSE
    /\ due = None
    /\ classOf = [id \in DOMAIN heap0 |-> id]
    /\ written = Empty
    /\ bound = <<>>
    /\ ran = <<>>

-----------------------------------------------------------------------------
(* What a step shows: from the state it starts in and the one it ends in.  *)

At0(op) == ctl.at = "run" /\ Ins.op = op
Raising == exc' # exc \/ At0("THROW")

\* The frames a frame's failure is not noticed by: the condition or the stored
\* subscript it was called for takes any result, and a frame that has finished a try statement returns what
\* END_FINALLY left in ret.
Drops(f) ==
    \/ f.cont.k \in {"jump", "subscript"}
    \/ f.ret # NULL /\ f.cont.k \in {"push", "boolean", "cast"}

\* Where an exception raised now, in frames fs, stops: the innermost frame that is
\* in a try statement or whose callee drops it.
Stops(fs) ==
    LET n == Len(fs)
        stop == {i \in 1..n : fs[i].blocks # <<>> \/ (i < n /\ Drops(fs[i + 1]))}
        i == CHOOSE i \in stop : \A j \in stop : j <= i
    IN IF stop = {} THEN Nowhere
       ELSE [depth |-> i, caught |-> ~(i < n /\ Drops(fs[i + 1]))]

\* A native __boolean that fails has no frame.
Due ==
    IF ctl'.at = "return" /\ ctl'.cont.k \in {"jump", "subscript"}
    THEN [depth |-> Len(frames'), caught |-> FALSE] ELSE Stops(frames')

\* A value written: the attributes of a new class, or a property that is stored.
Writes ==
    CASE At0("BUILD_CLASS") /\ heap' # heap /\ exc' = exc ->
           LET id == Len(heap) + 1
           IN [key \in {id} \X DOMAIN heap'[id].attrs |-> heap'[id].attrs[key[2]].value]
      [] At0("STORE_ATTRIB") /\ exc' = exc -> (<<classOf[Entry(Pop(1))], Ins.name>> :> Pop(2))
      [] OTHER -> Empty

Started == Len(frames') > Len(frames) /\ frames'[Len(frames')].cont.k = "import"
Ended == Leaving /\ F.cont.k = "import"

Observe ==
    /\ raised' = (raised \/ Raising)
    /\ due' = IF Raising THEN Due ELSE IF ctl.at = "run" THEN None ELSE due
    /\ classOf' = IF Len(heap') = Len(heap) THEN classOf
                  ELSE Append(classOf, IF At0("CALL") /\ exc' = exc THEN F.stack[1].id ELSE Len(heap'))
    /\ written' = Writes @@ written
    /\ bound' = IF At0("STORE_FRAME_ID") THEN Append(bound, [name |-> Ins.id, v |-> Pop(1)]) ELSE bound
    /\ ran' =
         CASE Started -> LET u == frames'[Len(frames')].unit
                         IN Append(ran, [file |-> <<u.root, u.path>>, key |-> u.key, how |-> "running"])
           [] Ended -> LET i == CHOOSE i \in DOMAIN ran :
                                  /\ ran[i].how = "running"
                                  /\ \A j \in DOMAIN ran : j > i => ran[j].how # "running"
                       IN [ran EXCEPT ![i].how = IF exc = NULL THEN "done" ELSE "failed"]
           [] OTHER -> ran

CallsNext ==
    \/ Start /\ Observe
    \/ ReturnSaffire /\ Observe
    \/ LOAD_CONST /\ Observe
    \/ LOAD_ID /\ Observe
    \/ STORE_ID /\ Observe
    \/ STORE_FRAME_ID /\ Observe
    \/ POP_TOP /\ Observe
    \/ DUP_TOP /\ Observe
    \/ JUMP /\ Observe
    \/ JUMP_IF /\ Observe
    \/ LOAD_ATTRIB /\ Observe
    \/ STORE_ATTRIB /\ Observe
    \/ BUILD_ATTRIB /\ Observe
    \/ BUILD_CLASS /\ Observe
    \/ PACK_TUPLE /\ Observe
    \/ UNPACK_TUPLE /\ Observe
    \/ BUILD_DATASTRUCT /\ Observe
    \/ LOAD_SUBSCRIPT /\ Observe
    \/ STORE_SUBSCRIPT /\ Observe
    \/ OPERATOR /\ Observe
    \/ COMPARE_OP /\ Observe
    \/ CALL /\ Observe
    \/ CallRefused /\ Observe
    \/ IMPORT /\ Observe
    \/ RETURN_ /\ Observe
    \/ THROW /\ Observe
    \/ SETUP_EXCEPT /\ Observe
    \/ END_FINALLY /\ Observe
    \/ Underflow /\ Observe
    \/ NullOperand /\ Observe
    \/ CallNothing /\ Observe
    \/ CallNoCallable /\ Observe
    \/ CallNative /\ Observe
    \/ CallMethod /\ Observe
    \/ UnwindException /\ Observe
    \/ UnwindReturn /\ Observe
    \/ UnwindFinally /\ Observe
    \/ UnwindReraise /\ Observe
    \/ LeaveMethod /\ Observe
    \/ LeaveImport /\ Observe
    \/ LeaveMain /\ Observe
    \/ ReturnPush /\ Observe
    \/ ReturnSubscript /\ Observe
    \/ ReturnBoolean /\ Observe
    \/ ReturnCast /\ Observe
    \/ ReturnJump /\ Observe
    \/ ReturnHandler /\ Observe
    \/ Exit /\ Observe
    \/ ReturnExit /\ Observe

\* The interpreter goes on as long as it can: it has one thread.
CallsSpec == CallsInit /\ [][CallsNext]_callsVars /\ WF_callsVars(CallsNext)

-----------------------------------------------------------------------------
(* The text of a program.                                                  *)

Roots(q) == Programs[q].roots \o <<Sfl>>
Files(q) ==
    {<<0, <<>>>>} \cup UNION {{<<r, path>> : path \in DOMAIN Roots(q)[r]} : r \in DOMAIN Roots(q)}
Text(q, file) == IF file[1] = 0 THEN Programs[q].main ELSE Roots(q)[file[1]][file[2]]

\* The statements of a block, of the blocks in it and of the methods in those.
RECURSIVE Statements(_)
Statements(block) ==
    LET within(s) ==
          CASE s.k = "if" -> Statements(s.then) \cup Statements(s.else)
            [] s.k = "try" -> Statements(s.body) \cup Statements(s.finally)
                              \cup UNION {Statements(c.body) : c \in Range(s.catches)}
            [] s.k = "class" -> UNION {Statements(a.body) : a \in {a \in Range(s.attrs) : a.type = "method"}}
            [] OTHER -> {}
    IN Range(block) \cup UNION {within(s) : s \in Range(block)}
Written(q) == UNION {Statements(Text(q, file)) : file \in Files(q)}

\* A call whose result is used, but which is compiled as if it were not: it is the
\* condition of an if, or what another call that is a statement is made on.
RECURSIVE Discards(_, _, _)
Discards(e, stay, used) ==
    CASE e.k = "call" -> \/ used /\ ~stay
                         \/ \E a \in Range(e.args) : Discards(a, TRUE, TRUE)
                         \/ Discards(e.fn, stay, TRUE)
      [] e.k = "attr" -> Discards(e.of, stay, TRUE)
      [] e.k \in {"opr", "bool"} -> Discards(e.l, stay, TRUE) \/ Discards(e.r, stay, TRUE)
      [] e.k = "cmp" -> Discards(e.l, TRUE, TRUE) \/ Discards(e.r, TRUE, TRUE)
      [] e.k = "ternary" -> \E part \in {e.cond, e.l, e.r} : Discards(part, stay, TRUE)
      [] e.k = "coalesce" -> Discards(e.l, stay, TRUE) \/ Discards(e.r, stay, TRUE)
      [] e.k = "tuple" -> \E item \in Range(e.items) : Discards(item, stay, TRUE)
      [] e.k = "data" -> \E part \in Range(FlattenSeq(e.elements)) \cup {e.of} : Discards(part, stay, TRUE)
      [] e.k = "sub" -> \E part \in Range(e.keys) \cup {e.of} : Discards(part, stay, TRUE)
      [] e.k = "assign" -> Discards(e.e, TRUE, TRUE) \/ Discards(e.to, stay, TRUE)
      [] OTHER -> FALSE
\* A subscript in a tuple that is assigned to leaves a value.
RECURSIVE Subscripts(_)
Subscripts(t) ==
    CASE t.k = "tuple" -> \E item \in Range(t.items) : Subscripts(item)
      [] t.k = "assign" -> Subscripts(t.to) \/ Subscripts(t.e)
      [] OTHER -> t.k = "sub"

Ordinary(s) ==
    CASE s.k = "expr" -> s.e.k = "call" /\ ~Discards(s.e, FALSE, FALSE)
      [] s.k = "if" -> ~Discards(s.cond, FALSE, TRUE)
      [] s.k = "assign" -> ~Discards(s, FALSE, TRUE) /\ ~Subscripts(s.to) /\ (s.e.k = "assign" => ~Subscripts(s.e))
      [] s.k \in {"return", "throw"} -> ~Discards(s.e, TRUE, TRUE)
      [] OTHER -> TRUE
AllOrdinary == [q \in DOMAIN Programs |-> \A s \in Written(q) : Ordinary(s)]

\* A catch that throws is entered again by what it throws.
Rethrows == [q \in DOMAIN Programs |->
    \E s \in Written(q) : s.k = "try" /\ \E c \in Range(s.catches) : \E t \in Range(c.body) : t.k = "throw"]
\* An exception no catch is for is raised again without end.
Selective == [q \in DOMAIN Programs |->
    \E s \in Written(q) : s.k = "try" /\ \A c \in Range(s.catches) : c.class # "exception"]
\* Files that import each other.
Imports(q, file, other) ==
    \E s \in Range(Text(q, file)) :
        /\ s.k = "import"
        /\ FilePath(vm_context_absolute_namespace(IF file[1] = 0 THEN <<"", "">> ELSE <<"">> \o file[2], s.from)) = other[2]
Cyclic == [q \in DOMAIN Programs |->
    \E c \in SUBSET Files(q) : c # {} /\ \A file \in c : \E other \in c : Imports(q, file, other)]
\* "parent" in a method is the parent of the object's class: for an object of a
\* class that inherits the method it is the class the method is in.
UsesParent(e) == e.k = "call" /\ e.fn.k = "attr" /\ e.fn.of = Id("parent")
Inherits == [q \in DOMAIN Programs |->
    \E c, d \in {s \in Written(q) : s.k = "class"} :
        /\ d.extends = c.name
        /\ \E s \in Statements(<<c>>) : s.k \in {"return", "expr"} /\ UsesParent(s.e)]

(* What a program of assignments to identifiers and tuples of them means.  *)

Fails == [k |-> "fails"]
CountsTrue(v) ==
    CASE v.k = "num" -> v.n # 0
      [] v.k = "str" -> v.s # ""
      [] v.k = "bool" -> v.b
      [] v.k = "list" -> v.l # <<>>
      [] v.k = "tuple" -> v.t # <<>>
      [] v.k = "hash" -> v.pairs # <<>>
      [] OTHER -> FALSE

\* The value of an expression where identifiers have those of env.  A hash has the
\* first value given for a key, and null for any other; a string has a last
\* character, the 0 after it.
RECURSIVE Meaning(_, _)
Meaning(e, env) ==
    LET values(es) == [i \in DOMAIN es |-> Meaning(es[i], env)]
        of == Meaning(e.of, env)
        build(vs) ==
          CASE Fails \in Range(vs) -> Fails
            [] of = builtins0["list"] -> list(vs)
            [] of = builtins0["tuple"] -> tuple(vs)
            [] of = builtins0["hash"] -> hash([i \in 1..(Len(vs) \div 2) |-> <<vs[2 * i - 1], vs[2 * i]>>])
            [] OTHER -> Fails
        pick(key) ==
          CASE Fails \in {of, key} -> Fails
            [] of.k = "str" /\ key.n \in 0..Len(of.s) ->
                 string(IF key.n = Len(of.s) THEN Nul ELSE SubSeq(of.s, key.n + 1, key.n + 1))
            [] of.k = "hash" ->
                 LET given == {i \in DOMAIN of.pairs : of.pairs[i][1] = key}
                 IN IF given = {} THEN null ELSE of.pairs[CHOOSE i \in given : \A j \in given : i <= j][2]
            [] OTHER -> Fails
    IN CASE e.k \in {"num", "str"} -> e
         [] e.k = "id" -> IF e.id \in DOMAIN env THEN env[e.id]
                          ELSE IF e.id \in DOMAIN builtins0 THEN builtins0[e.id] ELSE Fails
         [] e.k = "tuple" -> LET vs == values(e.items) IN IF Fails \in Range(vs) THEN Fails ELSE tuple(vs)
         [] e.k = "data" -> build(values(FlattenSeq(e.elements)))
         [] e.k = "sub" -> IF Len(e.keys) = 1 THEN pick(Meaning(e.keys[1], env)) ELSE Fails
         [] e.k = "ternary" -> LET c == Meaning(e.cond, env)
                               IN IF c = Fails THEN Fails ELSE Meaning(IF CountsTrue(c) THEN e.l ELSE e.r, env)
         [] e.k = "coalesce" -> LET l == Meaning(e.l, env)
                                IN IF l = Fails \/ CountsTrue(l) THEN l ELSE Meaning(e.r, env)

\* What assigning v to a target binds: of a name that occurs twice the first place
\* counts, and what a tuple has no element for is null.
RECURSIVE Bindings(_, _)
Bindings(to, v) ==
    LET item(i) == Bindings(to.items[i], IF i <= Len(v.t) THEN v.t[i] ELSE null)
        items == [i \in DOMAIN to.items |-> item(i)]
    IN CASE to.k = "id" -> (to.id :> v)
         [] to.k = "tuple" -> IF v.k # "tuple" \/ Fails \in Range(items) THEN Fails
                              ELSE FoldRight(LAMBDA b, rest : b @@ rest, items, Empty)

\* An assignment: its value and what identifiers are after it.  The left side of
\* one with an operator is read before the right side is evaluated.
RECURSIVE After(_, _)
After(s, env) ==
    LET r == IF s.e.k = "assign" THEN After(s.e, env)
             ELSE [v |-> Meaning(s.e, env), env |-> env]
        l == Meaning(s.to, env)
        v == IF s.op = "" \/ Fails \in {l, r.v} THEN r.v
             ELSE IF l.k = "num" /\ r.v.k = "num" THEN number(Arithmetic("__opr_" \o s.op, l.n, r.v.n)) ELSE Fails
        b == IF v = Fails THEN Fails ELSE Bindings(s.to, v)
    IN IF b = Fails THEN [v |-> Fails, env |-> env] ELSE [v |-> v, env |-> b @@ r.env]

\* Programs DataAsWritten is about, and the identifiers they end with.
RECURSIVE IsData(_), Outcome(_, _)
IsData(t) ==
    CASE t.k \in {"num", "str", "id"} -> TRUE
      [] t.k = "tuple" -> \A item \in Range(t.items) : IsData(item)
      [] t.k = "assign" -> t.to.k \in {"id", "tuple"} /\ ~Subscripts(t.to) /\ IsData(t.to) /\ IsData(t.e)
      [] t.k = "data" -> \A part \in Range(FlattenSeq(t.elements)) \cup {t.of} : IsData(part)
      [] t.k = "sub" -> \A part \in Range(t.keys) \cup {t.of} : IsData(part)
      [] t.k = "ternary" -> \A part \in {t.cond, t.l, t.r} : IsData(part)
      [] t.k = "coalesce" -> IsData(t.l) /\ IsData(t.r)
      [] OTHER -> FALSE
Outcome(main, env) ==
    IF main = <<>> THEN env
    ELSE LET a == After(main[1], env) IN IF a.v = Fails THEN Fails ELSE Outcome(Tail(main), a.env)
DataPrograms ==
    {q \in DOMAIN Programs :
        Programs[q].roots = <<>> /\ \A s \in Range(Programs[q].main) : s.k = "assign" /\ IsData(s)}
Outcomes == [q \in DataPrograms |-> Outcome(Programs[q].main, Empty)]

-----------------------------------------------------------------------------
Stopped == ctl.at \in {"done", "fatal", "crash", "outside", "overflow", "hang"}

\* Frames are of the program's files and at an instruction of theirs; the tables
\* hold objects of the heap, and what was remembered is of its length.
TypeOK ==
    /\ p \in DOMAIN Programs
    /\ Len(frames) \in 1..MaxDepth
    /\ \A i \in DOMAIN frames : frames[i].ip \in 1..(Len(CodeOf(frames[i])) + 1)
    /\ ctl.at \in {"start", "run", "unwind", "leave", "call", "return", "exit"} \/ Stopped
    /\ \A v \in Range(names) \cup {exc} : v.k = "obj" => v.id \in DOMAIN heap
    /\ Len(classOf) = Len(heap)

\* What a method is called with becomes its local identifiers as it declares them,
\* or the call is refused.  Parameter i takes argument i; a default value helps
\* only the first parameter that gets no argument, so that there may be one at
\* most; a "..." parameter takes its argument, and the last of them whatever is
\* left over; a hint names the class of the argument or one it extends.
\* (_parse_calling_arguments)
BindsAsDeclared ==
    [][ctl.at = "call" /\ ctl.attr # NULL /\ ctl'.at \in {"run", "return"} =>
        (ctl.attr.value.k = "code" =>
           LET params == ctl.attr.value.params
               args == ctl.args
               rest == {i \in DOMAIN params : Variadic(params[i])}
               value(i) == IF i <= Len(args) THEN args[i] ELSE params[i].default
               taken(i) == (IF i <= Len(args) THEN <<args[i]>> ELSE <<>>)
                           \o IF \A j \in rest : j <= i THEN SubSeq(args, Len(params) + 1, Len(args)) ELSE <<>>
               accepted ==
                 /\ \A i \in DOMAIN params \ rest :
                      /\ i <= Len(args) \/ (i = Len(args) + 1 /\ params[i].default # null)
                      /\ params[i].hint # null => object_instance_of(heap, value(i), params[i].hint.name)
                 /\ Len(args) > Len(params) => rest # {}
           IN /\ accepted <=> Len(frames') > Len(frames)
              /\ accepted =>
                   LET locals == frames'[Len(frames')].locals
                   IN /\ locals["self"] = ctl.self
                      /\ \A i \in DOMAIN params :
                           locals[params[i].name] = IF i \in rest THEN list(taken(i)) ELSE value(i))]_vars

\* An attribute of an object is the one last written through any object of the
\* nearest class that has it: an instance has no value of its own, a property
\* set on one is seen by the class, its other instances and what extends it.
\* (object_add_property on the table _object_instantiate copied)
ReadsLastWrite ==
    \A id \in (Len(heap0) + 1)..Len(heap) :
        heap[id].type = "user" =>
            LET chain == <<classOf[id]>> \o Tail(Ancestry(heap, id))
            IN \A name \in {key[2] : key \in DOMAIN written} :
                 LET having == SelectSeq(chain, LAMBDA c : <<c, name>> \in DOMAIN written)
                     found == object_attrib_find(heap, id, name)
                 IN having # <<>> => found # NULL /\ found.value = written[<<having[1], name>>]

\* A constant or a method that an object has, of its class or inherited, stays the
\* one it is. (VM_STORE_ATTRIB)
ReadOnlyKept ==
    [][heap' # heap =>
        \A id \in (Len(heap0) + 1)..Len(heap) : heap[id].type = "user" =>
            \A name \in {key[2] : key \in DOMAIN written} :
                LET a == object_attrib_find(heap, id, name)
                IN a # NULL /\ a.ro => object_attrib_find(heap', id, name) = a]_vars

\* An exception ends frames up to the innermost one that is in a try statement, and
\* goes on at its catch, unless a frame on the way loses it: one called for a
\* condition, or one that has finished a try statement.  With neither, main ends.
\* (unwind_blocks and the returns of NULL in _vm_execute)
UnwindsToHandler ==
    ctl.at = "run" /\ due # None =>
        \/ /\ Len(frames) = due.depth
           /\ due.caught => F.ip = Block.catch /\ F.stack[1] = exc
        \/ due = Nowhere /\ Len(frames) > 1 /\ frames[2].cont.k = "handler"

\* A file is not run again once it was imported, unless it is called by another name
\* ("::::a" for "::a"), and what has failed or is not yet imported is not in the
\* cache. (vm_import)
RunsOnce ==
    /\ \A i, j \in DOMAIN ran :
         i < j /\ ran[i].file = ran[j].file /\ ran[i].how = "done" => ran[i].key # ran[j].key
    /\ DOMAIN cache = {ran[i].key : i \in {i \in DOMAIN ran : ran[i].how = "done"}}

\* The value IMPORT goes on with, in the step that has it.
ImportEnds == At0("IMPORT") /\ ctl'.at = "return"
\* An import in a run in which anything was ever thrown fails, even if it was caught.
\* Another yields the class that was the first of its name to be declared or
\* imported anywhere, whatever file was imported now. (vm_import,
\* vm_frame_set_frame_identifier)
ImportsFirst ==
    [][(ImportEnds \/ Ended) =>
        LET class == IF Ended THEN F.cont.class ELSE Pop(2).name[Len(Pop(2).name)]
            first == SelectSeq(bound, LAMBDA b : b.name = class)
        IN ctl'.at = "return" =>
             /\ raised => ctl'.v = NULL
             /\ ~raised /\ first # <<>> /\ ctl'.v # NULL => ctl'.v = first[1].v
             /\ ~raised /\ first # <<>> /\ ~raised' => ctl'.v # NULL]_callsVars

\* In a program that uses the result of no call as a condition or as what a call
\* that is a statement is made on, no instruction lacks an operand, and a frame
\* that returns outside try statements leaves nothing behind. (ast_to_asm.c and
\* the stack of stackframe.c)
StackFits ==
    ctl.at = "run" /\ AllOrdinary[p] =>
        /\ Len(F.stack) >= Operands + IF Ins.op \in {"BUILD_DATASTRUCT", "LOAD_SUBSCRIPT"} THEN Ins.n ELSE 0
        /\ Ins.op = "RETURN" /\ F.blocks = <<>> => Len(F.stack) = 1

\* A program that only assigns data gets to its end if every value it asks for is
\* there, and leaves in its identifiers what the text says: elements in the order
\* they are written in, each target of a tuple the element in its place, one branch
\* of a condition. (ast_to_asm.c, PACK_TUPLE, UNPACK_TUPLE, BUILD_DATASTRUCT,
\* LOAD_SUBSCRIPT)
DataAsWritten ==
    p \in DataPrograms /\ ctl.at \in {"done", "fatal", "crash", "outside"} =>
        LET main == frames[1]
            reached == main.ip > Len(CodeOf(main))
        IN /\ reached <=> Outcomes[p] # Fails
           /\ reached => main.locals = Outcomes[p]

\* A script whose main frame gets to its end exits with 0, whatever was thrown and
\* caught before.  An uncaught exception makes it the exception's code, by way of
\* the handler in sfl/saffire.sf, unless main has finished a try statement (7), has
\* a variable saffire (0), or a saffire.sf or io.sf of its own is found first.  A
\* method that fails without an exception (there is no __boolean, or no __get of a
\* list) makes it 0 too.
\* (vm_execute)
ExitCode ==
    ctl.at = "done" =>
        LET main == frames[1]
            reached == main.ip > Len(CodeOf(main))
            own == \E root \in Range(Programs[p].roots) : DOMAIN root \cap {<<"saffire">>, <<"io">>} # {}
        IN CASE reached -> ctl.code = 0
             [] ~reached /\ main.ret # NULL -> ctl.code = FINALLY
             [] ~reached /\ main.ret = NULL /\ (exc = NULL \/ "saffire" \in DOMAIN main.locals) -> ctl.code = 0
             [] OTHER -> own \/ ctl.code = heap[exc.id].code

\* A script ends, unless a catch throws.  It runs out of C stack only when files
\* import each other or a method that uses parent is inherited, and it hangs only
\* in a try statement that does not catch everything.
Terminates ==
    Rethrows[p] \/
    <>(\/ ctl.at \in {"done", "fatal", "crash", "outside"}
       \/ ctl.at = "overflow" /\ (Cyclic[p] \/ Inherits[p])
       \/ ctl.at = "hang" /\ Selective[p])

=============================================================================
