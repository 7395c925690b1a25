------------------------------ MODULE Objects -------------------------------
(***************************************************************************)
(* Values, classes, instances and their attributes (components/objects),   *)
(* and the methods written in C that the programs of MCRuntime reach.      *)
(*                                                                         *)
(* Numbers, strings, booleans, null, lists, tuples and hashes are values:  *)
(* no program here changes one.  Everything else                           *)
(* is an entry of the heap: an instance is a copy of its class in which    *)
(* only the flags differ (_object_instantiate), so that the two have one   *)
(* table of attributes, the one at heap[id].table.  Reference counts and   *)
(* the collector are not modelled: nothing is ever freed.                  *)
(***************************************************************************)
EXTENDS Integers, Sequences, SequencesExt, TLC
LOCAL INSTANCE Bitwise

NULL == [k |-> "NULL"]                       \* the null pointer
null == [k |-> "null"]                       \* Object_Null
number(n) == [k |-> "num", n |-> n]
string(s) == [k |-> "str", s |-> s]
bool(b) == [k |-> "bool", b |-> b]
True == bool(TRUE)
False == bool(FALSE)
list(l) == [k |-> "list", l |-> l]
tuple(t) == [k |-> "tuple", t |-> t]
hash(pairs) == [k |-> "hash", pairs |-> pairs]     \* of a key and its value, as they were added
ref(id) == [k |-> "obj", id |-> id]
raise(class) == [k |-> "raise", class |-> class]   \* NULL, with an exception created
crash == [k |-> "crash"]                           \* a signal

Empty == <<>>                                      \* no attributes, no identifiers

-----------------------------------------------------------------------------
(* The objects there are from the start.                                   *)

attribute(type, ro, static, value) ==
    [type |-> type, ro |-> ro, static |-> static, value |-> value]
\* object_add_internal_method
internal_method(of, fn, static) ==
    attribute("method", TRUE, static, [k |-> "native", of |-> of, fn |-> fn])
Methods(of, names, static) == [fn \in names |-> internal_method(of, fn, static)]

Conversions == {"__boolean", "__null", "__numerical", "__string"}
Operators == {"__opr_add", "__opr_sub", "__opr_mul", "__opr_div", "__opr_mod", "__opr_and",
              "__opr_or", "__opr_xor", "__opr_sl", "__opr_sr"}
Comparisons == {"__cmp_eq", "__cmp_ne", "__cmp_lt", "__cmp_gt", "__cmp_le", "__cmp_ge"}

object_base_attributes == Methods("base", {"__new", "__ctor", "__dtor", "__name", "__clone", "__destroy"}, FALSE)
object_numerical_attributes ==
    Methods("numerical", {"__ctor", "__dtor", "abs", "neg"} \cup Conversions \cup Operators \cup Comparisons, FALSE)
object_boolean_attributes == Methods("boolean", Conversions \cup Operators \cup Comparisons, FALSE)
object_null_attributes == Methods("null", Conversions \cup {"__cmp_ne"}, FALSE)
object_callable_attributes ==
    Methods("callable", {"__ctor", "__dtor", "__boolean", "__null", "isInternal"}, FALSE)
object_string_attributes ==
    Methods("string", {"__boolean", "__null", "__string", "length", "__opr_add", "__cmp_eq", "__cmp_ne", "__get"}, FALSE)
object_list_attributes == Methods("list", {"__boolean", "__null", "__numerical", "length", "get"}, TRUE)
object_tuple_attributes == Methods("tuple", {"__boolean", "__null", "__numerical", "length", "get"}, FALSE)
object_hash_attributes ==
    Methods("hash", {"__boolean", "__null", "__numerical", "length", "get", "has", "__get", "__has", "__splice"}, TRUE)
object_exception_attributes ==
    Methods("exception", Conversions \cup {"getMessage", "setMessage", "getCode", "setCode", "__cmp_eq", "__cmp_ne"}, TRUE)
    @@ Methods("exception", {"__ctor"}, FALSE)
module_io_attributes == Methods("io", {"print", "printf", "sprintf"}, TRUE)
module_saffire_attributes == Methods("saffire", {"version", "sapi"}, TRUE)

object(name, type, class, parent, table, attrs) ==
    [name |-> name, type |-> type, class |-> class, parent |-> parent, table |-> table,
     attrs |-> attrs, code |-> 0, message |-> null]

\* exceptions.dat as create_exceptions.php writes it: the identifier a script
\* finds the class by, the name of the object, and what it extends.
GeneratedExceptions == <<
    <<"systemException", "SystemException", "exception">>,
    <<"attributeException", "AttributeException", "SystemException">>,
    <<"indexException", "IndexException", "SystemException">>,
    <<"typeException", "TypeException", "SystemException">>,
    <<"callException", "CallException", "SystemException">>,
    <<"argumentException", "ArgumentException", "CallException">>,
    <<"callableException", "CallableException", "CallException">>,
    <<"visibilityException", "VisibilityException", "CallException">>,
    <<"importException", "ImportException", "SystemException">>,
    <<"ooException", "OoException", "SystemException">>,
    <<"interfaceException", "InterfaceException", "OoException">>,
    <<"extendException", "ExtendException", "OoException">>,
    <<"arithmeticException", "ArithmeticException", "exception">>,
    <<"divideByZeroException", "DivideByZeroException", "ArithmeticException">>,
    <<"ioException", "IoException", "exception">>,
    <<"fileException", "FileException", "IoException">>,
    <<"fileNotFoundException", "FileNotFoundException", "FileException">> >>

Scalars == <<"base", "numerical", "boolean", "null", "string", "list", "tuple", "hash", "callable", "exception",
             "io", "saffire">>
Id0 == [n \in Range(Scalars) \cup {GeneratedExceptions[i][2] : i \in DOMAIN GeneratedExceptions} |->
          IF n \in Range(Scalars) THEN CHOOSE i \in DOMAIN Scalars : Scalars[i] = n
          ELSE Len(Scalars) + CHOOSE i \in DOMAIN GeneratedExceptions : GeneratedExceptions[i][2] = n]

ScalarAttributes(n) ==
    CASE n = "base" -> object_base_attributes
      [] n = "numerical" -> object_numerical_attributes
      [] n = "boolean" -> object_boolean_attributes
      [] n = "null" -> object_null_attributes
      [] n = "string" -> object_string_attributes
      [] n = "list" -> object_list_attributes
      [] n = "tuple" -> object_tuple_attributes
      [] n = "hash" -> object_hash_attributes
      [] n = "callable" -> object_callable_attributes
      [] n = "exception" -> object_exception_attributes
      [] n = "io" -> module_io_attributes
      [] n = "saffire" -> module_saffire_attributes

\* object_init and module_init.  A generated exception is flagged immutable only,
\* it is not a class, and has the attributes of exception.
heap0 ==
    [i \in DOMAIN Scalars |->
        LET n == Scalars[i]
        IN object(n, IF n \in {"io", "saffire"} THEN "user" ELSE n, n # "null",
                  IF n = "base" THEN 0 ELSE Id0["base"], i, ScalarAttributes(n))]
    \o [i \in DOMAIN GeneratedExceptions |->
          LET g == GeneratedExceptions[i]
          IN object(g[2], "exception", FALSE, Id0[g[3]], Id0["exception"], Empty)]

\* vm_populate_builtins
builtins0 ==
    [n \in {"numerical", "boolean", "string", "list", "tuple", "hash", "exception"} |-> ref(Id0[n])]
    @@ ("null" :> null @@ "true" :> True @@ "false" :> False)
    @@ ("::_sfl::io::io" :> ref(Id0["io"]) @@ "::_sfl::saffire::saffire" :> ref(Id0["saffire"]))
    @@ [n \in {GeneratedExceptions[i][1] : i \in DOMAIN GeneratedExceptions} |->
          ref(Id0[(CHOOSE g \in Range(GeneratedExceptions) : g[1] = n)[2]])]

-----------------------------------------------------------------------------
(* Looking at an object of heap h.                                         *)

TypeNames == [num |-> "numerical", str |-> "string", bool |-> "boolean", null |-> "null", list |-> "list",
              tuple |-> "tuple", hash |-> "hash", code |-> "callable", native |-> "callable"]
Entry(v) == IF v.k = "obj" THEN v.id ELSE Id0[TypeNames[v.k]]
TypeOf(h, v) == h[Entry(v)].type
NameOf(h, v) == h[Entry(v)].name
IsClass(h, v) == v.k = "obj" /\ h[v.id].class

\* object_has_interface of the two that the machine asks for: a class of a script
\* has those it is declared with only, and none here is with these.
IsDatastructure(h, v) == TypeOf(h, v) \in {"list", "tuple", "hash"}
IsIterator(h, v) == TypeOf(h, v) \in {"list", "hash", "string"}

RECURSIVE Ancestry(_, _)
Ancestry(h, id) == IF id = 0 THEN <<>> ELSE <<id>> \o Ancestry(h, h[id].parent)

object_instance_of(h, v, name) ==
    \E i \in Range(Ancestry(h, Entry(v))) : h[i].name = name

\* object_attrib_find: the attribute itself, or NULL.
Attributes(h, id) == h[h[id].table].attrs
object_attrib_find(h, id, name) ==
    LET found == SelectSeq(Ancestry(h, id), LAMBDA i : name \in DOMAIN Attributes(h, i))
    IN IF found = <<>> THEN NULL ELSE Attributes(h, found[1])[name]

\* Mutant for ReadsLastWrite: an instance has a table of its own.
InstanceWithTable(h, id) ==
    Append(h, [h[id] EXCEPT !.class = FALSE, !.table = Len(h) + 1, !.attrs = Attributes(h, id)])

\* _object_instantiate.  The new object is the last of the heap.
Instance(h, id) == Append(h, [h[id] EXCEPT !.class = FALSE, !.attrs = Empty])

\* Mutant for TypeOK: the exception is the class itself, given the code.
ExceptionInPlace(h, class) == [h EXCEPT ![Id0[class]].code = 1]

\* thread_create_exception
Exception(h, class) == Append(h, [h[Id0[class]] EXCEPT !.code = 1])

\* object_add_property.  The attribute goes into the table of the object, which is
\* its class's.
object_add_property(h, id, name, v) ==
    [h EXCEPT ![h[id].table].attrs = (name :> attribute("property", FALSE, FALSE, v)) @@ @]

\* vm_create_user_object: a copy of the parent, code and message included, with
\* a name, a parent and attributes of its own.
vm_create_user_object(h, name, parent, attrs) ==
    Append(h, [h[parent] EXCEPT !.type = "user", !.name = name, !.class = TRUE, !.parent = parent,
                                !.table = Len(h) + 1, !.attrs = attrs])

-----------------------------------------------------------------------------
(* Methods in C: what is returned, or the exception that is raised.        *)

\* object_parse_arguments for one argument of the given kind.
Parses(args, kind) == Len(args) >= 1 /\ (kind = "any" \/ args[1].k = kind)

Magnitude(a) == IF a < 0 THEN 0 - a ELSE a
Quotient(a, b) ==
    LET q == Magnitude(a) \div Magnitude(b) IN IF (a < 0) = (b < 0) THEN q ELSE 0 - q
Compare(fn, a, b) ==
    CASE fn = "__cmp_eq" -> a = b   [] fn = "__cmp_ne" -> a # b
      [] fn = "__cmp_lt" -> a < b   [] fn = "__cmp_gt" -> a > b
      [] fn = "__cmp_le" -> a <= b  [] fn = "__cmp_ge" -> a >= b
\* On a long, of 64 bits: no program here comes near its ends.
Arithmetic(fn, a, b) ==
    CASE fn = "__opr_add" -> a + b  [] fn = "__opr_sub" -> a - b
      [] fn = "__opr_mul" -> a * b  [] fn = "__opr_div" -> Quotient(a, b)
      [] fn = "__opr_mod" -> a - b * Quotient(a, b)
      [] fn = "__opr_and" -> a & b  [] fn = "__opr_or" -> a | b
      [] fn = "__opr_xor" -> a ^^ b
      [] fn = "__opr_sl" -> a * 2^b [] fn = "__opr_sr" -> a \div 2^b

numerical_method(fn, self, args) ==
    CASE fn = "abs" -> number(Magnitude(self.n))
      [] fn = "neg" -> number(0 - self.n)
      [] fn = "__boolean" -> bool(self.n # 0)
      [] fn \in {"__null", "__dtor"} -> null
      [] fn \in {"__numerical", "__ctor"} -> self
      [] fn = "__string" -> string(ToString(self.n))
      [] ~Parses(args, "num") -> raise("ArgumentException")
      [] fn \in Comparisons -> bool(Compare(fn, self.n, args[1].n))
      [] fn = "__opr_div" /\ args[1].n = 0 -> raise("DivideByZeroException")
      [] fn = "__opr_mod" /\ args[1].n = 0 -> crash
      [] OTHER -> number(Arithmetic(fn, self.n, args[1].n))

Bit(v) == IF v.b THEN 1 ELSE 0
boolean_method(fn, self, args) ==
    CASE fn = "__boolean" -> self
      [] fn = "__null" -> null
      [] fn = "__numerical" -> number(Bit(self))
      [] fn = "__string" -> string(IF self.b THEN "true" ELSE "false")
      [] ~Parses(args, "bool") -> raise("ArgumentException")
      [] fn \in Comparisons -> bool(Compare(fn, Bit(self), Bit(args[1])))
      [] fn = "__opr_div" /\ ~args[1].b -> False
      [] fn = "__opr_mod" /\ ~args[1].b -> crash
      [] OTHER -> bool(Arithmetic(fn, Bit(self), Bit(args[1])) >= 1)

null_method(fn, args) ==
    CASE fn = "__boolean" -> False
      [] fn = "__null" -> null
      [] fn = "__numerical" -> number(0)
      [] fn = "__string" -> string("null")
      [] fn = "__cmp_ne" -> bool(args[1] # null)

\* The characters up to and including the 0 at the end.  (An index that is no number
\* is read as one; no program here has such an index.)
Nul == "0"
Character(s, i) == SubSeq(s \o Nul, i + 1, i + 1)

string_method(fn, self, args) ==
    CASE fn = "__boolean" -> bool(self.s # "")
      [] fn = "__null" -> null
      [] fn = "__string" -> self
      [] fn = "length" -> number(Len(self.s))
      [] fn = "__get" /\ args[1].n \notin 0..Len(self.s) -> raise("IndexException")
      [] fn = "__get" /\ args[1].n \in 0..Len(self.s) -> string(Character(self.s, args[1].n))
      [] ~Parses(args, "str") -> raise("ArgumentException")
      [] fn = "__cmp_eq" -> bool(self.s = args[1].s)
      [] fn = "__cmp_ne" -> bool(self.s # args[1].s)
      [] fn = "__opr_add" -> string(self.s \o args[1].s)

\* What a list, a tuple and a hash say of the number of their elements.
counted(fn, n) ==
    CASE fn = "__boolean" -> bool(n # 0)
      [] fn = "__null" -> null
      [] fn \in {"__numerical", "length"} -> number(n)
ElementAt(s, i) == IF i \in 0..(Len(s) - 1) THEN s[i + 1] ELSE null

list_method(fn, self, args) ==
    CASE fn # "get" -> counted(fn, Len(self.l))
      [] fn = "get" /\ ~Parses(args, "num") -> raise("ArgumentException")
      [] fn = "get" /\ Parses(args, "num") -> ElementAt(self.l, args[1].n)

tuple_method(fn, self, args) ==
    CASE fn # "get" -> counted(fn, Len(self.t))
      [] fn = "get" /\ ~Parses(args, "num") -> raise("ArgumentException")
      [] fn = "get" /\ Parses(args, "num") ->
           IF args[1].n \in 0..(Len(self.t) - 1) THEN ElementAt(self.t, args[1].n) ELSE raise("IndexException")

\* Of two pairs with one key the first is found: keys are the same as numbers, as
\* strings, or as the same object.  There are no parts of a hash.
hash_method(fn, self, args) ==
    LET found == SelectSeq(self.pairs, LAMBDA pair : pair[1] = args[1])
    IN CASE fn = "__splice" -> NULL
         [] fn \in {"get", "__get", "has", "__has"} /\ ~Parses(args, "any") -> raise("ArgumentException")
         [] fn \in {"get", "__get"} /\ Parses(args, "any") ->
              IF found # <<>> THEN found[1][2] ELSE IF Len(args) > 1 THEN args[2] ELSE null
         [] fn \in {"has", "__has"} /\ Parses(args, "any") -> bool(found # <<>>)
         [] OTHER -> counted(fn, Len(self.pairs))

callable_method(fn, self) ==
    CASE fn = "__ctor" -> self
      [] fn = "__boolean" -> True
      [] fn \in {"__dtor", "__null"} -> null
      [] fn = "isInternal" -> bool(self.k = "native")

\* __boolean returns the exception itself, which is no boolean.
exception_method(h, fn, self, args) ==
    CASE fn = "__boolean" -> self
      [] fn = "__null" -> null
      [] fn \in {"__numerical", "getCode"} -> number(h[self.id].code)
      [] fn \in {"__string", "getMessage"} -> h[self.id].message
      [] fn = "__ctor" ->
            IF Parses(args, "str") /\ (Len(args) > 1 => args[2].k = "num")
            THEN self ELSE raise("ArgumentException")
      [] fn = "setMessage" -> IF Parses(args, "str") THEN self ELSE raise("ArgumentException")
      [] fn = "setCode" -> IF Parses(args, "num") THEN self ELSE raise("ArgumentException")
      [] fn \in {"__cmp_eq", "__cmp_ne"} ->
            IF Parses(args, "any") THEN bool((self = args[1]) = (fn = "__cmp_eq"))
            ELSE raise("ArgumentException")

base_method(h, fn, self) ==
    CASE fn = "__new" -> ref(Len(h) + 1)
      [] fn \in {"__ctor", "__dtor", "__clone"} -> self
      [] fn = "__name" -> string(NameOf(h, self))
      [] fn = "__destroy" -> null

module_method(fn, self) ==
    IF fn \in {"print", "printf"} THEN self ELSE string(fn)

Native(h, m, self, args) ==
    CASE m.of = "numerical" -> numerical_method(m.fn, self, args)
      [] m.of = "boolean" -> boolean_method(m.fn, self, args)
      [] m.of = "null" -> null_method(m.fn, args)
      [] m.of = "string" -> string_method(m.fn, self, args)
      [] m.of = "list" -> list_method(m.fn, self, args)
      [] m.of = "tuple" -> tuple_method(m.fn, self, args)
      [] m.of = "hash" -> hash_method(m.fn, self, args)
      [] m.of = "callable" -> callable_method(m.fn, self)
      [] m.of = "exception" -> exception_method(h, m.fn, self, args)
      [] m.of = "base" -> base_method(h, m.fn, self)
      [] m.of \in {"io", "saffire"} -> module_method(m.fn, self)

\* What a method in C does to the heap, when it does not raise.
Effect(h, m, self, args) ==
    CASE m.fn = "__new" -> Instance(h, Entry(self))
      [] m.of = "exception" /\ m.fn = "__ctor" ->
            [h EXCEPT ![self.id].message = args[1],
                      ![self.id].code = IF Len(args) > 1 THEN args[2].n ELSE @]
      [] m.fn = "setMessage" -> [h EXCEPT ![self.id].message = args[1]]
      [] m.fn = "setCode" -> [h EXCEPT ![self.id].code = args[1].n]
      [] OTHER -> h

=============================================================================
