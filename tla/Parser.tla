------------------------------- MODULE Parser --------------------------------
(***************************************************************************)
(* What the parser checks besides the grammar: the actions of saffire.y    *)
(* and the state they keep in parserinfo (compiler/parser_helpers.c).      *)
(*                                                                         *)
(* A program is read construct by construct in the order in which bison    *)
(* reduces the rules; bison's own stack, reduced to the constructs that    *)
(* are open, is nesting.  The text is anything the grammar accepts.  A     *)
(* body of one statement without braces is a body with one statement, and  *)
(* the branches of if, else, try, catch and finally are all blocks.        *)
(***************************************************************************)
EXTENDS Integers, Sequences, FiniteSets

CONSTANTS
    ClassNames,
    MaxNesting,      \* constructs that are open at a time
    MaxClasses,      \* classes in a program
    MaxFors          \* for statements in a program

NoClass == "none"    \* parserinfo->active_class is NULL

ASSUME ParserAssumption == NoClass \notin ClassNames /\ MaxNesting \in Nat

VARIABLES
    nesting,         \* the open constructs, innermost last
    mods,            \* modifier_list: the flags of the member that is being read
    in_class, in_method, in_loop_counter,
    switches,        \* current_switch and its parents, innermost last: has_default
    classes,
    active_class,
    result,          \* error and internal: parser_error() has ended the program
    \* What was read, for the properties to compare with:
    input,           \* the last thing
    given,           \* the modifiers of mods in their order
    declared,        \* the names of classes
    fors             \* for statements that are complete

parserinfo == <<in_class, in_method, in_loop_counter, switches, classes, active_class>>
text == <<given, declared, fors>>
vars == <<nesting, mods, parserinfo, result, input, text>>

Visibilities == {"public", "protected", "private"}
Modifiers == Visibilities \cup {"final", "abstract", "static"}
Loops == {"while", "do", "foreach"}

construct(k) == [k |-> k, mods |-> {}, labels |-> 0, defaults |-> 0]
Top == nesting[Len(nesting)]
Reading == result = "parsing"
\* What may stand where: classes and interfaces at the top, members in a class,
\* statements at the top and in bodies, those of a switch after a label.
AtTop == Reading /\ nesting = <<>>
In(kinds) == Reading /\ nesting # <<>> /\ Top.k \in kinds
AtStatement ==
    /\ mods = {}
    /\ AtTop \/ In(Loops \cup {"for", "block", "method"}) \/ (In({"switch"}) /\ Top.labels > 0)
Room == Len(nesting) < MaxNesting
Open(c) == nesting' = Append(nesting, c)
Shut == nesting' = SubSeq(nesting, 1, Len(nesting) - 1)

\* parser_error ends the program in the middle of the action.
Refuse(how) == result' = how /\ UNCHANGED <<nesting, mods, parserinfo>>
Accept == UNCHANGED result
Read(item) == input' = item

\* parserinfo after parser_loop_enter, which cannot fail, and what else a loop leaves
parser_loop_enter == in_loop_counter' = in_loop_counter + 1
parser_loop_leave == in_loop_counter' = in_loop_counter - 1
OnlyLoops == UNCHANGED <<in_class, in_method, classes, active_class>>
NoText == UNCHANGED text
NoModifiers == mods' = {} /\ given' = <<>> /\ UNCHANGED <<declared, fors>>

Init ==
    /\ nesting = <<>>
    /\ mods = {}
    /\ in_class = FALSE
    /\ in_method = FALSE
    /\ in_loop_counter = 0
    /\ switches = <<>>
    /\ classes = {}
    /\ active_class = NoClass
    /\ result = "parsing"
    /\ input = [k |-> "nothing"]
    /\ given = <<>>
    /\ declared = <<>>
    /\ fors = 0

-----------------------------------------------------------------------------
(* Modifiers and members.                                                  *)

\* parser_validate_flags
FlagsRefused(m) ==
    \/ mods \cap Visibilities # {} /\ m \in Visibilities
    \/ m \in mods
    \/ {"abstract", "final"} \subseteq mods \cup {m}

Modifier(m) ==
    /\ AtTop \/ In({"class", "interface"})
    /\ Read([k |-> "modifier"])
    /\ given' = Append(given, m)
    /\ UNCHANGED <<declared, fors>>
    /\ \/ FlagsRefused(m) /\ Refuse("error")
       \/ /\ ~FlagsRefused(m)
          /\ mods' = mods \cup {m}
          /\ Accept
          /\ UNCHANGED <<nesting, parserinfo>>

\* class_header
parser_init_class(name) ==
    /\ AtTop /\ Room /\ Len(declared) < MaxClasses
    /\ Read([k |-> "class", mods |-> given])
    /\ declared' = Append(declared, name)
    /\ UNCHANGED fors
    /\ \/ /\ ~in_class /\ (mods \cap Visibilities # {} \/ name \in classes)
          /\ Refuse("error") /\ UNCHANGED given
       \/ /\ in_class
          /\ Refuse("internal") /\ UNCHANGED given
       \/ /\ ~in_class /\ mods \cap Visibilities = {} /\ name \notin classes
          /\ Open(construct("class"))
          /\ classes' = classes \cup {name}
          /\ active_class' = name
          /\ in_class' = TRUE
          /\ mods' = {} /\ given' = <<>>
          /\ Accept
          /\ UNCHANGED <<in_method, in_loop_counter, switches>>

parser_fini_class ==
    /\ In({"class"}) /\ mods = {}
    /\ Read([k |-> "end"])
    /\ NoText
    /\ \/ /\ ~in_class \/ active_class = NoClass
          /\ Refuse("internal")
       \/ /\ in_class /\ active_class # NoClass
          /\ Shut
          /\ in_class' = FALSE
          /\ active_class' = NoClass
          /\ Accept
          /\ UNCHANGED <<mods, in_method, in_loop_counter, switches, classes>>

\* interface_definition: the modifiers are looked at when it is complete.
Interface ==
    /\ AtTop /\ Room
    /\ Read([k |-> "interface"])
    /\ Open([construct("interface") EXCEPT !.mods = mods])
    /\ NoModifiers
    /\ Accept
    /\ UNCHANGED parserinfo

EndInterface ==
    /\ In({"interface"}) /\ mods = {}
    /\ Read([k |-> "end interface", mods |-> Top.mods])
    /\ NoText
    /\ \/ Top.mods \cap Visibilities # {} /\ Refuse("error")
       \/ /\ Top.mods \cap Visibilities = {}
          /\ Shut
          /\ Accept
          /\ UNCHANGED <<mods, parserinfo>>

\* interface_method_declaration: parser_init_method and parser_fini_method
InterfaceMethod ==
    /\ In({"interface"}) /\ mods = {}
    /\ Read([k |-> "declaration"])
    /\ in_method' = FALSE
    /\ NoText
    /\ Accept
    /\ UNCHANGED <<nesting, mods, in_class, in_loop_counter, switches, classes, active_class>>

\* parser_validate_property_modifiers: a property or a constant of a class, a
\* property of an interface.  (parser_validate_constant is called by no rule.)
Property ==
    /\ In({"class", "interface"}) /\ mods # {}
    /\ Read([k |-> "property", mods |-> given])
    /\ \/ mods \cap Visibilities = {} /\ Refuse("error") /\ NoText
       \/ /\ mods \cap Visibilities # {}
          /\ NoModifiers
          /\ Accept
          /\ UNCHANGED <<nesting, parserinfo>>

\* parser_check_permitted_identifiers, of a constant's value or the default of a
\* parameter, of a method of an interface too.
Scalar(identifier) ==
    /\ (In({"class"}) /\ mods # {}) \/ (In({"interface"}) /\ mods = {})
    /\ Read([k |-> "scalar", id |-> identifier])
    /\ NoText
    /\ IF identifier \in {"null", "false", "true"}
       THEN Accept /\ UNCHANGED <<nesting, mods, parserinfo>>
       ELSE Refuse("error")

\* parser_validate_method_modifiers
MethodRefused == mods \cap Visibilities = {} \/ {"abstract", "private"} \subseteq mods

\* class_method_definition with a body: what comes before the body, and after it.
\* An abstract method is refused with any body, an empty one has a type too.
parser_init_method ==
    /\ In({"class"}) /\ mods # {} /\ Room
    /\ Read([k |-> "method", mods |-> given])
    /\ \/ MethodRefused /\ Refuse("error") /\ NoText
       \/ /\ ~MethodRefused
          /\ Open([construct("method") EXCEPT !.mods = mods])
          /\ in_method' = TRUE
          /\ NoModifiers
          /\ Accept
          /\ UNCHANGED <<in_class, in_loop_counter, switches, classes, active_class>>

\* Mutant for VerdictFollowsRules: the end of a method leaves in_method.
parser_fini_methodOpen ==
    /\ In({"method"})
    /\ Read([k |-> "end method", mods |-> Top.mods])
    /\ NoText
    /\ \/ "abstract" \in Top.mods /\ Refuse("error")
       \/ /\ "abstract" \notin Top.mods
          /\ Shut
          /\ Accept
          /\ UNCHANGED <<mods, parserinfo>>

parser_fini_method ==
    /\ In({"method"})
    /\ Read([k |-> "end method", mods |-> Top.mods])
    /\ NoText
    /\ \/ "abstract" \in Top.mods /\ Refuse("error")
       \/ /\ "abstract" \notin Top.mods
          /\ Shut
          /\ in_method' = FALSE
          /\ Accept
          /\ UNCHANGED <<mods, in_class, in_loop_counter, switches, classes, active_class>>

\* class_method_definition with ";" for a body, abstract or not.
MethodDeclaration ==
    /\ In({"class"}) /\ mods # {}
    /\ Read([k |-> "method", mods |-> given])
    /\ \/ MethodRefused /\ Refuse("error") /\ NoText
       \/ /\ ~MethodRefused
          /\ in_method' = FALSE
          /\ NoModifiers
          /\ Accept
          /\ UNCHANGED <<nesting, in_class, in_loop_counter, switches, classes, active_class>>

-----------------------------------------------------------------------------
(* Statements.                                                             *)

Block ==
    /\ AtStatement /\ Room
    /\ Read([k |-> "block"])
    /\ Open(construct("block"))
    /\ NoText
    /\ Accept
    /\ UNCHANGED <<mods, parserinfo>>

EndBlock ==
    /\ In({"block"})
    /\ Read([k |-> "end"])
    /\ Shut
    /\ NoText
    /\ Accept
    /\ UNCHANGED <<mods, parserinfo>>

\* The body of while, do and foreach; an else of it is a block that follows.
Loop(k) ==
    /\ AtStatement /\ Room
    /\ Read([k |-> "block"])
    /\ Open(construct(k))
    /\ parser_loop_enter
    /\ NoText
    /\ Accept
    /\ UNCHANGED <<mods, switches>> /\ OnlyLoops

EndLoop ==
    /\ In(Loops)
    /\ Read([k |-> "end"])
    /\ NoText
    /\ \/ in_loop_counter <= 0 /\ Refuse("internal")
       \/ /\ in_loop_counter > 0
          /\ Shut
          /\ parser_loop_leave
          /\ Accept
          /\ UNCHANGED <<mods, switches>> /\ OnlyLoops

\* Neither rule of for leaves the loop it has entered.
For ==
    /\ AtStatement /\ Room
    /\ fors + Cardinality({i \in DOMAIN nesting : nesting[i].k = "for"}) < MaxFors
    /\ Read([k |-> "block"])
    /\ Open(construct("for"))
    /\ parser_loop_enter
    /\ NoText
    /\ Accept
    /\ UNCHANGED <<mods, switches>> /\ OnlyLoops

EndFor ==
    /\ In({"for"})
    /\ Read([k |-> "end"])
    /\ Shut
    /\ fors' = fors + 1
    /\ Accept
    /\ UNCHANGED <<mods, parserinfo, given, declared>>

\* Mutant for TypeOK: a switch is left as a loop, but not entered as one.
parser_switch_beginOnly ==
    /\ AtStatement /\ Room
    /\ Read([k |-> "block"])
    /\ Open(construct("switch"))
    /\ switches' = Append(switches, FALSE)
    /\ NoText
    /\ Accept
    /\ UNCHANGED <<mods, in_loop_counter>> /\ OnlyLoops

\* A switch is a loop too.
parser_switch_begin ==
    /\ AtStatement /\ Room
    /\ Read([k |-> "block"])
    /\ Open(construct("switch"))
    /\ parser_loop_enter
    /\ switches' = Append(switches, FALSE)
    /\ NoText
    /\ Accept
    /\ UNCHANGED mods /\ OnlyLoops

parser_switch_case ==
    /\ In({"switch"})
    /\ Read([k |-> "case"])
    /\ nesting' = [nesting EXCEPT ![Len(nesting)].labels = 1]
    /\ NoText
    /\ Accept
    /\ UNCHANGED <<mods, parserinfo>>

parser_switch_default ==
    /\ In({"switch"})
    /\ Read([k |-> "default"])
    /\ NoText
    /\ \/ switches = <<>> /\ Refuse("internal")
       \/ switches # <<>> /\ switches[Len(switches)] /\ Refuse("error")
       \/ /\ switches # <<>> /\ ~switches[Len(switches)]
          /\ switches' = [switches EXCEPT ![Len(switches)] = TRUE]
          /\ nesting' = [nesting EXCEPT ![Len(nesting)].labels = 1, ![Len(nesting)].defaults = @ + 1]
          /\ Accept
          /\ UNCHANGED <<mods, in_loop_counter>> /\ OnlyLoops

\* Mutant for FlagsFollowNesting: the end of a switch does not leave the loop.
parser_switch_endInLoop ==
    /\ In({"switch"}) /\ Top.labels > 0
    /\ Read([k |-> "end"])
    /\ NoText
    /\ Shut
    /\ switches' = SubSeq(switches, 1, Len(switches) - 1)
    /\ Accept
    /\ UNCHANGED <<mods, in_loop_counter>> /\ OnlyLoops

parser_switch_end ==
    /\ In({"switch"}) /\ Top.labels > 0
    /\ Read([k |-> "end"])
    /\ NoText
    /\ \/ in_loop_counter <= 0 /\ Refuse("internal")
       \/ /\ in_loop_counter > 0
          /\ Shut
          /\ parser_loop_leave
          /\ switches' = SubSeq(switches, 1, Len(switches) - 1)
          /\ Accept
          /\ UNCHANGED mods /\ OnlyLoops

\* break, continue and breakelse: parser_validate_break and the two like it
Jump ==
    /\ AtStatement
    /\ Read([k |-> "jump"])
    /\ NoText
    /\ IF in_loop_counter = 0 THEN Refuse("error")
       ELSE Accept /\ UNCHANGED <<nesting, mods, parserinfo>>

parser_validate_return ==
    /\ AtStatement
    /\ Read([k |-> "return"])
    /\ NoText
    /\ IF ~in_method THEN Refuse("error")
       ELSE Accept /\ UNCHANGED <<nesting, mods, parserinfo>>

\* parser_write_check: no operation is written to.  Its exception for foo[1] is for
\* T_DATASTRUCT with one operand, which the grammar gives two; foo[1] is T_SUBSCRIPT.
Operands == [call |-> 2, subscript |-> 2, datastruct |-> 2]
Assign(to) ==
    /\ AtStatement
    /\ Read([k |-> "assign", to |-> to])
    /\ NoText
    /\ IF to \notin DOMAIN Operands \/ (to = "datastruct" /\ Operands[to] <= 1)
       THEN Accept /\ UNCHANGED <<nesting, mods, parserinfo>>
       ELSE Refuse("error")

\* The end of the file
Done ==
    /\ AtTop /\ mods = {}
    /\ Read([k |-> "eof"])
    /\ result' = "done"
    /\ NoText
    /\ UNCHANGED <<nesting, mods, parserinfo>>

Next ==
    \/ \E m \in Modifiers : Modifier(m)
    \/ \E name \in ClassNames : parser_init_class(name)
    \/ parser_fini_class
    \/ Interface
    \/ EndInterface
    \/ InterfaceMethod
    \/ Property
    \/ \E identifier \in {"null", "true", "other"} : Scalar(identifier)
    \/ parser_init_method
    \/ parser_fini_method
    \/ MethodDeclaration
    \/ Block
    \/ EndBlock
    \/ \E k \in Loops : Loop(k)
    \/ EndLoop
    \/ For
    \/ EndFor
    \/ parser_switch_begin
    \/ parser_switch_case
    \/ parser_switch_default
    \/ parser_switch_end
    \/ Jump
    \/ parser_validate_return
    \/ \E to \in {"identifier", "property", "literal"} \cup DOMAIN Operands : Assign(to)
    \/ Done

Spec == Init /\ [][Next]_vars

-----------------------------------------------------------------------------
Count(kinds) == Cardinality({i \in DOMAIN nesting : nesting[i].k \in kinds})

TypeOK ==
    /\ Len(nesting) <= MaxNesting
    /\ mods \subseteq Modifiers
    /\ in_class \in BOOLEAN /\ in_method \in BOOLEAN
    /\ in_loop_counter \in Nat
    /\ \A i \in DOMAIN switches : switches[i] \in BOOLEAN
    /\ classes \subseteq ClassNames
    /\ active_class \in classes \cup {NoClass}
    /\ result \in {"parsing", "error", "done"}       \* never "internal"

\* The flags of parserinfo say what is open, but for the loops: every for that was
\* ever read counts as open until the end of the file.  A switch has a default
\* when it is one of its own labels, not of a switch in it or around it.
\* (parserinfo and the actions of saffire.y)
FlagsFollowNesting ==
    LET open == {i \in DOMAIN nesting : nesting[i].k = "switch"}
    IN /\ in_class <=> Count({"class"}) = 1
       /\ in_method <=> Count({"method"}) = 1
       /\ in_loop_counter = Count(Loops \cup {"for", "switch"}) + fors
       /\ Len(switches) = Cardinality(open)
       /\ \A i \in open : switches[Cardinality({j \in open : j <= i})] <=> nesting[i].defaults = 1
       /\ active_class = IF in_class THEN declared[Len(declared)] ELSE NoClass

InNoLoop == Count(Loops \cup {"for", "switch"}) = 0
Has(list, set) == {i \in DOMAIN list : list[i] \in set}
\* What the last thing read breaks, by the rules of the language.
Broken ==
    CASE input.k = "modifier" ->
           \/ \E i, j \in DOMAIN given : i # j /\ given[i] = given[j]
           \/ Cardinality(Has(given, Visibilities)) > 1
           \/ Has(given, {"abstract"}) # {} /\ Has(given, {"final"}) # {}
      [] input.k = "class" ->
           \/ Has(input.mods, Visibilities) # {}
           \/ \E i \in 1..(Len(declared) - 1) : declared[i] = declared[Len(declared)]
      [] input.k = "end interface" -> input.mods \cap Visibilities # {}
      [] input.k = "property" -> Has(input.mods, Visibilities) = {}
      [] input.k = "scalar" -> input.id = "other"
      [] input.k = "method" ->
           \/ Has(input.mods, Visibilities) = {}
           \/ Has(input.mods, {"abstract"}) # {} /\ Has(input.mods, {"private"}) # {}
      [] input.k = "end method" -> "abstract" \in input.mods
      [] input.k = "jump" -> InNoLoop
      [] input.k = "return" -> Count({"method"}) = 0
      [] input.k = "default" -> Top.defaults + (IF result = "error" THEN 1 ELSE 0) > 1
      [] input.k = "assign" -> input.to \in {"call", "datastruct"}
      [] OTHER -> FALSE

\* Where the code and its comments disagree (ChecksAsCommented): a jump that stands in
\* no loop, but after a for, and an assignment to foo[1].
Disputed ==
    \/ input.k = "jump" /\ InNoLoop /\ fors > 0
    \/ input.k = "assign" /\ input.to = "subscript"

\* But for those two a program is refused exactly for a construct that breaks a rule:
\* break and its kind in a loop or a switch, return in a method, one default in a
\* switch, one visibility for a member and none for a class, no modifier twice,
\* nothing both abstract and final, an abstract method neither private nor with a
\* body, one class of a name, and no assignment to a call or to a list.
\* (parser_error in parser_helpers.c)
VerdictFollowsRules == Disputed \/ (result = "error" <=> Broken)

\* What two comments say of the checks, and the code does not do: break, continue and
\* breakelse happen inside a loop, or a switch, which counts as one ("Make sure break
\* happens inside a loop", parser_helpers.c:376), and foo[1] may be assigned to
\* ("foo[] and foo[1] are ok", parser_helpers.c:427).
ChecksAsCommented ==
    /\ input.k = "jump" /\ result # "error" => ~InNoLoop
    /\ input.k = "assign" /\ result = "error" => input.to # "subscript"

=============================================================================
