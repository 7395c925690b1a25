------------------------------ MODULE MCCache -------------------------------
EXTENDS BytecodeCache

Id(s) == Operand("id", s)
Str(s) == Operand("string", s)
Num(n) == Operand("num", n)
Code(s) == Operand("code", s)
Real(n) == Operand("real", n)
To(l) == Operand("label", l)

\* Opcodes of vm_opcodes.dat.
POP_TOP == 1
RETURN == 115
STORE_ID == 128
LOAD_CONST == 129
LOAD_ID == 130
JUMP_FORWARD == 131
JUMP_ABSOLUTE == 134
CALL == 191
BUILD_ATTRIB == 194
SETUP_EXCEPT == 224

\* A try statement, a loop, and a long way to the next line.
Jumps ==
    <<CodeLine(1, SETUP_EXCEPT, <<To("catch"), To("final"), To("end")>>),
      LabelLine("top"), CodeLine(2, LOAD_ID, <<Id("x")>>),
      CodeLine(0, JUMP_ABSOLUTE, <<To("top")>>),
      LabelLine("catch"), CodeLine(4, POP_TOP, <<>>), CodeLine(0, JUMP_FORWARD, <<To("final")>>),
      CodeLine(5, LOAD_CONST, <<Num(1)>>), LabelLine("final"),
      CodeLine(6, BUILD_ATTRIB, <<Real(1), Real(2)>>), CodeLine(300, STORE_ID, <<Id("y")>>),
      LabelLine("end")>>

\* The same value as a string and as a regex, a constant used twice, names with
\* those of other frames; methods one of which has a function in it.
Method(s) == <<CodeLine(3, LOAD_CONST, <<Str(s)>>), CodeLine(0, RETURN, <<>>)>>
Class(s) ==
    [main |-> <<CodeLine(1, LOAD_CONST, <<Str("x")>>), CodeLine(0, LOAD_CONST, <<Operand("regex", "x")>>),
                CodeLine(2, LOAD_CONST, <<Code("A")>>), CodeLine(0, LOAD_CONST, <<Str("x")>>),
                CodeLine(4, LOAD_CONST, <<Code("B")>>), CodeLine(0, STORE_ID, <<Id("A")>>)>>,
     A |-> Method(s),
     B |-> <<CodeLine(5, LOAD_ID, <<Id("self")>>), CodeLine(0, LOAD_CONST, <<Code("A")>>),
             CodeLine(0, CALL, <<Real(0)>>), CodeLine(6, LOAD_CONST, <<Code("J")>>)>>,
     J |-> Jumps]

\* Two of one size.
MCSources == <<Class("a"), Class("b")>>
\* As tuples, for TLC to assemble and marshal once.
MCParts == Compressed @@ <<>>
MCSizes == Uncompressed @@ <<>>
MCLimits == [commands |-> 3, events |-> 1]
Symmetry == Permutations(Procs)
=============================================================================
