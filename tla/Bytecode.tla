------------------------------ MODULE Bytecode ------------------------------
(***************************************************************************)
(* From assembly lines to the bytes that are stored, and back: the         *)
(* assembler (compiler/output/asm.c), the conversion of its frames to      *)
(* bytecode, and the marshalling of bytecode (compiler/bytecode/marshal.c).*)
(*                                                                         *)
(* A line of assembly is a label, or an opcode with a line number and      *)
(* operands; the type of an operand says what it stands for.  Code is a    *)
(* sequence of bytes at offsets from 0.  Strings, names and numbers are    *)
(* one token of a stream each, whatever their length.                      *)
(***************************************************************************)
EXTENDS Integers, FiniteSets, SequencesExt

VM_JUMP_ABSOLUTE == 134   \* 0x86
VM_CONTINUE_LOOP == 146   \* 0x92
VM_BUILD_CLASS == 147     \* 0x93

LabelLine(l) == [type |-> "label", label |-> l]
CodeLine(n, op, operands) == [type |-> "code", lineno |-> n, opcode |-> op, operands |-> operands]
Operand(t, x) == [type |-> t, data |-> x]
Constants == {"string", "regex", "code", "num"}

-----------------------------------------------------------------------------
\* The position of x in a pool, which gets it if it does not have it.
Pooled(pool, x) == IF x \in ToSet(pool) THEN pool ELSE Append(pool, x)
IndexIn(pool, x) == (CHOOSE i \in DOMAIN pool : pool[i] = x) - 1

\* Mutant: constants are compared whatever their type.
AddUntyped(frame, operand) ==
    CASE operand.type \in Constants ->
            IF \E c \in ToSet(frame.constants) : c.data = operand.data THEN frame
            ELSE [frame EXCEPT !.constants = Append(@, operand)]
      [] operand.type = "id" -> [frame EXCEPT !.identifiers = Pooled(@, operand.data)]
      [] OTHER -> frame

AddConstant(frame, operand) ==
    CASE operand.type \in Constants -> [frame EXCEPT !.constants = Pooled(@, operand)]
      [] operand.type = "id" -> [frame EXCEPT !.identifiers = Pooled(@, operand.data)]
      [] OTHER -> frame

\* What is written for an operand; a label is written later.
Converted(frame, operand) ==
    CASE operand.type \in Constants ->
            (CHOOSE i \in DOMAIN frame.constants : frame.constants[i].data = operand.data
                /\ (operand \in ToSet(frame.constants) => frame.constants[i] = operand)) - 1
      [] operand.type = "id" -> IndexIn(frame.identifiers, operand.data)
      [] operand.type = "label" -> 65535
      [] OTHER -> operand.data

TwoBytes(n) == <<n % 256, (n \div 256) % 256>>

AddOperand(frame, opcode_off, operand) ==
    LET added == AddConstant(frame, operand)
    IN [added EXCEPT
            !.code = @ \o TwoBytes(Converted(added, operand)),
            !.backpatch_offsets = IF operand.type # "label" THEN @
                ELSE Append(@, [opcode |-> opcode_off, operand |-> Len(frame.code), label |-> operand.data])]

-----------------------------------------------------------------------------
\* A difference in the table of line numbers: 255 for every 127 that is left.
Chunks(delta) ==
    LET big == IF delta > 127 THEN (delta - 1) \div 127 ELSE 0
    IN [i \in 1 .. big |-> 255] \o <<delta - 127 * big>>

\* An instruction of another line adds how far it is from the last such one.
AddLineno(frame, lineno) ==
    IF lineno = 0 \/ lineno = frame.lineno THEN frame
    ELSE [frame EXCEPT
            !.lino = @ \o Chunks(Len(frame.code) - frame.offset) \o Chunks(lineno - frame.lineno),
            !.lineno = lineno, !.offset = Len(frame.code)]

\* The first element, 0, is dropped; a 0 is added at the end.
Lino(lino) == IF lino = <<>> THEN <<>> ELSE [b \in DOMAIN lino |-> (Tail(lino) \o <<0>>)[b] % 256]

-----------------------------------------------------------------------------
AddLine(frame, line) ==
    IF line.type = "label"
    THEN [frame EXCEPT !.label_offsets = [l \in DOMAIN @ \cup {line.label} |->
             IF l = line.label THEN Len(frame.code) ELSE frame.label_offsets[l]]]
    ELSE LET here == Len(frame.code)
             opcode == [AddLineno(frame, line.lineno) EXCEPT !.code = Append(@, line.opcode)]
         IN FoldLeft(LAMBDA f, o : AddOperand(f, here, o), opcode, line.operands)

\* How many operands an opcode has, by its high bits.
OperandCount(opcode) ==
    IF opcode < 128 THEN 0 ELSE IF opcode < 192 THEN 1 ELSE IF opcode < 224 THEN 2 ELSE 3

\* The address of the label goes to the operand, from the end of the instruction
\* or from the start of the code, in 16 bits.
Backpatch(code, p, label_offset) ==
    LET opcode == code[p.opcode + 1]
        from == IF opcode \in {VM_BUILD_CLASS, VM_CONTINUE_LOOP, VM_JUMP_ABSOLUTE} THEN 0
                ELSE p.opcode + 1 + 2 * OperandCount(opcode)
        bytes == TwoBytes((label_offset - from) % 65536)
    IN [code EXCEPT ![p.operand + 1] = bytes[1], ![p.operand + 2] = bytes[2]]

assemble_frame(source_frame, mainframe) ==
    LET new == [code |-> <<>>, constants |-> <<>>,
                identifiers |-> IF mainframe THEN <<>> ELSE <<"self">>,
                label_offsets |-> <<>>, backpatch_offsets |-> <<>>,
                lino |-> <<>>, lineno |-> 0, offset |-> 0]
        frame == FoldLeft(AddLine, new, source_frame)
    IN [frame EXCEPT
            !.code = FoldLeft(LAMBDA c, p : Backpatch(c, p, frame.label_offsets[p.label]),
                              @, frame.backpatch_offsets),
            !.lino = Lino(@)]

\* Bytecode of the frame called name; a constant that is code is bytecode too.
RECURSIVE convert_frames_to_bytecode(_, _)
convert_frames_to_bytecode(frames, name) ==
    LET frame == frames[name]
    IN [stack_size |-> 42, code |-> frame.code, identifiers |-> frame.identifiers,
        constants |-> [i \in DOMAIN frame.constants |->
            IF frame.constants[i].type # "code" THEN frame.constants[i]
            ELSE Operand("code", convert_frames_to_bytecode(frames, frame.constants[i].data))],
        lino |-> frame.lino]

\* asm_code has a sequence of lines for every name of a frame, "main" the first.
assembler(asm_code) ==
    convert_frames_to_bytecode([n \in DOMAIN asm_code |-> assemble_frame(asm_code[n], n = "main")],
                               "main")

-----------------------------------------------------------------------------
\* Everything with its length in front of it.
RECURSIVE bytecode_marshal(_)
bytecode_marshal(bytecode) ==
    LET Constant(c) == IF c.type # "code" THEN <<c.type, 1, c.data>>
                       ELSE LET child == bytecode_marshal(c.data)
                            IN <<"code", Len(child)>> \o child
    IN <<bytecode.stack_size, Len(bytecode.code)>> \o bytecode.code
       \o <<Len(bytecode.identifiers)>> \o bytecode.identifiers
       \o <<Len(bytecode.constants)>>
       \o FoldLeft(LAMBDA s, c : s \o Constant(c), <<>>, bytecode.constants)
       \o <<Len(bytecode.lino)>> \o bytecode.lino

\* Read from the front; what follows is not looked at.  A child is read from
\* where the reader is, and its length skipped.
RECURSIVE bytecode_unmarshal(_)
bytecode_unmarshal(bincode) ==
    LET code_len == bincode[2]
        ids_at == 3 + code_len
        ids == bincode[ids_at]
        consts_at == ids_at + ids + 1
        ReadConstant(s, i) ==
            LET len == bincode[s.pos + 1]
                data == IF bincode[s.pos] = "code"
                        THEN bytecode_unmarshal(SubSeq(bincode, s.pos + 2, Len(bincode)))
                        ELSE bincode[s.pos + 2]
            IN [pos |-> s.pos + 2 + len, read |-> Append(s.read, Operand(bincode[s.pos], data))]
        constants == FoldLeft(ReadConstant, [pos |-> consts_at + 1, read |-> <<>>],
                              [i \in 1 .. bincode[consts_at] |-> i])
    IN [stack_size |-> bincode[1],
        code |-> SubSeq(bincode, 3, 2 + code_len),
        identifiers |-> SubSeq(bincode, ids_at + 1, ids_at + ids),
        constants |-> constants.read,
        lino |-> SubSeq(bincode, constants.pos + 1, constants.pos + bincode[constants.pos])]

-----------------------------------------------------------------------------
\* How the machine reads code: the instruction at an offset, and what follows.
RECURSIVE Instructions(_, _)
Instructions(code, ip) ==
    IF ip >= Len(code) THEN <<>>
    ELSE LET count == OperandCount(code[ip + 1])
             end == ip + 1 + 2 * count
         IN <<[at |-> ip, end |-> end, opcode |-> code[ip + 1],
               operands |-> [i \in 1 .. count |-> code[ip + 2 * i] + 256 * code[ip + 2 * i + 1]]]>>
            \o Instructions(code, end)

\* The frame `name' of the assembly and the bytecode made of it say the same:
\* opcode by opcode, each index finds what the operand stands for, and each
\* address is the one of the instruction after the label.
RECURSIVE Means(_, _, _)
Means(asm_code, name, bytecode) ==
    LET lines == asm_code[name]
        Code(l) == l.type = "code"
        source == SelectSeq(lines, Code)
        read == Instructions(bytecode.code, 0)
        Behind(l) == CHOOSE n \in DOMAIN lines : lines[n] = LabelLine(l)
        Before(n) == Len(SelectSeq(SubSeq(lines, 1, n), Code))
        Target(l) == IF Before(Behind(l)) = Len(read) THEN Len(bytecode.code)
                     ELSE read[Before(Behind(l)) + 1].at
        Absolute(i) == i.opcode \in {VM_BUILD_CLASS, VM_CONTINUE_LOOP, VM_JUMP_ABSOLUTE}
        Same(o, x, i) ==
            CASE o.type = "code" -> /\ x < Len(bytecode.constants)
                                    /\ bytecode.constants[x + 1].type = "code"
                                    /\ Means(asm_code, o.data, bytecode.constants[x + 1].data)
              [] o.type \in Constants \ {"code"} ->
                    x < Len(bytecode.constants) /\ bytecode.constants[x + 1] = o
              [] o.type = "id" -> x < Len(bytecode.identifiers) /\ bytecode.identifiers[x + 1] = o.data
              [] o.type = "label" -> Target(o.data) = x + IF Absolute(i) THEN 0 ELSE i.end
              [] OTHER -> x = o.data
    IN /\ Len(read) = Len(source)
       /\ \A n \in DOMAIN read :
            /\ read[n].opcode = source[n].opcode
            /\ Len(read[n].operands) = Len(source[n].operands)
            /\ \A j \in DOMAIN read[n].operands :
                  Same(source[n].operands[j], read[n].operands[j], read[n])
=============================================================================
