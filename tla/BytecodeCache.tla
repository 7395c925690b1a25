---------------------------- MODULE BytecodeCache ----------------------------
(***************************************************************************)
(* What the bytecode file of Cache has in it: the marshalled bytecode of   *)
(* the assembly of every version of the source, compressed.                *)
(***************************************************************************)
EXTENDS Cache, Bytecode

CONSTANTS
    Sources,    \* the assembly of every version of the source
    PartLength  \* how much bytecode compresses to one part

Bytecodes == [v \in DOMAIN Sources |-> assembler(Sources[v])]
Bincode == [v \in DOMAIN Sources |-> bytecode_marshal(Bytecodes[v])]
Compressed == [v \in DOMAIN Sources |-> 1 + Len(Bincode[v]) \div PartLength]
Uncompressed == [v \in DOMAIN Sources |-> Len(Bincode[v])]

ASSUME BytecodeCacheAssumption ==
    /\ PartLength \in Nat \ {0}
    /\ \A v \in DOMAIN Sources : "main" \in DOMAIN Sources[v]
    /\ Parts = Compressed
    /\ Sizes = Uncompressed

-----------------------------------------------------------------------------
\* asm.c, marshal.c, bytecode_load: what is run, be it the bytecode just assembled or
\* marshalled, written, read by another process and unmarshalled, says what the assembly
\* of its version says: each operand finds its constant or name through the pools, each
\* label its address, nested code included.
RunsAsAssembled ==
    \A p \in Procs : proc[p].pc = "run" =>
        LET v == proc[p].version
        IN v \in Versions /\ Means(Sources[v], "main", bytecode_unmarshal(Bincode[v]))
=============================================================================
