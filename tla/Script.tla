------------------------------- MODULE Script ------------------------------
(***************************************************************************)
(* Compiled statements run by the virtual machine: Compiler makes the code *)
(* that Frame executes, Semantics says what the statements mean.           *)
(***************************************************************************)
EXTENDS Frame, Semantics

\* A program's text is the statement its code was compiled from.
ASSUME ScriptAssumption == \A q \in Programs : q.code = Compile(q.text)

\* This program is one unwind_blocks() has the cases for.
Supports == Supported(p.text, <<>>)
-----------------------------------------------------------------------------
TypeOK ==
    /\ ip \in 1 .. Len(p.code) + 1
    /\ \A k \in DOMAIN stack : stack[k] \in Values
    /\ Len(stack) <= StackSize \/ phase = "overflow"
    /\ Len(blocks) <= MaxBlocks
    /\ \A k \in DOMAIN blocks :
          /\ blocks[k].type \in {"loop", "exception"}
          /\ \A j \in DOMAIN blocks[k].to : blocks[k].to[j] \in 1 .. Len(p.code)
    /\ ret \in Values \cup {NULL} /\ reason \in NONE .. FINALLY
    /\ exc \in Classes \cup {NoException}
    /\ phase \in {"run", "unwind", "done", "fatal", "overflow"} /\ budget \in 0 .. Budget

\* A program does what its statements mean: the calls it makes, the conditions
\* it asks and the exceptions its catch clauses get come in the order the
\* statements give, finally bodies included, and the frame ends as they do.
RunsAsWritten ==
    Supports =>
        LET r == Follow(p.text, log)
            result == IF reason = EXCEPTION THEN <<"exc", exc>>
                      ELSE IF ip = Len(p.code) + 1 THEN <<"normal">> ELSE <<"return">>
        IN /\ ~Ended(r, "wrong") /\ phase \notin {"fatal", "overflow"}
           /\ phase = "done" => r.out = result /\ r.rest = <<>>

\* The blocks whose code an instruction lies in, outermost first.
Enclosing(a) ==
    {s \in 1 .. a - 1 :
        \/ p.code[s].op = "SETUP_LOOP" /\ a <= p.code[s].to[1]
        \/ p.code[s].op = "SETUP_EXCEPT" /\ a <= p.code[s].to[3]}

\* Wherever a jump, an exception or a return leads, the block stack holds the
\* blocks around the next instruction, no more and no fewer.
BlocksFollowCode ==
    (Supports /\ phase = "run") =>
        /\ Len(blocks) = Cardinality(Enclosing(ip))
        /\ \A s \in Enclosing(ip) :
              LET b == blocks[Cardinality({r \in Enclosing(ip) : r <= s})]
              IN \A j \in DOMAIN p.code[s].to : b.to[j] = p.code[s].to[j]

\* A block's body leaves nothing on the variable stack: a loop ends at the
\* height it began with; END_FINALLY finds its own marker, a pending return or
\* the exception no catch took, and nothing else above the block.
BodiesLeaveNothing ==
    (Supports /\ phase = "run" /\ blocks # <<>>) =>
        LET above == SubSeq(stack, Block.h + 1, Len(stack)) IN
        CASE Ins.op = "POP_BLOCK" -> Len(stack) = Block.h
          [] Ins.op = "END_FINALLY" ->
                \/ above = <<Num(FINALLY)>>
                \/ Len(above) = 3 /\ above[1] = Num(FINALLY) /\ above[3] = Num(RETURN)
          [] OTHER -> Len(stack) >= Block.h

\* A run of bounded choices ends.
Terminates == Supports ~> phase = "done"

-----------------------------------------------------------------------------
\* "Unwind blocks. ... we will by default unwind everything down EXCEPT when
\* certain conditions are met" (vm.c:1737): unwinding comes to an end.
UnwindEnds == phase = "unwind" ~> phase # "unwind"

\* "NULL returned means exception occurred" (vm.c:1095), which is how a caller
\* learns that the frame ended in an exception.
ExceptionReturnsNull == (phase = "done" /\ reason = EXCEPTION) => ret = NULL

\* "Pushes an object onto the stack. Errors when the stack is full"
\* (stackframe.c:107): no push writes outside the stack.
PushErrorsWhenFull == phase # "overflow"
=============================================================================
