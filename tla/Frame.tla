------------------------------- MODULE Frame -------------------------------
(***************************************************************************)
(* One activation of the virtual machine: _vm_execute() running the code   *)
(* of a stack frame, its variable stack, its block stack, and              *)
(* unwind_blocks(), which decides where a return, break, continue or       *)
(* exception goes (components/vm/vm.c, block.c, stackframe.c).             *)
(*                                                                         *)
(* An instruction is a record: op, its operand arg, and to, the addresses  *)
(* its label operands were assembled to.  Addresses count instructions     *)
(* from 1.  While an instruction runs, frame->ip is already past it.       *)
(*                                                                         *)
(* What a call does, whether a condition holds, whether an iterator has a  *)
(* next element and whether a case matches are choices of the environment; *)
(* log records them, which is all an observer sees of a run.               *)
(***************************************************************************)
EXTENDS Integers, Sequences, FiniteSets

CONSTANTS
    Programs,        \* programs: records of a text and its code
    StackSize,       \* slots of a variable stack (42 in the assembler)
    MaxBlocks,       \* BLOCK_MAX_DEPTH
    Classes,         \* exception classes
    UserClasses,     \* those a script declares: their instances are user objects
    Exception,       \* the root class
    SystemException, ExtendException,
    Raises,          \* the classes a call may raise
    Budget,          \* bound on the TRUE answers and raised exceptions of a run
    MaxLog           \* bound on its events: a throw in a catch body is caught again

ASSUME FrameAssumption ==
    /\ StackSize \in Nat /\ MaxBlocks \in Nat \ {0}
    /\ Budget \in Nat /\ MaxLog \in Nat
    /\ {Exception, SystemException, ExtendException} \subseteq Classes
    /\ UserClasses \subseteq Classes /\ Raises \subseteq Classes

VARIABLES
    p,               \* the program this frame runs
    ip,
    stack,           \* variable stack, top last; sp is StackSize - Len(stack)
    blocks,          \* block stack, top last
    ret,             \* _vm_execute's return value, <<>> for NULL
    reason,
    exc,             \* the thread's exception, kept after it was handled
    phase,           \* dispatching, unwinding, left the frame, fatal_error(),
                     \* or a write outside the stack
    log, budget

vars == <<p, ip, stack, blocks, ret, reason, exc, phase, log, budget>>

\* REASON_*
NONE == 0
RETURN == 1
CONTINUE == 2
BREAK == 3
BREAKELSE == 4
EXCEPTION == 5
RERAISE == 6
FINALLY == 7

NoException == "none"
NULL == <<>>
Object == <<"object">>
Iterator == <<"iterator">>
Bool(b) == <<"bool", b>>
Num(n) == <<"num", n>>
Exc(c) == <<"exc", c>>
Values == {Object, Iterator} \cup {Bool(b) : b \in BOOLEAN} \cup ({"num"} \X Nat)
          \cup ({"exc", "class"} \X Classes)

IsNum(v) == v[1] = "num"
\* OBJECT_IS_EXCEPTION looks at the object's type, which a script's own
\* exception class does not have.
IsException(v) == v[1] = "exc" /\ v[2] \notin UserClasses
\* object_instance_of
InstanceOf(c, d) == d \in {c, Exception}

Top(s) == s[Len(s)]
Pop(s, n) == SubSeq(s, 1, Len(s) - n)
Ins == p.code[ip]
Running(op) == phase = "run" /\ Ins.op = op
Unwinding(r) == phase = "unwind" /\ reason = r /\ blocks # <<>>
Block == Top(blocks)
InLoop == Block.type = "loop"
InTry == Block.type = "exception"
-----------------------------------------------------------------------------
\* vm_frame_stack_push leaves a stack of height h: its test "sp < 0" for a full
\* stack never holds, for sp is unsigned, and it writes outside the stack.
Pushed(h) == IF h > StackSize THEN "overflow" ELSE "run"

\* vm_frame_stack_pop n times, which fails on an empty stack, then push vs.
PopPush(n, vs) ==
    /\ stack' = Pop(stack, n) \o vs
    /\ phase' = IF Len(stack) < n THEN "fatal" ELSE Pushed(Len(stack) - n + Len(vs))

\* "goto block_end": leave the straight line for reason r.
BlockEnd(r) ==
    /\ reason' = r
    /\ phase' = "unwind"

Goto(a) == ip' = a
Advance == Goto(ip + 1)
Silent == UNCHANGED <<log, budget>>
Answer(b) ==
    /\ b => budget > 0
    /\ log' = Append(log, <<Ins.arg, b>>)
    /\ budget' = IF b THEN budget - 1 ELSE budget
-----------------------------------------------------------------------------
(* Instructions.                                                           *)

\* LOAD_CONST, LOAD_ID
Load ==
    /\ Running("LOAD")
    /\ PopPush(0, <<Ins.arg>>) /\ Advance /\ Silent
    /\ UNCHANGED <<p, blocks, ret, reason, exc>>

\* Storing a caught exception is observed.
StoreId ==
    /\ Running("STORE_ID")
    /\ Top(stack)[1] = "exc" => Len(log) < MaxLog
    /\ PopPush(1, <<>>) /\ Advance
    /\ log' = IF Top(stack)[1] = "exc" THEN Append(log, Top(stack)) ELSE log
    /\ UNCHANGED <<p, blocks, ret, reason, exc, budget>>

PopTop ==
    /\ Running("POP_TOP")
    /\ PopPush(1, <<>>) /\ Advance /\ Silent
    /\ UNCHANGED <<p, blocks, ret, reason, exc>>

DupTop ==
    /\ Running("DUP_TOP")
    /\ PopPush(0, <<Top(stack)>>) /\ Advance /\ Silent
    /\ UNCHANGED <<p, blocks, ret, reason, exc>>

Operator ==
    /\ Running("OPERATOR")
    /\ PopPush(2, <<Object>>) /\ Advance /\ Silent
    /\ UNCHANGED <<p, blocks, ret, reason, exc>>

\* Pops the callable and the (empty) list of further arguments.  The callee's
\* frame returned an object, or NULL: an exception is set.
CallReturns ==
    /\ Running("CALL")
    /\ PopPush(2, <<Object>>) /\ Advance
    /\ log' = Append(log, <<Ins.arg, NoException>>)
    /\ UNCHANGED <<p, blocks, ret, reason, exc, budget>>

CallRaises ==
    /\ Running("CALL") /\ budget > 0
    /\ stack' = Pop(stack, 2)
    /\ \E c \in Raises : exc' = c /\ log' = Append(log, <<Ins.arg, c>>)
    /\ budget' = budget - 1
    /\ BlockEnd(EXCEPTION) /\ Advance
    /\ UNCHANGED <<p, blocks, ret>>

Throw ==
    /\ Running("THROW")
    /\ stack' = Pop(stack, 1)
    /\ exc' = IF Top(stack)[1] = "exc" THEN Top(stack)[2] ELSE ExtendException
    /\ BlockEnd(EXCEPTION) /\ Advance /\ Silent
    /\ UNCHANGED <<p, blocks, ret>>

\* JUMP_FORWARD, JUMP_ABSOLUTE
Jump ==
    /\ Running("JUMP")
    /\ Goto(Ins.to[1]) /\ Silent
    /\ UNCHANGED <<p, stack, blocks, ret, reason, exc, phase>>

\* JUMP_IF_TRUE, JUMP_IF_FALSE; what is not a boolean is asked for one.
JumpIf ==
    /\ \E jump \in BOOLEAN :
          /\ Running(IF jump THEN "JUMP_IF_TRUE" ELSE "JUMP_IF_FALSE")
          /\ \/ /\ Top(stack) = Object
                /\ \E b \in BOOLEAN :
                      Answer(b) /\ Goto(IF b = jump THEN Ins.to[1] ELSE ip + 1)
             \/ /\ Top(stack) # Object
                /\ Goto(IF Top(stack) = Bool(jump) THEN Ins.to[1] ELSE ip + 1)
                /\ Silent
    /\ UNCHANGED <<p, stack, blocks, ret, reason, exc, phase>>

\* Only the first test of a loop may jump.
JumpIfFirstFalse ==
    /\ Running("JUMP_IF_FIRST_FALSE")
    /\ Goto(IF Top(stack) = Bool(FALSE) /\ ~Block.visited THEN Ins.to[1] ELSE ip + 1)
    /\ blocks' = [blocks EXCEPT ![Len(blocks)].visited = TRUE]
    /\ Silent
    /\ UNCHANGED <<p, stack, ret, reason, exc, phase>>

\* COMPARE_OP EX: is the exception below the top an instance of the class on top?
CompareEx ==
    /\ Running("COMPARE_EX")
    /\ LET caught == stack[Len(stack) - 1][2]
           class == Top(stack)[2]
       IN PopPush(2, <<Bool(InstanceOf(caught, class))>>)
    /\ Advance /\ Silent
    /\ UNCHANGED <<p, blocks, ret, reason, exc>>

\* Any other comparison, of two values of one type.
Compare ==
    /\ Running("COMPARE")
    /\ \E b \in BOOLEAN : Answer(b) /\ PopPush(2, <<Bool(b)>>)
    /\ Advance
    /\ UNCHANGED <<p, blocks, ret, reason, exc>>

\* Pops the iterable, pushes its iterator.
IterReset ==
    /\ Running("ITER_RESET")
    /\ PopPush(1, <<Iterator>>) /\ Advance /\ Silent
    /\ UNCHANGED <<p, blocks, ret, reason, exc>>

\* Pops the iterator; pushes meta, value and key, as many of them as the loop
\* has variables for, and whether there is a value.
IterFetch ==
    /\ Running("ITER_FETCH")
    /\ \E b \in BOOLEAN :
          Answer(b) /\ PopPush(1, [k \in 1 .. Ins.vars |-> Object] \o <<Bool(b)>>)
    /\ Advance
    /\ UNCHANGED <<p, blocks, ret, reason, exc>>
-----------------------------------------------------------------------------
(* Blocks.                                                                 *)

\* vm_push_block_loop, vm_push_block_exception
PushBlock(type, to) ==
    IF Len(blocks) < MaxBlocks
    THEN blocks' = Append(blocks, [type |-> type, h |-> Len(stack), to |-> to,
                                   visited |-> FALSE])
    ELSE UNCHANGED blocks

\* SETUP_LOOP, SETUP_ELSE_LOOP; without an else clause ip_else is 0, the first
\* instruction.
SetupLoop ==
    /\ Running("SETUP_LOOP")
    /\ PushBlock("loop", IF Len(Ins.to) = 1 THEN Append(Ins.to, 1) ELSE Ins.to)
    /\ phase' = IF Len(blocks) < MaxBlocks THEN "run" ELSE "fatal"
    /\ Advance /\ Silent
    /\ UNCHANGED <<p, stack, ret, reason, exc>>

SetupExcept ==
    /\ Running("SETUP_EXCEPT")
    /\ PushBlock("exception", Ins.to)
    /\ stack' = Append(stack, Num(FINALLY))
    /\ phase' = IF Len(blocks) < MaxBlocks THEN Pushed(Len(stack')) ELSE "fatal"
    /\ Advance /\ Silent
    /\ UNCHANGED <<p, ret, reason, exc>>

PopBlock ==
    /\ Running("POP_BLOCK")
    /\ blocks' = Pop(blocks, 1)
    /\ phase' = IF blocks = <<>> THEN "fatal" ELSE "run"
    /\ Advance /\ Silent
    /\ UNCHANGED <<p, stack, ret, reason, exc>>

ContinueLoop ==
    /\ Running("CONTINUE_LOOP")
    /\ ret' = Num(Ins.to[1])
    /\ BlockEnd(CONTINUE) /\ Advance /\ Silent
    /\ UNCHANGED <<p, stack, blocks, exc>>

\* BREAK_LOOP, BREAKELSE_LOOP
BreakLoop ==
    /\ \/ Running("BREAK_LOOP") /\ BlockEnd(BREAK)
       \/ Running("BREAKELSE_LOOP") /\ BlockEnd(BREAKELSE)
    /\ Advance /\ Silent
    /\ UNCHANGED <<p, stack, blocks, ret, exc>>

Return ==
    /\ Running("RETURN")
    /\ ret' = Top(stack) /\ stack' = Pop(stack, 1)
    /\ BlockEnd(RETURN) /\ Advance /\ Silent
    /\ UNCHANGED <<p, blocks, exc>>

\* END_FINALLY takes up what the try, catch and finally bodies left pending.
EndFinally ==
    /\ Running("END_FINALLY")
    /\ LET v == Top(stack) IN
       \/ /\ IsNum(v) /\ v[2] \in {RETURN, CONTINUE}
          /\ ret' = stack[Len(stack) - 1] /\ stack' = Pop(stack, 2)
          /\ BlockEnd(v[2]) /\ UNCHANGED exc
       \/ /\ IsNum(v) /\ v[2] \notin {RETURN, CONTINUE}
          /\ ret' = v /\ stack' = Pop(stack, 1)
          /\ BlockEnd(v[2]) /\ UNCHANGED exc
       \/ /\ IsException(v)
          /\ ret' = NULL /\ stack' = Pop(stack, 1)
          /\ BlockEnd(RERAISE) /\ UNCHANGED exc
       \/ /\ ~IsNum(v) /\ ~IsException(v)
          /\ ret' = v /\ stack' = Pop(stack, 1)
          /\ BlockEnd(EXCEPTION) /\ exc' = SystemException
    /\ Advance /\ Silent
    /\ UNCHANGED <<p, blocks>>
-----------------------------------------------------------------------------
(* unwind_blocks(): one action per pass of its loop, on the innermost      *)
(* block.                                                                  *)

Resume(a) == Goto(a) /\ reason' = NONE /\ phase' = "run"
Cut(h) == IF Len(stack) > h THEN SubSeq(stack, 1, h) ELSE stack

\* Case 1
UnwindContinue ==
    /\ Unwinding(CONTINUE) /\ InLoop
    /\ Resume(ret[2])
    /\ UNCHANGED <<p, stack, blocks, ret, exc, log, budget>>

\* Mutant: a return goes straight to END_FINALLY.
UnwindReturnSkips ==
    /\ Unwinding(RETURN) /\ InTry
    /\ stack' = stack \o <<ret, Num(RETURN)>>
    /\ \/ /\ ip <= Block.to[3] /\ Goto(Block.to[3])
          /\ reason' = NONE /\ phase' = "run"
       \/ /\ ip > Block.to[3] /\ Goto(ip)
          /\ reason' = FINALLY /\ phase' = "done"
    /\ UNCHANGED <<p, blocks, ret, exc, log, budget>>

\* Case 2: in a try or catch body, run the finally body first; in the finally
\* body, leave the frame.
UnwindReturn ==
    /\ Unwinding(RETURN) /\ InTry
    /\ stack' = stack \o <<ret, Num(RETURN)>>
    /\ LET finally == Block.to[2]
           end_finally == Block.to[3]
           pushed == Pushed(Len(stack'))
       IN \/ /\ ip <= finally /\ Goto(finally)
             /\ reason' = NONE /\ phase' = pushed
          \/ /\ ip > finally
             /\ Goto(IF ip <= end_finally THEN end_finally ELSE ip)
             /\ reason' = FINALLY /\ phase' = IF pushed = "run" THEN "done" ELSE pushed
    /\ UNCHANGED <<p, blocks, ret, exc, log, budget>>

\* Mutant: the operands of the expression that failed stay on the stack.
UnwindCatchKeeps ==
    /\ Unwinding(EXCEPTION) /\ InTry
    /\ stack' = Append(stack, Exc(exc))
    /\ Goto(Block.to[1]) /\ reason' = NONE
    /\ phase' = Pushed(Len(stack'))
    /\ UNCHANGED <<p, blocks, ret, exc, log, budget>>

\* Case 3
UnwindCatch ==
    /\ Unwinding(EXCEPTION) /\ InTry
    /\ stack' = Append(Cut(Block.h + 1), Exc(exc))
    /\ Goto(Block.to[1]) /\ reason' = NONE
    /\ phase' = Pushed(Len(stack'))
    /\ UNCHANGED <<p, blocks, ret, exc, log, budget>>

\* Mutant: the loop's values are dropped, its block is not.
UnwindPopKeeps ==
    /\ Unwinding(EXCEPTION) /\ InLoop
    /\ stack' = Cut(Block.h)
    /\ UNCHANGED <<p, ip, blocks, ret, reason, exc, phase, log, budget>>

\* Case 4
UnwindPop ==
    /\ Unwinding(EXCEPTION) /\ InLoop
    /\ stack' = Cut(Block.h) /\ blocks' = Pop(blocks, 1)
    /\ UNCHANGED <<p, ip, ret, reason, exc, phase, log, budget>>

\* Mutant: the block of a finished try statement stays.
UnwindFinallyKeeps ==
    /\ Unwinding(FINALLY) /\ InTry
    /\ stack' = Cut(Block.h)
    /\ Resume(ip)
    /\ UNCHANGED <<p, blocks, ret, exc, log, budget>>

\* Case 5
UnwindFinally ==
    /\ Unwinding(FINALLY) /\ InTry
    /\ stack' = Cut(Block.h) /\ blocks' = Pop(blocks, 1)
    /\ Resume(ip)
    /\ UNCHANGED <<p, ret, exc, log, budget>>

\* Cases 6 and 7
UnwindBreak ==
    /\ \/ Unwinding(BREAKELSE) /\ InLoop /\ Resume(Block.to[2])
       \/ Unwinding(BREAK) /\ InLoop /\ Resume(Block.to[1])
    /\ stack' = Cut(Block.h)
    /\ UNCHANGED <<p, blocks, ret, exc, log, budget>>

\* No case takes this reason on this kind of block: the stack is cut, and the
\* loop looks at the same block again, and again.
UnwindNothing ==
    /\ \/ (\E r \in {RETURN, RERAISE, FINALLY} : Unwinding(r)) /\ InLoop
       \/ (\E r \in {CONTINUE, BREAK, BREAKELSE, RERAISE} : Unwinding(r)) /\ InTry
    /\ stack' = Cut(Block.h)
    /\ UNCHANGED <<p, ip, blocks, ret, reason, exc, phase, log, budget>>

\* No block left: the frame ends and returns ret to its caller.
Leave ==
    /\ phase = "unwind" /\ blocks = <<>>
    /\ phase' = "done"
    /\ UNCHANGED <<p, ip, stack, blocks, ret, reason, exc, log, budget>>
-----------------------------------------------------------------------------
Init ==
    /\ p \in Programs
    /\ ip = 1 /\ stack = <<>> /\ blocks = <<>>
    /\ ret = NULL /\ reason = NONE /\ exc = NoException /\ phase = "run"
    /\ log = <<>> /\ budget = Budget

Dispatch ==
    \/ Load \/ StoreId \/ PopTop \/ DupTop \/ Operator
    \/ CallReturns \/ CallRaises \/ Throw \/ Jump \/ JumpIf \/ JumpIfFirstFalse
    \/ CompareEx \/ Compare \/ IterReset \/ IterFetch
    \/ SetupLoop \/ SetupExcept \/ PopBlock \/ ContinueLoop \/ BreakLoop
    \/ Return \/ EndFinally

Unwind ==
    \/ UnwindContinue \/ UnwindReturn \/ UnwindCatch \/ UnwindPop
    \/ UnwindFinally \/ UnwindBreak \/ UnwindNothing \/ Leave

Next == Dispatch \/ Unwind

Spec == Init /\ [][Next]_vars
\* The interpreter keeps running.
FairSpec == Spec /\ WF_vars(Next)
=============================================================================
