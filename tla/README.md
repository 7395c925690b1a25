# Saffire in TLA+

Saffire is an interpreted object-oriented language written in C: a parser and a compiler to bytecode, a virtual
machine, a library of objects, a bytecode cache, a FastCGI server with a pool of pre-forked workers, and a debugger
for IDEs. This directory holds TLA+ modules of its parts, the TLC configurations that check them on small instances,
and theorems about them that TLAPS checks for every value of the constants. `PROJECT.json` maps each definition to the
lines of the source it translates, and lists the runs, the hazards and the theorems.

Paths below are relative to `src/src/components/` of the repository unless they say otherwise.

## 1. The system

| component | state it keeps | operations | what is hard | what makes it correct |
|---|---|---|---|---|
| FastCGI worker pool (`fastcgi/`) | shared scoreboard (slot status, pid, counters), a System V semaphore, `needs_spawn`, `terminated` | main loop, `spawn_worker`, SIGCHLD, SIGTERM and SIGHUP handlers, the worker's accept loop | handlers between any two steps of the main loop, SIGCHLDs that merge, reused pids, workers that die inside the lock | registered workers keep their slots; the pool stays within the scoreboard and is refilled; SIGTERM ends everything |
| Compiler (`compiler/ast_to_asm.c`, `compiler/output/asm.c`) | the assembly, label counter, compile-time block stack | `__ast_walker`, one case per node; label resolution | each construct must leave the two run-time stacks as it found them, on every path out of it | compiled statements do what they say |
| Frame execution (`vm/vm.c`, `block.c`, `stackframe.c`) | `ip`, variable stack, block stack, `ret`, `reason` | one case per opcode, `unwind_blocks` | break, continue, return and exceptions through nested loops, switches and try statements | control goes where the statement says; the stacks follow it; unwinding ends |
| Calls, exceptions, threads (`vm/vm.c`, `vm/thread.c`, `objects/exception.c`) | frame chain, the thread's exception | `vm_object_call`, `vm_execute`, `thread_set_exception` | an exception is a NULL result plus the thread's exception, which is not cleared once caught | an exception reaches the nearest handler, once |
| Imports, contexts (`vm/import.c`, `context.c`, `codeframe.c`) | import cache, search paths, contexts | import, class lookup | a module enters the cache after it ran; stale exceptions; one table of class names for all frames | each module runs once; a failed import raises |
| Objects (`objects/object.c` and others) | class and instance records, attributes, reference counts, interfaces | allocate, instantiate, clone, increase and decrease the count, check interfaces | instances share the attribute table of their class; counts on error paths; pop decreases before use | an attribute is the one last written; constants and methods stay; no object in use is freed |
| Collections and strings (`objects/hash.c`, `list.c`, `tuple.c`, `string.c`, `regex.c`, …) | payloads, iterator positions | methods of the language | iterators over a collection that changes | value semantics |
| Object cache (`gc/gc.c`) | queues of freed objects | add | nothing drains it and no lookup reads it | nothing depends on it |
| Hash tables, lists (`general/hashtable.c`, `general/hash/chained.c`, `general/dll.c`, `general/stack.c`) | buckets, element list, copy-on-write flag | add, replace, remove, copy, deep copy, iterate | shared buckets after a copy, element order, removal during iteration | a finite function with an insertion order |
| Bytecode files (`compiler/bytecode/`) | header (magic, time stamp, signature), body | load, save, validity, sign, unsign | crash in the middle of a write, source edited meanwhile, two workers on one file | a loaded file is the compilation of the current source |
| Parser and tree (`compiler/saffire.l`, `saffire.y`, `parser_helpers.c`, `ast_nodes.c`) | scanner and parser state, class and loop nesting | parse | nesting checks | syntax errors for misplaced statements |
| Debugger (`debugger/dbgp/`) | session state, breakpoints, step flags, stack snapshot | DBGp commands, break on line, exception, call | the frame it stops in may not exist yet | stops where it was told to |
| Interactive prompt (`repl/`) | history, one growing script | read, run | terminal | out of scope |
| Commands and modules (`../main/`, `modules/`) | options | `exec`, `fastcgi`, `bytecode`, `config`, … | input and output | out of scope |
| General helpers (`general/`) | configuration, memory wrappers | parse, format, spawn `gpg` | input and output | out of scope |

How they interact: a command (or a FastCGI worker, for each request) asks the bytecode cache for the code of a
source; on a miss the parser builds the tree, the compiler turns it into assembly and bytecode, and the cache may save
it. The machine runs the code in a frame; calls and imports open frames of their own, whose NULL result together with
the thread's exception says that they raised. Frames, objects, contexts and caches are hash tables and lists. The
master of the FastCGI server and its workers share the scoreboard only.

## 2. What is modelled

### WorkerPool

The master process, its handlers, the scoreboard in shared memory and the workers.

- `status`, `pid`: `scoreboard->workers[]`; `sem`: the semaphore; `needs_spawn`, `terminated`: the globals of
  `fastcgi_srv.c`; `pc`, `i`, `slot`, `child`, `reg`: where `daemonize()`/`spawn_worker()` is and its locals (`reg` is
  what `needs_spawn--` has read and not yet written, as in a build with `-O0`); `top`, `chld`, `hpid`, `hreg`, `term`:
  which of the main loop and the two handlers is running, and where each is; `pending`: the kernel's pending signals,
  a set, so that two SIGCHLDs become one; `proc`: each process, with zombies; `stops`: how often a worker was stopped
  or went on, which the code does not know and the properties compare with.
- `MainCheck`, `MainSleep`: the loop. `FindFreeSlot`, `Fork`, `ForkFails`, `DecrementRead`, `DecrementWrite`,
  `InitSlot`: one pass of `spawn_worker`. `DeliverChld`, `DeliverTerm`: the kernel enters a handler, between any two
  of those steps. `ChldWait`, `ChldNoChild`, `ChldRead`, `ChldWrite`, `ChldFree`: `sighandler_child`; its `wait()` takes
  a dead child, returns -1 when there are no children at all (`NoChild`, which the handler takes for one more worker
  that is gone), and blocks when there are living ones only. `TermKill`, `TermZero`, `TermSet`: `sighandler_term`.
  `WorkerLock`, `WorkerUnlock`, `WorkerDies`: a worker, which may die at any time, inside the lock too. `WorkerStops`: a
  worker is stopped or goes on, which raises a SIGCHLD too, for `signal()` does not set SA_NOCLDSTOP. `SendTerm`: the
  operator.
- As in the code: `scoreboard_lock` adds one to the semaphore and so never blocks; `spawn_worker(10)` starts up to ten
  workers whatever `needs_spawn` says; `scoreboard_init_slot` runs outside the lock; the SIGCHLD handler waits for
  one child; `sighandler_term` passes `kill` its arguments in the wrong order.
- Coarser than the code: locking, changing one thing and unlocking is one step (`LockUnlock`) where no other step
  reads the thing halfway. `TermKill` walks the slots in one step. The fork child is a worker at once. The request
  counters, SIGHUP and the work on a request are left out; a worker is in the lock or not.

### Compiler, Frame, Semantics, Script

- **Compiler** translates statements to code as `__ast_walker` does, one operator per construct, and resolves labels
  as `asm.c` does. Data is abstract: a value is *object*; a call, comparison or iteration has a number.
- **Frame** runs one activation of `_vm_execute`: one action per opcode (two where a callee may raise), one per case of
  `unwind_blocks`, one pass of its loop each. `UnwindNothing` is the pass in which no case applies. Addresses count
  instructions, and `ip` is past the running instruction, as in the code. What calls, comparisons and iterators answer
  is the environment's choice, recorded in `log`.
- **Semantics** says what the statements mean, without code, stacks or blocks: `Follow(s, log)` runs statement `s`
  against the events of `log`. It is the reference the compiler and the machine together are compared with.
- **Script** composes them and states the properties. **MCScript** builds the programs.

`Supported` in Semantics delimits the programs that `unwind_blocks()` has cases for, by syntax alone. It leaves out: a
return in a loop or switch, and a break, continue or breakelse across a try (no case applies, and unwinding never ends:
run `script_hang`); a continue in a switch (its compile-time block has no label of its own, so the jump goes to stale
memory); a return in two nested try statements (the outer finally body is skipped); an exception that no clause of the
innermost try catches, or raised in a catch or finally body (the reraise has no case; a throw in a catch body is caught
by the same try again); a foreach inside another construct (its iterator stays on the variable stack: run
`script_full`). All of them are run nevertheless, under `TypeOK`.

Abstractions to know of: comparisons and arithmetic on values of one type do not raise, `LOAD_ID` finds its name,
`__boolean`, `__iterator`, `__hasNext` and `__value` do not raise; a callee is an environment choice, not a frame (the
modules of the next group have callees, and attributes, classes, imports, tuples and data structures). The grammar
accepts a return in a method only: the programs of MCScript stand for the bodies of methods.

### Declarations, Objects, Runtime, Calls

Whole scripts: a main file, the files it imports and those of `sfl/`, from `vm_execute()` to the exit code.

- **Declarations** has the trees and what `__ast_walker` makes of them: names, attributes, calls and their arguments,
  operators and comparisons, `?:` and `??`, tuples, data structures and subscripts, assignments and chains of them,
  classes with constants, properties and methods, imports, if, try, throw and return. An instruction is a record.
- **Objects** has the values and the heap. Numbers, strings, booleans, null, lists, tuples and hashes are values, for
  no script here changes one (**Collections** has their operations); exceptions, classes and instances are entries of
  the heap. An instance is a copy of its class and refers to the same attribute table, as `memcpy` leaves it. The
  methods written in C are operators of the value, the arguments and the heap.
- **Runtime** runs the frames. `frames`: the chain of stack frames with their variable stacks, blocks and identifiers;
  `names`: the frame identifiers, one table for all frames; `cache`: the import cache; `exc`: the thread's exception,
  never cleared; `ctl`: what the C code is in the middle of. `_vm_execute` calls itself through
  `_object_call_callable_with_args` and `vm_import`, so what remains to be done after a call is on the C stack: it is
  the field `cont` of the called frame, and the `Return...` actions go on with it. One action per instruction, per
  outcome of a call, and per case of `unwind_blocks`.
- **Calls** adds history variables (what was raised, written, bound and imported, and where an exception should stop)
  and states the properties. **MCScripts** has the scripts, **MCRuntime** puts the two together.

Blocks are those of try statements: loops and switches are Frame's. A pop of a null pointer, which a stored subscript
or an exception that was never created leaves on the stack, is a crash, as is a division by zero in `%`. What is called
and is no method or class is refused before the call (`CallRefused`, `vm.c:1011`), with a message made by `%s` of what
stands where a string object has its text: a property, a constant, TRUE or a number other than 0 crash there, a string,
a collection, FALSE or 0 gives the AttributeException, and of an object without data both are possible. What is spread
over the arguments of a call is taken for a list without a look at its type (`Spread`).

### HashTableOps, HashTable, Map, Collections, DList, Sequence, Containers

- **HashTableOps**: `general/hashtable.c` and `hash/chained.c` at the level of buckets and pointers, as functions of a
  memory: chains, the list of elements, growth and rehashing, shallow copies that share their buckets with the original
  until the copy's first write, deep copies. A write through the original while a copy waits would show in the copy, or
  leave it with freed buckets: nothing in the code prevents that, and `Writable` takes from the callers that none does
  it. **HashTable** runs them in any order on a few tables with an iterator. **Map** is what they
  promise, a sequence of entries for each table, and `ImplementsMap` is the refinement of the entries read from the
  memory (`Contents`). `TablesAssumption` is what a build gives: memory ends, NULL is no bucket, tables grow.
- **Collections**: the methods of list, hash and tuple objects on tables of their own, with their iterators and the
  reference counts of their elements. `CollectionsAssumption` says what its constants are: an object is no index, and
  the tables hold objects, or NULL where populate left a value out.
- **DList**: `general/dll.c` and `stack.c`; **Sequence** is what they promise, `ImplementsSequence` the refinement. The
  allocator gives some address that is free, never the null pointer (`CellsAssumption`). `Along` is a walk along
  `next` or `prev`, as `dll_seek_offset` and every loop over a list make it.
- **Containers** composes the three, so that one run checks all. They share no state in the code either, so a behaviour
  is of one of them (`part`); the tables that are no collection's have constants of their own, which begin with Ht.

What these modules take from their callers is at the head of each: the code does not look at it (an empty table is not
copied, the element an iterator stands on is not removed, a hash is not populated with itself, an iterator that has a
table is not rewound with none, and so on).

### Bytecode, Cache, BytecodeCache

- **Bytecode**: `assemble_frame` with its pools of constants and names, back-patched labels and line table,
  `marshal.c`, and the reading of both.
- **Cache**: the bytecode file and the processes that use it. `file` is the header, the parts that stdio writes at
  once, and the signature; `proc[p]` is where a process is and what it has read. The actions are those of
  `bytecode_load`, `bytecode_save`, `bytecode_is_valid_file`, `sign`, `unsign`, and of `do_exec` and `fcgi_loop`
  around them; `Crash` and `Edit` of the source come between any two, and every write, saving, signing and unsigning
  alike, may fail, which the code never looks at (`Write`). gpg may give no signature, which it does not look at either:
  the header then says signed and announces a signature of length 0. Contents are bytes only as far as a torn file
  differs from a whole one: of a version's bytecode only the lengths count, which are constants.
- **BytecodeCache** gives the lengths: those of what Bytecode makes of the assembly of every version, marshalled and
  compressed; `RunsAsAssembled` is about that bytecode.

### Parser

`parserinfo` and the checks of `parser_helpers.c`, one action per action of the grammar; `nesting` is bison's stack,
reduced to the open constructs, and the text is any that the grammar accepts. The rules of `VerdictFollowsRules` are
those of the messages of `parser_error`; of the two constructs for which a comment and the code differ (`Disputed`) it
says nothing, and `ChecksAsCommented` says what the comments do.

## 3. Runs

| run | what it shows | bounds |
|---|---|---|
| `worker_pool` | types; a registered worker keeps its slot; the pool stays within the scoreboard; `needs_spawn` asks for no more than is missing, and one for each stop; unlocking never blocks; `wait()` finds a dead worker for every SIGCHLD but those of stops | 2 slots, 3 pids, batches of 2, semaphore to 5, one stop; pids symmetric |
| `worker_pool_live` | a pending SIGTERM ends the master, unless a stop leaves it waiting in vain | 1 slot, 3 pids, one stop |
| `worker_pool_debt` | violation: `needs_spawn` loses deaths | as `worker_pool` |
| `script` | 723 programs with every answer of the environment: types for all; for the 284 supported ones, behaviour as written, block stack in step with the code, nothing left on the variable stack, termination | `Budget` 3, `MaxLog` 20 |
| `script_hang` | violation: `while (c) { return x; }` never leaves `unwind_blocks` | one program |
| `script_lost` | violation: an exception that leaves a frame with a non-NULL result | one program |
| `script_full` | violation: a push outside the variable stack | one program, `StackSize` 12 |
| `calls` | 720 scripts: types; what a method is called with is what it declares; attributes are the ones last written, and constants stay; exceptions stop at the innermost handler; files run once, and imports give the first class of a name; no instruction lacks an operand; tuples and data structures are as written; the exit code; every script ends | `MaxDepth` 9 |
| `containers` | tables: chains and list of elements agree, nothing is lost or freed twice, iteration meets every element, and tables are separate sequences; collections: chains and elements agree, also after a removal by an object key, indices without gaps, shuffling keeps the elements; lists: the same both ways, and a sequence | 2 tables, 2 buckets, keys 0 and 2, 4 addresses; 2 collections, 2 objects, 3 addresses, 2 references; 4 list elements |
| `cache` | what is run is whole, is what was assembled, and is current; a file left alone by the last writer is whole | 2 processes, 2 versions, 3 commands, 1 edit, crash or failed write; gpg may fail at any time |
| `parser` | the flags say what is open; exactly the programs that break a rule are refused, the disputed ones aside | 4 open constructs, 2 classes, 2 for statements |
| `parser_comments` | violation: `foo[1] = x` is refused, and a break after a for statement is accepted | as `parser` |

Why the bounds are enough. *Pool*: two slots make a wrong slot possible and the scoreboard full; three pids let a pid
be reused while another worker lives and while a slot keeps its old value; a batch of two ends both by its count and
by a full scoreboard, and retries; the semaphore bound is reached by workers that die in the lock; one stop is enough
for a `wait()` in vain, with deaths before, during and after it. The theorems below lift the results they cover to every
size. *Script*: `StackSize` 42 and `MaxBlocks` 20 are the program's own values (`script_full` has a
smaller stack, which its loop fills sooner).
`Budget` bounds the TRUE answers and the exceptions of a run, so every loop is entered, continued and left, and every
call may raise; FALSE answers and quiet calls are free. `MaxLog` bounds only a try that catches its own handler's
exception for ever. The programs put each kind of statement around each kind of leaf, alone, followed by something,
within a try, within a loop, and up to four constructs deep. *Calls*: every list of up to two sorts of parameters, and
some of three, is called with every list of up to three arguments of two classes; three classes that extend each other
have an attribute as each sort or not at all, and four objects store into it in two orders; three calls deep, each
level raises, catches, has caught, returns or is a condition; every operator meets every two classes; files are found,
missing, throw, import each other and hide files of `sfl/`; tuples of one to three elements, nested or not, meet every
shape of target. `MaxDepth` is met only by scripts that recurse without end. *Containers*: four addresses make a chain
of three, a rehash of two chains and a copy of a table with two elements; keys 0 and 2 share a chain before the rehash
and not after it. *Cache*: two processes are the pair that race; one event is the crash, edit or full disk that
they must survive. The second version of the source has the length of the first, so that a piece of one
fits into the file of the other; the proofs are for every length. *Parser*: a switch in a loop in a method in
a class is four deep.

The runs of `script` and `calls` set `CHECK_DEADLOCK FALSE`: a frame stops when it returns, on a fatal error and at the
bounds, a script when it exits. So do `containers` (all addresses taken), `cache` (the commands used up) and `parser`
(the program read or refused). The pool's runs check for deadlock; `Finished` is the only state in which nothing
happens.

**Fairness.** In the pool: weak fairness of the master's main loop, of each signal's delivery and of each handler, as
the kernel schedules the process and delivers pending unblocked signals. No worker is forced to die, no operator to
act, no fork to fail; so `wait()` may block for ever after a stop. In the scripts: weak fairness of `Next`
and `CallsNext`, one running interpreter with one thread. Containers, cache and parser have safety properties only.

**Mutants.** Every property of a passing run has a mutant next to the definition it changes: a plausible slip of the
same code (the pid not compared, a full scoreboard not noticed, a block not popped, the finally body skipped, label
lines counted as instructions) that makes TLC find the property violated.

## 4. What the code does other than it says

Five runs are expected to find a violation, each of something a comment in the source says (`findings`):

1. `needs_spawn` does not count the missing workers: merged SIGCHLDs and a torn `needs_spawn--` lose deaths, for the
   semaphore excludes nobody (`fastcgi_srv.c:65, 199`, `scoreboard.c:109`).
2. Two checks of the parser: `foo[1] = x` is refused although the comment allows it (`parser_helpers.c:426, 427`), and a
   break is accepted out of every loop once a for statement was read, which is never left (`saffire.y:270`,
   `parser_helpers.c:376`). The shortest counterexample shows the first; with the second conjunct of `ChecksAsCommented`
   taken out TLC finds `for (...) {...} break;`.
3. `unwind_blocks` does not end where no case applies (`vm.c:1737, 1748`).
4. The result of a frame that ended in an exception may be non-NULL (`vm.c:1095, 1446`).
5. A push on a full variable stack is not an error (`stackframe.c:107, 117`).

`sighandler_term` calls `kill` with its arguments swapped (`fastcgi_srv.c:227`), so that no worker ends with the master,
whose comment says that all do (line 220). `TermTargets` models this; that nobody is killed follows from one line, so no
run is spent on it.

Properties of the passing runs say what the code does where that is not what a reader would expect; each names the
exception it makes:

- The thread's exception is never cleared (`thread.c:75`): an import after a caught exception fails (`ImportsFirst`).
- A main frame that has finished a try statement exits with 7 when it is ended by an exception, one with a variable
  `saffire` with 0 (`ExitCode`).
- A condition that raises counts as true and the exception waits (`vm.c:947`, `UnwindsToHandler`); a property used as
  a condition has no `__boolean` and counts as true too, whatever its value.
- A catch that throws is entered again, and an exception that no catch of the innermost try is for hangs
  (`Terminates`).
- Instances and their class have one attribute table, so a property set on one object is set on all
  (`object.c:247`, `ReadsLastWrite`).
- `parent` is the parent of the object's class: a method that uses it and is inherited calls itself without end
  (`vm.c:757`, `Terminates`).
- An import from main and one from a file at the root have two keys, `::a` and `::::a`: the file runs twice
  (`RunsOnce`). Files that import each other recurse until the C stack is full.
- A list has no `__get`: `list[0]` ends the script silently with 0, and in a try the catch gets a null pointer. A
  string has one character more than its length. A hash has the first value that was given for a key
  (`DataAsWritten`).
- A default value helps one parameter only (`BindsAsDeclared`).
- A SIGCHLD of a worker that was stopped makes the master wait for a dead one: a SIGTERM is then served on top of the
  wait, but the main loop does not see `terminated` until a worker dies (`WaitsForDead`, `TermEndsMaster`).
- The parser never leaves a for statement (`FlagsFollowNesting`), and accepts `(x, foo[1]) = y`, which pushes a null
  pointer when there is no `__set` (`StackFits`).
- Calling a property or a constant crashes where the refusal is formatted (`vm.c:1018`): `ExitCode` speaks of the
  scripts that come to an exit.

## 5. What is proved

`WorkerPool_proofs`, from `PoolAssumption` alone (positive numbers of workers and of the batch, a finite set of pids,
`NoPid`, `NoChild` and `SIGTERM` not among them, any number of stops, and a semaphore limit of at least the workers plus
three, which SEMVMX, 32767, is for any pool worth running):

- `TypeCorrect`: `Spec => []TypeOK`. The loop counter's range needs `Spawning` (a reserved slot means the batch is not
  over) and the handlers' places need `Nesting` (which of them is on top of which); `Typed` is the conjunction.
- `SlotSafety`: `Spec => []WorkerKeepsSlot`. `WorkerKeepsSlot` is not inductive: `ChldFree` releases every slot with
  the pid it has reaped, and would take a live worker's if the kernel had handed that pid out again in between.
  `Reaped` says that it has not: while the handler holds a pid the main loop does not run, so nothing forks.
  `PoolInv == Typed /\ Reaped /\ WorkerKeepsSlot` is inductive.
- `BoundedSafety`: `Spec => []PoolBounded`. From `SlotSafety`: each child has a slot of its own, which is an injection
  into the slots.

- `DebtSafety`: `Spec => []DebtBounded`, which needs the copies too: `Debts` bounds `needs_spawn`, the main loop's `reg`
  between its read and its write, and the handler's `hreg`; a handler that has waited for a child and has not yet
  counted it leaves the bound strict. That merged or lost increments only lower the debt is the reason it holds. A
  handler whose `wait()` found no child counts one that was not there: only a stop leads there, so `Debts` sets the
  stops not yet used up (`Spare`) off against it.
- `UnlockSafety`: `Spec => []UnlockNeverBlocks`, inductive over `PoolInv`: a process that takes the semaphore leaves
  its value to whoever is inside, and SEMVMX cuts nothing off, as the workers, the master and its handler are fewer.
- `WaitSafety`: `Spec => []WaitsForDead`: of the SIGCHLDs that are pending or about to `wait()`, those without a dead
  worker (`Excess`) are no more than the stops. Without stops every SIGCHLD finds one, so no order of deaths, merged
  signals and handlers blocks the master. It follows from `Debts`: a death that merges into a pending signal leaves a
  zombie more than it raises signals.

`Parser_proofs`, from `ParserAssumption` alone (`NoClass` is no class's name, the depth is a natural number): for every
set of names, every depth of nesting, and scripts of any length.

- `ParserType`: `Spec => []TypeOK`, with that `result` is never "internal": the errors that parser_helpers.c calls
  internal (a class ended out of a class, and the like) are never raised.
- `ParserFlags`: `Spec => []FlagsFollowNesting`. The flags are set and cleared where the grammar's actions run, and
  counts of open constructs are cardinalities of sets of positions; `OpenedCount` and `ShutCount` say what a push
  and a pop do to them, `SwitchStack` and its lemmas how the stack of switches lies among the constructs. It is
  inductive together with `Formed` only: that the end of a method leaves none open needs that methods
  stand in a class and classes outermost.
- `ParserVerdict`: `Spec => []VerdictFollowsRules`, one case for each construct that can be read. It needs `Texts`,
  which relates what the parser keeps (a set of modifiers, a set of class names) to what was written (sequences, with
  repetitions): until an error no modifier was given twice, and the classes known are those declared. Of the two
  constructs of `Disputed` it claims nothing.
  `ParserInv == Typed /\ Formed(nesting) /\ Flags /\ Texts`.

`Cache_proofs`, from `CacheAssumption` alone (every version has a stream of at least one part, the source has a
version): for every number of processes, versions, lengths, commands, edits, crashes and failed writes. Files are
sequences of cells of several kinds, which are no set's elements; `IsSeq` and the lemmas from `FunctionSeq` to
`SignedSeq` say what append, cut and write do to them.

- `CacheType`: `Spec => []TypeOK`, and `RunsWholeSafety`: `Spec => []RunsWhole`. `Typed` says of every place of a
  process what it holds there; that the checksum decides what is run, and nothing that was read before it, is the
  reason for the second.
- `FreshSafety`: `Spec => []Fresh`. Fresh speaks of what runs; that it does not come from an old stream under a new
  header has to be known before. `FreshInv` says it of a time stamp: while one that the source has now is `InUse` (in
  the file's header, or in a header that some process still has and may write over the first cell of a file that it
  did not empty), every part in the file is of the source's version; and whoever may run the file has found the
  source's time stamp in it. An edit that is not careless puts all headers out of use. It is inductive over `Typed`.
- `WholeAtRestSafety`: `Spec => []WholeAtRest`. At rest the file is what the last writer made of it, so `RestInv` says
  what the file is at each place of a writer (`Shape`: the parts written so far behind the place of the header, a whole
  file that is being read for the signature, a signed header behind which the signature is still to come, or never comes
  because gpg gave none, and so on), and that, as long as nothing was disturbed, one process writes
  at most. It is inductive over `Typed`.

TLC checked `Typed`, `FreshInv` and `RestInv` as invariants of the run `cache` before they were proved.

`DList_proofs`, from `CellsAssumption` alone: for every set of addresses and of data, lists of any length, and any
sequence of calls.

- `ListOrdered`: `Spec => []Ordered`, the inductive invariant: there is an order s of the allocated elements, each once,
  with `head` and `tail` its ends, and `next` and `prev` of each element its neighbours in s (`Chain`). `PutInOrder`
  and `LinkedIn` say that allocating an element and linking it puts it into s at a place, `TakenOutOrder` and
  `LinkedOut` that `dll_remove` takes one out; every operation is one of these two at a place that depends on it.
- `ListSameBothWays`: `Spec => []SameBothWays`. That the walk from the head meets s, and the one from the tail s
  backwards (`Forwards`, `Backwards`), is by the least place at which it does not.
- `ListIsSequence`: `Spec => ImplementsSequence`. The contents are the data in the order s (`OrderShows`); `InsertIs`
  and `RemoveIs` say the same of the sequence's own operations, so each step on the links is the step of Sequence.

`HashTable_proofs`, from `TablesAssumption` (a finite set of addresses without NULL, keys that are hashes of
strings or numbers, at least one bucket, a load factor, and a resize factor of at least 1.00) and `KeysAssumption` (no
key is an object): for every set of tables, keys and values, any number of elements, and any sequence of calls. What it
says of one operation is in `HashTableOps_proofs`, for any memory and also for keys that are objects where it holds of
them, since collections need it too.

- `TablesOrdered`: `Spec => []Ordered`, the inductive invariant: there is a function `ord` from the tables to sequences
  of buckets with `Sound(mem, ord)` and `Iterating(mem, iter, seen, ord)`. `Sound` says that a table that owns its
  buckets is `Whole`: `InOrder` (ends, count, `next` and `prev` are those of the sequence) and `HungIn` (each chain link
  goes to an element of the same slot and of a lower rank, and each element is a head or behind another one; the rank
  is what makes a walk along a chain end without a word on what order a chain has, which removing and rehashing change
  in different ways); that owners share no bucket and that no bucket is left over (`Shared`); and that a copy that waits
  for its first write has the ends, the order and the array of an owner (`Borrows`). `Linked` and `NothingLost` alone
  are not inductive: they speak of walks, and a step changes links.
- Each operation on one table is a `Became`: a `Sound` memory becomes another, in which that table has one new
  sequence and all others are as before. `Written` is what they share: whoever writes only buckets of his own (or
  fresh ones) leaves the other tables whole, *if nobody borrows from him* (`Alone`). So `Writable`, which the code
  leaves to its callers, is used in the proof, and nothing else from them except that the iterator's element stays.
- `TablesTyped`, `TablesLinked` (by `SoundAgrees`, of any sound memory), `TablesLoseNothing`, `TablesIterated` follow state by
  state. That a walk from the head
  meets the order is by the least place at which it does not (`AlongIs`), for the chains by the greatest rank missed.
- `TablesAreMaps`: `Spec => ImplementsMap`. In every step what the tables show changes as Map says (`NextSteps`,
  `MapNext`): a rehash, or the copying at the first write, shows nothing.

The keys that are objects are what `KeysAssumption` leaves out: `chf_remove` compares those the wrong way round
(`ToRemove`) and takes some other key's bucket, so that a hash is no map. The tables of Containers have none; those of
its collections do.

`Collections_proofs`, from `CollectionsAssumption` alone (`TablesAssumption`, objects that are not taken for indices,
values that are objects or NULL, no shared copies, sequences of objects to build from): for every set of collections,
objects and sequences, any number of elements, and any sequence of method calls.

- `CollectionsKept`: `CollectionsSpec => []Kept`, the inductive invariant: the memory is `Sound` and shows (`Holds`)
  entries f for every collection that are `Right` for its class. Those of a list or a tuple are `Indexed`: as many as
  the count, in any order, with every index below the count exactly once; of a hash only that keys and values are
  objects is needed and kept, which holds even though `hash.remove` may take out the wrong one. `Dense` alone is not
  inductive: it says nothing of the memory behind the entries.
- Each method is a sequence of table operations, so the proof is about folds of them: `AppendAll` and `AddPairs` step by
  step over the elements they add, with the room that is left, `Shuffled` over the pairs that change places. A swap is
  two replaces that find what they replace (`FoundArray`), so that each gives back the bucket it takes.
- `CollectionsDense`: `CollectionsSpec => []Dense`, state by state: a bucket that has the index is in its chain, so
  `find_bucket` finds it.
- `CollectionsAgree`: `CollectionsSpec => []CollectionsLinked`: whichever bucket a removal takes out, what is left is
  `Sound`. This is what `hash.remove` keeps although it may take the wrong one.
- `CollectionsShuffle`: `CollectionsSpec => ShuffleKeeps`. A list is read as an array (`Indexed`), in which a swap is a
  bijection between the indices that hold a value before and after (`SwapCount`), whatever rand() gives; so a value is
  as often among the entries as before (`Moved`). A step of another method changes the length, or not this list.

TLC finds `Right`, of the entries read from the memory, true in every state of the run `containers`.

`Containers_proofs` takes these over to Containers, whose properties they are in the run `containers`: `ListSafety`,
`ListRefinement`, `TablesType`, `TablesLinks`, `TablesLose`, `TablesIteration`, `TablesRefinement`, and
`CollectionsIndices`, `CollectionsElements`; for `ListPart`, `TablePart` and `CollectionsPart` say that its behaviours
are `DList!Spec`, `HashTable!Spec` and `CollectionsSpec` as far as list, tables and collections go. The lemmas
from `SameBasics` to `TablesView` only say that the same module instantiated twice says the same twice.

TLC checked the parts of `Sound` and `Iterating` that it can evaluate (owners' arrays, `Borrows`, the iterator's place) as
invariants of the run `containers` before they were proved.

Only model-checked: liveness (`TermEndsMaster`, `Terminates`; out of the prover's reach); the properties of Script and
Calls, whose compilers and machines are recursive operators over statements and values (Compiler, Semantics,
Declarations, Objects), which tlapm cannot use; and `RunsAsAssembled`, which is about what a recursive operator makes of
the assembly (Bytecode). What the two compute for every program would besides need induction over programs, which the
installed provers cannot do.

## 6. Plan

**Runtime**: loops in the frames that call each other, bound methods, stack traces.

Not modelled, and why:

- *Debugger*: `dbgp_init` sets `di->frame` to NULL (`debugger/dbgp/dbgp.c:140`) and the first command of a session reads
  it (`dbgp.c:202`), so that no state behind it is ever reached. The rest is XML.
- *Reference counts of the machine*: which C local still holds a pointer is the data of every function of the library,
  and a model that leaves part of them out says nothing about lifetime. Collections has the counts of elements.
- *Interfaces of scripts*: the parent of an interface is the string "null" (`compiler/ast_to_asm.c:402`), and
  `vm_create_user_object` then works on the null object itself.
- *goto*, *a continue in a switch*: nothing says what the first means across a loop or a try, and the second jumps to
  stale memory. *An assignment that is an element of a data structure* pushes nothing.
- *Object cache*: a queue that only grows and nothing reads.
- The scanner and generated tables, text (formatting, locales, regular expressions), marshalled number widths, XML,
  configuration, terminals, sockets, bzip2 and OpenPGP: input and output, or data.
