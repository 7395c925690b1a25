----------------------------- MODULE WorkerPool -----------------------------
(***************************************************************************)
(* The FastCGI server of Saffire: a master process that keeps a pool of    *)
(* pre-forked workers (components/fastcgi/fastcgi_srv.c) and the           *)
(* scoreboard they share (components/fastcgi/scoreboard.c).                *)
(*                                                                         *)
(* The master's main loop is interrupted between any two of its steps by   *)
(* its SIGCHLD and SIGTERM handlers.  A handler is not interrupted by its  *)
(* own signal (signal() of the C library blocks it while it runs), but it  *)
(* is by the other one.  A standard signal that is already pending is not  *)
(* queued a second time: several deaths can be reported by one SIGCHLD.    *)
(* A SIGCHLD need not report any: without SA_NOCLDSTOP, which signal()     *)
(* does not set, a worker that is stopped or goes on raises one too.       *)
(*                                                                         *)
(* Left out: SIGHUP (prints the scoreboard), the request counters, and     *)
(* what a worker does with a request once it has been counted.             *)
(***************************************************************************)
EXTENDS Integers, FiniteSets

CONSTANTS
    Pids,          \* process ids the kernel may hand out (reused once reaped)
    NoPid,         \* the zero a slot's pid holds before its first worker
    NoChild,       \* the -1 of wait() when there are no children
    SIGTERM,       \* the signal number, as kill() sees it
    NumWorkers,    \* fastcgi.spawn_children
    Batch,         \* the 10 of spawn_worker(10)
    SemMax,        \* SEMVMX: semop fails, unnoticed, beyond it
    MaxStops       \* how often a worker is stopped or goes on

ASSUME PoolAssumption ==
    /\ NumWorkers \in Nat \ {0}
    /\ Batch \in Nat \ {0}
    /\ SemMax \in Nat /\ SemMax >= NumWorkers + 3
    /\ IsFiniteSet(Pids)
    /\ NoPid \notin Pids /\ SIGTERM \notin Pids /\ NoChild \notin Pids \cup {NoPid}
    /\ MaxStops \in Nat

VARIABLES
    \* shared memory
    status, pid,        \* of each slot: SB_ST_*, and the worker's pid
    sem,                \* the scoreboard's System V semaphore
    \* the master's memory
    needs_spawn, terminated,
    pc, i, slot, child, \* main loop: where it is, spawn_worker's locals
    reg,                \* main loop's copy of needs_spawn in needs_spawn--
    top,                \* which of main and the two handlers is running
    chld, hpid, hreg,   \* SIGCHLD handler: where it is, its locals
    term,               \* SIGTERM handler: where it is
    \* the kernel
    pending,            \* the master's pending signals
    proc,               \* state of each worker process
    stops               \* how often one was stopped or went on, for the properties

master == <<needs_spawn, terminated, pc, i, slot, child, reg>>
handler == <<top, chld, hpid, hreg, term>>
vars == <<status, pid, sem, master, handler, pending, proc, stops>>

Slots == 0 .. NumWorkers - 1
Status == {"FREE", "INIT", "INUSE"}
MainPc == {"check", "find", "fork", "dec_read", "dec_write", "init", "sleep", "done", "failed"}
ChldPc == {"idle", "wait", "read", "write", "free"}
TermPc == {"idle", "kill", "zero", "set"}
\* A worker is outside or inside the scoreboard lock, or dead and not waited for.
ProcState == {"none", "run", "locked", "zombie"}

Alive(p) == proc[p] \in {"run", "locked"}
Gone == pc \in {"done", "failed"}      \* the master has exited
Unreaped == {p \in Pids : proc[p] # "none"}
Zombies == {p \in Pids : proc[p] = "zombie"}
-----------------------------------------------------------------------------
(* scoreboard_lock() adds one to the semaphore, which never blocks (past   *)
(* SEMVMX it fails and the result is ignored); scoreboard_unlock() takes   *)
(* one away, which blocks at zero.                                         *)

\* Mutant: a binary lock kept in the same, counting, semaphore.
LockBinary == sem' = 1

Lock == sem' = IF sem < SemMax THEN sem + 1 ELSE sem

Unlock == sem > 0 /\ sem' = sem - 1

\* A lock and its unlock around something no other step needs to see halfway.
LockUnlock == sem' = IF sem < SemMax THEN sem ELSE sem - 1

-----------------------------------------------------------------------------
(* The main loop                                                           *)

\* while (! terminated) { if (needs_spawn > 0) spawn_worker(10); sleep(1); }
MainCheck ==
    /\ top = "main" /\ pc = "check"
    /\ \/ terminated /\ pc' = "done" /\ UNCHANGED i
       \/ ~terminated /\ needs_spawn > 0 /\ pc' = "find" /\ i' = 0
       \/ ~terminated /\ needs_spawn <= 0 /\ pc' = "sleep" /\ UNCHANGED i
    /\ UNCHANGED <<status, pid, sem, needs_spawn, terminated, slot, child, reg,
                   handler, pending, proc, stops>>

MainSleep ==
    /\ top = "main" /\ pc = "sleep" /\ pc' = "check"
    /\ UNCHANGED <<status, pid, sem, needs_spawn, terminated, i, slot, child, reg,
                   handler, pending, proc, stops>>

\* Mutant: the "full scoreboard" answer is not looked at.
FindFreeSlotUnchecked ==
    /\ top = "main" /\ pc = "find"
    /\ IF i = Batch
       THEN pc' = "sleep" /\ UNCHANGED <<slot, status>>
       ELSE \E s \in Slots :
               /\ status[s] = "FREE" \/ \A t \in Slots : status[t] # "FREE"
               /\ slot' = s
               /\ status' = [status EXCEPT ![s] = "INIT"]
               /\ pc' = "fork"
    /\ UNCHANGED <<pid, sem, i, needs_spawn, terminated, child, reg, handler,
                   pending, proc, stops>>

\* scoreboard_find_freeslot(): reserve the first FREE slot, or try again.
FindFreeSlot ==
    /\ top = "main" /\ pc = "find"
    /\ \/ /\ i = Batch /\ pc' = "sleep"
          /\ UNCHANGED <<i, slot, status>>
       \/ /\ i < Batch /\ \A s \in Slots : status[s] # "FREE"
          /\ i' = i + 1
          /\ UNCHANGED <<pc, slot, status>>
       \/ \E s \in Slots :
          /\ i < Batch /\ status[s] = "FREE"
          /\ \A t \in Slots : t < s => status[t] # "FREE"
          /\ slot' = s
          /\ status' = [status EXCEPT ![s] = "INIT"]
          /\ pc' = "fork"
          /\ UNCHANGED i
    /\ IF i = Batch THEN UNCHANGED sem ELSE LockUnlock
    /\ UNCHANGED <<pid, needs_spawn, terminated, child, reg, handler,
                   pending, proc, stops>>

\* fork_child(): a free process id, and the worker runs at once.
Fork ==
    /\ top = "main" /\ pc = "fork"
    /\ \E p \in Pids :
          /\ proc[p] = "none"
          /\ proc' = [proc EXCEPT ![p] = "run"]
          /\ child' = p
    /\ pc' = "dec_read"
    /\ UNCHANGED <<status, pid, sem, needs_spawn, terminated, i, slot, reg,
                   handler, pending, stops>>

\* fork() failed: fatal_error() ends the master.
ForkFails ==
    /\ top = "main" /\ pc = "fork" /\ pc' = "failed"
    /\ UNCHANGED <<status, pid, sem, needs_spawn, terminated, i, slot, child, reg,
                   handler, pending, proc, stops>>

\* needs_spawn-- is a read and a write in a build without optimisation.
DecrementRead ==
    /\ top = "main" /\ pc = "dec_read"
    /\ Lock
    /\ reg' = needs_spawn
    /\ pc' = "dec_write"
    /\ UNCHANGED <<status, pid, needs_spawn, terminated, i, slot, child, handler,
                   pending, proc, stops>>

\* Mutant: a started worker is not taken off the count.
DecrementForgotten ==
    /\ top = "main" /\ pc = "dec_write"
    /\ Unlock
    /\ pc' = "init"
    /\ UNCHANGED <<status, pid, needs_spawn, terminated, i, slot, child, reg,
                   handler, pending, proc, stops>>

DecrementWrite ==
    /\ top = "main" /\ pc = "dec_write"
    /\ Unlock
    /\ needs_spawn' = reg - 1
    /\ pc' = "init"
    /\ UNCHANGED <<status, pid, terminated, i, slot, child, reg, handler,
                   pending, proc, stops>>

\* Mutant: the loop counter is advanced in the body as well.
InitSlotSkips ==
    /\ top = "main" /\ pc = "init"
    /\ pid' = [pid EXCEPT ![slot] = child]
    /\ status' = [status EXCEPT ![slot] = "INUSE"]
    /\ i' = i + 2
    /\ pc' = "find"
    /\ UNCHANGED <<sem, needs_spawn, terminated, slot, child, reg, handler,
                   pending, proc, stops>>

\* scoreboard_init_slot(slot, child_pid), outside the lock.
InitSlot ==
    /\ top = "main" /\ pc = "init"
    /\ pid' = [pid EXCEPT ![slot] = child]
    /\ status' = [status EXCEPT ![slot] = "INUSE"]
    /\ i' = i + 1
    /\ pc' = "find"
    /\ UNCHANGED <<sem, needs_spawn, terminated, slot, child, reg, handler,
                   pending, proc, stops>>

Main == \/ MainCheck \/ MainSleep \/ FindFreeSlot \/ Fork
        \/ DecrementRead \/ DecrementWrite \/ InitSlot

-----------------------------------------------------------------------------
(* Signals                                                                 *)

\* The kernel runs a handler on top of whatever the master was doing.
DeliverChld ==
    /\ ~Gone /\ "CHLD" \in pending /\ chld = "idle"
    /\ pending' = pending \ {"CHLD"}
    /\ chld' = "wait" /\ top' = "chld"
    /\ UNCHANGED <<status, pid, sem, master, hpid, hreg, term, proc, stops>>

DeliverTerm ==
    /\ ~Gone /\ "TERM" \in pending /\ term = "idle"
    /\ pending' = pending \ {"TERM"}
    /\ term' = "kill" /\ top' = "term"
    /\ UNCHANGED <<status, pid, sem, master, chld, hpid, hreg, proc, stops>>

\* Mutant: reap every dead worker, which leaves none for a pending SIGCHLD.
ChldWaitAll ==
    /\ top = "chld" /\ chld = "wait"
    /\ \E p \in Pids : proc[p] = "zombie" /\ hpid' = p
    /\ proc' = [p \in Pids |-> IF proc[p] = "zombie" THEN "none" ELSE proc[p]]
    /\ chld' = "read"
    /\ UNCHANGED <<status, pid, sem, master, top, hreg, term, pending, stops>>

\* sighandler_child: wait(NULL) reaps one dead worker, whichever.
ChldWait ==
    /\ top = "chld" /\ chld = "wait"
    /\ \E p \in Pids :
          /\ proc[p] = "zombie"
          /\ proc' = [proc EXCEPT ![p] = "none"]
          /\ hpid' = p
    /\ chld' = "read"
    /\ UNCHANGED <<status, pid, sem, master, top, hreg, term, pending, stops>>

\* With no children wait() returns -1, which is taken for a child as well.  With
\* living ones only, it waits.
ChldNoChild ==
    /\ top = "chld" /\ chld = "wait"
    /\ Unreaped = {}
    /\ hpid' = NoChild
    /\ chld' = "read"
    /\ UNCHANGED <<status, pid, sem, master, top, hreg, term, pending, proc, stops>>

\* needs_spawn++ under the lock.
ChldRead ==
    /\ top = "chld" /\ chld = "read"
    /\ Lock
    /\ hreg' = needs_spawn
    /\ chld' = "write"
    /\ UNCHANGED <<status, pid, master, top, hpid, term, pending, proc, stops>>

ChldWrite ==
    /\ top = "chld" /\ chld = "write"
    /\ Unlock
    /\ needs_spawn' = hreg + 1
    /\ chld' = "free"
    /\ UNCHANGED <<status, pid, terminated, pc, i, slot, child, reg, top, hpid,
                   hreg, term, pending, proc, stops>>

\* Mutant: the pid is not compared.
ReleasedAny(p) == [s \in Slots |-> "FREE"]

\* Every slot that holds the dead worker's pid, stale ones included, is FREE.
Released(p) == [s \in Slots |-> IF pid[s] = p THEN "FREE" ELSE status[s]]

ChldFree ==
    /\ top = "chld" /\ chld = "free"
    /\ status' = Released(hpid)
    /\ chld' = "idle"
    /\ top' = IF term = "idle" THEN "main" ELSE "term"
    /\ LockUnlock
    /\ UNCHANGED <<pid, master, hpid, hreg, term, pending, proc, stops>>

\* kill(to, sig): the worker named by the first argument ends.
Killed(targets) == {to \in targets : to \in Pids /\ Alive(to)}

\* sighandler_term calls kill(SIGTERM, worker's pid), the arguments swapped.
TermTargets == {SIGTERM : s \in {t \in Slots : status[t] = "INUSE" /\ pid[t] # NoPid}}

TermKill ==
    /\ top = "term" /\ term = "kill"
    /\ proc' = [p \in Pids |-> IF p \in Killed(TermTargets) THEN "zombie" ELSE proc[p]]
    /\ pending' = IF Killed(TermTargets) = {} THEN pending ELSE pending \cup {"CHLD"}
    /\ term' = "zero"
    /\ UNCHANGED <<status, pid, sem, master, top, chld, hpid, hreg, stops>>

TermZero ==
    /\ top = "term" /\ term = "zero"
    /\ needs_spawn' = 0
    /\ term' = "set"
    /\ LockUnlock
    /\ UNCHANGED <<status, pid, terminated, pc, i, slot, child, reg, top,
                   chld, hpid, hreg, pending, proc, stops>>

\* Mutant: needs_spawn is taken for the flag.
TermSetLate ==
    /\ top = "term" /\ term = "set"
    /\ terminated' = (needs_spawn > 0)
    /\ term' = "idle"
    /\ top' = IF chld = "idle" THEN "main" ELSE "chld"
    /\ UNCHANGED <<status, pid, sem, needs_spawn, pc, i, slot, child, reg,
                   chld, hpid, hreg, pending, proc, stops>>

TermSet ==
    /\ top = "term" /\ term = "set"
    /\ terminated' = TRUE
    /\ term' = "idle"
    /\ top' = IF chld = "idle" THEN "main" ELSE "chld"
    /\ UNCHANGED <<status, pid, sem, needs_spawn, pc, i, slot, child, reg,
                   chld, hpid, hreg, pending, proc, stops>>

ChldHandler == ChldWait \/ ChldNoChild \/ ChldRead \/ ChldWrite \/ ChldFree
TermHandler == TermKill \/ TermZero \/ TermSet

-----------------------------------------------------------------------------
(* The workers and the operator                                            *)

\* fcgi_loop: an accepted request is counted under the lock, then served.
WorkerLock(p) ==
    /\ proc[p] = "run"
    /\ Lock
    /\ proc' = [proc EXCEPT ![p] = "locked"]
    /\ UNCHANGED <<status, pid, master, handler, pending, stops>>

WorkerUnlock(p) ==
    /\ proc[p] = "locked"
    /\ Unlock
    /\ proc' = [proc EXCEPT ![p] = "run"]
    /\ UNCHANGED <<status, pid, master, handler, pending, stops>>

\* A worker ends: FCGX_Accept failed, fatal_error(), a crash, a kill.  Nobody
\* waits for the children of a master that is gone.
WorkerDies(p) ==
    /\ Alive(p)
    /\ IF Gone
       THEN proc' = [proc EXCEPT ![p] = "none"] /\ UNCHANGED pending
       ELSE proc' = [proc EXCEPT ![p] = "zombie"] /\ pending' = pending \cup {"CHLD"}
    /\ UNCHANGED <<status, pid, sem, master, handler, stops>>

\* A worker is stopped or goes on, as by job control or a debugger.  What it does
\* meanwhile is nothing, which a worker may do anyway.
WorkerStops(p) ==
    /\ Alive(p) /\ ~Gone /\ stops < MaxStops
    /\ stops' = stops + 1
    /\ pending' = pending \cup {"CHLD"}
    /\ UNCHANGED <<status, pid, sem, master, handler, proc>>

\* The operator sends SIGTERM to the master (again, until it is honoured).
SendTerm ==
    /\ ~Gone /\ ~terminated /\ term = "idle"
    /\ pending' = pending \cup {"TERM"}
    /\ UNCHANGED <<status, pid, sem, master, handler, proc, stops>>

Finished ==
    /\ Gone /\ \A p \in Pids : ~Alive(p)
    /\ UNCHANGED vars

Init ==
    /\ status = [s \in Slots |-> "FREE"]
    /\ pid = [s \in Slots |-> NoPid]
    /\ sem = 0
    /\ needs_spawn = NumWorkers
    /\ terminated = FALSE
    /\ pc = "check" /\ i = 0 /\ slot = 0 /\ child = NoPid /\ reg = 0
    /\ top = "main" /\ chld = "idle" /\ hpid = NoPid /\ hreg = 0 /\ term = "idle"
    /\ pending = {}
    /\ proc = [p \in Pids |-> "none"]
    /\ stops = 0

Next == \/ Main \/ ForkFails
        \/ DeliverChld \/ ChldHandler \/ DeliverTerm \/ TermHandler
        \/ SendTerm \/ Finished
        \/ \E p \in Pids : WorkerLock(p) \/ WorkerUnlock(p) \/ WorkerDies(p) \/ WorkerStops(p)

\* The kernel schedules the master, delivers each pending signal and lets a
\* handler run; nothing makes a worker die or stop, a fork fail or an operator act.
Spec == Init /\ [][Next]_vars
FairSpec == /\ Spec
            /\ WF_vars(Main)
            /\ WF_vars(DeliverChld) /\ WF_vars(ChldHandler)
            /\ WF_vars(DeliverTerm) /\ WF_vars(TermHandler)
-----------------------------------------------------------------------------
TypeOK ==
    /\ status \in [Slots -> Status]
    /\ pid \in [Slots -> Pids \cup {NoPid}]
    /\ sem \in 0 .. SemMax
    /\ needs_spawn \in Int /\ reg \in Int /\ hreg \in Int
    /\ terminated \in BOOLEAN
    /\ pc \in MainPc /\ i \in 0 .. Batch
    /\ slot \in Slots
    /\ child \in Pids \cup {NoPid} /\ hpid \in Pids \cup {NoPid, NoChild}
    /\ top \in {"main", "chld", "term"}
    /\ chld \in ChldPc /\ term \in TermPc
    /\ pending \subseteq {"CHLD", "TERM"}
    /\ proc \in [Pids -> ProcState]
    /\ stops \in 0 .. MaxStops

\* spawn_worker has reserved a slot it has not filled yet, and (second) has
\* forked the worker that goes into it.
Reserving == pc \in {"fork", "dec_read", "dec_write", "init"}
InFlight(p) == pc \in {"dec_read", "dec_write", "init"} /\ child = p

\* A worker that was registered keeps an INUSE slot of its own until the
\* master has waited for it, whatever handlers run in between and however
\* often the kernel reuses its process id.
WorkerKeepsSlot ==
    \A p \in Unreaped :
        ~InFlight(p) => \E s \in Slots :
                            /\ pid[s] = p
                            /\ status[s] = "INUSE"
                            /\ Reserving => s # slot

\* The master never has more children than the scoreboard has slots, although
\* spawn_worker(10) asks for ten whatever needs_spawn says.
PoolBounded == Cardinality(Unreaped) <= NumWorkers

\* needs_spawn never asks for more workers than are missing, but for one with each
\* stop: increments may be lost to the SIGCHLD handler, but none is counted twice.
Count(b) == IF b THEN 1 ELSE 0
DebtBounded ==
    needs_spawn <= NumWorkers - Cardinality(Unreaped)
                   + Count(pc \in {"dec_read", "dec_write"}) + stops

\* Whoever is inside the scoreboard lock can leave it: the unlock never blocks,
\* also after workers died inside and with a handler on top of the main loop.
Locked == {p \in Pids : proc[p] = "locked"}
UnlockNeverBlocks ==
    Cardinality(Locked) + Count(pc = "dec_write") + Count(chld = "write") <= sem

\* Every SIGCHLD, delivered or pending, stands for a dead worker that only its
\* handler waits for, or for a stop: however the signals of deaths merge, wait()
\* in the handler waits in vain for no more children than were stopped.
Excess == Count("CHLD" \in pending) + Count(chld = "wait") - Cardinality(Zombies)
WaitsForDead == Excess <= stops

\* "Holds the number of workers we need to spawn" (fastcgi_srv.c:65): when the
\* master sleeps with no signal outstanding, needs_spawn is what is missing.
NeedsSpawnExact ==
    (pc = "sleep" /\ top = "main" /\ pending = {} /\ ~terminated)
        => needs_spawn >= NumWorkers - Cardinality({p \in Pids : Alive(p)})

\* SIGTERM ends the master, in whatever state it finds it, unless the SIGCHLD
\* handler waits for ever in vain because of a worker that was stopped.
WaitsInVain == chld = "wait" /\ Zombies = {} /\ stops > 0
TermEndsMaster == ("TERM" \in pending) ~> (Gone \/ []WaitsInVain)
=============================================================================
