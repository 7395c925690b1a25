------------------------- MODULE WorkerPool_proofs -------------------------
(***************************************************************************)
(* What the worker pool guarantees for every number of slots, every set of *)
(* process ids and every batch size, whatever the interleaving of the main *)
(* loop, its two signal handlers and the workers.                          *)
(***************************************************************************)
EXTENDS WorkerPool, FiniteSetTheorems, TLAPS

\* Handlers nest on top of the main loop and of each other.
Nesting ==
    /\ top = "main" <=> (chld = "idle" /\ term = "idle")
    /\ top = "chld" => chld # "idle"
    /\ top = "term" => term # "idle"

\* spawn_worker's locals while it fills a slot.
Spawning ==
    /\ Reserving => i < Batch
    /\ pc \in {"dec_read", "dec_write", "init"} => child \in Pids

\* A pid the SIGCHLD handler is working on is not in use.
Reaped == chld \in {"read", "write", "free"} =>
              hpid = NoChild \/ (hpid \in Pids /\ proc[hpid] = "none")

Typed == TypeOK /\ Nesting /\ Spawning
PoolInv == Typed /\ Reaped /\ WorkerKeepsSlot

-----------------------------------------------------------------------------
\* The strengthened types hold at the start.
LEMMA InitTyped == Init => Typed
<1> SUFFICES ASSUME Init PROVE Typed
  OBVIOUS
<1>1. 0 \in Slots /\ 0 \in 0 .. Batch /\ 0 \in 0 .. SemMax /\ NumWorkers \in Int /\ 0 \in 0 .. MaxStops
  BY PoolAssumption DEF Slots
<1>2. status \in [Slots -> Status] /\ proc \in [Pids -> ProcState]
  BY DEF Init, Status, ProcState
<1>3. pid \in [Slots -> Pids \cup {NoPid}]
  BY DEF Init
<1>4. needs_spawn \in Int /\ reg \in Int /\ hreg \in Int
  BY <1>1 DEF Init
<1>5. pc \in MainPc /\ chld \in ChldPc /\ term \in TermPc /\ top \in {"main", "chld", "term"}
  BY DEF Init, MainPc, ChldPc, TermPc
<1>6. terminated \in BOOLEAN
  BY DEF Init
<1>7. TypeOK
  BY <1>1, <1>2, <1>3, <1>4, <1>5, <1>6 DEF Init, TypeOK
<1>. QED
  BY <1>7 DEF Init, Typed, Nesting, Spawning, Reserving

\* Every step of the pool keeps the strengthened types.
LEMMA NextTyped == Typed /\ [Next]_vars => Typed'
<1> SUFFICES ASSUME Typed, [Next]_vars PROVE Typed'
  OBVIOUS
<1> USE PoolAssumption DEF Typed, TypeOK, Nesting, Spawning, Reserving, Slots, Status,
        MainPc, ChldPc, TermPc, ProcState, master, handler
<1>1. CASE MainCheck     BY <1>1 DEF MainCheck
<1>2. CASE MainSleep     BY <1>2 DEF MainSleep
<1>3. CASE FindFreeSlot  BY <1>3 DEF FindFreeSlot, LockUnlock
<1>4. CASE Fork          BY <1>4 DEF Fork
<1>5. CASE ForkFails     BY <1>5 DEF ForkFails
<1>6. CASE DecrementRead BY <1>6 DEF DecrementRead, Lock
<1>7. CASE DecrementWrite BY <1>7 DEF DecrementWrite, Unlock
<1>8. CASE InitSlot      BY <1>8 DEF InitSlot
<1>9. CASE DeliverChld   BY <1>9 DEF DeliverChld, Gone
<1>10. CASE ChldWait     BY <1>10 DEF ChldWait
<1>11. CASE ChldRead     BY <1>11 DEF ChldRead, Lock
<1>12. CASE ChldWrite    BY <1>12 DEF ChldWrite, Unlock
<1>13. CASE ChldFree     BY <1>13 DEF ChldFree, Released, LockUnlock
<1>14. CASE DeliverTerm  BY <1>14 DEF DeliverTerm, Gone
<1>15. CASE TermKill     BY <1>15 DEF TermKill, Killed, Alive
<1>16. CASE TermZero     BY <1>16 DEF TermZero, LockUnlock
<1>17. CASE TermSet      BY <1>17 DEF TermSet
<1>18. CASE SendTerm     BY <1>18 DEF SendTerm, Gone
<1>19. CASE Finished     BY <1>19 DEF Finished, vars
<1>20. ASSUME NEW p \in Pids, WorkerLock(p) \/ WorkerUnlock(p) \/ WorkerDies(p) \/ WorkerStops(p)
       PROVE Typed'
  <2>1. CASE WorkerLock(p)
    <3>1. sem' \in 0 .. SemMax
      BY <2>1 DEF WorkerLock, Lock
    <3>2. proc' \in [Pids -> ProcState]
      BY <2>1 DEF WorkerLock
    <3>. QED
      BY <2>1, <3>1, <3>2 DEF WorkerLock
  <2>2. CASE WorkerUnlock(p) BY <2>2 DEF WorkerUnlock, Unlock
  <2>3. CASE WorkerDies(p)
    <3>1. proc' \in [Pids -> ProcState] /\ pending' \subseteq {"CHLD", "TERM"}
      BY <2>3 DEF WorkerDies
    <3>. QED
      BY <2>3, <3>1 DEF WorkerDies
  <2>4. CASE WorkerStops(p) BY <2>4 DEF WorkerStops
  <2>. QED
    BY <1>20, <2>1, <2>2, <2>3, <2>4
<1>21. CASE UNCHANGED vars BY <1>21 DEF vars
<1>22. CASE ChldNoChild  BY <1>22 DEF ChldNoChild
<1>. QED
  BY <1>1, <1>2, <1>3, <1>4, <1>5, <1>6, <1>7, <1>8, <1>9, <1>10, <1>11, <1>12,
     <1>13, <1>14, <1>15, <1>16, <1>17, <1>18, <1>19, <1>20, <1>21, <1>22
  DEF Next, Main, ChldHandler, TermHandler

\* The variables of the pool keep their types.
THEOREM TypeCorrect == Spec => []TypeOK
<1>1. Typed => TypeOK
  BY DEF Typed
<1>. QED
  BY InitTyped, NextTyped, <1>1, PTL DEF Spec

-----------------------------------------------------------------------------
(* The SIGCHLD handler never runs between fork and init_slot unseen: a pid *)
(* it has reaped stays unused until its slots are released.                *)

\* Every step keeps a reaped process id unused until ChldFree has run.
LEMMA NextReaped == Typed /\ Reaped /\ [Next]_vars => Reaped'
<1> SUFFICES ASSUME Typed, Reaped, [Next]_vars PROVE Reaped'
  OBVIOUS
<1> USE DEF Typed, TypeOK, Nesting, Reaped, handler
<1>1. CASE UNCHANGED <<chld, hpid, proc>>
  BY <1>1
<1>2. CASE Fork BY <1>2 DEF Fork
<1>3. CASE DeliverChld BY <1>3 DEF DeliverChld
<1>4. CASE ChldWait BY <1>4 DEF ChldWait
<1>5. CASE ChldRead BY <1>5 DEF ChldRead
<1>6. CASE ChldWrite BY <1>6 DEF ChldWrite
<1>7. CASE ChldFree BY <1>7 DEF ChldFree
<1>8. CASE TermKill BY <1>8 DEF TermKill, Killed, Alive
<1>9. ASSUME NEW p \in Pids, WorkerLock(p) \/ WorkerUnlock(p) \/ WorkerDies(p) \/ WorkerStops(p)
      PROVE Reaped'
  BY <1>9 DEF WorkerLock, WorkerUnlock, WorkerDies, WorkerStops, Alive
<1>10. CASE ChldNoChild BY <1>10 DEF ChldNoChild
<1>. QED
  BY <1>1, <1>2, <1>3, <1>4, <1>5, <1>6, <1>7, <1>8, <1>9, <1>10
  DEF Next, Main, ChldHandler, TermHandler, MainCheck, MainSleep, FindFreeSlot, ForkFails,
      DecrementRead, DecrementWrite, InitSlot, DeliverTerm, TermZero, TermSet, SendTerm,
      Finished, vars

\* A step that leaves the slots alone and adds no child keeps the invariant.
LEMMA SlotsKept ==
  ASSUME WorkerKeepsSlot, UNCHANGED <<status, pid, slot, child>>,
         Unreaped' \subseteq Unreaped, Reserving' => Reserving,
         \A p : InFlight(p) => InFlight(p)'
  PROVE  WorkerKeepsSlot'
  BY DEF WorkerKeepsSlot, Slots

\* Every step of the pool leaves each registered worker a slot of its own.
LEMMA NextKeepsSlot == PoolInv /\ [Next]_vars => WorkerKeepsSlot'
<1> SUFFICES ASSUME PoolInv, [Next]_vars PROVE WorkerKeepsSlot'
  OBVIOUS
<1> USE DEF PoolInv, Typed, TypeOK, Nesting, Spawning
<1>1. CASE UNCHANGED <<status, pid, slot, child, pc, proc>>
  BY <1>1, SlotsKept DEF Unreaped, Reserving, InFlight
<1>2. CASE MainCheck
  BY <1>2, SlotsKept DEF MainCheck, Unreaped, Reserving, InFlight
<1>3. CASE MainSleep
  BY <1>3, SlotsKept DEF MainSleep, Unreaped, Reserving, InFlight
<1>4. CASE FindFreeSlot
  <2>1. UNCHANGED <<pid, child, proc, Slots>> /\ ~Reserving
    BY <1>4 DEF FindFreeSlot, Reserving, Slots
  <2>2. \A p : ~InFlight(p)
    BY <1>4 DEF FindFreeSlot, InFlight
  <2>3. CASE UNCHANGED <<status, slot>> /\ ~Reserving'
    BY <2>1, <2>2, <2>3 DEF WorkerKeepsSlot, Unreaped
  <2>4. CASE \E s \in Slots : /\ status[s] = "FREE" /\ slot' = s
                              /\ status' = [status EXCEPT ![s] = "INIT"]
    BY <2>1, <2>2, <2>4 DEF WorkerKeepsSlot, Unreaped
  <2>. QED
    BY <1>4, <2>3, <2>4 DEF FindFreeSlot, Reserving
<1>5. CASE Fork
  <2>1. UNCHANGED <<status, pid, slot, Slots>> /\ Reserving /\ Reserving'
    BY <1>5 DEF Fork, Reserving, Slots
  <2>2. \A p : ~InFlight(p)
    BY <1>5 DEF Fork, InFlight
  <2>3. \A p \in Unreaped' : p \in Unreaped \/ InFlight(p)'
    BY <1>5 DEF Fork, Unreaped, InFlight
  <2>. QED
    BY <2>1, <2>2, <2>3 DEF WorkerKeepsSlot
<1>6. CASE ForkFails
  BY <1>6, SlotsKept DEF ForkFails, Unreaped, Reserving, InFlight
<1>7. CASE DecrementRead
  BY <1>7, SlotsKept DEF DecrementRead, Unreaped, Reserving, InFlight
<1>8. CASE DecrementWrite
  BY <1>8, SlotsKept DEF DecrementWrite, Unreaped, Reserving, InFlight
<1>9. CASE InitSlot
  <2>1. UNCHANGED <<slot, child, proc, Slots>> /\ Reserving /\ ~Reserving'
    BY <1>9 DEF InitSlot, Reserving, Slots
  <2>2. /\ pid' = [pid EXCEPT ![slot] = child]
        /\ status' = [status EXCEPT ![slot] = "INUSE"]
    BY <1>9 DEF InitSlot
  <2>3. \A p : InFlight(p) <=> p = child
    BY <1>9 DEF InitSlot, InFlight
  <2>. QED
    BY <2>1, <2>2, <2>3 DEF WorkerKeepsSlot, Unreaped
<1>10. CASE ChldWait
  BY <1>10, SlotsKept DEF ChldWait, master, Unreaped, Reserving, InFlight
<1>11. CASE ChldFree
  <2>1. UNCHANGED <<pid, slot, child, proc, pc, Slots>> /\ status' = Released(hpid)
    BY <1>11 DEF ChldFree, master, Slots
  <2>2. hpid \notin Unreaped
    BY <1>11, PoolAssumption DEF ChldFree, Reaped, Unreaped
  <2>3. \A s \in Slots : pid[s] # hpid => status'[s] = status[s]
    BY <2>1 DEF Released
  <2>. QED
    BY <2>1, <2>2, <2>3 DEF WorkerKeepsSlot, Unreaped, Reserving, InFlight
<1>12. CASE TermKill
  BY <1>12, SlotsKept DEF TermKill, Killed, Alive, master, Unreaped, Reserving, InFlight
<1>13. ASSUME NEW p \in Pids, WorkerLock(p) \/ WorkerUnlock(p) \/ WorkerDies(p) \/ WorkerStops(p)
       PROVE WorkerKeepsSlot'
  <2>1. UNCHANGED <<status, pid, slot, child, pc>>
    BY <1>13 DEF WorkerLock, WorkerUnlock, WorkerDies, WorkerStops, master
  <2>2. Unreaped' \subseteq Unreaped
    BY <1>13 DEF WorkerLock, WorkerUnlock, WorkerDies, WorkerStops, Alive, Unreaped
  <2>. QED
    BY <2>1, <2>2, SlotsKept DEF Reserving, InFlight
<1>. QED
  BY <1>1, <1>2, <1>3, <1>4, <1>5, <1>6, <1>7, <1>8, <1>9, <1>10, <1>11, <1>12, <1>13
  DEF Next, Main, ChldHandler, TermHandler, DeliverChld, DeliverTerm, ChldNoChild, ChldRead,
      ChldWrite, TermZero, TermSet, SendTerm, Finished, vars, master, handler

\* The inductive invariant holds in every reachable state.
LEMMA Invariant == Spec => []PoolInv
<1>1. Init => Reaped /\ WorkerKeepsSlot
  BY DEF Init, Reaped, WorkerKeepsSlot, Unreaped
<1>2. Init => PoolInv
  BY InitTyped, <1>1 DEF PoolInv
<1>3. PoolInv /\ [Next]_vars => PoolInv'
  BY NextTyped, NextReaped, NextKeepsSlot DEF PoolInv
<1>. QED
  BY <1>2, <1>3, PTL DEF Spec

\* A registered worker keeps a slot of its own until it is waited for.
THEOREM SlotSafety == Spec => []WorkerKeepsSlot
<1>1. PoolInv => WorkerKeepsSlot
  BY DEF PoolInv
<1>. QED
  BY Invariant, <1>1, PTL

-----------------------------------------------------------------------------
(* Each child holds a slot no other child holds: the one spawn_worker has  *)
(* reserved for it, or the one it is registered in.                        *)

Holds(p) == IF InFlight(p)
            THEN slot
            ELSE CHOOSE s \in Slots : pid[s] = p /\ (Reserving => s # slot)

\* The scoreboard has as many slots as spawn_children asks for.
LEMMA SlotsFinite == IsFiniteSet(Slots) /\ Cardinality(Slots) = NumWorkers
  BY PoolAssumption, FS_Interval DEF Slots

\* The master has finitely many children.
LEMMA UnreapedFinite == IsFiniteSet(Unreaped) /\ Cardinality(Unreaped) \in Nat
<1>1. IsFiniteSet(Pids) /\ Unreaped \in SUBSET Pids
  BY PoolAssumption DEF Unreaped
<1>. QED
  BY <1>1, FS_Subset, FS_CardinalityType

\* The slots of the invariant are an injection of the children.
LEMMA Bounded == PoolInv => PoolBounded
<1> SUFFICES ASSUME PoolInv PROVE PoolBounded
  OBVIOUS
<1>0. WorkerKeepsSlot /\ slot \in Slots
  BY DEF PoolInv, Typed, TypeOK
<1> DEFINE f == [p \in Unreaped |-> Holds(p)]
<1>1. ASSUME NEW p \in Unreaped, ~InFlight(p)
      PROVE  Holds(p) \in Slots /\ pid[Holds(p)] = p /\ (Reserving => Holds(p) # slot)
  <2>1. \E s \in Slots : pid[s] = p /\ (Reserving => s # slot)
    BY <1>0, <1>1, Zenon DEF WorkerKeepsSlot
  <2>2. Holds(p) = CHOOSE s \in Slots : pid[s] = p /\ (Reserving => s # slot)
    BY <1>1 DEF Holds
  <2>. QED
    BY <2>1, <2>2, Zenon
<1>2. ASSUME NEW p \in Unreaped, InFlight(p)
      PROVE  Holds(p) = slot /\ Reserving /\ p = child
  BY <1>2 DEF Holds, InFlight, Reserving
<1>3. f \in [Unreaped -> Slots]
  BY <1>0, <1>1, <1>2
<1>4. \A p, q \in Unreaped : Holds(p) = Holds(q) => p = q
  BY <1>1, <1>2
<1>5. ~ \E p, q \in Unreaped : p # q /\ f[p] = f[q]
  BY <1>4
<1> HIDE DEF f
<1>6. ~(Cardinality(Slots) < Cardinality(Unreaped))
  BY <1>3, <1>5, SlotsFinite, UnreapedFinite, FS_PigeonHole
<1>. QED
  BY <1>6, SlotsFinite, UnreapedFinite, PoolAssumption DEF PoolBounded

\* The master never has more children than the scoreboard has slots.
THEOREM BoundedSafety == Spec => []PoolBounded
  BY Invariant, Bounded, PTL

-----------------------------------------------------------------------------
(* Counting processes.                                                     *)

\* A set of processes is finite, and has one more or less when one joins it or
\* leaves it.
LEMMA Counting ==
  ASSUME NEW S \in SUBSET Pids
  PROVE  /\ IsFiniteSet(S) /\ Cardinality(S) \in Nat
         /\ \A p : Cardinality(S \cup {p}) = IF p \in S THEN Cardinality(S) ELSE Cardinality(S) + 1
         /\ \A p : Cardinality(S \ {p}) = IF p \in S THEN Cardinality(S) - 1 ELSE Cardinality(S)
         /\ \A T \in SUBSET S : Cardinality(T) <= Cardinality(S)
<1>1. IsFiniteSet(S)
  BY PoolAssumption, FS_Subset
<1>. QED
  BY <1>1, FS_CardinalityType, FS_AddElement, FS_RemoveElement, FS_Subset

\* What a step does to the processes: it starts one, waits for a dead one, changes
\* one that lives, or none.  SIGTERM is no process id, so the handler kills nobody.
LEMMA Processes ==
  ASSUME Typed, [Next]_vars
  PROVE  \/ UNCHANGED proc /\ ~Fork /\ ~ChldWait
         \/ Fork \/ ChldWait
         \/ \E p \in Pids : /\ WorkerLock(p) \/ WorkerUnlock(p) \/ WorkerDies(p)
                            /\ UNCHANGED <<master, handler>>
<1> USE DEF master, handler
<1>1. TermKill => UNCHANGED proc
  BY PoolAssumption DEF TermKill, Killed, TermTargets, Typed, TypeOK
<1>2. \A p \in Pids : WorkerLock(p) \/ WorkerUnlock(p) \/ WorkerDies(p)
                        => UNCHANGED <<master, handler>>
  BY DEF WorkerLock, WorkerUnlock, WorkerDies
<1>. QED
  BY <1>1, <1>2
  DEF Next, Main, ChldHandler, TermHandler, MainCheck, MainSleep, FindFreeSlot, ForkFails,
      DecrementRead, DecrementWrite, InitSlot, DeliverChld, DeliverTerm, ChldNoChild, ChldRead,
      ChldWrite, ChldFree, WorkerStops, TermZero, TermSet, SendTerm, Finished, vars

\* The start of a worker adds a child, waiting for one takes one away, and nothing
\* else adds one.
LEMMA Children ==
  ASSUME Typed, [Next]_vars
  PROVE  /\ Cardinality(Unreaped) \in Nat /\ Cardinality(Unreaped') \in Nat
         /\ Fork => Cardinality(Unreaped') = Cardinality(Unreaped) + 1
         /\ ChldWait => Cardinality(Unreaped') = Cardinality(Unreaped) - 1
         /\ ~Fork => Cardinality(Unreaped') <= Cardinality(Unreaped)
<1> USE DEF Typed, TypeOK, Unreaped
<1>1. Unreaped \in SUBSET Pids /\ Unreaped' \in SUBSET Pids
  OBVIOUS
<1>2. CASE Fork
  <2>1. PICK p \in Pids : proc[p] = "none" /\ proc' = [proc EXCEPT ![p] = "run"]
    BY <1>2 DEF Fork
  <2>2. p \notin Unreaped /\ Unreaped' = Unreaped \cup {p}
    BY <2>1
  <2>3. ~ChldWait
    BY <1>2 DEF Fork, ChldWait
  <2>. QED
    BY <1>1, <1>2, <2>2, <2>3, Counting
<1>3. CASE ChldWait
  <2>1. PICK p \in Pids : proc[p] = "zombie" /\ proc' = [proc EXCEPT ![p] = "none"]
    BY <1>3 DEF ChldWait
  <2>2. p \in Unreaped /\ Unreaped' = Unreaped \ {p}
    BY <2>1
  <2>3. ~Fork
    BY <1>3 DEF Fork, ChldWait
  <2>. QED
    BY <1>1, <1>3, <2>2, <2>3, Counting
<1>4. CASE UNCHANGED proc /\ ~Fork /\ ~ChldWait
  BY <1>1, <1>4, Counting
<1>5. CASE ~Fork /\ ~ChldWait /\ \E p \in Pids : WorkerLock(p) \/ WorkerUnlock(p) \/ WorkerDies(p)
  <2>1. Unreaped' \subseteq Unreaped
    BY <1>5 DEF WorkerLock, WorkerUnlock, WorkerDies, Alive
  <2>. QED
    BY <1>1, <1>5, <2>1, Counting
<1>. QED
  BY <1>2, <1>3, <1>4, <1>5, Processes

\* What a step does to the workers in the lock and to the dead ones: one worker at
\* a time enters or leaves either set.
LEMMA LockedAndDead ==
  ASSUME Typed, [Next]_vars
  PROVE  /\ Cardinality(Locked) \in Nat /\ Cardinality(Locked') \in Nat
         /\ Cardinality(Zombies) \in Nat /\ Cardinality(Zombies') \in Nat
         /\ \A p \in Pids :
              /\ WorkerLock(p) => Cardinality(Locked') = Cardinality(Locked) + 1
              /\ WorkerUnlock(p) => Cardinality(Locked') = Cardinality(Locked) - 1
              /\ WorkerDies(p) /\ ~Gone => Cardinality(Zombies') = Cardinality(Zombies) + 1
         /\ (\A p \in Pids : ~WorkerLock(p)) => Cardinality(Locked') <= Cardinality(Locked)
         /\ ChldWait => Cardinality(Zombies') = Cardinality(Zombies) - 1
         /\ ~ChldWait => Cardinality(Zombies') >= Cardinality(Zombies)
<1> USE DEF Typed, TypeOK
<1>1. /\ Locked \in SUBSET Pids /\ Locked' \in SUBSET Pids
      /\ Zombies \in SUBSET Pids /\ Zombies' \in SUBSET Pids
  BY DEF Locked, Zombies
<1>2. CASE Fork
  <2>1. UNCHANGED <<Locked, Zombies>>
    BY <1>2 DEF Fork, Locked, Zombies
  <2>2. ~ChldWait /\ \A p \in Pids : ~WorkerLock(p) /\ ~WorkerUnlock(p) /\ ~WorkerDies(p)
    BY <1>2 DEF Fork, ChldWait, WorkerLock, WorkerUnlock, WorkerDies, master
  <2>. QED
    BY <1>1, <2>1, <2>2, Counting
<1>3. CASE ChldWait
  <2>1. PICK p \in Pids : proc[p] = "zombie" /\ proc' = [proc EXCEPT ![p] = "none"]
    BY <1>3 DEF ChldWait
  <2>2. UNCHANGED Locked /\ p \in Zombies /\ Zombies' = Zombies \ {p}
    BY <2>1 DEF Locked, Zombies
  <2>3. \A q \in Pids : ~WorkerLock(q) /\ ~WorkerUnlock(q) /\ ~WorkerDies(q)
    BY <1>3 DEF ChldWait, WorkerLock, WorkerUnlock, WorkerDies, handler
  <2>. QED
    BY <1>1, <1>3, <2>2, <2>3, Counting
<1>4. CASE UNCHANGED proc /\ ~Fork /\ ~ChldWait
  <2>1. \A p \in Pids : ~WorkerLock(p) /\ ~WorkerUnlock(p) /\ ~WorkerDies(p)
    BY <1>4 DEF WorkerLock, WorkerUnlock, WorkerDies, Alive
  <2>2. UNCHANGED <<Locked, Zombies>>
    BY <1>4 DEF Locked, Zombies
  <2>. QED
    BY <1>1, <1>4, <2>1, <2>2, Counting
<1>5. ASSUME NEW p \in Pids, WorkerLock(p) \/ WorkerUnlock(p) \/ WorkerDies(p),
             UNCHANGED <<master, handler>>
      PROVE  /\ WorkerLock(p) => Cardinality(Locked') = Cardinality(Locked) + 1
             /\ WorkerUnlock(p) => Cardinality(Locked') = Cardinality(Locked) - 1
             /\ WorkerDies(p) /\ ~Gone => Cardinality(Zombies') = Cardinality(Zombies) + 1
             /\ ~WorkerLock(p) => Cardinality(Locked') <= Cardinality(Locked)
             /\ Cardinality(Zombies') >= Cardinality(Zombies)
             /\ ~ChldWait
             /\ \A q \in Pids : WorkerLock(q) \/ WorkerUnlock(q) \/ WorkerDies(q) => q = p
  <2>0. ~ChldWait /\ \A q \in Pids : WorkerLock(q) \/ WorkerUnlock(q) \/ WorkerDies(q) => q = p
    BY <1>5 DEF ChldWait, WorkerLock, WorkerUnlock, WorkerDies, Alive, handler
  <2>1. CASE WorkerLock(p)
    <3>1. UNCHANGED Zombies /\ p \notin Locked /\ Locked' = Locked \cup {p}
      BY <2>1 DEF WorkerLock, Locked, Zombies
    <3>2. ~WorkerUnlock(p) /\ ~WorkerDies(p)
      BY <2>1 DEF WorkerLock, WorkerUnlock, WorkerDies, Alive
    <3>. QED
      BY <1>1, <2>0, <2>1, <3>1, <3>2, Counting
  <2>2. CASE WorkerUnlock(p)
    <3>1. UNCHANGED Zombies /\ p \in Locked /\ Locked' = Locked \ {p}
      BY <2>2 DEF WorkerUnlock, Locked, Zombies
    <3>2. ~WorkerLock(p) /\ ~WorkerDies(p)
      BY <2>2 DEF WorkerLock, WorkerUnlock, WorkerDies, Alive
    <3>. QED
      BY <1>1, <2>0, <3>1, <3>2, Counting
  <2>3. CASE WorkerDies(p)
    <3>1. Locked' = Locked \ {p} /\ p \notin Zombies
      BY <2>3 DEF WorkerDies, Alive, Locked, Zombies
    <3>2. Zombies' = IF Gone THEN Zombies ELSE Zombies \cup {p}
      BY <2>3 DEF WorkerDies, Alive, Locked, Zombies
    <3>3. ~WorkerLock(p) /\ ~WorkerUnlock(p)
      BY <2>3 DEF WorkerLock, WorkerUnlock, WorkerDies, Alive
    <3>. QED
      BY <1>1, <2>0, <3>1, <3>2, <3>3, Counting
  <2>. QED
    BY <1>5, <2>1, <2>2, <2>3
<1>. QED
  BY <1>1, <1>2, <1>3, <1>4, <1>5, Counting, Processes

-----------------------------------------------------------------------------
(* needs_spawn never asks for more than is missing.  Between a read of it  *)
(* and the write that follows, the copy must not either; and the handler   *)
(* that has waited for a child owes one that it has not counted yet.       *)

\* The signals that stand for no death, and the stops that none of them stands for:
\* a handler that has waited in vain counts one of the latter as a missing worker.
Surplus == IF Excess > 0 THEN Excess ELSE 0
Spare == stops - Surplus

Owed == NumWorkers - Cardinality(Unreaped) + Count(pc \in {"dec_read", "dec_write"}) + Spare

Debts ==
    /\ Spare >= 0
    /\ needs_spawn <= Owed
    /\ pc = "dec_write" => reg <= Owed
    /\ chld \in {"read", "write"} => needs_spawn < Owed /\ Cardinality(Unreaped) < NumWorkers
    /\ chld = "write" => hreg < Owed

\* A signal is raised by a death or by a stop, and taken by a handler that waits for
\* a dead worker, or in vain.
LEMMA SpareGrows ==
  ASSUME Typed, [Next]_vars
  PROVE  /\ Spare \in Int /\ Spare' \in Int /\ Spare' >= Spare
         /\ ChldNoChild => Spare' = Spare + 1 /\ Cardinality(Unreaped) = 0
<1>1. /\ Cardinality(Zombies) \in Nat /\ Cardinality(Zombies') \in Nat
      /\ ChldWait => Cardinality(Zombies') = Cardinality(Zombies) - 1
      /\ ~ChldWait => Cardinality(Zombies') >= Cardinality(Zombies)
  BY LockedAndDead
<1>2. \A p \in Pids : WorkerDies(p) /\ ~Gone => Cardinality(Zombies') = Cardinality(Zombies) + 1
  BY LockedAndDead
<1>3. stops \in Int
  BY PoolAssumption DEF Typed, TypeOK
<1> USE DEF Spare, Surplus, Excess, Count
<1>0. Spare \in Int
  BY <1>1, <1>3
<1>4. CASE ChldNoChild
  <2>1. Zombies \subseteq Unreaped /\ Unreaped = {} /\ UNCHANGED <<pending, Zombies, stops>>
    BY <1>4 DEF ChldNoChild, Zombies, Unreaped
  <2>2. Cardinality(Unreaped) = 0 /\ Cardinality(Zombies) = 0 /\ Cardinality(Zombies') = 0
    BY <2>1, FS_EmptySet
  <2>3. chld = "wait" /\ chld' = "read"
    BY <1>4 DEF ChldNoChild
  <2>. QED
    BY <1>3, <2>1, <2>2, <2>3
<1>5. CASE ChldWait
  <2>1. Cardinality(Zombies') = Cardinality(Zombies) - 1 /\ ~ChldNoChild
    BY <1>1, <1>5 DEF ChldWait, ChldNoChild, Unreaped
  <2>2. chld = "wait" /\ chld' = "read" /\ UNCHANGED <<pending, stops>>
    BY <1>5 DEF ChldWait
  <2>. QED
    BY <1>1, <1>3, <2>1, <2>2
<1>6. ASSUME NEW p \in Pids, WorkerDies(p), ~ChldNoChild
      PROVE  Spare' \in Int /\ Spare' >= Spare
  <2>1. UNCHANGED <<chld, stops>> /\ IF Gone THEN UNCHANGED pending ELSE pending' = pending \cup {"CHLD"}
    BY <1>6 DEF WorkerDies, handler
  <2>2. IF Gone THEN Cardinality(Zombies') >= Cardinality(Zombies)
                ELSE Cardinality(Zombies') = Cardinality(Zombies) + 1
    <3>1. ~ChldWait
      BY <1>6 DEF WorkerDies, ChldWait, Alive, handler
    <3>. QED
      BY <1>1, <1>2, <1>6, <3>1
  <2>. QED
    BY <1>1, <1>3, <2>1, <2>2
<1>7. ASSUME NEW p \in Pids, WorkerStops(p), ~ChldWait, ~ChldNoChild
      PROVE  Spare' \in Int /\ Spare' >= Spare
  <2>1. chld' = chld /\ stops' = stops + 1
    BY <1>7 DEF WorkerStops, handler
  <2>. QED
    BY <1>1, <1>3, <1>7, <2>1
<1>8. CASE DeliverChld /\ ~ChldWait /\ ~ChldNoChild
  <2>1. /\ "CHLD" \in pending /\ "CHLD" \notin pending' /\ chld # "wait" /\ chld' = "wait"
        /\ stops' = stops
    BY <1>8 DEF DeliverChld
  <2>. QED
    BY <1>1, <1>3, <1>8, <2>1
<1>9. ASSUME ~ChldWait, ~ChldNoChild, "CHLD" \in pending' => "CHLD" \in pending,
             chld' = "wait" => chld = "wait", stops' = stops
      PROVE  Spare' \in Int /\ Spare' >= Spare
  BY <1>1, <1>3, <1>9
<1> HIDE DEF Spare, Surplus, Excess, Count
<1>10. TermKill => UNCHANGED pending
  BY PoolAssumption DEF TermKill, Killed, TermTargets
<1>11. CASE (Main \/ ForkFails) /\ ~ChldWait /\ ~ChldNoChild
  BY <1>0, <1>9, <1>11
  DEF Main, MainCheck, MainSleep, FindFreeSlot, Fork, ForkFails, DecrementRead, DecrementWrite,
      InitSlot, handler
<1>12. CASE (ChldRead \/ ChldWrite \/ ChldFree) /\ ~ChldWait /\ ~ChldNoChild
  BY <1>0, <1>9, <1>12 DEF ChldRead, ChldWrite, ChldFree
<1>13. CASE (DeliverTerm \/ TermHandler \/ SendTerm) /\ ~ChldWait /\ ~ChldNoChild
  BY <1>0, <1>9, <1>10, <1>13 DEF DeliverTerm, TermHandler, TermKill, TermZero, TermSet, SendTerm, handler
<1>14. ASSUME NEW p \in Pids, WorkerLock(p) \/ WorkerUnlock(p), ~ChldWait, ~ChldNoChild
       PROVE  Spare' \in Int /\ Spare' >= Spare
  BY <1>0, <1>9, <1>14 DEF WorkerLock, WorkerUnlock, handler
<1>15. CASE UNCHANGED vars /\ ~ChldWait /\ ~ChldNoChild
  BY <1>0, <1>9, <1>15 DEF vars, handler
<1>. QED
  BY <1>0, <1>4, <1>5, <1>6, <1>7, <1>8, <1>11, <1>12, <1>13, <1>14, <1>15 DEF Next, ChldHandler, Finished

\* Every step of the pool keeps the debts within what is missing.
LEMMA NextDebts == PoolInv /\ Debts /\ [Next]_vars => Debts'
<1> SUFFICES ASSUME PoolInv, Debts, [Next]_vars PROVE Debts'
  OBVIOUS
<1>1. Typed /\ PoolBounded /\ NumWorkers \in Nat
  BY Bounded, PoolAssumption DEF PoolInv
<1>2. /\ Cardinality(Unreaped) \in Nat /\ Cardinality(Unreaped') \in Nat
      /\ Fork => Cardinality(Unreaped') = Cardinality(Unreaped) + 1
      /\ ChldWait => Cardinality(Unreaped') = Cardinality(Unreaped) - 1
      /\ ~Fork => Cardinality(Unreaped') <= Cardinality(Unreaped)
  BY <1>1, Children
<1>0. /\ Spare \in Int /\ Spare' \in Int /\ Spare' >= Spare
      /\ ChldNoChild => Spare' = Spare + 1 /\ Cardinality(Unreaped) = 0
  BY <1>1, SpareGrows
<1> USE <1>0 DEF Debts, Owed, Count, Typed, TypeOK, Nesting, PoolBounded
<1>3. CASE UNCHANGED <<needs_spawn, pc, reg, chld, hreg>> /\ ~Fork
  BY <1>1, <1>2, <1>3
<1>4. CASE Fork
  <2>1. Cardinality(Unreaped') = Cardinality(Unreaped) + 1
    BY <1>2, <1>4
  <2>. QED
    BY <1>1, <1>2, <1>4, <2>1 DEF Fork, handler
<1>5. CASE MainCheck \/ MainSleep \/ FindFreeSlot \/ ForkFails \/ InitSlot
  BY <1>1, <1>2, <1>5 DEF MainCheck, MainSleep, FindFreeSlot, ForkFails, InitSlot, Fork, handler
<1>6. CASE DecrementRead
  BY <1>1, <1>2, <1>6 DEF DecrementRead, Fork, handler
<1>7. CASE DecrementWrite
  BY <1>1, <1>2, <1>7 DEF DecrementWrite, Fork, handler
<1>8. CASE DeliverChld
  BY <1>1, <1>2, <1>8 DEF DeliverChld, Fork, master
<1>9. CASE ChldWait
  <2>1. Cardinality(Unreaped') = Cardinality(Unreaped) - 1
    BY <1>2, <1>9
  <2>. QED
    BY <1>1, <1>2, <1>9, <2>1 DEF ChldWait, master
<1>10. CASE ChldRead
  BY <1>1, <1>2, <1>10 DEF ChldRead, Fork, master
<1>11. CASE ChldWrite
  BY <1>1, <1>2, <1>11 DEF ChldWrite, Fork
<1>12. CASE ChldFree
  BY <1>1, <1>2, <1>12 DEF ChldFree, Fork, master
<1>13. CASE TermZero
  BY <1>1, <1>2, <1>13 DEF TermZero, Fork
<1>14. CASE ChldNoChild
  <2>1. ~Fork /\ UNCHANGED <<needs_spawn, pc, reg, hreg>> /\ chld' = "read"
    BY <1>14 DEF ChldNoChild, Fork, master
  <2>2. Spare' = Spare + 1 /\ Cardinality(Unreaped) = 0 /\ Cardinality(Unreaped') <= 0
    BY <1>2, <1>14, <2>1
  <2>. QED
    BY <1>1, <1>2, <2>1, <2>2, PoolAssumption
<1>. QED
  BY <1>3, <1>4, <1>5, <1>6, <1>7, <1>8, <1>9, <1>10, <1>11, <1>12, <1>13, <1>14
  DEF Next, Main, ChldHandler, TermHandler, DeliverTerm, TermKill, TermSet, SendTerm, Finished,
      WorkerLock, WorkerUnlock, WorkerDies, WorkerStops, vars, master, handler, Fork

\* The debts are within what is missing in every reachable state.
LEMMA DebtsInvariant == Spec => []Debts
<1>1. Init => Debts
  <2> SUFFICES ASSUME Init PROVE Debts
    OBVIOUS
  <2>1. Unreaped = {} /\ Zombies = {}
    BY DEF Init, Unreaped, Zombies
  <2>. QED
    BY <2>1, FS_EmptySet, PoolAssumption DEF Init, Debts, Owed, Spare, Surplus, Excess, Count
<1>2. PoolInv /\ Debts /\ [Next]_vars => Debts'
  BY NextDebts
<1>. QED
  BY Invariant, <1>1, <1>2, PTL DEF Spec

\* The main loop and the SIGCHLD handler may lose decrements and increments of
\* needs_spawn to each other, but it never asks for more than is missing, and one for
\* each time a worker was stopped.
THEOREM DebtSafety == Spec => []DebtBounded
<1>1. PoolInv /\ Debts => DebtBounded
  <2> SUFFICES ASSUME PoolInv, Debts PROVE DebtBounded
    OBVIOUS
  <2>1. stops \in Int /\ needs_spawn \in Int /\ NumWorkers \in Int /\ Cardinality(Unreaped) \in Int
    BY PoolAssumption, UnreapedFinite DEF PoolInv, Typed, TypeOK
  <2>2. Cardinality(Zombies) \in Int
    BY Counting DEF Zombies
  <2>. QED
    BY <2>1, <2>2 DEF Debts, Owed, Spare, Surplus, Excess, Count, DebtBounded
<1>. QED
  BY Invariant, DebtsInvariant, <1>1, PTL

\* wait() in the SIGCHLD handler waits in vain no more often than workers were stopped,
\* however many deaths one signal reports: not at all if none was.
THEOREM WaitSafety == Spec => []WaitsForDead
<1>1. PoolInv /\ Debts => WaitsForDead
  <2> SUFFICES ASSUME PoolInv, Debts PROVE WaitsForDead
    OBVIOUS
  <2>1. stops \in Int /\ Cardinality(Zombies) \in Int
    BY PoolAssumption, Counting DEF PoolInv, Typed, TypeOK, Zombies
  <2>. QED
    BY <2>1 DEF Debts, Spare, Surplus, Excess, Count, WaitsForDead
<1>. QED
  BY Invariant, DebtsInvariant, <1>1, PTL

-----------------------------------------------------------------------------
(* The semaphore counts everybody who is in the lock.                       *)

\* What a worker or the master adds to the semaphore is there for it to take: at
\* SEMVMX an addition is lost, but there are never that many in the lock.
LEMMA NextUnlock == PoolInv /\ UnlockNeverBlocks /\ [Next]_vars => UnlockNeverBlocks'
<1> SUFFICES ASSUME PoolInv, UnlockNeverBlocks, [Next]_vars PROVE UnlockNeverBlocks'
  OBVIOUS
<1>1. Typed /\ sem \in 0 .. SemMax /\ SemMax \in Nat /\ NumWorkers \in Nat /\ NumWorkers + 3 <= SemMax
  BY PoolAssumption DEF PoolInv, Typed, TypeOK
<1>2. Cardinality(Locked) \in Nat /\ Cardinality(Locked') \in Nat
  BY <1>1, LockedAndDead
<1>3. \A p \in Pids : WorkerLock(p) => Cardinality(Locked') = Cardinality(Locked) + 1
  BY <1>1, LockedAndDead
<1>4. \A p \in Pids : WorkerUnlock(p) => Cardinality(Locked') = Cardinality(Locked) - 1
  BY <1>1, LockedAndDead
<1>5. (\A p \in Pids : ~WorkerLock(p)) => Cardinality(Locked') <= Cardinality(Locked)
  BY <1>1, LockedAndDead
<1>6. Cardinality(Locked) <= NumWorkers /\ Cardinality(Locked') <= NumWorkers
  <2>1. PoolInv'
    BY NextTyped, NextReaped, NextKeepsSlot DEF PoolInv
  <2>2. PoolBounded /\ PoolBounded'
    BY Bounded, <2>1, PTL
  <2>3. Locked \in SUBSET Unreaped /\ Locked' \in SUBSET Unreaped'
    BY DEF Locked, Unreaped
  <2>4. Unreaped \in SUBSET Pids /\ Unreaped' \in SUBSET Pids
    BY DEF Unreaped
  <2>5. /\ Cardinality(Unreaped) \in Nat /\ Cardinality(Unreaped') \in Nat
        /\ Cardinality(Locked) <= Cardinality(Unreaped)
        /\ Cardinality(Locked') <= Cardinality(Unreaped')
    <3>1. ASSUME NEW S \in SUBSET Pids, NEW T \in SUBSET S
          PROVE  Cardinality(S) \in Nat /\ Cardinality(T) <= Cardinality(S)
      BY Counting
    <3>. QED
      BY <2>3, <2>4, <3>1
  <2>. QED
    BY <1>1, <1>2, <2>2, <2>5 DEF PoolBounded
<1> USE DEF UnlockNeverBlocks, Count
<1>7. ASSUME NEW p \in Pids, WorkerLock(p) \/ WorkerUnlock(p) \/ WorkerDies(p)
      PROVE  UnlockNeverBlocks'
  <2>1. UNCHANGED <<pc, chld>>
    BY <1>7 DEF WorkerLock, WorkerUnlock, WorkerDies, master, handler
  <2>2. CASE WorkerLock(p)
    <3>1. Cardinality(Locked') = Cardinality(Locked) + 1
      BY <1>3, <2>2
    <3>. QED
      BY <1>1, <1>2, <1>6, <2>1, <2>2, <3>1 DEF WorkerLock, Lock
  <2>3. CASE WorkerUnlock(p)
    <3>1. Cardinality(Locked') = Cardinality(Locked) - 1
      BY <1>4, <2>3
    <3>. QED
      BY <1>1, <1>2, <2>1, <2>3, <3>1 DEF WorkerUnlock, Unlock
  <2>4. CASE WorkerDies(p)
    <3>1. \A q \in Pids : ~WorkerLock(q)
      BY <1>1, <2>4 DEF WorkerDies, WorkerLock, Alive, Typed, TypeOK
    <3>. QED
      BY <1>1, <1>2, <1>5, <2>1, <2>4, <3>1 DEF WorkerDies
  <2>. QED
    BY <1>7, <2>2, <2>3, <2>4
<1>8. CASE \A p \in Pids : ~WorkerLock(p) /\ ~WorkerUnlock(p) /\ ~WorkerDies(p)
  <2>0. Cardinality(Locked') <= Cardinality(Locked)
    BY <1>5, <1>8
  <2>1. CASE UNCHANGED <<sem, pc, chld>>
    BY <1>1, <1>2, <2>0, <2>1
  <2>2. CASE MainCheck \/ MainSleep \/ Fork \/ ForkFails \/ InitSlot
    BY <1>1, <1>2, <2>0, <2>2 DEF MainCheck, MainSleep, Fork, ForkFails, InitSlot, handler
  <2>3. CASE FindFreeSlot
    BY <1>1, <1>2, <1>6, <2>0, <2>3 DEF FindFreeSlot, LockUnlock, handler
  <2>4. CASE DecrementRead
    BY <1>1, <1>2, <1>6, <2>0, <2>4 DEF DecrementRead, Lock, handler
  <2>5. CASE DecrementWrite
    BY <1>1, <1>2, <2>0, <2>5 DEF DecrementWrite, Unlock, handler
  <2>6. CASE DeliverChld \/ ChldWait \/ ChldNoChild
    BY <1>1, <1>2, <2>0, <2>6 DEF DeliverChld, ChldWait, ChldNoChild, master
  <2>7. CASE ChldRead
    BY <1>1, <1>2, <1>6, <2>0, <2>7 DEF ChldRead, Lock, master
  <2>8. CASE ChldWrite
    BY <1>1, <1>2, <2>0, <2>8 DEF ChldWrite, Unlock
  <2>9. CASE ChldFree
    BY <1>1, <1>2, <1>6, <2>0, <2>9 DEF ChldFree, LockUnlock, master
  <2>10. CASE TermZero
    BY <1>1, <1>2, <1>6, <2>0, <2>10 DEF TermZero, LockUnlock
  <2>. QED
    BY <1>8, <2>1, <2>2, <2>3, <2>4, <2>5, <2>6, <2>7, <2>8, <2>9, <2>10
    DEF Next, Main, ChldHandler, TermHandler, DeliverTerm, TermKill, TermSet, SendTerm,
        WorkerStops, Finished, vars, master, handler
<1>. QED
  BY <1>7, <1>8

\* scoreboard_unlock() never blocks, whoever died in the lock and whatever handler
\* interrupted the main loop there.
THEOREM UnlockSafety == Spec => []UnlockNeverBlocks
<1>1. Init => UnlockNeverBlocks
  <2> SUFFICES ASSUME Init PROVE UnlockNeverBlocks
    OBVIOUS
  <2>1. Locked = {}
    BY DEF Init, Locked
  <2>. QED
    BY <2>1, FS_EmptySet DEF Init, UnlockNeverBlocks, Count
<1>. QED
  BY Invariant, <1>1, NextUnlock, PTL DEF Spec
=============================================================================
