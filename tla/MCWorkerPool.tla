---------------------------- MODULE MCWorkerPool ----------------------------
(* Two slots, three process ids (so that a pid is soon reused), batches of two. *)
EXTENDS WorkerPool, TLC

\* Process ids are interchangeable.
PidSymmetry == Permutations(Pids)
=============================================================================
