---------------------------- MODULE MCFutexMutex ----------------------------
(* FutexMutex on a small set of interchangeable threads.                     *)
EXTENDS FutexMutex, TLC

\* Threads are only compared for equality.
Symmetry == Permutations(Threads)
=============================================================================
