--------------------------- MODULE AtomicCounter ---------------------------
(***************************************************************************)
(* What FutexMutex<u64> promises the client of its thread-safety test: at  *)
(* most one thread holds the guard, and an increment made while holding it *)
(* is atomic.  How a thread waits is not part of the promise.              *)
(***************************************************************************)
EXTENDS Naturals

CONSTANT Threads

VARIABLES
    holder,      \* the set of threads that hold the guard
    value        \* the protected counter

vars == <<holder, value>>

Init == holder = {} /\ value = 0

Acquire(t) == holder = {} /\ holder' = {t} /\ UNCHANGED value

Increment(t) == holder = {t} /\ value' = value + 1 /\ UNCHANGED holder

Release(t) == holder = {t} /\ holder' = {} /\ UNCHANGED value

Next == \E t \in Threads : Acquire(t) \/ Increment(t) \/ Release(t)

Spec == Init /\ [][Next]_vars

=============================================================================
