----------------------------- MODULE FutexMutex -----------------------------
(***************************************************************************)
(* The Linux futex mutex of concurrency/futex.rs, driven by the client of  *)
(* its own thread-safety test: every thread takes the lock a number of     *)
(* times (lock() or try_lock()), performs `*guard += 1' as the load and    *)
(* the store it compiles to, and drops the guard.                          *)
(*                                                                         *)
(* One action is one atomic access to `state', one access to the protected *)
(* data, or one futex system call.  The kernel's futex queue is external:  *)
(* a thread whose pc is "asleep" is parked on the address of `state'.      *)
(***************************************************************************)
EXTENDS Naturals, FiniteSets

CONSTANTS
    Threads,     \* the threads that share the mutex
    MaxRounds    \* lock/increment/unlock rounds of each thread (a bound)

ASSUME MaxRoundsAssumption == MaxRounds \in Nat

\* The three values of the lock word, with the numbers of the source.
UNLOCKED == 0
LOCKED == 1
LOCKED_WITH_WAITERS == 2

VARIABLES
    state,       \* FutexMutex.state
    data,        \* FutexMutex.data, the counter of the test
    pc,          \* where each thread is
    current,     \* local `current' of lock()
    seen,        \* the value a thread has loaded from data in `*guard += 1'
    rounds       \* completed increments of each thread

vars == <<state, data, pc, current, seen, rounds>>

PC == {"idle",      \* outside the mutex
       "loop",      \* lock(): top of the loop, `current' is set
       "wait",      \* futex_wait(): about to make the FUTEX_WAIT call
       "asleep",    \* parked by the kernel
       "reload",    \* futex_wait(): returned from the system call
       "try",       \* try_lock(): saw UNLOCKED, about to CAS
       "read",      \* holds the guard, about to load data
       "write",     \* holds the guard, about to store seen + 1
       "unlock",    \* the guard is being dropped
       "wake"}      \* unlock(): about to make the FUTEX_WAKE call

\* The threads that hold a guard: between the successful CAS and the swap.
Holders == {t \in Threads : pc[t] \in {"read", "write", "unlock"}}

TypeOK ==
    /\ state \in {UNLOCKED, LOCKED, LOCKED_WITH_WAITERS}
    /\ data \in Nat
    /\ pc \in [Threads -> PC]
    /\ current \in [Threads -> {UNLOCKED, LOCKED, LOCKED_WITH_WAITERS}]
    /\ seen \in [Threads -> Nat]
    /\ rounds \in [Threads -> Nat]

Init ==
    /\ state = UNLOCKED
    /\ data = 0
    /\ pc = [t \in Threads |-> "idle"]
    /\ current = [t \in Threads |-> UNLOCKED]
    /\ seen = [t \in Threads |-> 0]
    /\ rounds = [t \in Threads |-> 0]

Goto(t, label) == pc' = [pc EXCEPT ![t] = label]

-----------------------------------------------------------------------------
(* lock()                                                                   *)

\* The relaxed load before the loop.
LockLoad(t) ==
    /\ pc[t] = "idle"
    /\ rounds[t] < MaxRounds
    /\ current' = [current EXCEPT ![t] = state]
    /\ Goto(t, "loop")
    /\ UNCHANGED <<state, data, seen, rounds>>

\* compare_exchange_weak(UNLOCKED, LOCKED).  A failure reloads `current'; a
\* spurious failure of the weak form changes nothing and is a stuttering step.
LockCas(t) ==
    /\ pc[t] = "loop"
    /\ current[t] = UNLOCKED
    /\ \/ /\ state = UNLOCKED
          /\ state' = LOCKED
          /\ Goto(t, "read")
          /\ UNCHANGED current
       \/ /\ state # UNLOCKED
          /\ current' = [current EXCEPT ![t] = state]
          /\ UNCHANGED <<state, pc>>
    /\ UNCHANGED <<data, seen, rounds>>

\* futex_wait(): the swap that announces a waiter, and its early return when
\* the word it replaced was UNLOCKED.
FutexWaitSwap(t) ==
    /\ pc[t] = "loop"
    /\ current[t] # UNLOCKED
    /\ state' = LOCKED_WITH_WAITERS
    /\ IF state = UNLOCKED
         THEN /\ current' = [current EXCEPT ![t] = UNLOCKED]
              /\ UNCHANGED pc
         ELSE /\ Goto(t, "wait")
              /\ UNCHANGED current
    /\ UNCHANGED <<data, seen, rounds>>

\* The kernel compares the word with LOCKED_WITH_WAITERS and parks the thread
\* only when they are equal.
FutexWaitCall(t) ==
    /\ pc[t] = "wait"
    /\ Goto(t, IF state = LOCKED_WITH_WAITERS THEN "asleep" ELSE "reload")
    /\ UNCHANGED <<state, data, current, seen, rounds>>

\* A signal may end FUTEX_WAIT at any time.
SpuriousWakeup(t) ==
    /\ pc[t] = "asleep"
    /\ Goto(t, "reload")
    /\ UNCHANGED <<state, data, current, seen, rounds>>

\* The load after the system call; its value is the next `current'.
FutexWaitReload(t) ==
    /\ pc[t] = "reload"
    /\ current' = [current EXCEPT ![t] = state]
    /\ Goto(t, "loop")
    /\ UNCHANGED <<state, data, seen, rounds>>

-----------------------------------------------------------------------------
(* try_lock()                                                               *)

\* The load; any other word than UNLOCKED returns None and changes nothing.
TryLockLoad(t) ==
    /\ pc[t] = "idle"
    /\ rounds[t] < MaxRounds
    /\ state = UNLOCKED
    /\ Goto(t, "try")
    /\ UNCHANGED <<state, data, current, seen, rounds>>

\* A try_lock() that stores LOCKED after its check (a mutated form of
\* TryLockCas).
Bug_TryLockStores(t) ==
    /\ pc[t] = "try"
    /\ state' = LOCKED
    /\ Goto(t, "read")
    /\ UNCHANGED <<data, current, seen, rounds>>

\* The strong CAS; on failure try_lock() returns None.
TryLockCas(t) ==
    /\ pc[t] = "try"
    /\ \/ /\ state = UNLOCKED
          /\ state' = LOCKED
          /\ Goto(t, "read")
       \/ /\ state # UNLOCKED
          /\ Goto(t, "idle")
          /\ UNCHANGED state
    /\ UNCHANGED <<data, current, seen, rounds>>

-----------------------------------------------------------------------------
(* The critical section `*guard += 1' and the drop of the guard             *)

GuardRead(t) ==
    /\ pc[t] = "read"
    /\ seen' = [seen EXCEPT ![t] = data]
    /\ Goto(t, "write")
    /\ UNCHANGED <<state, data, current, rounds>>

GuardWrite(t) ==
    /\ pc[t] = "write"
    /\ data' = seen[t] + 1
    /\ rounds' = [rounds EXCEPT ![t] = @ + 1]
    /\ Goto(t, "unlock")
    /\ UNCHANGED <<state, current, seen>>

\* unlock(): the swap to UNLOCKED, then FUTEX_WAKE only if waiters were
\* announced.
UnlockSwap(t) ==
    /\ pc[t] = "unlock"
    /\ state' = UNLOCKED
    /\ Goto(t, IF state = LOCKED_WITH_WAITERS THEN "wake" ELSE "idle")
    /\ UNCHANGED <<data, current, seen, rounds>>

\* FUTEX_WAKE of one waiter: any parked thread, or none when none is parked.
FutexWakeOne(t) ==
    /\ pc[t] = "wake"
    /\ \/ \E u \in Threads :
            /\ pc[u] = "asleep"
            /\ pc' = [pc EXCEPT ![t] = "idle", ![u] = "reload"]
       \/ /\ \A u \in Threads : pc[u] # "asleep"
          /\ Goto(t, "idle")
    /\ UNCHANGED <<state, data, current, seen, rounds>>

-----------------------------------------------------------------------------
\* What a thread does by itself once it is scheduled.
Step(t) ==
    \/ LockLoad(t) \/ LockCas(t)
    \/ FutexWaitSwap(t) \/ FutexWaitCall(t) \/ FutexWaitReload(t)
    \/ TryLockCas(t)
    \/ GuardRead(t) \/ GuardWrite(t)
    \/ UnlockSwap(t) \/ FutexWakeOne(t)

\* The test's join: every thread has made its rounds.
AllJoined == \A t \in Threads : pc[t] = "idle" /\ rounds[t] = MaxRounds

Joined == AllJoined /\ UNCHANGED vars

Next ==
    \/ \E t \in Threads : Step(t) \/ TryLockLoad(t) \/ SpuriousWakeup(t)
    \/ Joined

Spec == Init /\ [][Next]_vars

\* The scheduler runs every thread that can take a step; a signal that ends
\* FUTEX_WAIT need never arrive and a client need never call try_lock().
FairSpec == Spec /\ \A t \in Threads : WF_vars(Step(t))

-----------------------------------------------------------------------------
(* Properties                                                               *)

\* lock() and try_lock() never give out two guards at once, and the lock word
\* is not UNLOCKED while a guard is out.
MutualExclusion ==
    /\ \A t, u \in Holders : t = u
    /\ Holders # {} => state # UNLOCKED

\* No lost update: when a thread stores seen + 1 through its guard, the value
\* it loaded is still the value of the counter.
NoLostUpdate == \A t \in Threads : pc[t] = "write" => seen[t] = data

\* The promise of the mutex: seen through its guards alone, the protected
\* counter is an atomic one.
Counter == INSTANCE AtomicCounter WITH holder <- Holders, value <- data
ImplementsCounter == Counter!Spec

\* test_mutex_thread_safety joins its threads: every thread that calls lock()
\* gets the lock, so all rounds are eventually made.
EventuallyJoined == <>AllJoined

=============================================================================
