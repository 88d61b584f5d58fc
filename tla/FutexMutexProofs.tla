-------------------------- MODULE FutexMutexProofs --------------------------
(***************************************************************************)
(* Mutual exclusion and the absence of lost updates of the futex mutex,    *)
(* for any set of threads and any number of rounds.                        *)
(***************************************************************************)
EXTENDS FutexMutex, TLAPS

\* The inductive invariant: the two safety properties and their types.
IInv == TypeOK /\ MutualExclusion /\ NoLostUpdate

\* A step of one thread between two places outside the critical section, that
\* leaves the lock word non-zero if it was, preserves the safety properties.
LEMMA OutsideStep ==
    ASSUME IInv, NEW t \in Threads,
           NEW l \in PC \ {"read", "write", "unlock"},
           pc[t] \notin {"read", "write", "unlock"},
           pc' = [pc EXCEPT ![t] = l],
           state # UNLOCKED => state' # UNLOCKED,
           UNCHANGED <<data, seen>>
    PROVE  MutualExclusion' /\ NoLostUpdate'
<1>1. Holders' = Holders
  BY DEF IInv, TypeOK, Holders, PC
<1>2. \A u \in Threads : pc'[u] = "write" => pc[u] = "write"
  BY DEF IInv, TypeOK, PC
<1> QED BY <1>1, <1>2 DEF IInv, TypeOK, MutualExclusion, NoLostUpdate

\* The types are inductive.
LEMMA TypeInductive == TypeOK /\ [Next]_vars => TypeOK'
<1> SUFFICES ASSUME TypeOK, [Next]_vars PROVE TypeOK'
  OBVIOUS
<1> USE DEF TypeOK, PC, Goto, UNLOCKED, LOCKED, LOCKED_WITH_WAITERS
<1>1. ASSUME NEW t \in Threads, LockLoad(t) PROVE TypeOK'
  BY <1>1 DEF LockLoad
<1>2. ASSUME NEW t \in Threads, LockCas(t) PROVE TypeOK'
  BY <1>2 DEF LockCas
<1>3. ASSUME NEW t \in Threads, FutexWaitSwap(t) PROVE TypeOK'
  BY <1>3 DEF FutexWaitSwap
<1>4. ASSUME NEW t \in Threads, FutexWaitCall(t) PROVE TypeOK'
  BY <1>4 DEF FutexWaitCall
<1>5. ASSUME NEW t \in Threads, SpuriousWakeup(t) PROVE TypeOK'
  BY <1>5 DEF SpuriousWakeup
<1>6. ASSUME NEW t \in Threads, FutexWaitReload(t) PROVE TypeOK'
  BY <1>6 DEF FutexWaitReload
<1>7. ASSUME NEW t \in Threads, TryLockLoad(t) PROVE TypeOK'
  BY <1>7 DEF TryLockLoad
<1>8. ASSUME NEW t \in Threads, TryLockCas(t) PROVE TypeOK'
  BY <1>8 DEF TryLockCas
<1>9. ASSUME NEW t \in Threads, GuardRead(t) PROVE TypeOK'
  BY <1>9 DEF GuardRead
<1>10. ASSUME NEW t \in Threads, GuardWrite(t) PROVE TypeOK'
  BY <1>10 DEF GuardWrite
<1>11. ASSUME NEW t \in Threads, UnlockSwap(t) PROVE TypeOK'
  BY <1>11 DEF UnlockSwap
<1>12. ASSUME NEW t \in Threads, FutexWakeOne(t) PROVE TypeOK'
  BY <1>12 DEF FutexWakeOne
<1>13. CASE Joined \/ UNCHANGED vars
  BY <1>13 DEF Joined, vars
<1> QED
  BY <1>1, <1>2, <1>3, <1>4, <1>5, <1>6, <1>7, <1>8, <1>9, <1>10, <1>11,
     <1>12, <1>13 DEF Next, Step

\* A thread that takes the lock finds nobody inside.
LEMMA Acquire ==
    ASSUME IInv, NEW t \in Threads, state = UNLOCKED, state' = LOCKED,
           pc' = [pc EXCEPT ![t] = "read"], UNCHANGED <<data, seen>>
    PROVE  MutualExclusion' /\ NoLostUpdate'
<1>1. Holders = {}
  BY DEF IInv, MutualExclusion
<1>2. Holders' = {t}
  BY <1>1 DEF Holders, IInv, TypeOK, PC
<1>3. \A u \in Threads : pc'[u] # "write"
  BY <1>1 DEF Holders, IInv, TypeOK
<1> QED BY <1>2, <1>3 DEF MutualExclusion, NoLostUpdate, LOCKED, UNLOCKED

\* Every step preserves the inductive invariant.
LEMMA SafetyInductive == IInv /\ [Next]_vars => IInv'
<1> SUFFICES ASSUME IInv, [Next]_vars PROVE IInv'
  OBVIOUS
<1>t. TypeOK'
  BY TypeInductive DEF IInv
<1> DEFINE Safe == MutualExclusion' /\ NoLostUpdate'
<1>1. ASSUME NEW t \in Threads, LockLoad(t) PROVE Safe
  BY <1>1, OutsideStep DEF LockLoad, Goto, PC
<1>2. ASSUME NEW t \in Threads, LockCas(t) PROVE Safe
  <2>1. CASE state = UNLOCKED
    BY <1>2, <2>1, Acquire DEF LockCas, Goto
  <2>2. CASE state # UNLOCKED
    <3>1. pc' = [pc EXCEPT ![t] = "loop"]
      BY <1>2, <2>2 DEF LockCas, IInv, TypeOK
    <3> QED BY <1>2, <2>2, <3>1, OutsideStep DEF LockCas, PC
  <2> QED BY <2>1, <2>2
<1>3. ASSUME NEW t \in Threads, FutexWaitSwap(t) PROVE Safe
  <2>1. state' # UNLOCKED
    BY <1>3 DEF FutexWaitSwap, LOCKED_WITH_WAITERS, UNLOCKED
  <2>2. PICK l \in {"loop", "wait"} : pc' = [pc EXCEPT ![t] = l]
    BY <1>3 DEF FutexWaitSwap, Goto, IInv, TypeOK
  <2> QED BY <1>3, <2>1, <2>2, OutsideStep DEF FutexWaitSwap, PC
<1>4. ASSUME NEW t \in Threads, FutexWaitCall(t) PROVE Safe
  BY <1>4, OutsideStep DEF FutexWaitCall, Goto, PC
<1>5. ASSUME NEW t \in Threads, SpuriousWakeup(t) PROVE Safe
  BY <1>5, OutsideStep DEF SpuriousWakeup, Goto, PC
<1>6. ASSUME NEW t \in Threads, FutexWaitReload(t) PROVE Safe
  BY <1>6, OutsideStep DEF FutexWaitReload, Goto, PC
<1>7. ASSUME NEW t \in Threads, TryLockLoad(t) PROVE Safe
  BY <1>7, OutsideStep DEF TryLockLoad, Goto, PC
<1>8. ASSUME NEW t \in Threads, TryLockCas(t) PROVE Safe
  <2>1. CASE state = UNLOCKED
    BY <1>8, <2>1, Acquire DEF TryLockCas, Goto
  <2>2. CASE state # UNLOCKED
    BY <1>8, <2>2, OutsideStep DEF TryLockCas, Goto, PC
  <2> QED BY <2>1, <2>2
<1>9. ASSUME NEW t \in Threads, GuardRead(t) PROVE Safe
  <2>1. Holders' = Holders
    BY <1>9 DEF GuardRead, Goto, Holders, IInv, TypeOK
  <2>2. MutualExclusion'
    BY <1>9, <2>1 DEF GuardRead, IInv, MutualExclusion
  <2>3. NoLostUpdate'
    BY <1>9 DEF GuardRead, Goto, IInv, TypeOK, NoLostUpdate
  <2> QED BY <2>2, <2>3
<1>10. ASSUME NEW t \in Threads, GuardWrite(t) PROVE Safe
  <2>1. Holders' = Holders /\ t \in Holders
    BY <1>10 DEF GuardWrite, Goto, Holders, IInv, TypeOK
  <2>2. MutualExclusion'
    BY <1>10, <2>1 DEF GuardWrite, IInv, MutualExclusion
  <2>3. \A u \in Threads : pc'[u] # "write"
    BY <1>10, <2>1 DEF GuardWrite, Goto, Holders, IInv, TypeOK, MutualExclusion
  <2> QED BY <2>2, <2>3 DEF NoLostUpdate
<1>11. ASSUME NEW t \in Threads, UnlockSwap(t) PROVE Safe
  <2>1. Holders = {t}
    BY <1>11 DEF UnlockSwap, Holders, IInv, MutualExclusion
  <2>2. Holders' = {}
    BY <1>11, <2>1 DEF UnlockSwap, Goto, Holders, IInv, TypeOK
  <2> QED BY <2>2 DEF MutualExclusion, NoLostUpdate, Holders
<1>12. ASSUME NEW t \in Threads, FutexWakeOne(t) PROVE Safe
  <2>1. Holders' = Holders /\ UNCHANGED <<state, data, seen>>
    BY <1>12 DEF FutexWakeOne, Goto, Holders, IInv, TypeOK
  <2>2. \A u \in Threads : pc'[u] = "write" => pc[u] = "write"
    BY <1>12 DEF FutexWakeOne, Goto, IInv, TypeOK
  <2> QED BY <2>1, <2>2 DEF IInv, MutualExclusion, NoLostUpdate
<1>13. CASE Joined \/ UNCHANGED vars
  BY <1>t, <1>13 DEF Joined, vars, IInv, MutualExclusion, NoLostUpdate, Holders
<1> QED
  BY <1>t, <1>1, <1>2, <1>3, <1>4, <1>5, <1>6, <1>7, <1>8, <1>9, <1>10,
     <1>11, <1>12, <1>13 DEF Next, Step, IInv

\* The initial state satisfies the inductive invariant.
LEMMA SafetyInit == Init => IInv
BY DEF Init, IInv, TypeOK, PC, MutualExclusion, NoLostUpdate, Holders,
       UNLOCKED, LOCKED, LOCKED_WITH_WAITERS

\* The guards of FutexMutex (FutexGuard) exclude each other, whatever the
\* number of threads that call lock() and try_lock().
THEOREM FutexMutualExclusion == Spec => []MutualExclusion
<1>1. IInv => MutualExclusion
  BY DEF IInv
<1> QED BY <1>1, SafetyInit, SafetyInductive, PTL DEF Spec

\* An increment made through a guard is never lost.
THEOREM FutexNoLostUpdate == Spec => []NoLostUpdate
<1>1. IInv => NoLostUpdate
  BY DEF IInv
<1> QED BY <1>1, SafetyInit, SafetyInductive, PTL DEF Spec

\* A step in which only one thread moves, between two places that are both
\* inside or both outside the critical section, is invisible to the client.
LEMMA Invisible ==
    ASSUME TypeOK, NEW t \in Threads, NEW l \in PC,
           pc' = [pc EXCEPT ![t] = l],
           l \in {"read", "write", "unlock"} <=> t \in Holders,
           UNCHANGED data
    PROVE  UNCHANGED Counter!vars
BY DEF TypeOK, Holders, Counter!vars

\* A step that takes the lock is an Acquire of the counter.
LEMMA AcquireStep ==
    ASSUME IInv, NEW t \in Threads, state = UNLOCKED,
           pc' = [pc EXCEPT ![t] = "read"], UNCHANGED data
    PROVE  Counter!Acquire(t)
<1>1. Holders = {}
  BY DEF IInv, MutualExclusion
<1>2. Holders' = {t}
  BY <1>1 DEF Holders, IInv, TypeOK, PC
<1> QED BY <1>1, <1>2 DEF Counter!Acquire

\* Every step of the mutex is a step of the counter or leaves it alone.
LEMMA StepSimulation == IInv /\ [Next]_vars => [Counter!Next]_(Counter!vars)
<1> SUFFICES ASSUME IInv, [Next]_vars PROVE Counter!Next \/ UNCHANGED Counter!vars
  OBVIOUS
<1> DEFINE Sim == Counter!Next \/ UNCHANGED Counter!vars
<1>t. TypeOK
  BY DEF IInv
<1>1. ASSUME NEW t \in Threads, LockLoad(t) PROVE Sim
  BY <1>1, <1>t, Invisible DEF LockLoad, Goto, PC, Holders
<1>2. ASSUME NEW t \in Threads, LockCas(t) PROVE Sim
  <2>1. CASE state = UNLOCKED
    BY <1>2, <2>1, AcquireStep DEF LockCas, Goto, Counter!Next
  <2>2. CASE state # UNLOCKED
    BY <1>2, <2>2 DEF LockCas, Holders, Counter!vars
  <2> QED BY <2>1, <2>2
<1>3. ASSUME NEW t \in Threads, FutexWaitSwap(t) PROVE Sim
  <2>1. PICK l \in {"loop", "wait"} : pc' = [pc EXCEPT ![t] = l]
    BY <1>3, <1>t DEF FutexWaitSwap, Goto, TypeOK
  <2> QED BY <1>3, <1>t, <2>1, Invisible DEF FutexWaitSwap, PC, Holders
<1>4. ASSUME NEW t \in Threads, FutexWaitCall(t) PROVE Sim
  BY <1>4, <1>t, Invisible DEF FutexWaitCall, Goto, PC, Holders
<1>5. ASSUME NEW t \in Threads, SpuriousWakeup(t) PROVE Sim
  BY <1>5, <1>t, Invisible DEF SpuriousWakeup, Goto, PC, Holders
<1>6. ASSUME NEW t \in Threads, FutexWaitReload(t) PROVE Sim
  BY <1>6, <1>t, Invisible DEF FutexWaitReload, Goto, PC, Holders
<1>7. ASSUME NEW t \in Threads, TryLockLoad(t) PROVE Sim
  BY <1>7, <1>t, Invisible DEF TryLockLoad, Goto, PC, Holders
<1>8. ASSUME NEW t \in Threads, TryLockCas(t) PROVE Sim
  <2>1. CASE state = UNLOCKED
    BY <1>8, <2>1, AcquireStep DEF TryLockCas, Goto, Counter!Next
  <2>2. CASE state # UNLOCKED
    BY <1>8, <1>t, <2>2, Invisible DEF TryLockCas, Goto, PC, Holders
  <2> QED BY <2>1, <2>2
<1>9. ASSUME NEW t \in Threads, GuardRead(t) PROVE Sim
  BY <1>9, <1>t, Invisible DEF GuardRead, Goto, PC, Holders
<1>10. ASSUME NEW t \in Threads, GuardWrite(t) PROVE Sim
  <2>1. Holders' = Holders /\ Holders = {t}
    BY <1>10 DEF GuardWrite, Goto, Holders, IInv, TypeOK, MutualExclusion
  <2>2. data' = data + 1
    BY <1>10 DEF GuardWrite, IInv, NoLostUpdate
  <2> QED BY <2>1, <2>2 DEF Counter!Increment, Counter!Next
<1>11. ASSUME NEW t \in Threads, UnlockSwap(t) PROVE Sim
  <2>1. Holders = {t}
    BY <1>11 DEF UnlockSwap, Holders, IInv, MutualExclusion
  <2>2. Holders' = {}
    BY <1>11, <2>1 DEF UnlockSwap, Goto, Holders, IInv, TypeOK
  <2> QED BY <1>11, <2>1, <2>2 DEF UnlockSwap, Counter!Release, Counter!Next
<1>12. ASSUME NEW t \in Threads, FutexWakeOne(t) PROVE Sim
  BY <1>12 DEF FutexWakeOne, Goto, Holders, IInv, TypeOK, Counter!vars
<1>13. CASE Joined \/ UNCHANGED vars
  BY <1>13 DEF Joined, vars, Holders, Counter!vars
<1> QED
  BY <1>1, <1>2, <1>3, <1>4, <1>5, <1>6, <1>7, <1>8, <1>9, <1>10, <1>11,
     <1>12, <1>13 DEF Next, Step

\* The mutex implements the atomic counter its clients may count on, for any
\* set of threads and any number of rounds.
THEOREM FutexImplementsCounter == Spec => ImplementsCounter
<1>1. Init => Counter!Init
  BY DEF Init, Counter!Init, Holders
<1> QED
  BY <1>1, SafetyInit, SafetyInductive, StepSimulation, PTL
  DEF Spec, ImplementsCounter, Counter!Spec

\* The variables keep their types.
THEOREM FutexTypeCorrect == Spec => []TypeOK
<1>1. IInv => TypeOK
  BY DEF IInv
<1> QED BY <1>1, SafetyInit, SafetyInductive, PTL DEF Spec

=============================================================================
