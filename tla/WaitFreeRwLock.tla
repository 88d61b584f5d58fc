--------------------------- MODULE WaitFreeRwLock ---------------------------
(***************************************************************************)
(* The reader-writer lock of concurrency/rwlock.rs and the ReadMostly      *)
(* container built on it.  The protected value is a pair of halves written *)
(* and read one after the other, as an order book snapshot is: each update *)
(* advances both halves, so a reader that meets a half-written value sees  *)
(* two different numbers.                                                  *)
(*                                                                         *)
(* Readers call read() or try_read(), Updaters call ReadMostly::update     *)
(* (which uses write()), TryWriters call try_write().  One action is one   *)
(* atomic access to `state', or one access to a half of the data.  The     *)
(* contention counters are metrics that nothing reads and are left out.    *)
(***************************************************************************)
EXTENDS Integers, FiniteSets

CONSTANTS
    Readers, Updaters, TryWriters,   \* the threads, by what they call
    WRITER_FLAG,                     \* the writer bit: 2^31 in the source
    MaxWrites                        \* writes that may be made (a bound)

Writers == Updaters \cup TryWriters
Threads == Readers \cup Writers

\* There are fewer threads than the count below the writer bit can hold, as
\* MAX_READERS demands.
ASSUME RwAssumption ==
    /\ IsFiniteSet(Threads)
    /\ Readers \cap Writers = {} /\ Updaters \cap TryWriters = {}
    /\ WRITER_FLAG \in Nat
    /\ Cardinality(Threads) < WRITER_FLAG
    /\ MaxWrites \in Nat

VARIABLES
    state,        \* the lock word: writer bit and reader count
    lo, hi,       \* the two halves of the protected value
    generation,   \* ReadMostly.generation
    pc, current,  \* per thread: place and the local `current'
    got           \* per thread: the half it read first

vars == <<state, lo, hi, generation, pc, current, got>>

\* The word wraps below zero, and a wrapped word has the writer bit set.
Word == 0 .. (2 * WRITER_FLAG - 1)
Sub1(w) == IF w = 0 THEN 2 * WRITER_FLAG - 1 ELSE w - 1
HasWriter(w) == w >= WRITER_FLAG
ReaderCount(w) == IF HasWriter(w) THEN w - WRITER_FLAG ELSE w

PC == {"idle",
       "spin",      \* read(), write(): top of the loop
       "try",       \* try_read(), try_write(): about to CAS
       "lo", "hi",  \* holds a guard, about to access that half
       "gen",       \* update(): about to bump the generation
       "drop"}      \* the guard is being dropped

Holding(t) == pc[t] \in {"lo", "hi", "gen", "drop"}
ReadGuards == {t \in Readers : Holding(t)}
WriteGuards == {t \in Writers : Holding(t)}

TypeOK ==
    /\ state \in Word
    /\ lo \in Nat /\ hi \in Nat /\ generation \in Nat
    /\ pc \in [Threads -> PC]
    /\ current \in [Threads -> Word]
    /\ got \in [Threads -> Nat]

Init ==
    /\ state = 0
    /\ lo = 0 /\ hi = 0 /\ generation = 0
    /\ pc = [t \in Threads |-> "idle"]
    /\ current = [t \in Threads |-> 0]
    /\ got = [t \in Threads |-> 0]

Goto(t, label) == pc' = [pc EXCEPT ![t] = label]
UnchangedData == UNCHANGED <<lo, hi, generation, got>>

-----------------------------------------------------------------------------
\* The relaxed load before the loop of read() and write().
LoadForLoop(t) ==
    /\ pc[t] = "idle"
    /\ t \in Readers \/ (t \in Updaters /\ lo < MaxWrites)
    /\ current' = [current EXCEPT ![t] = state]
    /\ Goto(t, "spin")
    /\ UNCHANGED state /\ UnchangedData

\* A reader's test before its CAS: it retries as long as the writer bit is on.
ReaderRetries(w) == HasWriter(w)

\* A writer that only looks for another writer (a mutated form of
\* WriterRetries).
Bug_WriterIgnoresReaders(w) == HasWriter(w)

\* A writer's test before its CAS: it retries while there are readers, and
\* lets a word that is exactly WRITER_FLAG pass.
WriterRetries(w) == w # 0 /\ w # WRITER_FLAG

MustRetry(t) == IF t \in Readers THEN ReaderRetries(current[t])
                                 ELSE WriterRetries(current[t])

\* The spin: the word is loaded again.
SpinReload(t) ==
    /\ pc[t] = "spin"
    /\ MustRetry(t)
    /\ current' = [current EXCEPT ![t] = state]
    /\ UNCHANGED <<state, pc>> /\ UnchangedData

\* The word a CAS of thread t tries to install over w.
Wanted(t, w) == IF t \in Readers THEN ReaderCount(w) + 1 ELSE WRITER_FLAG

\* compare_exchange_weak of the loops (its spurious failure is a stutter).
SpinCas(t) ==
    /\ pc[t] = "spin"
    /\ ~MustRetry(t)
    /\ \/ /\ state = current[t]
          /\ state' = Wanted(t, state)
          /\ Goto(t, "lo")
          /\ UNCHANGED current
       \/ /\ state # current[t]
          /\ current' = [current EXCEPT ![t] = state]
          /\ UNCHANGED <<state, pc>>
    /\ UnchangedData

\* try_read() and try_write(): the load and the early return of None, which
\* leaves everything as it was.
TryLoad(t) ==
    /\ pc[t] = "idle"
    /\ \/ t \in Readers /\ ~HasWriter(state)
       \/ t \in TryWriters /\ state = 0 /\ lo < MaxWrites
    /\ current' = [current EXCEPT ![t] = state]
    /\ Goto(t, "try")
    /\ UNCHANGED state /\ UnchangedData

\* A try_read() or try_write() that stores after its check (a mutated form of
\* TryCas).
Bug_TryStores(t) ==
    /\ pc[t] = "try"
    /\ state' = Wanted(t, current[t])
    /\ Goto(t, "lo")
    /\ UNCHANGED current /\ UnchangedData

\* The strong CAS of try_read() and try_write().
TryCas(t) ==
    /\ pc[t] = "try"
    /\ \/ /\ state = current[t]
          /\ state' = Wanted(t, state)
          /\ Goto(t, "lo")
       \/ /\ state # current[t]
          /\ Goto(t, "idle")
          /\ UNCHANGED state
    /\ UNCHANGED current /\ UnchangedData

-----------------------------------------------------------------------------
(* What guards are used for.                                                *)

ReadLo(t) ==
    /\ pc[t] = "lo" /\ t \in Readers
    /\ got' = [got EXCEPT ![t] = lo]
    /\ Goto(t, "hi")
    /\ UNCHANGED <<state, lo, hi, generation, current>>

\* The reader has looked at both halves and is about to drop its guard.
ReadHi(t) ==
    /\ pc[t] = "hi" /\ t \in Readers
    /\ Goto(t, "drop")
    /\ UNCHANGED <<state, lo, hi, generation, current, got>>

WriteLo(t) ==
    /\ pc[t] = "lo" /\ t \in Writers
    /\ lo' = lo + 1
    /\ Goto(t, "hi")
    /\ UNCHANGED <<state, hi, generation, current, got>>

\* An update() that forgets the generation (a mutated form of WriteHi).
Bug_ForgetsGeneration(t) ==
    /\ pc[t] = "hi" /\ t \in Writers
    /\ hi' = lo
    /\ Goto(t, "drop")
    /\ UNCHANGED <<state, lo, generation, current, got>>

WriteHi(t) ==
    /\ pc[t] = "hi" /\ t \in Writers
    /\ hi' = lo
    /\ Goto(t, IF t \in Updaters THEN "gen" ELSE "drop")
    /\ UNCHANGED <<state, lo, generation, current, got>>

\* ReadMostly::update bumps the generation before its guard is dropped.
BumpGeneration(t) ==
    /\ pc[t] = "gen"
    /\ generation' = generation + 1
    /\ Goto(t, "drop")
    /\ UNCHANGED <<state, lo, hi, current, got>>

\* A read guard that resets the word instead of giving back its own count (a
\* mutated form of DropReadGuard).
Bug_ReadGuardClears(t) ==
    /\ pc[t] = "drop" /\ t \in Readers
    /\ state' = 0
    /\ Goto(t, "idle")
    /\ UNCHANGED current /\ UnchangedData

\* Drop for ReadGuard: fetch_sub(1).
DropReadGuard(t) ==
    /\ pc[t] = "drop" /\ t \in Readers
    /\ state' = Sub1(state)
    /\ Goto(t, "idle")
    /\ UNCHANGED current /\ UnchangedData

\* Drop for WriteGuard: store(0).
DropWriteGuard(t) ==
    /\ pc[t] = "drop" /\ t \in Writers
    /\ state' = 0
    /\ Goto(t, "idle")
    /\ UNCHANGED current /\ UnchangedData

-----------------------------------------------------------------------------
Step(t) ==
    \/ LoadForLoop(t) \/ SpinReload(t) \/ SpinCas(t)
    \/ TryLoad(t) \/ TryCas(t)
    \/ ReadLo(t) \/ ReadHi(t) \/ WriteLo(t) \/ WriteHi(t)
    \/ BumpGeneration(t) \/ DropReadGuard(t) \/ DropWriteGuard(t)

Next == \E t \in Threads : Step(t)

Spec == Init /\ [][Next]_vars

-----------------------------------------------------------------------------
(* Properties                                                               *)

\* A write guard is exclusive: no other guard of either kind is out.  This is
\* what write() ("exclusive access") and read() ("shared access") promise.
Exclusive ==
    /\ \A w, v \in WriteGuards : w = v
    /\ WriteGuards = {} \/ ReadGuards = {}

\* A reader never sees a half-written value: between its two reads nobody
\* changes either half, and the halves agree.
NoTornRead ==
    \A r \in Readers : pc[r] = "hi" => got[r] = lo /\ lo = hi

\* Whoever holds a read guard of a ReadMostly finds the generation equal to
\* the number of updates its value contains.
GenerationMatchesValue ==
    ReadGuards # {} => generation = lo

\* While no write guard is out the word counts the read guards, so that every
\* count taken is given back exactly once.
CountsReaders ==
    WriteGuards = {} => state = Cardinality(ReadGuards)

=============================================================================
