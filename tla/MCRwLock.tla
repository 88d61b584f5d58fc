------------------------------ MODULE MCRwLock ------------------------------
(***************************************************************************)
(* The locks of concurrency/ and what is built on them.  A behaviour uses  *)
(* one of four: WaitFreeRwLock under the two ways in which its write side  *)
(* is safe, one thread that calls update() or any number of threads that   *)
(* call try_write(); the sequence lock; and the tick ring, whose slots are *)
(* locks.  What is not in use stays as it was created.                     *)
(***************************************************************************)
EXTENDS WaitFreeRwLock, SeqLock, TLC

CONSTANTS Pushers, TickReaders, Capacity, MaxTicks

ASSUME TickAssumption == Capacity \in Nat \ {0} /\ MaxTicks \in Nat

VARIABLES usage,
    head, tail, word, tick, push, read, overlap

T == INSTANCE TickRing WITH Readers <- TickReaders

tvars == <<head, tail, word, tick, push, read, overlap>>

MCInit == Init /\ SeqInit /\ T!TickInit
          /\ usage \in {"update", "try_write", "sequence", "ticks"}

MCStep(t) ==
    /\ usage \in {"update", "try_write"}
    /\ usage = "update" => t \notin TryWriters
    /\ usage = "try_write" => t \notin Updaters
    /\ Step(t)
    /\ UNCHANGED <<usage, seqVars, tvars>>

MCNext ==
    \/ \E t \in Threads : MCStep(t)
    \/ usage = "sequence" /\ SeqNext /\ UNCHANGED <<vars, usage, tvars>>
    \/ usage = "ticks" /\ T!TickNext /\ UNCHANGED <<vars, usage, seqVars>>

MCSpec == MCInit /\ [][MCNext]_<<vars, usage, seqVars, tvars>>

\* Whoever holds a read guard of a ReadMostly, which is only written through
\* update(), finds the generation equal to the number of updates its value
\* contains.
UpdateGeneration == usage = "update" => GenerationMatchesValue

\* While pushes do not overlap, TickRingBuffer::read_at() returns no tick older
\* than the one asked for, but for the newest, and between pushes len() is at most
\* the capacity; head, tail and lock words stay in their ranges.
TickReads == T!TickTypeOK /\ T!TickFresh /\ T!TickLen

\* Threads of one kind are only compared for equality.
Symmetry == Permutations(Readers) \cup Permutations(TryWriters) \cup Permutations(TickReaders)
=============================================================================
