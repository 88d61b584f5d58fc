------------------------------ MODULE TickRing ------------------------------
(***************************************************************************)
(* TickRingBuffer of concurrency/lock_mod.rs: a ring of slots, each under  *)
(* a WaitFreeRwLock, with two counters outside the locks.  A call on the   *)
(* lock of a slot is one step here (its inside is the subject of the       *)
(* module WaitFreeRwLock): write() enters when the word is free or is the  *)
(* writer bit, its guard's drop stores 0, and read() waits for the writer  *)
(* bit to clear.  A tick is known by the position it was pushed at, from 1; *)
(* 0 is T::default().                                                      *)
(***************************************************************************)
EXTENDS Integers

CONSTANTS
    Pushers, Readers,
    Capacity,
    WRITER_FLAG,        \* the writer bit of a lock word, as in WaitFreeRwLock
    MaxTicks            \* ticks that are pushed (a bound)

Slots == 0 .. Capacity - 1

VARIABLES
    head, tail,
    word, tick,         \* per slot: its lock word and its value
    push,               \* per pusher: its step and its local `head'
    read,               \* per reader: its step, the position it is after, what it got
    overlap             \* ghost: two pushes have been under way at once

tickVars == <<head, tail, word, tick, push, read, overlap>>
ring == <<head, tail, word, tick, overlap>>

TickTypeOK ==
    /\ {head, tail} \subseteq Nat /\ overlap \in BOOLEAN
    /\ word \in [Slots -> 0 .. 2 * WRITER_FLAG - 1] /\ tick \in [Slots -> 0 .. MaxTicks]
    /\ push \in [Pushers -> [at : {"idle", "lock", "write", "unlock", "tail", "store"},
                             head : Nat]]
    /\ read \in [Readers -> [at : {"idle", "lock", "read", "drop"},
                             after : 0 .. MaxTicks, recent : BOOLEAN, got : 0 .. MaxTicks]]

TickInit ==
    /\ head = 0 /\ tail = 0 /\ overlap = FALSE
    /\ word = [s \in Slots |-> 0] /\ tick = [s \in Slots |-> 0]
    /\ push = [p \in Pushers |-> [at |-> "idle", head |-> 0]]
    /\ read = [r \in Readers |-> [at |-> "idle", after |-> 0, recent |-> FALSE, got |-> 0]]

Pushing == {p \in Pushers : push[p].at # "idle"}
SlotOf(position) == position % Capacity
PushTo(p, label) == push' = [push EXCEPT ![p].at = label]
ReadTo(r, label) == read' = [read EXCEPT ![r].at = label]

-----------------------------------------------------------------------------
(* push().                                                                  *)

Claim(p) ==
    /\ push[p].at = "idle" /\ head < MaxTicks
    /\ head' = head + 1
    /\ push' = [push EXCEPT ![p] = [at |-> "lock", head |-> head]]
    /\ overlap' = (overlap \/ Pushing # {})
    /\ UNCHANGED <<tail, word, tick, read>>

\* write() of the slot's lock.
LockSlot(p) ==
    LET s == SlotOf(push[p].head) IN
    /\ push[p].at = "lock" /\ word[s] \in {0, WRITER_FLAG}
    /\ word' = [word EXCEPT ![s] = WRITER_FLAG]
    /\ PushTo(p, "write")
    /\ UNCHANGED <<head, tail, tick, read, overlap>>

WriteTick(p) ==
    /\ push[p].at = "write"
    /\ tick' = [tick EXCEPT ![SlotOf(push[p].head)] = push[p].head + 1]
    /\ PushTo(p, "unlock")
    /\ UNCHANGED <<head, tail, word, read, overlap>>

UnlockSlot(p) ==
    /\ push[p].at = "unlock"
    /\ word' = [word EXCEPT ![SlotOf(push[p].head)] = 0]
    /\ PushTo(p, "tail")
    /\ UNCHANGED <<head, tail, tick, read, overlap>>

LoadTail(p) ==
    /\ push[p].at = "tail"
    /\ PushTo(p, IF push[p].head >= tail + Capacity THEN "store" ELSE "idle")
    /\ UNCHANGED <<ring, read>>

StoreTail(p) ==
    /\ push[p].at = "store"
    /\ tail' = push[p].head - Capacity + 1
    /\ PushTo(p, "idle")
    /\ UNCHANGED <<head, word, tick, read, overlap>>

-----------------------------------------------------------------------------
(* read_at(), and the guard it returns.                                     *)

\* The slot of the position after the one asked for (a mutated form).
Bug_OffByOne(r) ==
    /\ read[r].at = "idle"
    /\ \E offset \in 0 .. head - 1 :
          read' = [read EXCEPT ![r] = [at |-> "lock", after |-> head - offset,
                                       recent |-> offset = 0, got |-> 0]]
    /\ UNCHANGED <<ring, push>>

LoadHead(r) ==
    /\ read[r].at = "idle"
    /\ \E offset \in 0 .. head - 1 :
          read' = [read EXCEPT ![r] = [at |-> "lock", after |-> head - 1 - offset,
                                       recent |-> offset = 0, got |-> 0]]
    /\ UNCHANGED <<ring, push>>

LockRead(r) ==
    LET s == SlotOf(read[r].after) IN
    /\ read[r].at = "lock" /\ word[s] < WRITER_FLAG
    /\ word' = [word EXCEPT ![s] = @ + 1]
    /\ ReadTo(r, "read")
    /\ UNCHANGED <<head, tail, tick, push, overlap>>

ReadTick(r) ==
    /\ read[r].at = "read"
    /\ read' = [read EXCEPT ![r].got = tick[SlotOf(read[r].after)], ![r].at = "drop"]
    /\ UNCHANGED <<ring, push>>

\* fetch_sub(1): a word that a second writer's drop has zeroed wraps.
DropRead(r) ==
    /\ read[r].at = "drop"
    /\ word' = [word EXCEPT ![SlotOf(read[r].after)] =
                               (@ - 1) % (2 * WRITER_FLAG)]
    /\ ReadTo(r, "idle")
    /\ UNCHANGED <<head, tail, tick, push, overlap>>
-----------------------------------------------------------------------------
Push(p) == Claim(p) \/ LockSlot(p) \/ WriteTick(p) \/ UnlockSlot(p) \/ LoadTail(p)
           \/ StoreTail(p)
Read(r) == LoadHead(r) \/ LockRead(r) \/ ReadTick(r) \/ DropRead(r)

TickNext == (\E p \in Pushers : Push(p)) \/ (\E r \in Readers : Read(r))

\* While pushes do not overlap, read_at() never returns a tick older than the one
\* asked for, except at offset 0, whose slot may be claimed and not written yet:
\* then it is the tick of one lap before.
TickFresh ==
    ~overlap => \A r \in Readers : read[r].at = "drop" =>
        read[r].got > read[r].after - (IF read[r].recent THEN Capacity ELSE 0)

\* While pushes do not overlap, len() is at most the capacity between pushes.
TickLen == ~overlap /\ Pushing = {} => head - tail <= Capacity
=============================================================================
