------------------------------ MODULE ShmRing ------------------------------
(***************************************************************************)
(* The shared-memory ring buffer of ipc/shm_ring.rs.  The code is written  *)
(* for several producers and consumers (both ends advance by a CAS) though *)
(* it is documented for one of each; the model has any number of both.     *)
(* Producers retry until their elements are in, consumers poll, as in      *)
(* test_ring_buffer_concurrent, and close() may come at any time.          *)
(*                                                                         *)
(* One action is one access to shared memory.  An element is known by the  *)
(* position at which its push() won the CAS on head; its copy into or out  *)
(* of the slot is not atomic and is made in two halves.                    *)
(***************************************************************************)
EXTENDS Integers

CONSTANTS
    Producers, Consumers,   \* the threads that call push() and pop()
    Capacity,               \* RING_CAPACITY
    MaxPush                 \* elements each producer pushes (a bound)

ASSUME RingAssumption == Capacity \in Nat \ {0} /\ Producers \cap Consumers = {}

Threads == Producers \cup Consumers

\* FeatureElement::default(), the content of a slot never written.
Default == -1

VARIABLES
    head, tail, closed,     \* the fields of ShmRingBuffer
    sequence,               \* buffer[i].sequence
    lo, hi,                 \* the two halves of buffer[i].data
    pc,                     \* where each thread is
    pos,                    \* local `head' of push(), local `tail' of pop()
    got,                    \* the half that pop() has copied out
    pushed                  \* completed pushes of each producer

vars == <<head, tail, closed, sequence, lo, hi, pc, pos, got, pushed>>

Slots == 0 .. Capacity - 1

\* `position & self.mask', for a capacity that is a power of two.
Slot(n) == n % Capacity

PC == {"idle", "load", "limit", "sequence", "cas", "lo", "hi", "publish"}

\* Producers that own a position, consumers that own one.
Writing == {p \in Producers : pc[p] \in {"lo", "hi", "publish"}}
Reading == {c \in Consumers : pc[c] \in {"lo", "hi"}}

TypeOK ==
    /\ head \in Nat /\ tail \in Nat /\ closed \in BOOLEAN
    /\ sequence \in [Slots -> Nat]
    /\ lo \in [Slots -> Int] /\ hi \in [Slots -> Int]
    /\ pc \in [Threads -> PC]
    /\ pos \in [Threads -> 0 .. head]
    /\ got \in [Consumers -> Int]
    /\ pushed \in [Producers -> Nat]

Init ==
    /\ head = 0 /\ tail = 0 /\ closed = FALSE
    /\ sequence = [i \in Slots |-> 0]
    /\ lo = [i \in Slots |-> Default] /\ hi = [i \in Slots |-> Default]
    /\ pc = [t \in Threads |-> "idle"]
    /\ pos = [t \in Threads |-> 0]
    /\ got = [c \in Consumers |-> Default]
    /\ pushed = [p \in Producers |-> 0]

Goto(t, label) == pc' = [pc EXCEPT ![t] = label]
SetPos(t, n) == pos' = [pos EXCEPT ![t] = n]

data == <<sequence, lo, hi>>

-----------------------------------------------------------------------------
(* push()                                                                   *)

\* The test of `closed'; a closed ring refuses every further call.
PushOpen(p) ==
    /\ pc[p] = "idle" /\ pushed[p] < MaxPush
    /\ ~closed
    /\ Goto(p, "load")
    /\ UNCHANGED <<head, tail, closed, data, pos, got, pushed>>

PushLoadHead(p) ==
    /\ pc[p] = "load"
    /\ SetPos(p, head)
    /\ Goto(p, "limit")
    /\ UNCHANGED <<head, tail, closed, data, got, pushed>>

\* head.wrapping_sub(tail) >= RING_CAPACITY: a local head that consumers have
\* overtaken wraps to a huge number and reads as a full ring.
Full(h, t) == h < t \/ h - t >= Capacity

\* The load of tail; `full' makes push() return false, and the caller retry.
PushLoadTail(p) ==
    /\ pc[p] = "limit"
    /\ Goto(p, IF Full(pos[p], tail) THEN "idle" ELSE "cas")
    /\ UNCHANGED <<head, tail, closed, data, pos, got, pushed>>

\* A store of head where the CAS should be (a mutated form of PushCas).
Bug_PushStoresHead(p) ==
    /\ pc[p] = "cas"
    /\ head' = pos[p] + 1
    /\ Goto(p, "lo")
    /\ UNCHANGED <<tail, closed, data, pos, got, pushed>>

\* compare_exchange_weak on head, which may also fail for no reason.
PushCas(p) ==
    /\ pc[p] = "cas"
    /\ head = pos[p]
    /\ head' = head + 1
    /\ Goto(p, "lo")
    /\ UNCHANGED <<tail, closed, data, pos, got, pushed>>

PushCasFails(p) ==
    /\ pc[p] = "cas"
    /\ SetPos(p, head)
    /\ Goto(p, "limit")
    /\ UNCHANGED <<head, tail, closed, data, got, pushed>>

\* `slot.data = element'.
PushLo(p) ==
    /\ pc[p] = "lo"
    /\ lo' = [lo EXCEPT ![Slot(pos[p])] = pos[p]]
    /\ Goto(p, "hi")
    /\ UNCHANGED <<head, tail, closed, sequence, hi, pos, got, pushed>>

PushHi(p) ==
    /\ pc[p] = "hi"
    /\ hi' = [hi EXCEPT ![Slot(pos[p])] = pos[p]]
    /\ Goto(p, "publish")
    /\ UNCHANGED <<head, tail, closed, sequence, lo, pos, got, pushed>>

\* The number of the position instead of its successor (a mutated form).
Bug_PublishSamePosition(p) ==
    /\ pc[p] = "publish"
    /\ sequence' = [sequence EXCEPT ![Slot(pos[p])] = pos[p]]
    /\ pushed' = [pushed EXCEPT ![p] = @ + 1]
    /\ Goto(p, "idle")
    /\ UNCHANGED <<head, tail, closed, lo, hi, pos, got>>

\* slot.sequence.store(head + 1), and the return of true.
PushPublish(p) ==
    /\ pc[p] = "publish"
    /\ sequence' = [sequence EXCEPT ![Slot(pos[p])] = pos[p] + 1]
    /\ pushed' = [pushed EXCEPT ![p] = @ + 1]
    /\ Goto(p, "idle")
    /\ UNCHANGED <<head, tail, closed, lo, hi, pos, got>>

-----------------------------------------------------------------------------
(* pop()                                                                    *)

PopLoadTail(c) ==
    /\ pc[c] = "idle"
    /\ SetPos(c, tail)
    /\ Goto(c, "limit")
    /\ UNCHANGED <<head, tail, closed, data, got, pushed>>

\* The load of head: an empty ring makes pop() return None.
PopLoadHead(c) ==
    /\ pc[c] = "limit"
    /\ Goto(c, IF pos[c] >= head THEN "idle" ELSE "sequence")
    /\ UNCHANGED <<head, tail, closed, data, pos, got, pushed>>

\* A mutated form of PopSequence that trusts head alone.
Bug_TrustHead(c) ==
    /\ pc[c] = "sequence"
    /\ Goto(c, "cas")
    /\ UNCHANGED <<head, tail, closed, data, pos, got, pushed>>

\* The load of the slot's sequence: a position not published yet is None too.
PopSequence(c) ==
    /\ pc[c] = "sequence"
    /\ Goto(c, IF sequence[Slot(pos[c])] # pos[c] + 1 THEN "idle" ELSE "cas")
    /\ UNCHANGED <<head, tail, closed, data, pos, got, pushed>>

\* compare_exchange_weak on tail, which frees the slot.
PopCas(c) ==
    /\ pc[c] = "cas"
    /\ tail = pos[c]
    /\ tail' = tail + 1
    /\ Goto(c, "lo")
    /\ UNCHANGED <<head, closed, data, pos, got, pushed>>

PopCasFails(c) ==
    /\ pc[c] = "cas"
    /\ SetPos(c, tail)
    /\ Goto(c, "limit")
    /\ UNCHANGED <<head, tail, closed, data, got, pushed>>

\* `let data = slot.data', after the slot was freed.
PopLo(c) ==
    /\ pc[c] = "lo"
    /\ got' = [got EXCEPT ![c] = lo[Slot(pos[c])]]
    /\ Goto(c, "hi")
    /\ UNCHANGED <<head, tail, closed, data, pos, pushed>>

PopHi(c) ==
    /\ pc[c] = "hi"
    /\ got' = [got EXCEPT ![c] = Default]
    /\ Goto(c, "idle")
    /\ UNCHANGED <<head, tail, closed, data, pos, pushed>>

close ==
    /\ ~closed
    /\ closed' = TRUE
    /\ UNCHANGED <<head, tail, data, pc, pos, got, pushed>>

-----------------------------------------------------------------------------
Push(p) ==
    \/ PushOpen(p) \/ PushLoadHead(p) \/ PushLoadTail(p)
    \/ PushCas(p) \/ PushCasFails(p)
    \/ PushLo(p) \/ PushHi(p) \/ PushPublish(p)

Pop(c) ==
    \/ PopLoadTail(c) \/ PopLoadHead(c) \/ PopSequence(c)
    \/ PopCas(c) \/ PopCasFails(c)
    \/ PopLo(c) \/ PopHi(c)

Next == (\E p \in Producers : Push(p)) \/ (\E c \in Consumers : Pop(c)) \/ close

Spec == Init /\ [][Next]_vars

\* Threads are scheduled, and a weak CAS that could succeed again and again
\* does not fail for ever.
Fairness ==
    /\ \A p \in Producers : WF_vars(Push(p)) /\ SF_vars(PushCas(p))
    /\ \A c \in Consumers : WF_vars(Pop(c)) /\ SF_vars(PopCas(c))

FairSpec == Spec /\ Fairness

-----------------------------------------------------------------------------
\* The ring never holds more than its capacity, however stale the copies of
\* head and tail on which push() and pop() decided.
Bounded == tail <= head /\ head - tail <= Capacity

\* Two push() calls never write one slot at the same time, also when one of
\* them stalls for a whole lap.
SlotExclusive ==
    \A p, q \in Writing : p # q => Slot(pos[p]) # Slot(pos[q])

\* Until the ring is refilled past it, a pop() that has freed its slot still
\* finds there, in both halves, the element that was pushed at its position.
\* (The code does not stop producers from refilling it before the copy.)
ReadsItsElement ==
    \A c \in Reading : head <= pos[c] + Capacity =>
        /\ hi[Slot(pos[c])] = pos[c]
        /\ IF pc[c] = "lo" THEN lo[Slot(pos[c])] = pos[c] ELSE got[c] = pos[c]

\* The ring is a bounded queue of positions: each is taken once, in order, and
\* only after its push() has published it.
Ready == {n \in tail .. head - 1 : sequence[Slot(n)] = n + 1}

Queue == INSTANCE TicketQueue WITH taken <- tail, reserved <- head, ready <- Ready

QueueSpec == Queue!QSpec

\* The consumers empty the ring again and again, also after close(): since a
\* producer pushes finitely often, every position it wins is taken in the end,
\* and no stalled push() or lost race leaves an element behind.
Drained == []<>(tail = head)
=============================================================================
