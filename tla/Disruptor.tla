----------------------------- MODULE Disruptor -----------------------------
(***************************************************************************)
(* The disruptor of disruptor/: the ring of events, the sequencer that     *)
(* hands out sequence numbers and moves the cursor, and consumers that     *)
(* wait at a barrier on that cursor and read the batch it lets through.    *)
(*                                                                         *)
(* Writing an event is not atomic: between WriteBegin and WriteEnd the     *)
(* slot holds Torn.  An event is known by its sequence number.             *)
(***************************************************************************)
EXTENDS Integers, FiniteSets, FiniteSetsExt

CONSTANTS
    Producers, Consumers,
    Dependencies,       \* [Consumers -> sets of numbers]: barrier.dependencies
    Size,               \* buffer_size
    BufferMask,         \* Sequencer.buffer_mask, the limit of try_next()
    U64,                \* 2^64, the modulus of pending_count
    MaxEvents           \* events each producer publishes (a bound)

Threads == Producers \cup Consumers
Torn == -1

VARIABLES
    cursor, next_sequence, pending_count, total_published, \* Sequencer
    running, sequencer_running, \* Disruptor.is_running, Sequencer.is_running
    alerted,                    \* SequenceBarrier.alerted
    event,                      \* RingBuffer.slots[i].event
    pc,                         \* where each thread is; "main" starts and stops
    seq,                        \* the sequence claimed, or the next to consume
    limit,                      \* pending of publish(), available of wait_for()
    published                   \* completed publications of each producer

seqVars == <<cursor, next_sequence, pending_count, total_published>>
vars == <<seqVars, running, sequencer_running, alerted, event, pc, seq, limit,
          published>>

Main == "main"
Slot(n) == n % Size

PC == {"idle", "running", "claim", "check", "count", "begin", "end", "store",
       "sub", "restore", "total", "wait", "read", "alerted", "start",
       "starting", "stopping", "stopped"}

TypeOK ==
    /\ {cursor, next_sequence, total_published} \subseteq Nat
    /\ pending_count \in 0 .. U64 - 1
    /\ {running, sequencer_running, alerted} \subseteq BOOLEAN
    /\ event \in [0 .. Size - 1 -> Int]
    /\ pc \in [Threads \cup {Main} -> PC]
    /\ seq \in [Threads -> 0 .. next_sequence]
    /\ limit \in [Threads -> Nat]
    /\ published \in [Producers -> 0 .. MaxEvents]

Init ==
    /\ cursor = 0 /\ next_sequence = 1 /\ pending_count = 0
    /\ total_published = 0
    /\ running = FALSE /\ sequencer_running = FALSE /\ alerted = FALSE
    /\ event = [i \in 0 .. Size - 1 |-> 0]
    /\ pc = [t \in Threads \cup {Main} |-> IF t = Main THEN "start" ELSE "idle"]
    /\ seq = [t \in Threads |-> IF t \in Consumers THEN 1 ELSE 0]
    /\ limit = [t \in Threads |-> 0]
    /\ published = [p \in Producers |-> 0]

Goto(t, label) == pc' = [pc EXCEPT ![t] = label]

-----------------------------------------------------------------------------
(* Disruptor::start() and stop(), called by the owner.                      *)

Start ==
    /\ pc[Main] = "start"
    /\ running' = TRUE
    /\ Goto(Main, "starting")
    /\ UNCHANGED <<seqVars, sequencer_running, alerted, event, seq, limit, published>>

SequencerStart ==
    /\ pc[Main] = "starting"
    /\ sequencer_running' = TRUE
    /\ Goto(Main, "running")
    /\ UNCHANGED <<seqVars, running, alerted, event, seq, limit, published>>

\* The loop that should wait for the consumers compares the ring's own cursor,
\* which nothing advances, with the sequencer's: it ends at once.
Stop ==
    /\ pc[Main] = "running"
    /\ running' = FALSE
    /\ Goto(Main, "stopping")
    /\ UNCHANGED <<seqVars, sequencer_running, alerted, event, seq, limit, published>>

SequencerStop ==
    /\ pc[Main] = "stopping"
    /\ sequencer_running' = FALSE
    /\ Goto(Main, "stopped")
    /\ UNCHANGED <<seqVars, running, alerted, event, seq, limit, published>>

\* SequenceBarrier::alert(), after stop().
Alert ==
    /\ pc[Main] = "stopped"
    /\ ~alerted
    /\ alerted' = TRUE
    /\ UNCHANGED <<seqVars, running, sequencer_running, event, pc, seq, limit, published>>

-----------------------------------------------------------------------------
(* Disruptor::publish() and try_publish().                                  *)

flags == <<running, sequencer_running, alerted>>

\* Both refuse at once when the disruptor is not running.
Call(p) ==
    /\ pc[p] = "idle"
    /\ published[p] < MaxEvents
    /\ running
    /\ \E l \in {"claim", "check"} : Goto(p, l)
    /\ UNCHANGED <<seqVars, flags, event, seq, limit, published>>

\* try_next(): the sequencer's flag and the load of pending_count.
TryNextCheck(p) ==
    /\ pc[p] = "check"
    /\ Goto(p, IF sequencer_running /\ pending_count <= BufferMask
               THEN "running" ELSE "idle")
    /\ UNCHANGED <<seqVars, flags, event, seq, limit, published>>

\* next(): the sequencer's flag.
NextCheck(p) ==
    /\ pc[p] = "claim"
    /\ Goto(p, IF sequencer_running THEN "running" ELSE "idle")
    /\ UNCHANGED <<seqVars, flags, event, seq, limit, published>>

\* The sequence after the published one (a mutated form of Claim).
Bug_ClaimFromCursor(p) ==
    /\ pc[p] = "running"
    /\ seq' = [seq EXCEPT ![p] = cursor + 1]
    /\ next_sequence' = cursor + 2
    /\ Goto(p, "count")
    /\ UNCHANGED <<cursor, pending_count, total_published, flags, event, limit, published>>

\* next_sequence.fetch_add(1).
Claim(p) ==
    /\ pc[p] = "running"
    /\ seq' = [seq EXCEPT ![p] = next_sequence]
    /\ next_sequence' = next_sequence + 1
    /\ Goto(p, "count")
    /\ UNCHANGED <<cursor, pending_count, total_published, flags, event, limit, published>>

\* pending_count.fetch_add(1).
CountPending(p) ==
    /\ pc[p] = "count"
    /\ pending_count' = (pending_count + 1) % U64
    /\ Goto(p, "begin")
    /\ UNCHANGED <<cursor, next_sequence, total_published, flags, event, seq, limit, published>>

\* event_factory(ring_buffer.get_mut(seq)).
WriteBegin(p) ==
    /\ pc[p] = "begin"
    /\ event' = [event EXCEPT ![Slot(seq[p])] = Torn]
    /\ Goto(p, "end")
    /\ UNCHANGED <<seqVars, flags, seq, limit, published>>

WriteEnd(p) ==
    /\ pc[p] = "end"
    /\ event' = [event EXCEPT ![Slot(seq[p])] = seq[p]]
    /\ Goto(p, "store")
    /\ UNCHANGED <<seqVars, flags, seq, limit, published>>

\* Sequencer::publish(): cursor.store(sequence).
StoreCursor(p) ==
    /\ pc[p] = "store"
    /\ cursor' = seq[p]
    /\ Goto(p, "sub")
    /\ UNCHANGED <<next_sequence, pending_count, total_published, flags, event, seq, limit, published>>

\* pending_count.fetch_sub(1), which wraps below zero.
SubPending(p) ==
    /\ pc[p] = "sub"
    /\ limit' = [limit EXCEPT ![p] = pending_count]
    /\ pending_count' = (pending_count + U64 - 1) % U64
    /\ Goto(p, "restore")
    /\ UNCHANGED <<cursor, next_sequence, total_published, flags, event, seq, published>>

\* `if pending > 0 { pending_count.store(pending - 1) }'.
RestorePending(p) ==
    /\ pc[p] = "restore"
    /\ pending_count' = IF limit[p] > 0 THEN limit[p] - 1 ELSE pending_count
    /\ Goto(p, "total")
    /\ UNCHANGED <<cursor, next_sequence, total_published, flags, event, seq, limit, published>>

CountPublished(p) ==
    /\ pc[p] = "total"
    /\ total_published' = total_published + 1
    /\ published' = [published EXCEPT ![p] = @ + 1]
    /\ Goto(p, "idle")
    /\ UNCHANGED <<cursor, next_sequence, pending_count, flags, event, seq, limit>>

-----------------------------------------------------------------------------
(* A consumer: barrier.wait_for(next), then ring_buffer.get() of every      *)
(* sequence up to the one it returned.                                      *)

\* The least of the cursor and the dependencies, which are plain numbers.
Available(c) == Min({cursor} \cup Dependencies[c])

\* wait_for(): the alert is tested before the cursor in every round.
WaitAlert(c) ==
    /\ pc[c] = "idle"
    /\ Goto(c, IF alerted THEN "alerted" ELSE "wait")
    /\ UNCHANGED <<seqVars, flags, event, seq, limit, published>>

\* A mutated form of WaitCursor: a barrier that lets the next one through too.
Bug_WaitLetsNextThrough(c) ==
    /\ pc[c] = "wait"
    /\ limit' = [limit EXCEPT ![c] = Available(c) + 1]
    /\ Goto(c, IF Available(c) + 1 >= seq[c] THEN "read" ELSE "idle")
    /\ UNCHANGED <<seqVars, flags, event, seq, published>>

\* A barrier that waits for one event more (a mutated form of WaitCursor).
Bug_WaitStrict(c) ==
    /\ pc[c] = "wait"
    /\ limit' = [limit EXCEPT ![c] = Available(c)]
    /\ Goto(c, IF Available(c) > seq[c] THEN "read" ELSE "idle")
    /\ UNCHANGED <<seqVars, flags, event, seq, published>>

\* The load of the cursor and the test against the sequence asked for.
WaitCursor(c) ==
    /\ pc[c] = "wait"
    /\ limit' = [limit EXCEPT ![c] = Available(c)]
    /\ Goto(c, IF Available(c) >= seq[c] THEN "read" ELSE "idle")
    /\ UNCHANGED <<seqVars, flags, event, seq, published>>

\* get(seq) and the next one of the batch.
Read(c) ==
    /\ pc[c] = "read"
    /\ seq' = [seq EXCEPT ![c] = @ + 1]
    /\ Goto(c, IF seq[c] < limit[c] THEN "read" ELSE "idle")
    /\ UNCHANGED <<seqVars, flags, event, limit, published>>

-----------------------------------------------------------------------------
Publish(p) ==
    \/ Call(p) \/ TryNextCheck(p) \/ NextCheck(p) \/ Claim(p) \/ CountPending(p)
    \/ WriteBegin(p) \/ WriteEnd(p) \/ StoreCursor(p) \/ SubPending(p)
    \/ RestorePending(p) \/ CountPublished(p)

Consume(c) == WaitAlert(c) \/ WaitCursor(c) \/ Read(c)

Own == Start \/ SequencerStart \/ Stop \/ SequencerStop \/ Alert

-----------------------------------------------------------------------------
\* Sequences claimed and not yet exposed by the cursor store.
Claimed == {p \in Producers : pc[p] \in {"count", "begin", "end", "store"}}

\* Two publishers never fill the same sequence.
ClaimsDistinct == \A p, q \in Claimed : p # q => seq[p] # seq[q]

\* A consumer in the middle of a batch finds the event of its own sequence,
\* whole, unless the producer has meanwhile claimed the slot for a later lap
\* (which nothing prevents: next() does not look at the consumers).
BatchIntact ==
    \A c \in Consumers : pc[c] = "read" /\ next_sequence <= seq[c] + Size =>
        event[Slot(seq[c])] = seq[c]

\* Between two publications pending_count is zero; inside one it is one.
PendingExact ==
    (\A p \in Producers : pc[p] # "restore") =>
        pending_count = Cardinality({p \in Producers :
                            pc[p] \in {"begin", "end", "store", "sub"}})
=============================================================================
