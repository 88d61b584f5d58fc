----------------------------- MODULE EventStore -----------------------------
(***************************************************************************)
(* The event store of event_store/: process_event() checks the sequence of *)
(* the feed, applies the event to the replay book and appends it to the    *)
(* write-ahead log, while other threads call sync() and set_active() and   *)
(* the process may crash.                                                  *)
(*                                                                         *)
(* An append writes a header and then the data.  The log is the sequence   *)
(* of those pieces; an event is its number, and 0 is the entry of a gap,   *)
(* which has no data.  A crash keeps what was synced and any part of the   *)
(* rest, the last piece perhaps cut short.  Prices and levels, the unused  *)
(* ring of ReplayEngine and the counters of the statistics are left out.   *)
(***************************************************************************)
EXTENDS Integers, SequencesExt

CONSTANTS
    MaxEvent,           \* the feed numbers its events from 1 to MaxEvent
    SyncInterval,       \* sync_interval, counted in entries
    MaxPieces,          \* bound on the log
    MaxFaults, MaxToggles     \* bounds

\* The assumptions on the constants; a sync interval below one entry would
\* sync no more often than one entry does.
StoreConstants ==
    /\ SyncInterval \in Nat \ {0}
    /\ MaxEvent \in Nat /\ MaxPieces \in Nat /\ MaxFaults \in Nat /\ MaxToggles \in Nat

VARIABLES
    expected, gaps,     \* expected_sequence, total_gaps
    store_on, book_on, wal_on,         \* is_active of the store, the replay and the log
    applied,            \* what the replay book was built from, 0 for a gap it saw
    log, synced,        \* the file, and how much of it is on disk for sure
    counted,            \* pending_bytes, in entries
    step,               \* process_event(): its place and what it appends
    syncing,            \* a thread in sync(), before pending_bytes is cleared
    toggle,             \* set_active(): its place and argument
    faults, toggles,    \* ghosts: crashes or failed writes, and calls of set_active()
    base,               \* ghost: the pieces of the log older than the book
    cut,                \* ghost: a fault left an incomplete entry in the log
    durable,            \* ghost: the entries that were whole when synced
    wiped,              \* ghost: pending_bytes was cleared over unsynced pieces
    apart               \* ghost: set_active() or a failed write came between book and log

storeVars == <<expected, gaps, store_on, book_on, wal_on, applied, log, synced, counted,
               step, syncing, toggle, faults, toggles, base, cut, durable, wiped, apart>>
activity == <<store_on, book_on, wal_on, toggle, toggles>>
walState == <<log, synced, counted, syncing, durable, wiped>>
rest == <<faults, base, cut>>

Idle == [at |-> "idle", event |-> 0]
Quiescent == [at |-> "idle", value |-> TRUE]

StoreTypeOK ==
    /\ expected \in 0 .. MaxEvent + 1 /\ gaps \in Nat
    /\ {store_on, book_on, wal_on, syncing, cut, wiped, apart} \subseteq BOOLEAN
    /\ applied \in Seq(0 .. MaxEvent)
    /\ log \in Seq([part : {"head", "data", "torn"}, event : 0 .. MaxEvent])
    /\ synced \in 0 .. Len(log) /\ base \in 0 .. Len(log)
    /\ counted \in 0 .. SyncInterval /\ durable \in Nat
    /\ step \in [at : {"idle", "push", "head", "data", "count", "sync", "clear"},
                 event : 0 .. MaxEvent]
    /\ toggle \in [at : {"idle", "book", "wal"}, value : BOOLEAN]

\* EventStore::new(), with a log that is empty or absent.
StoreInit ==
    /\ expected = 0 /\ gaps = 0 /\ store_on = TRUE /\ book_on = TRUE /\ wal_on = TRUE
    /\ applied = <<>> /\ log = <<>> /\ synced = 0 /\ counted = 0
    /\ step = Idle /\ syncing = FALSE /\ toggle = Quiescent
    /\ faults = 0 /\ toggles = 0 /\ base = 0 /\ cut = FALSE /\ durable = 0
    /\ wiped = FALSE /\ apart = FALSE

-----------------------------------------------------------------------------
(* WALReader: what read_next() returns until it fails or reaches the end.   *)

\* The piece at which an entry is incomplete: cut short, or without its data.
Bad(i) ==
    \/ log[i].part = "torn"
    \/ log[i].part = "head" /\ log[i].event # 0
         /\ ~(i < Len(log) /\ log[i + 1] = [part |-> "data", event |-> log[i].event])
    \/ log[i].part = "data" /\ (i = 1 \/ log[i - 1].part # "head")

\* The headers of the entries that can be read: no bad piece up to them.
Readable == {i \in DOMAIN log : log[i].part = "head" /\ \A j \in 1 .. i : ~Bad(j)}

\* What the reader gets by the places of the headers, and those of its entries
\* whose last piece is on disk.
Content == [i \in Readable |-> log[i].event]
Secured == {i \in Readable : i + (IF log[i].event = 0 THEN 0 ELSE 1) <= synced}

-----------------------------------------------------------------------------
(* process_event().                                                         *)

\* The event that shows a gap, like one that is late, is neither applied nor
\* logged, and the next one expected is its successor.
Process(n) ==
    /\ step = Idle /\ store_on /\ Len(log) + 2 <= MaxPieces
    /\ LET gap == n # expected /\ expected > 0
       IN  /\ gaps' = gaps + (IF gap THEN 1 ELSE 0)
           /\ step' = [at |-> IF gap THEN "head" ELSE "push", event |-> IF gap THEN 0 ELSE n]
    /\ expected' = n + 1
    /\ apart' = (apart \/ toggle # Quiescent)
    /\ UNCHANGED <<activity, applied, walState, rest>>

\* push_event(): refused by an inactive replay engine, which does its own test
\* of the sequence and applies a gap event first.
PushEvent ==
    /\ step.at = "push"
    /\ LET jump == applied # <<>> /\ Last(applied) + 1 # step.event
       IN  applied' = CASE ~book_on        -> applied
                        [] book_on /\ jump -> applied \o <<0, step.event>>
                        [] OTHER           -> Append(applied, step.event)
    /\ step' = [step EXCEPT !.at = "head"]
    /\ UNCHANGED <<expected, gaps, activity, walState, rest, apart>>

\* WALWriter::append(): refused, and the error dropped, when it is not active.
WriteHeader ==
    /\ step.at = "head"
    /\ IF wal_on
       THEN /\ log' = Append(log, [part |-> "head", event |-> step.event])
            /\ step' = [step EXCEPT !.at = IF step.event = 0 THEN "count" ELSE "data"]
       ELSE UNCHANGED log /\ step' = Idle
    /\ UNCHANGED <<expected, gaps, activity, applied, synced, counted, syncing, durable,
                   wiped, rest, apart>>

WriteData ==
    /\ step.at = "data"
    /\ log' = Append(log, [part |-> "data", event |-> step.event])
    /\ step' = [step EXCEPT !.at = "count"]
    /\ UNCHANGED <<expected, gaps, activity, applied, synced, counted, syncing, durable,
                   wiped, rest, apart>>

\* write_all() fails, having written nothing or a part: append() returns, and
\* process_event() drops the error.
WriteFails ==
    /\ faults < MaxFaults
    /\ step.at = "data" \/ (step.at = "head" /\ wal_on)
    /\ log' \in {log, Append(log, [part |-> "torn", event |-> step.event])}
    /\ cut' = \E i \in DOMAIN log' : Bad(i)'
    /\ step' = Idle
    /\ apart' = TRUE /\ faults' = faults + 1
    /\ UNCHANGED <<expected, gaps, activity, applied, synced, counted, syncing, durable,
                   wiped, base>>

CountPending ==
    /\ step.at = "count"
    /\ counted' = counted + 1
    /\ step' = IF counted' >= SyncInterval THEN [step EXCEPT !.at = "sync"] ELSE Idle
    /\ UNCHANGED <<expected, gaps, activity, applied, log, synced, syncing, durable, wiped,
                   rest, apart>>

\* sync_data(), by append() and by sync().
SyncData ==
    /\ synced' = Len(log) /\ wiped' = FALSE
    /\ durable' = IF cut THEN durable ELSE Cardinality(Readable)

\* pending_bytes is cleared, whatever was written since the sync.
ClearPending == counted' = 0 /\ wiped' = (wiped \/ synced < Len(log))

AppendSync ==
    /\ step.at = "sync"
    /\ SyncData
    /\ step' = [step EXCEPT !.at = "clear"]
    /\ UNCHANGED <<expected, gaps, activity, applied, log, counted, syncing, rest, apart>>

AppendClear ==
    /\ step.at = "clear"
    /\ ClearPending
    /\ step' = Idle
    /\ UNCHANGED <<expected, gaps, activity, applied, log, synced, syncing, durable, rest,
                   apart>>

-----------------------------------------------------------------------------
(* The other callers.                                                       *)

Sync ==
    /\ ~syncing
    /\ SyncData
    /\ syncing' = TRUE
    /\ UNCHANGED <<expected, gaps, activity, applied, log, counted, step, rest, apart>>

SyncClear ==
    /\ syncing
    /\ ClearPending
    /\ syncing' = FALSE
    /\ UNCHANGED <<expected, gaps, activity, applied, log, synced, step, durable, rest,
                   apart>>

\* set_active(): the store, then the replay engine, then the log.
SetActive ==
    /\ toggle = Quiescent /\ toggles < MaxToggles
    /\ store_on' = ~store_on
    /\ toggle' = [at |-> "book", value |-> ~store_on]
    /\ toggles' = toggles + 1
    /\ apart' = (apart \/ step # Idle)
    /\ UNCHANGED <<expected, gaps, book_on, wal_on, applied, walState, step, rest>>

SetActiveBook ==
    /\ toggle.at = "book"
    /\ book_on' = toggle.value
    /\ toggle' = [toggle EXCEPT !.at = "wal"]
    /\ UNCHANGED <<expected, gaps, store_on, wal_on, toggles, applied, walState, step, rest,
                   apart>>

SetActiveWal ==
    /\ toggle.at = "wal"
    /\ wal_on' = toggle.value
    /\ toggle' = Quiescent
    /\ UNCHANGED <<expected, gaps, store_on, book_on, toggles, applied, walState, step, rest,
                   apart>>

\* reset() has the store to itself; the log keeps what it has.
Reset ==
    /\ step = Idle /\ ~syncing /\ toggle = Quiescent /\ expected # 0
    /\ expected' = 0 /\ gaps' = 0 /\ applied' = <<>>
    /\ base' = Len(log) /\ apart' = FALSE
    /\ UNCHANGED <<activity, walState, step, faults, cut>>

\* The log is opened for writing from its start (a mutated form of Reopened).
Bug_Truncates(kept) == <<>>

\* WALWriter::new() opens the file for append and does not look at it.
Reopened(kept) == kept

\* A crash, and EventStore::new() on what is left of the file.  The new store
\* starts with an empty book and expects nothing.
CrashRestart ==
    /\ faults < MaxFaults
    /\ \E n \in synced .. Len(log), torn \in BOOLEAN :
        /\ torn => n < Len(log)
        /\ log' = Reopened(IF torn
                           THEN Append(SubSeq(log, 1, n), [log[n + 1] EXCEPT !.part = "torn"])
                           ELSE SubSeq(log, 1, n))
    /\ cut' = \E i \in DOMAIN log' : Bad(i)'
    /\ synced' = Len(log') /\ base' = Len(log')
    /\ faults' = faults + 1
    /\ expected' = 0 /\ gaps' = 0 /\ applied' = <<>> /\ counted' = 0
    /\ store_on' = TRUE /\ book_on' = TRUE /\ wal_on' = TRUE
    /\ step' = Idle /\ syncing' = FALSE /\ toggle' = Quiescent
    /\ wiped' = FALSE /\ apart' = FALSE
    /\ UNCHANGED <<toggles, durable>>

StoreNext ==
    \/ \E n \in 1 .. MaxEvent : Process(n)
    \/ PushEvent \/ WriteHeader \/ WriteData \/ WriteFails
    \/ CountPending \/ AppendSync \/ AppendClear
    \/ Sync \/ SyncClear
    \/ SetActive \/ SetActiveBook \/ SetActiveWal
    \/ Reset \/ CrashRestart

-----------------------------------------------------------------------------
\* The headers of the events and of the gaps logged since the book was empty,
\* and the places of both in the book.
LogEvents == {i \in base + 1 .. Len(log) : log[i].part = "head" /\ log[i].event # 0}
LogGaps == {i \in base + 1 .. Len(log) : log[i].part = "head" /\ log[i].event = 0}
BookEvents == {k \in DOMAIN applied : applied[k] # 0}
BookGaps == {k \in DOMAIN applied : applied[k] = 0}

\* The place of i among the members of S.
Rank(S, i) == Cardinality({j \in S : j <= i})

\* What the log held whole when it was synced can be read after any crash,
\* restart and further appends.
SyncedReadable == Cardinality(Readable) >= durable

\* Between two events, fewer whole entries than the sync interval are at risk,
\* unless another thread's sync() cleared the count over what it did not sync.
LossBound ==
    step = Idle /\ ~wiped => Cardinality(Readable \ Secured) < SyncInterval

\* Between two events, replaying the log gives the book: the same events in the
\* same order, and every break the book saw is an entry of the log.
ReplayFaithful ==
    step = Idle /\ ~apart
        => /\ Cardinality(LogEvents) = Cardinality(BookEvents)
           /\ \A i \in LogEvents, k \in BookEvents :
                 Rank(LogEvents, i) = Rank(BookEvents, k) => log[i].event = applied[k]
           /\ Cardinality(BookGaps) <= Cardinality(LogGaps) /\ Cardinality(LogGaps) = gaps
=============================================================================
