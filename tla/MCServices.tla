----------------------------- MODULE MCServices -----------------------------
(***************************************************************************)
(* Seven services of the engine that share no state: the failover manager, *)
(* the system lifecycle, the graceful shutdown, the FIX session, the       *)
(* gateway manager, the worker pool and the event store.  A behaviour runs *)
(* one of them, the subject, and the others stay as they were created.     *)
(***************************************************************************)
EXTENDS Integers, Sequences, FiniteSets

CONSTANTS
    Instances, Primary, Usages, MaxAge, MaxSnapshots, MaxTime, MaxFiles, MaxRestarts,
    Callers, Executors,
    ResetOnDisconnect, MaxSeq, MaxOut,
    MaxVenues, MaxScore, Policies, Routers, Clients, PoolLimit,
    Workers, Tasks, Priorities, Capacity,
    MaxEvent, SyncInterval, MaxPieces, MaxFaults, MaxToggles

VARIABLES
    subject,
    now, heartbeat, dir, files, created, written, overlap, unseen, blind, restarts, usage,
    inst,
    state, confirm, force, pause_enabled, killed, hw_enabled, hw, handle, over, call,
    found, authorised,
    stage, initiated, complete, initiator, overdue, forcing, exec, ran, forced,
    session, active, out_seq, in_seq, last, pending, range, resets, proc, closing, peer,
    handled, raced,
    status, active_count, rr_index, policy, pool_running, pool_active, slot, crowd, closed,
    route, tried, copies, lost, late, repeated,
    queue, worker, stop, join, tasks_submitted, fate, overtaken,
    expected, gaps, store_on, book_on, wal_on, applied, log, synced, counted, step, syncing,
    toggle, faults, toggles, base, cut, durable, wiped, apart

F == INSTANCE Failover
L == INSTANCE Lifecycle
G == INSTANCE GracefulShutdown
X == INSTANCE FixSession
W == INSTANCE Gateway
P == INSTANCE WorkerPool
E == INSTANCE EventStore

\* The write-ahead log of the store as its reader sees it.
D == INSTANCE DurableLog WITH content <- E!Content, secured <- E!Secured

ASSUME ServicesAssumption ==
    /\ F!FailoverConstants /\ X!FixConstants /\ P!PoolConstants /\ W!GatewayConstants
    /\ E!StoreConstants

fvars == <<now, heartbeat, dir, files, created, written, overlap, unseen, blind, restarts,
           usage, inst>>
lvars == <<state, confirm, force, pause_enabled, killed, hw_enabled, hw, handle, over, call,
           found, authorised>>
gvars == <<stage, initiated, complete, initiator, overdue, forcing, exec, ran, forced>>
xvars == <<session, active, out_seq, in_seq, last, pending, range, resets, proc, closing,
           peer, handled, raced>>
wvars == <<status, active_count, rr_index, policy, pool_running, pool_active, slot, crowd,
           closed, route, tried, copies, lost, late, repeated>>
pvars == <<queue, worker, stop, join, tasks_submitted, fate, overtaken>>
evars == <<expected, gaps, store_on, book_on, wal_on, applied, log, synced, counted, step,
           syncing, toggle, faults, toggles, base, cut, durable, wiped, apart>>

mcvars == <<subject, fvars, lvars, gvars, xvars, wvars, pvars, evars>>

\* A service that is not the subject has one initial state.
MCInit ==
    /\ subject \in {"failover", "lifecycle", "shutdown", "fix", "gateway", "pool", "store"}
    /\ F!Init /\ (subject # "failover" => usage = "free" /\ ~dir)
    /\ L!LcInit
    /\ G!GsInit
    /\ X!FixInit /\ (subject # "fix" => resets)
    /\ W!GwInit /\ (subject # "gateway" => policy = "Immediate")
    /\ P!PoolInit
    /\ E!StoreInit

MCNext ==
    /\ UNCHANGED subject
    /\ \/ subject = "failover" /\ F!Next
            /\ UNCHANGED <<lvars, gvars, xvars, wvars, pvars, evars>>
       \/ subject = "lifecycle" /\ L!LcNext
            /\ UNCHANGED <<fvars, gvars, xvars, wvars, pvars, evars>>
       \/ subject = "shutdown" /\ G!GsNext
            /\ UNCHANGED <<fvars, lvars, xvars, wvars, pvars, evars>>
       \/ subject = "fix" /\ X!FixNext
            /\ UNCHANGED <<fvars, lvars, gvars, wvars, pvars, evars>>
       \/ subject = "gateway" /\ W!GwNext
            /\ UNCHANGED <<fvars, lvars, gvars, xvars, pvars, evars>>
       \/ subject = "pool" /\ P!PoolNext
            /\ UNCHANGED <<fvars, lvars, gvars, xvars, wvars, evars>>
       \/ subject = "store" /\ E!StoreNext
            /\ UNCHANGED <<fvars, lvars, gvars, xvars, wvars, pvars>>

MCSpec == MCInit /\ [][MCNext]_mcvars

-----------------------------------------------------------------------------
\* Each property is about one service while it runs, its types and ranges first.

\* In a pair that beats on time, FailoverManager never has two instances trading
\* at once, unless a standby read a truncated heartbeat or the one before the
\* first heartbeat of an instance just promoted; and neither a crash nor
\* cleanup_old_snapshots() loses the last complete snapshot, unless two instances
\* write at the same time.
FailoverSafe ==
    subject = "failover" => F!TypeOK /\ F!OneActive /\ F!LastCompleteKept

\* activate_kill_switch() on a running system has taken it down when it returns;
\* the lifecycle never goes down on a request that nobody confirmed or forced;
\* and a shutdown() that returned Ok has terminated it, with the hardware monitor
\* gone or another shutdown() about to join it.
LifecycleSafe ==
    subject = "lifecycle" => L!LcTypeOK /\ L!KillTakesDown /\ L!DownAuthorised /\ L!ShutdownClean

\* One executor of the graceful shutdown runs every callback, in order, and a
\* complete graceful shutdown ends in the last phase.
ShutdownSafe ==
    subject = "shutdown" => G!GsTypeOK /\ G!InOrder /\ G!Settled

\* The expected number of the FIX session never passes an unhandled message, and
\* the range of a pending resend covers the gap.
FixSafe ==
    subject = "fix" => X!FixTypeOK /\ X!NoLoss /\ X!ResendRange

\* The connection pool of the gateway stays within its limit, an order is at two
\* venues only when the answer of one was lost, and a stopped gateway submits at
\* most what was already decided.
GatewaySafe ==
    subject = "gateway" => W!GwTypeOK /\ W!PoolBound /\ W!SingleCopy /\ W!LateSubmissions

\* A queued task of the worker pool is overtaken by less urgent ones at most once
\* per worker, and no worker runs a task once shutdown() has returned.
PoolSafe ==
    subject = "pool" => P!PoolTypeOK /\ P!OvertakeBound /\ P!ShutdownQuiet

\* What the write-ahead log held whole when it was synced stays readable; fewer
\* entries than the sync interval are at risk of a crash, unless another thread's
\* sync() cleared the count over what it did not sync; and replaying the log
\* gives the book of the event store, its breaks included.
StoreSafe ==
    subject = "store" => E!StoreTypeOK /\ E!SyncedReadable /\ E!LossBound /\ E!ReplayFaithful

\* The write-ahead log keeps the promise of DurableLog, whatever its threads, its
\* failed writes and the crashes do: a crash takes the latest entries away and
\* none that was synced, and no entry changes or appears before another.
DurableLogSpec == D!LogSpec
=============================================================================
