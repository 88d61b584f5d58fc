------------------------------ MODULE Failover ------------------------------
(***************************************************************************)
(* The hot/cold failover manager of state/failover.rs and the snapshots of *)
(* state/snapshot.rs: processes that share a heartbeat file and a snapshot *)
(* directory, and may crash between any two accesses to them.              *)
(*                                                                         *)
(* A call of the manager takes its process exclusively (&mut self), so the *)
(* health monitor's heartbeats fall between calls.  Writing the heartbeat  *)
(* file truncates it first.  Snapshot files are kept in the order of their *)
(* timestamps; a file is partial until it is synced.                       *)
(***************************************************************************)
EXTENDS Integers, Sequences, FiniteSets

CONSTANTS
    Instances,          \* the processes
    Primary,            \* the one that is started hot in the usage "pair"
    Usages,             \* a subset of {"pair", "free"}
    MaxAge,             \* max_heartbeat_age_ms
    MaxSnapshots,       \* StateSnapshotter.max_snapshots
    MaxTime, MaxFiles, MaxRestarts     \* bounds

\* A pair is the primary and one standby, and a snapshot is kept.
FailoverConstants ==
    /\ \A i, j \in Instances \ {Primary} : i = j
    /\ {MaxAge, MaxSnapshots} \subseteq Nat \ {0}
    /\ {MaxTime, MaxFiles, MaxRestarts} \subseteq Nat

None == -1              \* no heartbeat file
Empty == -2             \* a heartbeat file truncated and not yet written

VARIABLES
    now,                \* the system clock
    heartbeat,          \* the heartbeat file
    dir,                \* whether the snapshot directory exists
    files,              \* the snapshot files, oldest first
    created,            \* ghost: snapshot files created so far
    written,            \* ghost: a snapshot has been completely written
    overlap,            \* ghost: two instances were writing snapshots at once
    unseen,             \* ghost, in a pair: the instances on their way to hot, or hot
                        \* and without a heartbeat yet
    blind,              \* ghost: a standby was promoted on a truncated heartbeat, or
                        \* while another instance was unseen
    restarts,           \* ghost: restarts so far
    usage,              \* "pair": a hot primary and a standby; "free": any use
    inst                \* the FailoverManager of each process

vars == <<now, heartbeat, dir, files, created, written, overlap, unseen, blind, restarts,
          usage, inst>>
disk == <<dir, files, created, written, overlap>>
sight == <<unseen, blind>>

Free == usage = "free"

Manager == [up : BOOLEAN, mode : {"Hot", "Cold", "Recovering"},
            is_active : BOOLEAN, last_heartbeat : Nat,
            pc : {"idle", "beat", "recover", "load", "promote", "unlink",
                  "create", "write"},
            error : {"", "Io", "ChecksumMismatch"}]

File == [owner : Instances, partial : BOOLEAN, checksum : Nat]

TypeOK ==
    /\ now \in 0 .. MaxTime
    /\ heartbeat \in {None, Empty} \cup 0 .. now
    /\ {dir, blind, written, overlap} \subseteq BOOLEAN /\ unseen \subseteq Instances
    /\ created \in 0 .. MaxFiles
    /\ files \in Seq(File) /\ Len(files) <= created
    /\ restarts \in 0 .. MaxRestarts
    /\ usage \in Usages
    /\ inst \in [Instances -> Manager]

\* FailoverManager::new.
New == [up |-> TRUE, mode |-> "Cold", is_active |-> FALSE,
        last_heartbeat |-> 0, pc |-> "idle", error |-> ""]

\* In a pair the primary has been started, and has written a heartbeat, before
\* the standby comes up.  The snapshot directory may have been made beforehand.
Init ==
    /\ usage \in Usages
    /\ now = 0 /\ dir \in BOOLEAN /\ files = <<>>
    /\ created = 0 /\ written = FALSE /\ overlap = FALSE /\ restarts = 0
    /\ unseen = {} /\ blind = FALSE
    /\ heartbeat = IF Free THEN None ELSE 0
    /\ inst = [i \in Instances |->
                IF Free \/ i # Primary THEN New
                ELSE [New EXCEPT !.mode = "Hot", !.is_active = TRUE]]

At(i, label) == inst[i].up /\ inst[i].pc = label
Set(i, m) == inst' = [inst EXCEPT ![i] = m]
Step(i, label) == Set(i, [inst[i] EXCEPT !.pc = label])

-----------------------------------------------------------------------------
(* Heartbeats.                                                              *)

\* initialize_hot(): hot and active before the first heartbeat is written.
InitializeHot(i) ==
    /\ Free
    /\ At(i, "idle") /\ inst[i].mode # "Hot"
    /\ heartbeat' = Empty
    /\ Set(i, [inst[i] EXCEPT !.mode = "Hot", !.is_active = TRUE, !.pc = "beat"])
    /\ UNCHANGED <<now, disk, sight, restarts, usage>>

InitializeCold(i) ==
    /\ Free
    /\ At(i, "idle") /\ inst[i].mode # "Cold"
    /\ Set(i, [inst[i] EXCEPT !.mode = "Cold", !.is_active = FALSE])
    /\ UNCHANGED <<now, heartbeat, disk, sight, restarts, usage>>

\* The monitor's round on a hot instance: fs::write truncates the file, ...
SendHeartbeat(i) ==
    /\ At(i, "idle") /\ inst[i].mode = "Hot"
    /\ heartbeat' = Empty
    /\ Step(i, "beat")
    /\ UNCHANGED <<now, disk, sight, restarts, usage>>

\* ... and writes the time.
WriteHeartbeat(i) ==
    /\ At(i, "beat")
    /\ heartbeat' = now
    /\ Set(i, [inst[i] EXCEPT !.last_heartbeat = now, !.pc = "idle"])
    /\ unseen' = unseen \ {i}
    /\ UNCHANGED <<now, disk, blind, restarts, usage>>

\* A write that fails is ignored by the monitor.
HeartbeatFails(i) ==
    /\ At(i, "beat")
    /\ Step(i, "idle")
    /\ UNCHANGED <<now, heartbeat, disk, sight, restarts, usage>>

-----------------------------------------------------------------------------
(* Promotion and recovery.                                                  *)

\* check_primary_alive() of a cold instance; neither a missing nor an empty
\* file parses.
check_primary_alive == heartbeat >= 0 /\ now - heartbeat < MaxAge

\* promote_to_hot(): the check, and the first line of recover_state().
PromoteCheck(i) ==
    /\ At(i, "idle") /\ inst[i].mode = "Cold"
    /\ ~check_primary_alive
    /\ blind' = (blind \/ heartbeat = Empty \/ unseen # {})
    /\ unseen' = IF Free THEN {} ELSE unseen \cup {i}
    /\ Set(i, [inst[i] EXCEPT !.mode = "Recovering", !.pc = "promote"])
    /\ UNCHANGED <<now, heartbeat, disk, restarts, usage>>

\* recover_state() called at boot, or again after it has failed.
RecoverStart(i) ==
    /\ Free
    /\ At(i, "idle") /\ ~inst[i].is_active
    /\ Set(i, [inst[i] EXCEPT !.mode = "Recovering", !.pc = "load"])
    /\ UNCHANGED <<now, heartbeat, disk, sight, restarts, usage>>

\* crc32fast::hash of a payload, never the 0 that SnapshotHeader::new puts in
\* the header and create_snapshot() leaves there.
Crc == 1
HeaderChecksum == 0

\* load_latest(): the file with the greatest timestamp and no other.
LoadLatest ==
    LET last == files[Len(files)] IN
    CASE ~dir                    -> "Io"
      [] dir /\ files = <<>>     -> "NoSnapshotsFound"
      [] dir /\ files # <<>> /\ last.partial -> "Io"
      [] OTHER -> IF last.checksum = Crc THEN "Ok" ELSE "ChecksumMismatch"

\* recover_state() from the load on, and the rest of promote_to_hot() when it
\* is its caller.  A failure leaves the mode at Recovering.
Recover(i) ==
    /\ At(i, "load") \/ At(i, "promote")
    /\ LET result == LoadLatest
           hot == result \in {"Ok", "NoSnapshotsFound"}
       IN  /\ Set(i, [inst[i] EXCEPT
                     !.mode = IF hot THEN "Hot" ELSE @,
                     !.is_active = hot \/ @,
                     !.error = IF hot THEN "" ELSE result,
                     !.pc = "idle"])
           /\ unseen' = IF hot THEN unseen ELSE unseen \ {i}
    /\ UNCHANGED <<now, heartbeat, disk, blind, restarts, usage>>

-----------------------------------------------------------------------------
(* graceful_shutdown() and create_snapshot().                               *)

\* The heartbeat file goes before the instance stops trading (a mutated form).
Bug_UnlinkFirst(i) ==
    /\ At(i, "idle") /\ inst[i].mode = "Hot"
    /\ heartbeat' = None
    /\ Step(i, "unlink")
    /\ UNCHANGED <<now, disk, sight, restarts, usage>>

Shutdown(i) ==
    /\ At(i, "idle") /\ inst[i].mode = "Hot"
    /\ Set(i, [inst[i] EXCEPT !.is_active = FALSE, !.pc = "unlink"])
    /\ UNCHANGED <<now, heartbeat, disk, sight, restarts, usage>>

ShutdownUnlink(i) ==
    /\ At(i, "unlink")
    /\ heartbeat' = None
    /\ Step(i, "create")
    /\ UNCHANGED <<now, disk, sight, restarts, usage>>

\* File::create; from here until the sync the file is partial.
SnapshotCreate(i) ==
    /\ At(i, "create") /\ created < MaxFiles
    /\ created' = created + 1
    /\ overlap' = (overlap \/ \E j \in Instances : At(j, "write"))
    /\ dir' = TRUE
    /\ files' = Append(files, [owner |-> i, partial |-> TRUE, checksum |-> HeaderChecksum])
    /\ Step(i, "write")
    /\ UNCHANGED <<now, heartbeat, written, sight, restarts, usage>>

\* cleanup_old_snapshots(): the newest max_snapshots files stay, whatever they
\* are.
Cleanup(s) == IF Len(s) <= MaxSnapshots THEN s
              ELSE SubSeq(s, Len(s) - MaxSnapshots + 1, Len(s))

\* The last file that instance i has begun and not finished is now whole.
Complete(s, i) ==
    [k \in DOMAIN s |->
        IF s[k].owner = i /\ \A n \in k + 1 .. Len(s) : s[n].owner # i
        THEN [s[k] EXCEPT !.partial = FALSE] ELSE s[k]]

\* The sync, the clean-up, and the end of graceful_shutdown().
SnapshotWrite(i) ==
    /\ At(i, "write")
    /\ files' = Cleanup(Complete(files, i))
    /\ written' = TRUE
    /\ Set(i, [inst[i] EXCEPT !.mode = "Cold", !.pc = "idle"])
    /\ UNCHANGED <<now, heartbeat, dir, created, overlap, sight, restarts, usage>>

\* An I/O error on the way: `?' returns, and the mode stays.
SnapshotFails(i) ==
    /\ At(i, "create") \/ At(i, "write")
    /\ Step(i, "idle")
    /\ UNCHANGED <<now, heartbeat, disk, sight, restarts, usage>>

-----------------------------------------------------------------------------
Crash(i) ==
    /\ inst[i].up
    /\ Set(i, [New EXCEPT !.up = FALSE])
    /\ unseen' = unseen \ {i}
    /\ UNCHANGED <<now, heartbeat, disk, blind, restarts, usage>>

Restart(i) ==
    /\ Free
    /\ ~inst[i].up /\ restarts < MaxRestarts
    /\ restarts' = restarts + 1
    /\ Set(i, New)
    /\ UNCHANGED <<now, heartbeat, disk, sight, usage>>

\* Time passes.  In a pair the monitor of a hot instance is on time: its
\* heartbeat is never MaxAge old.  (In the other usage, which is there for the
\* snapshots, a heartbeat is dated by the truncation alone.)
Tick ==
    /\ ~Free /\ now < MaxTime
    /\ \A i \in Instances : inst[i].up /\ inst[i].mode = "Hot" =>
          now + 1 - inst[i].last_heartbeat < MaxAge
    /\ now' = now + 1
    /\ UNCHANGED <<heartbeat, disk, sight, restarts, usage, inst>>

Next ==
    \/ Tick
    \/ \E i \in Instances :
        \/ InitializeHot(i) \/ InitializeCold(i)
        \/ SendHeartbeat(i) \/ WriteHeartbeat(i) \/ HeartbeatFails(i)
        \/ PromoteCheck(i) \/ RecoverStart(i) \/ Recover(i)
        \/ Shutdown(i) \/ ShutdownUnlink(i) \/ SnapshotCreate(i)
        \/ SnapshotWrite(i) \/ SnapshotFails(i)
        \/ Crash(i) \/ Restart(i)

Spec == Init /\ [][Next]_vars

-----------------------------------------------------------------------------
Active == {i \in Instances : inst[i].is_active}

\* In a pair whose hot instances beat on time, two instances never trade at
\* once, whatever crashes and however shutdown and promotion interleave, unless
\* a standby judged the file while it was truncated, or before an instance that
\* had just been promoted wrote its first heartbeat (promote_to_hot() writes
\* none).
OneActive == ~Free /\ ~blind => Cardinality(Active) <= 1

\* Once a snapshot has been completely written, the directory always holds a
\* complete one: neither a crash between the creation and the sync of a later
\* one nor its clean-up loses it, unless two instances write at the same time.
LastCompleteKept ==
    written /\ ~overlap => \E k \in DOMAIN files : ~files[k].partial

\* A snapshot that was completely written can be loaded.
CompleteLoads == \A i \in Instances : inst[i].error # "ChecksumMismatch"
=============================================================================
