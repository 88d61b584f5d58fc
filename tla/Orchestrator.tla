---------------------------- MODULE Orchestrator ----------------------------
(***************************************************************************)
(* The orchestrator of orchestrator/final_mod.rs with what it drives: the  *)
(* start sequence of start_sequence.rs, and the Python backend, the kill   *)
(* switch and the crash monitor of handoff.rs.                             *)
(*                                                                         *)
(* Actors: the thread in run(), the crash monitor each run() spawns, the   *)
(* health-check thread, the Python process, whoever receives the events,   *)
(* and the callers that send commands, spawn the backend, abort the start  *)
(* sequence or reset the kill switch through the accessors.                *)
(*                                                                         *)
(* The helpers of the start sequence are placeholders in the source; they  *)
(* are modelled by the results their callers distinguish.                  *)
(***************************************************************************)
EXTENDS Integers

CONSTANTS
    EnablePython,       \* the values of config.enable_python_ml
    MaxRestarts,        \* config.max_python_restarts
    EventCap,           \* capacity of the event channel, which blocks when full
    MaxCmds, MaxSpawns, MaxRuns        \* bounds

\* The capacity, the limits and the bounds are unsigned integers.
ASSUME OrchestratorAssumption ==
    /\ EnablePython \subseteq BOOLEAN
    /\ {MaxRestarts, EventCap, MaxCmds, MaxSpawns, MaxRuns} \subseteq Nat

VARIABLES
    mode, is_running,           \* Orchestrator
    phase, is_aborted,          \* StartSequence
    child, is_ready, is_alive,  \* PythonBackendHandle
    crash_count, beat,
    stopping,                   \* the shutdown channel holds its one message
    triggered, reason,          \* KillSwitch
    events,                     \* the number of events in their channel
    python,                     \* config.enable_python_ml
    pc, sends,                  \* run(): where it is, events it has yet to send
    monitor,                    \* the crash monitor of each run()
    spawner,                    \* a caller inside spawn()
    used                        \* ghost: what has happened so far

seqVars == <<phase, is_aborted>>
backVars == <<child, is_ready, is_alive, crash_count, beat, stopping>>
killVars == <<triggered, reason>>
vars == <<mode, is_running, seqVars, backVars, killVars, events, python,
          pc, sends, monitor, spawner, used>>

Cmds == {"Start", "Stop", "ShadowMode", "ForceKill", "Other"}
Phases == {"Idle", "Warmup", "IpcInit", "PythonHandoff", "PreLiveCheck", "Live", "Aborted"}

TypeOK ==
    /\ mode \in {"Idle", "WarmingUp", "Shadow", "Live", "Stopping"}
    /\ phase \in Phases
    /\ {is_running, is_aborted, is_ready, is_alive, stopping, triggered, reason, spawner}
          \subseteq BOOLEAN
    /\ child \in {"none", "up"}
    /\ beat \in {"never", "fresh", "old"}
    /\ crash_count \in Nat
    /\ events \in 0 .. EventCap
    /\ python \in EnablePython
    /\ pc \in {"new", "loop", "recv", "warmup", "warmed", "ipc", "handoff", "wait", "sleep",
               "prelive", "checks", "golive", "check", "fail", "stop", "channel", "kill",
               "done", "failed"}
    /\ sends \in 0 .. 2
    /\ monitor \in [1 .. MaxRuns -> {"off", "sleep", "suspect", "trigger", "reason"}]
    /\ used \in [cmds : 0 .. MaxCmds, spawns : 0 .. MaxSpawns, runs : 0 .. MaxRuns,
                 late : Nat, silences : Nat, barred : BOOLEAN]

Init ==
    /\ mode = "Idle" /\ is_running = FALSE
    /\ phase = "Idle" /\ is_aborted = FALSE
    /\ child = "none" /\ is_ready = FALSE /\ is_alive = FALSE
    /\ crash_count = 0 /\ beat = "never" /\ stopping = FALSE
    /\ triggered = FALSE /\ reason = FALSE
    /\ events = 0
    /\ python \in EnablePython
    /\ pc = "new" /\ sends = 0
    /\ monitor = [r \in 1 .. MaxRuns |-> "off"]
    /\ spawner = FALSE
    /\ used = [cmds |-> 0, spawns |-> 0, runs |-> 0, late |-> 0, silences |-> 0,
               barred |-> FALSE]

Returned == {"new", "done", "failed"}      \* no run() is under way
\* A start sequence that has read is_aborted for the last time.
PastTest == {"warmed", "ipc", "handoff", "wait", "sleep", "prelive", "checks", "golive"}

-----------------------------------------------------------------------------
(* run(): the command loop.                                                 *)

At(label) == pc = label /\ sends = 0
Go(label, n) == pc' = label /\ sends' = n

Run ==
    /\ pc \in Returned /\ sends = 0 /\ used.runs < MaxRuns
    /\ is_running' = TRUE
    /\ used' = [used EXCEPT !.runs = @ + 1, !.late = 0]
    /\ monitor' = [monitor EXCEPT ![used.runs + 1] = "sleep"]
    /\ Go("loop", 0)
    /\ UNCHANGED <<mode, seqVars, backVars, killVars, events, python, spawner>>

\* A send that does not wait for a place (a mutated form).
Bug_EmitNoWait ==
    /\ sends > 0
    /\ events' = events + 1
    /\ Go(pc, sends - 1)
    /\ UNCHANGED <<mode, is_running, seqVars, backVars, killVars, python, monitor,
                   spawner, used>>

\* One blocking send on the event channel.
Emit ==
    /\ sends > 0 /\ events < EventCap
    /\ events' = events + 1
    /\ Go(pc, sends - 1)
    /\ UNCHANGED <<mode, is_running, seqVars, backVars, killVars, python,
                   monitor, spawner, used>>

\* The loop without the kill switch in its condition (a mutated form).
Bug_LoopIgnoresKill ==
    /\ At("loop")
    /\ Go(IF is_running THEN "recv" ELSE "stop", 0)
    /\ UNCHANGED <<mode, is_running, seqVars, backVars, killVars, events,
                   python, monitor, spawner, used>>

Loop ==
    /\ At("loop")
    /\ Go(IF is_running /\ ~triggered THEN "recv" ELSE "stop", 0)
    /\ UNCHANGED <<mode, is_running, seqVars, backVars, killVars, events,
                   python, monitor, spawner, used>>

RecvTimeout ==
    /\ At("recv")
    /\ Go("check", 0)
    /\ UNCHANGED <<mode, is_running, seqVars, backVars, killVars, events,
                   python, monitor, spawner, used>>

\* recv_timeout() and process_command(), up to the first phase of a start.  A
\* command may be waiting in the channel whenever the loop comes by.
Recv ==
    /\ At("recv") /\ used.cmds < MaxCmds
    /\ used' = [used EXCEPT !.cmds = @ + 1, !.late = IF triggered THEN @ + 1 ELSE @]
    /\ \E cmd \in Cmds :
        /\ mode' = CASE cmd = "Start" -> "WarmingUp"
                     [] cmd = "Stop" -> "Stopping"
                     [] cmd = "ShadowMode" -> "Shadow"
                     [] OTHER -> mode
        /\ phase' = IF cmd = "Start" THEN "Warmup" ELSE phase
        /\ triggered' = (triggered \/ cmd = "ForceKill")
        /\ reason' = (reason \/ cmd = "ForceKill")
        /\ Go(IF cmd = "Start" THEN "warmup" ELSE "check",
              IF cmd \in {"Stop", "ShadowMode"} THEN 1 ELSE 0)
    /\ UNCHANGED <<is_running, is_aborted, backVars, events, python, monitor, spawner>>

\* The test of the reason at the end of a round.
Check ==
    /\ At("check")
    /\ IF reason THEN Go("stop", 1) ELSE Go("loop", 0)
    /\ UNCHANGED <<mode, is_running, seqVars, backVars, killVars, events,
                   python, monitor, spawner, used>>

-----------------------------------------------------------------------------
(* execute_start_sequence().                                                *)

mainRest == <<is_running, backVars, killVars, events, python, monitor, spawner>>

\* StartSequence::abort, from the sequence itself.
abort == phase' = "Aborted" /\ is_aborted' = TRUE
         /\ used' = [used EXCEPT !.barred = TRUE]

\* Warm-up does not look at is_aborted (a mutated form).
Bug_WarmupIgnoresAbort ==
    /\ At("warmup")
    /\ \E connected \in BOOLEAN : IF connected THEN Go("warmed", 0) ELSE Go("fail", 1)
    /\ UNCHANGED <<mode, seqVars, used, mainRest>>

\* A connection failure is returned at once; otherwise is_aborted decides.
Warmup ==
    /\ At("warmup")
    /\ \E connected \in BOOLEAN :
        IF connected /\ ~is_aborted THEN Go("warmed", 0) ELSE Go("fail", 1)
    /\ UNCHANGED <<mode, seqVars, used, mainRest>>

WarmupStore ==
    /\ At("warmed")
    /\ phase' = "IpcInit"
    /\ Go("ipc", 1)
    /\ UNCHANGED <<mode, is_aborted, used, mainRest>>

IpcInit ==
    /\ At("ipc")
    /\ \E ok \in BOOLEAN :
        IF ok
        THEN /\ phase' = "PythonHandoff"
             /\ Go(IF python THEN "handoff" ELSE "prelive", 1)
             /\ UNCHANGED <<is_aborted, used>>
        ELSE abort /\ Go("fail", 1)
    /\ UNCHANGED <<mode, mainRest>>

HandoffBegin ==
    /\ At("handoff")
    /\ phase' = "PythonHandoff"
    /\ Go("wait", 0)
    /\ UNCHANGED <<mode, is_aborted, used, mainRest>>

\* A round of wait_for_ready(): ready, or dead, or asleep until the next one.
HandoffPoll ==
    /\ At("wait")
    /\ \/ /\ is_ready
          /\ phase' = "PreLiveCheck" /\ Go("prelive", 1)
          /\ UNCHANGED <<is_aborted, used>>
       \/ ~is_ready /\ ~is_alive /\ abort /\ Go("fail", 1)
       \/ ~is_ready /\ is_alive /\ Go("sleep", 0) /\ UNCHANGED <<seqVars, used>>
    /\ UNCHANGED <<mode, mainRest>>

HandoffAgain ==
    /\ At("sleep")
    /\ Go("wait", 0)
    /\ UNCHANGED <<mode, seqVars, used, mainRest>>

\* wait_for_ready() without its timeout (a mutated form).
Bug_WaitForever ==
    /\ At("sleep")
    /\ Go("wait", 0)
    /\ UNCHANGED <<mode, seqVars, used, mainRest>>

HandoffTimeout ==
    /\ At("sleep")
    /\ abort /\ Go("fail", 1)
    /\ UNCHANGED <<mode, mainRest>>

PreLiveBegin ==
    /\ At("prelive")
    /\ phase' = "PreLiveCheck"
    /\ Go("checks", 0)
    /\ UNCHANGED <<mode, is_aborted, used, mainRest>>

\* The exchange must answer; of the other three checks one may fail.
PreLiveCheck ==
    /\ At("checks")
    /\ \E exchange \in BOOLEAN, passed \in 0 .. 3 :
        IF exchange /\ 1 + passed >= 3
        THEN /\ phase' = "Live" /\ Go("golive", 1)
             /\ UNCHANGED <<is_aborted, used>>
        ELSE abort /\ Go("fail", 1)
    /\ UNCHANGED <<mode, mainRest>>

GoLive ==
    /\ At("golive")
    /\ mode' = "Live"
    /\ Go("check", 2)
    /\ UNCHANGED <<seqVars, used, mainRest>>

\* A failed phase: `?' takes the error out of run(), past graceful_shutdown().
Fail ==
    /\ At("fail")
    /\ mode' = "Idle"
    /\ Go("failed", 0)
    /\ UNCHANGED <<seqVars, used, mainRest>>

-----------------------------------------------------------------------------
(* graceful_shutdown() and PythonBackendHandle::stop.                       *)

Stop ==
    /\ At("stop")
    /\ IF python
       THEN is_alive' = FALSE /\ Go("channel", 0) /\ UNCHANGED is_running
       ELSE is_running' = FALSE /\ Go("done", 0) /\ UNCHANGED is_alive
    /\ UNCHANGED <<mode, seqVars, child, is_ready, crash_count, beat, stopping, killVars,
                   events, python, monitor, spawner, used>>

\* A blocking send on a channel of one place that nobody reads.
StopSend ==
    /\ At("channel") /\ ~stopping
    /\ stopping' = TRUE
    /\ Go("kill", 0)
    /\ UNCHANGED <<mode, is_running, seqVars, child, is_ready, is_alive, crash_count, beat,
                   killVars, events, python, monitor, spawner, used>>

StopChild ==
    /\ At("kill")
    /\ child' = "none" /\ is_running' = FALSE
    /\ Go("done", 0)
    /\ UNCHANGED <<mode, seqVars, is_ready, is_alive, crash_count, beat, stopping, killVars,
                   events, python, monitor, spawner, used>>

-----------------------------------------------------------------------------
(* The crash monitors and the health-check thread.                          *)

mainState == <<mode, is_running, seqVars, python, pc, sends>>

check_health == is_alive /\ beat # "old"

\* A round: over when the kill switch is triggered, else a look at the health.
MonitorPoll(r) ==
    /\ monitor[r] = "sleep"
    /\ monitor' = [monitor EXCEPT ![r] = IF triggered THEN "off"
                                         ELSE IF check_health THEN "sleep" ELSE "suspect"]
    /\ used' = [used EXCEPT !.silences =
                   IF ~triggered /\ is_alive /\ ~check_health THEN @ + 1 ELSE @]
    /\ UNCHANGED <<mainState, backVars, killVars, events, spawner>>

\* The second reading of is_alive is dropped (a mutated form).
Bug_CountStopped(r) ==
    /\ monitor[r] = "suspect"
    /\ crash_count' = crash_count + 1
    /\ monitor' = [monitor EXCEPT ![r] =
                      IF crash_count' >= MaxRestarts THEN "trigger" ELSE "sleep"]
    /\ UNCHANGED <<mainState, child, is_ready, is_alive, beat, stopping, killVars, events,
                   spawner, used>>

\* The break comes after the first crash, not after the trigger (a mutated form).
Bug_BreakEarly(r) ==
    /\ monitor[r] = "suspect"
    /\ crash_count' = IF is_alive THEN crash_count + 1 ELSE crash_count
    /\ monitor' = [monitor EXCEPT ![r] =
                      IF is_alive /\ crash_count' >= MaxRestarts THEN "trigger" ELSE "off"]
    /\ UNCHANGED <<mainState, child, is_ready, is_alive, beat, stopping, killVars, events,
                   spawner, used>>

\* is_alive read again, record_crash(), and the comparison with max_restarts.
MonitorCount(r) ==
    /\ monitor[r] = "suspect"
    /\ crash_count' = IF is_alive THEN crash_count + 1 ELSE crash_count
    /\ monitor' = [monitor EXCEPT ![r] =
                      IF is_alive /\ crash_count' >= MaxRestarts THEN "trigger" ELSE "sleep"]
    /\ UNCHANGED <<mainState, child, is_ready, is_alive, beat, stopping, killVars, events,
                   spawner, used>>

\* KillSwitch::trigger: the flag, then the reason.
MonitorTrigger(r) ==
    /\ monitor[r] = "trigger"
    /\ triggered' = TRUE
    /\ monitor' = [monitor EXCEPT ![r] = "reason"]
    /\ UNCHANGED <<mainState, backVars, reason, events, spawner, used>>

MonitorReason(r) ==
    /\ monitor[r] = "reason"
    /\ reason' = TRUE
    /\ monitor' = [monitor EXCEPT ![r] = "off"]
    /\ UNCHANGED <<mainState, backVars, triggered, events, spawner, used>>

HealthCheck ==
    /\ is_running /\ ~check_health /\ events < EventCap
    /\ events' = events + 1
    /\ UNCHANGED <<mainState, backVars, killVars, monitor, spawner, used>>

-----------------------------------------------------------------------------
(* The Python process, the receiver of the events and the other callers.    *)
(* The handle does not notice that the process has died: a process that has *)
(* crashed is one that no longer takes any of these steps.                  *)

MarkReady ==
    /\ child = "up"
    /\ is_ready' = TRUE /\ beat' = "fresh"
    /\ UNCHANGED <<mainState, child, is_alive, crash_count, stopping, killVars, events,
                   monitor, spawner, used>>

\* The age of the last heartbeat passes the limit.
Silence ==
    /\ beat = "fresh"
    /\ beat' = "old"
    /\ UNCHANGED <<mainState, child, is_ready, is_alive, crash_count, stopping, killVars,
                   events, monitor, spawner, used>>

UpdateHeartbeat ==
    /\ child = "up" /\ beat = "old"
    /\ beat' = "fresh"
    /\ UNCHANGED <<mainState, child, is_ready, is_alive, crash_count, stopping, killVars,
                   events, monitor, spawner, used>>

\* spawn(): the child is stored, then is_alive; nothing else is reset.
Spawn ==
    /\ python /\ ~spawner /\ used.spawns < MaxSpawns
    /\ child' = "up" /\ spawner' = TRUE
    /\ used' = [used EXCEPT !.spawns = @ + 1]
    /\ UNCHANGED <<mainState, is_ready, is_alive, crash_count, beat, stopping, killVars,
                   events, monitor>>

SpawnAlive ==
    /\ spawner
    /\ is_alive' = TRUE /\ spawner' = FALSE
    /\ UNCHANGED <<mainState, child, is_ready, crash_count, beat, stopping, killVars,
                   events, monitor, used>>

Receive ==
    /\ events > 0
    /\ events' = events - 1
    /\ UNCHANGED <<mainState, backVars, killVars, monitor, spawner, used>>

Abort ==
    /\ ~is_aborted
    /\ is_aborted' = TRUE /\ phase' = "Aborted"
    /\ used' = [used EXCEPT !.barred = pc \notin PastTest]
    /\ UNCHANGED <<mode, is_running, backVars, killVars, events, python, pc,
                   sends, monitor, spawner>>

\* KillSwitch::reset, once the run it has ended is over.
ResetKill ==
    /\ pc \in Returned /\ triggered
    /\ triggered' = FALSE /\ reason' = FALSE
    /\ UNCHANGED <<mainState, backVars, events, monitor, spawner, used>>

Main ==
    \/ Loop \/ RecvTimeout \/ Recv \/ Check \/ Emit
    \/ Warmup \/ WarmupStore \/ IpcInit \/ HandoffBegin \/ HandoffPoll \/ HandoffAgain
    \/ HandoffTimeout \/ PreLiveBegin \/ PreLiveCheck \/ GoLive \/ Fail
    \/ Stop \/ StopSend \/ StopChild
Monitor(r) ==
    MonitorPoll(r) \/ MonitorCount(r) \/ MonitorTrigger(r) \/ MonitorReason(r)
Environment ==
    \/ HealthCheck \/ MarkReady \/ Silence \/ UpdateHeartbeat
    \/ Spawn \/ SpawnAlive \/ Receive \/ Abort \/ ResetKill

Next == Run \/ Main \/ (\E r \in 1 .. MaxRuns : Monitor(r)) \/ Environment

\* Threads keep running; the events are received; wait_for_ready() has a
\* timeout.  The sender blocked on a full event channel is not passed over for
\* ever, because the health thread sleeps between two sends.
Fairness ==
    /\ SF_vars(Main) /\ SF_vars(HandoffTimeout)
    /\ WF_vars(Receive)
    /\ \A r \in 1 .. MaxRuns : WF_vars(Monitor(r))

Spec == Init /\ [][Next]_vars /\ Fairness

-----------------------------------------------------------------------------
\* Once the kill switch is triggered run() takes at most one more command: the
\* one it was already waiting for.
LateCommands == used.late <= 1

\* An aborted start sequence is never reset: after an abort that no start in
\* progress can miss, and after every failed phase, nothing goes live again.
AbortIsFinal == [][used.barred /\ mode # "Live" => mode' # "Live"]_vars

\* The crash monitors count a crash only for a heartbeat found too old, or, at
\* most once for each monitor, for a backend spawned under their eyes.
CrashesJustified == crash_count <= used.silences + used.spawns * used.runs

\* A triggered kill switch ends run(), unless the shutdown channel still holds
\* the message of an earlier stop.
KillEnds == triggered /\ ~stopping ~> pc \in Returned

\* A backend that has gone silent under a crash monitor triggers the kill
\* switch, unless it beats or is stopped first.
SilenceKills ==
    (is_alive /\ beat = "old" /\ \E r \in 1 .. MaxRuns : monitor[r] \in {"sleep", "suspect"})
       ~> (triggered \/ ~is_alive \/ beat = "fresh")
=============================================================================
