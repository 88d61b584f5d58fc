------------------------ MODULE OrchestratorProofs ------------------------
(***************************************************************************)
(* For any number of runs, commands and spawns, any capacity of the event  *)
(* channel and any restart limit, the orchestrator of                      *)
(* orchestrator/final_mod.rs keeps its types, takes at most one command    *)
(* after a kill, never goes live after an abort and counts no crash        *)
(* without a cause.                                                        *)
(***************************************************************************)
EXTENDS Orchestrator, FiniteSetTheorems, TLAPS

-----------------------------------------------------------------------------
(* Types.                                                                   *)

Flags == {is_running, is_aborted, is_ready, is_alive, stopping, triggered, reason, spawner}

UsedType == [cmds : 0 .. MaxCmds, spawns : 0 .. MaxSpawns, runs : 0 .. MaxRuns,
             late : Nat, silences : Nat, barred : BOOLEAN]

\* The ghost record keeps its type in each of the updates the actions make.
LEMMA UsedUpdates ==
    ASSUME NEW u \in UsedType
    PROVE  /\ \A n \in 0 .. MaxCmds, k \in Nat : [u EXCEPT !.cmds = n, !.late = k] \in UsedType
           /\ \A n \in 0 .. MaxRuns, k \in Nat : [u EXCEPT !.runs = n, !.late = k] \in UsedType
           /\ \A n \in 0 .. MaxSpawns : [u EXCEPT !.spawns = n] \in UsedType
           /\ \A n \in Nat : [u EXCEPT !.silences = n] \in UsedType
           /\ \A b \in BOOLEAN : [u EXCEPT !.barred = b] \in UsedType
BY OrchestratorAssumption DEF UsedType

\* Every step keeps every variable in its type.
LEMMA TypeStep == TypeOK /\ [Next]_vars => TypeOK'
<1> SUFFICES ASSUME TypeOK, [Next]_vars PROVE TypeOK'
  OBVIOUS
<1> USE OrchestratorAssumption
<1> USE DEF TypeOK, Phases, At, Go, mainRest, mainState, backVars, killVars, seqVars
<1>1. CASE Run
  <2>1. Flags' \subseteq BOOLEAN
    BY <1>1 DEF Run, Returned, Flags
  <2>2. used \in UsedType /\ used.runs + 1 \in 0 .. MaxRuns
    BY <1>1 DEF Run, UsedType
  <2>3. used' \in UsedType
    <3>1. used' = [used EXCEPT !.runs = used.runs + 1, !.late = 0]
      BY <1>1 DEF Run
    <3> HIDE DEF TypeOK
    <3> QED BY <2>2, <3>1, UsedUpdates
  <2> QED BY <1>1, <2>1, <2>3 DEF Run, Returned, Flags, UsedType
<1>2. CASE Loop
  BY <1>2 DEF Loop
<1>3. CASE RecvTimeout
  BY <1>3 DEF RecvTimeout
<1>4. CASE Recv
  <2>1. Flags' \subseteq BOOLEAN
    BY <1>4 DEF Recv, Cmds, Flags
  <2>2. used \in UsedType /\ used.cmds + 1 \in 0 .. MaxCmds
          /\ (IF triggered THEN used.late + 1 ELSE used.late) \in Nat
    BY <1>4 DEF Recv, UsedType
  <2>3. used' \in UsedType
    <3>1. used' = [used EXCEPT !.cmds = used.cmds + 1,
                               !.late = IF triggered THEN used.late + 1 ELSE used.late]
      BY <1>4 DEF Recv
    <3> HIDE DEF TypeOK
    <3> QED BY <2>2, <3>1, UsedUpdates
  <2> QED BY <1>4, <2>1, <2>3, SMTT(30) DEF Recv, Cmds, Flags, UsedType
<1>5. CASE Check
  BY <1>5 DEF Check
<1>6. CASE Emit
  BY <1>6 DEF Emit
<1>7. CASE Warmup
  BY <1>7 DEF Warmup
<1>8. CASE WarmupStore
  BY <1>8 DEF WarmupStore
<1>9. CASE IpcInit
  <2>1. Flags' \subseteq BOOLEAN
    BY <1>9 DEF IpcInit, abort, Flags
  <2>2. /\ used \in UsedType
        /\ used.cmds \in 0 .. MaxCmds /\ used.runs \in 0 .. MaxRuns
        /\ used.spawns \in 0 .. MaxSpawns /\ used.late \in Nat /\ used.silences \in Nat
    BY DEF UsedType
  <2> HIDE DEF TypeOK
  <2>3. used' \in UsedType
    BY <1>9, <2>2, UsedUpdates DEF IpcInit, abort
  <2> USE DEF TypeOK
  <2> QED BY <1>9, <2>1, <2>3, SMTT(30) DEF IpcInit, abort, Flags, UsedType
<1>10. CASE HandoffBegin
  BY <1>10 DEF HandoffBegin
<1>11. CASE HandoffPoll
  <2>1. Flags' \subseteq BOOLEAN
    BY <1>11 DEF HandoffPoll, abort, Flags
  <2>2. /\ used \in UsedType
        /\ used.cmds \in 0 .. MaxCmds /\ used.runs \in 0 .. MaxRuns
        /\ used.spawns \in 0 .. MaxSpawns /\ used.late \in Nat /\ used.silences \in Nat
    BY DEF UsedType
  <2> HIDE DEF TypeOK
  <2>3. used' \in UsedType
    BY <1>11, <2>2, UsedUpdates DEF HandoffPoll, abort
  <2> USE DEF TypeOK
  <2> QED BY <1>11, <2>1, <2>3, SMTT(30) DEF HandoffPoll, abort, Flags, UsedType
<1>12. CASE HandoffAgain
  BY <1>12 DEF HandoffAgain
<1>13. CASE HandoffTimeout
  <2>1. Flags' \subseteq BOOLEAN
    BY <1>13 DEF HandoffTimeout, abort, Flags
  <2>2. /\ used \in UsedType
        /\ used.cmds \in 0 .. MaxCmds /\ used.runs \in 0 .. MaxRuns
        /\ used.spawns \in 0 .. MaxSpawns /\ used.late \in Nat /\ used.silences \in Nat
    BY DEF UsedType
  <2> HIDE DEF TypeOK
  <2>3. used' \in UsedType
    BY <1>13, <2>2, UsedUpdates DEF HandoffTimeout, abort
  <2> USE DEF TypeOK
  <2> QED BY <1>13, <2>1, <2>3 DEF HandoffTimeout, abort, Flags, UsedType
<1>14. CASE PreLiveBegin
  BY <1>14 DEF PreLiveBegin
<1>15. CASE PreLiveCheck
  <2>1. Flags' \subseteq BOOLEAN
    BY <1>15 DEF PreLiveCheck, abort, Flags
  <2>2. /\ used \in UsedType
        /\ used.cmds \in 0 .. MaxCmds /\ used.runs \in 0 .. MaxRuns
        /\ used.spawns \in 0 .. MaxSpawns /\ used.late \in Nat /\ used.silences \in Nat
    BY DEF UsedType
  <2> HIDE DEF TypeOK
  <2>3. used' \in UsedType
    BY <1>15, <2>2, UsedUpdates DEF PreLiveCheck, abort
  <2> USE DEF TypeOK
  <2> QED BY <1>15, <2>1, <2>3, SMTT(30) DEF PreLiveCheck, abort, Flags, UsedType
<1>16. CASE GoLive
  BY <1>16 DEF GoLive
<1>17. CASE Fail
  BY <1>17 DEF Fail
<1>18. CASE Stop
  BY <1>18, ZenonT(60) DEF Stop
<1>19. CASE StopSend
  BY <1>19 DEF StopSend
<1>20. CASE StopChild
  BY <1>20 DEF StopChild
<1>21. CASE HealthCheck
  BY <1>21 DEF HealthCheck
<1>22. CASE MarkReady
  BY <1>22 DEF MarkReady
<1>23. CASE Silence
  BY <1>23 DEF Silence
<1>24. CASE UpdateHeartbeat
  BY <1>24 DEF UpdateHeartbeat
<1>25. CASE Spawn
  <2>1. Flags' \subseteq BOOLEAN
    BY <1>25 DEF Spawn, Flags
  <2>2. used \in UsedType /\ used.spawns + 1 \in 0 .. MaxSpawns
    BY <1>25 DEF Spawn, UsedType
  <2>3. used' \in UsedType
    <3>1. used' = [used EXCEPT !.spawns = used.spawns + 1]
      BY <1>25 DEF Spawn
    <3> HIDE DEF TypeOK
    <3> QED BY <2>2, <3>1, UsedUpdates
  <2> QED BY <1>25, <2>1, <2>3, ZenonT(60) DEF Spawn, Flags, UsedType
<1>26. CASE SpawnAlive
  <2>1. Flags' \subseteq BOOLEAN
    BY <1>26 DEF SpawnAlive, Flags
  <2>2. /\ used \in UsedType
        /\ used.cmds \in 0 .. MaxCmds /\ used.runs \in 0 .. MaxRuns
        /\ used.spawns \in 0 .. MaxSpawns /\ used.late \in Nat /\ used.silences \in Nat
    BY DEF UsedType
  <2> HIDE DEF TypeOK
  <2>3. used' \in UsedType
    BY <1>26, <2>2, UsedUpdates DEF SpawnAlive
  <2> USE DEF TypeOK
  <2> QED BY <1>26, <2>1, <2>3 DEF SpawnAlive, Flags, UsedType
<1>27. CASE Receive
  BY <1>27 DEF Receive
<1>28. CASE Abort
  <2>1. Flags' \subseteq BOOLEAN
    BY <1>28 DEF Abort, Flags
  <2>2. /\ used \in UsedType
        /\ used.cmds \in 0 .. MaxCmds /\ used.runs \in 0 .. MaxRuns
        /\ used.spawns \in 0 .. MaxSpawns /\ used.late \in Nat /\ used.silences \in Nat
    BY DEF UsedType
  <2> HIDE DEF TypeOK
  <2>3. used' \in UsedType
    BY <1>28, <2>2, UsedUpdates DEF Abort
  <2> USE DEF TypeOK
  <2> QED BY <1>28, <2>1, <2>3 DEF Abort, Flags, UsedType
<1>29. CASE ResetKill
  <2>1. Flags' \subseteq BOOLEAN
    BY <1>29 DEF ResetKill, Flags
  <2>2. /\ used \in UsedType
        /\ used.cmds \in 0 .. MaxCmds /\ used.runs \in 0 .. MaxRuns
        /\ used.spawns \in 0 .. MaxSpawns /\ used.late \in Nat /\ used.silences \in Nat
    BY DEF UsedType
  <2> HIDE DEF TypeOK
  <2>3. used' \in UsedType
    BY <1>29, <2>2, UsedUpdates DEF ResetKill
  <2> USE DEF TypeOK
  <2> QED BY <1>29, <2>1, <2>3 DEF ResetKill, Flags, UsedType
<1>30. ASSUME NEW r \in 1 .. MaxRuns, MonitorPoll(r) PROVE TypeOK'
  <2>1. Flags' \subseteq BOOLEAN
    BY <1>30 DEF MonitorPoll, check_health, Flags
  <2>2. used \in UsedType
          /\ (IF ~triggered /\ is_alive /\ ~check_health
              THEN used.silences + 1 ELSE used.silences) \in Nat
    BY <1>30 DEF MonitorPoll, UsedType
  <2>3. used' \in UsedType
    <3>1. used' = [used EXCEPT !.silences =
                      IF ~triggered /\ is_alive /\ ~check_health THEN used.silences + 1 ELSE used.silences]
      BY <1>30 DEF MonitorPoll
    <3> HIDE DEF TypeOK
    <3> QED BY <2>2, <3>1, UsedUpdates
  <2> QED BY <1>30, <2>1, <2>3 DEF MonitorPoll, check_health, Flags, UsedType
<1>31. ASSUME NEW r \in 1 .. MaxRuns, MonitorCount(r) PROVE TypeOK'
  BY <1>31 DEF MonitorCount, check_health
<1>32. ASSUME NEW r \in 1 .. MaxRuns, MonitorTrigger(r) PROVE TypeOK'
  BY <1>32 DEF MonitorTrigger, check_health
<1>33. ASSUME NEW r \in 1 .. MaxRuns, MonitorReason(r) PROVE TypeOK'
  BY <1>33 DEF MonitorReason, check_health
<1>34. CASE UNCHANGED vars
  BY <1>34 DEF vars
<1> QED BY <1>1, <1>2, <1>3, <1>4, <1>5, <1>6, <1>7, <1>8, <1>9, <1>10, <1>11, <1>12,
           <1>13, <1>14, <1>15, <1>16, <1>17, <1>18, <1>19, <1>20, <1>21, <1>22, <1>23,
           <1>24, <1>25, <1>26, <1>27, <1>28, <1>29, <1>30, <1>31, <1>32, <1>33, <1>34
  DEF Next, Main, Monitor, Environment

\* The orchestrator starts in its types.
LEMMA TypeInit == Init => TypeOK
<1> SUFFICES ASSUME Init PROVE TypeOK
  OBVIOUS
<1> USE OrchestratorAssumption
<1>1. used \in UsedType
  BY DEF Init, UsedType
<1>2. Flags \subseteq BOOLEAN
  BY DEF Init, Flags
<1> QED BY <1>1, <1>2 DEF Init, TypeOK, Phases, Flags, UsedType

\* The types of final_mod.rs, start_sequence.rs and handoff.rs as TypeOK gives
\* them, for every value of the bounds and of the configuration.
THEOREM TypeCorrect == Spec => []TypeOK
BY TypeInit, TypeStep, PTL DEF Spec

-----------------------------------------------------------------------------
(* Commands after a kill.                                                   *)

\* The one late command was received before the loop could see the kill; from
\* then on run() is past the receive and cannot come back to it, because only
\* a reset clears the switch and a reset waits until run() has returned.
LateInv ==
    /\ used.late <= 1
    /\ used.late = 1 => pc # "recv" /\ (triggered \/ pc \in Returned)

\* Every step of every actor keeps LateInv.
LEMMA LateStep == TypeOK /\ LateInv /\ [Next]_vars => LateInv'
<1> SUFFICES ASSUME TypeOK, LateInv, [Next]_vars PROVE LateInv'
  OBVIOUS
<1>a. /\ used.late \in Nat
      /\ DOMAIN used = {"cmds", "spawns", "runs", "late", "silences", "barred"}
  BY DEF TypeOK
<1> USE <1>a DEF LateInv, Returned, At, Go, mainRest, mainState, backVars, killVars, seqVars
<1>1. CASE Run
  BY <1>1 DEF Run
<1>2. CASE Loop
  BY <1>2 DEF Loop
<1>3. CASE RecvTimeout
  BY <1>3 DEF RecvTimeout
<1>4. CASE Recv
  <2>1. used.late = 0 /\ pc' # "recv"
    BY <1>4 DEF Recv
  <2>2. used'.late = IF triggered THEN used.late + 1 ELSE used.late
    BY <1>4 DEF Recv
  <2>3. triggered => triggered'
    BY <1>4 DEF Recv
  <2> QED BY <2>1, <2>2, <2>3
<1>5. CASE Check
  BY <1>5 DEF Check
<1>6. CASE Emit
  BY <1>6 DEF Emit
<1>7. CASE Warmup
  BY <1>7 DEF Warmup
<1>8. CASE WarmupStore
  BY <1>8 DEF WarmupStore
<1>9. CASE IpcInit
  BY <1>9 DEF IpcInit, abort
<1>10. CASE HandoffBegin
  BY <1>10 DEF HandoffBegin
<1>11. CASE HandoffPoll
  BY <1>11 DEF HandoffPoll, abort
<1>12. CASE HandoffAgain
  BY <1>12 DEF HandoffAgain
<1>13. CASE HandoffTimeout
  BY <1>13 DEF HandoffTimeout, abort
<1>14. CASE PreLiveBegin
  BY <1>14 DEF PreLiveBegin
<1>15. CASE PreLiveCheck
  BY <1>15 DEF PreLiveCheck, abort
<1>16. CASE GoLive
  BY <1>16 DEF GoLive
<1>17. CASE Fail
  BY <1>17 DEF Fail
<1>18. CASE Stop
  BY <1>18 DEF Stop
<1>19. CASE StopSend
  BY <1>19 DEF StopSend
<1>20. CASE StopChild
  BY <1>20 DEF StopChild
<1>21. CASE HealthCheck
  BY <1>21 DEF HealthCheck
<1>22. CASE MarkReady
  BY <1>22 DEF MarkReady
<1>23. CASE Silence
  BY <1>23 DEF Silence
<1>24. CASE UpdateHeartbeat
  BY <1>24 DEF UpdateHeartbeat
<1>25. CASE Spawn
  BY <1>25 DEF Spawn
<1>26. CASE SpawnAlive
  BY <1>26 DEF SpawnAlive
<1>27. CASE Receive
  BY <1>27 DEF Receive
<1>28. CASE Abort
  BY <1>28 DEF Abort
<1>29. CASE ResetKill
  BY <1>29 DEF ResetKill
<1>30. ASSUME NEW r \in 1 .. MaxRuns, MonitorPoll(r) PROVE LateInv'
  BY <1>30 DEF MonitorPoll
<1>31. ASSUME NEW r \in 1 .. MaxRuns, MonitorCount(r) PROVE LateInv'
  BY <1>31 DEF MonitorCount
<1>32. ASSUME NEW r \in 1 .. MaxRuns, MonitorTrigger(r) PROVE LateInv'
  BY <1>32 DEF MonitorTrigger
<1>33. ASSUME NEW r \in 1 .. MaxRuns, MonitorReason(r) PROVE LateInv'
  BY <1>33 DEF MonitorReason
<1>34. CASE UNCHANGED vars
  BY <1>34 DEF vars
<1> QED BY <1>1, <1>2, <1>3, <1>4, <1>5, <1>6, <1>7, <1>8, <1>9, <1>10, <1>11, <1>12,
           <1>13, <1>14, <1>15, <1>16, <1>17, <1>18, <1>19, <1>20, <1>21, <1>22, <1>23,
           <1>24, <1>25, <1>26, <1>27, <1>28, <1>29, <1>30, <1>31, <1>32, <1>33, <1>34
  DEF Next, Main, Monitor, Environment

\* Once the kill switch is triggered, by a command or by a crash monitor at any
\* point of the loop, run() processes at most one more command.
THEOREM LateCommandsHold == Spec => []LateCommands
<1>1. Init => LateInv
  BY DEF Init, LateInv
<1>2. LateInv => LateCommands
  BY DEF LateInv, LateCommands
<1> QED BY <1>1, <1>2, TypeInit, TypeStep, LateStep, PTL DEF Spec

-----------------------------------------------------------------------------
(* An abort is final.                                                       *)

\* A barred start sequence has its flag set and is not beyond the last place
\* where the flag is read.
BarredInv == used.barred => is_aborted /\ pc \notin PastTest

\* Every step of every actor keeps BarredInv.
LEMMA BarredStep == TypeOK /\ BarredInv /\ [Next]_vars => BarredInv'
<1> SUFFICES ASSUME TypeOK, BarredInv, [Next]_vars PROVE BarredInv'
  OBVIOUS
<1>a. /\ used.barred \in BOOLEAN
      /\ DOMAIN used = {"cmds", "spawns", "runs", "late", "silences", "barred"}
  BY DEF TypeOK
<1> USE <1>a DEF BarredInv, PastTest, At, Go, mainRest, mainState, backVars, killVars, seqVars
<1>1. CASE Run
  BY <1>1 DEF Run
<1>2. CASE Loop
  BY <1>2 DEF Loop
<1>3. CASE RecvTimeout
  BY <1>3 DEF RecvTimeout
<1>4. CASE Recv
  BY <1>4 DEF Recv, Cmds
<1>5. CASE Check
  BY <1>5 DEF Check
<1>6. CASE Emit
  BY <1>6 DEF Emit
<1>7. CASE Warmup
  BY <1>7 DEF Warmup
<1>8. CASE WarmupStore
  BY <1>8 DEF WarmupStore
<1>9. CASE IpcInit
  BY <1>9 DEF IpcInit, abort
<1>10. CASE HandoffBegin
  BY <1>10 DEF HandoffBegin
<1>11. CASE HandoffPoll
  BY <1>11 DEF HandoffPoll, abort
<1>12. CASE HandoffAgain
  BY <1>12 DEF HandoffAgain
<1>13. CASE HandoffTimeout
  BY <1>13 DEF HandoffTimeout, abort
<1>14. CASE PreLiveBegin
  BY <1>14 DEF PreLiveBegin
<1>15. CASE PreLiveCheck
  BY <1>15 DEF PreLiveCheck, abort
<1>16. CASE GoLive
  BY <1>16 DEF GoLive
<1>17. CASE Fail
  BY <1>17 DEF Fail
<1>18. CASE Stop
  BY <1>18 DEF Stop
<1>19. CASE StopSend
  BY <1>19 DEF StopSend
<1>20. CASE StopChild
  BY <1>20 DEF StopChild
<1>21. CASE HealthCheck
  BY <1>21 DEF HealthCheck
<1>22. CASE MarkReady
  BY <1>22 DEF MarkReady
<1>23. CASE Silence
  BY <1>23 DEF Silence
<1>24. CASE UpdateHeartbeat
  BY <1>24 DEF UpdateHeartbeat
<1>25. CASE Spawn
  BY <1>25 DEF Spawn
<1>26. CASE SpawnAlive
  BY <1>26 DEF SpawnAlive
<1>27. CASE Receive
  BY <1>27 DEF Receive
<1>28. CASE Abort
  BY <1>28 DEF Abort
<1>29. CASE ResetKill
  BY <1>29 DEF ResetKill
<1>30. ASSUME NEW r \in 1 .. MaxRuns, MonitorPoll(r) PROVE BarredInv'
  BY <1>30 DEF MonitorPoll
<1>31. ASSUME NEW r \in 1 .. MaxRuns, MonitorCount(r) PROVE BarredInv'
  BY <1>31 DEF MonitorCount
<1>32. ASSUME NEW r \in 1 .. MaxRuns, MonitorTrigger(r) PROVE BarredInv'
  BY <1>32 DEF MonitorTrigger
<1>33. ASSUME NEW r \in 1 .. MaxRuns, MonitorReason(r) PROVE BarredInv'
  BY <1>33 DEF MonitorReason
<1>34. CASE UNCHANGED vars
  BY <1>34 DEF vars
<1> QED BY <1>1, <1>2, <1>3, <1>4, <1>5, <1>6, <1>7, <1>8, <1>9, <1>10, <1>11, <1>12,
           <1>13, <1>14, <1>15, <1>16, <1>17, <1>18, <1>19, <1>20, <1>21, <1>22, <1>23,
           <1>24, <1>25, <1>26, <1>27, <1>28, <1>29, <1>30, <1>31, <1>32, <1>33, <1>34
  DEF Next, Main, Monitor, Environment

\* No step takes a barred orchestrator live: only GoLive stores that mode, and
\* it lies beyond the test of is_aborted.
LEMMA BarredNeverLive ==
    BarredInv /\ [Next]_vars => [used.barred /\ mode # "Live" => mode' # "Live"]_vars
<1> SUFFICES ASSUME BarredInv, Next, used.barred, mode # "Live" PROVE mode' # "Live"
  BY DEF vars
<1>1. ~GoLive
  BY DEF GoLive, At, BarredInv, PastTest
<1>2. CASE Recv
  BY <1>2 DEF Recv, Cmds
<1>3. CASE Fail
  BY <1>3 DEF Fail
<1>4. UNCHANGED mode \/ GoLive \/ Recv \/ Fail
  BY DEF Next, Main, Monitor, Environment, mainState, mainRest,
         Run, Loop, RecvTimeout, Check, Emit, Warmup, WarmupStore, IpcInit, HandoffBegin,
         HandoffPoll, HandoffAgain, HandoffTimeout, PreLiveBegin, PreLiveCheck, Stop,
         StopSend, StopChild, MonitorPoll, MonitorCount, MonitorTrigger, MonitorReason,
         HealthCheck, MarkReady, Silence, UpdateHeartbeat, Spawn, SpawnAlive, Receive,
         Abort, ResetKill
<1> QED BY <1>1, <1>2, <1>3, <1>4

\* After an abort that no start in progress can miss, and after every failed
\* phase, no later command makes the orchestrator live.
THEOREM AbortIsFinalHolds == Spec => AbortIsFinal
<1>1. Init => BarredInv
  BY DEF Init, BarredInv
<1> QED BY <1>1, TypeInit, TypeStep, BarredStep, BarredNeverLive, PTL DEF Spec, AbortIsFinal

-----------------------------------------------------------------------------
(* Crashes have a cause.                                                    *)

Suspects == {r \in 1 .. MaxRuns : monitor[r] = "suspect"}

\* The spawns that have stored is_alive.
Woken == IF spawner THEN used.spawns - 1 ELSE used.spawns

\* A monitor that suspects a living backend is about to count a crash, and has
\* either found a heartbeat too old or seen the backend stopped: in that case
\* the spawn that brings it back pays for every monitor there is.
CrashInv ==
    /\ spawner => used.spawns >= 1
    /\ \A r \in 1 .. MaxRuns : r > used.runs => monitor[r] = "off"
    /\ crash_count + (IF is_alive THEN Cardinality(Suspects) ELSE 0)
          <= used.silences + Woken * used.runs

\* What CrashInv is about.
crashState == <<monitor, is_alive, crash_count, spawner,
                used.silences, used.spawns, used.runs>>

\* One more spawn, or one more run, in the product that bounds the crashes.
LEMMA Products ==
    ASSUME NEW a \in Nat, NEW n \in Nat
    PROVE  a * n \in Nat /\ (a + 1) * n = a * n + n /\ a * (n + 1) = a * n + a
BY SMT

\* The types CrashInv needs.
LEMMA CrashTypes ==
    ASSUME TypeOK, CrashInv
    PROVE  /\ used.spawns \in Nat /\ used.runs \in Nat /\ used.silences \in Nat
           /\ used.runs <= MaxRuns /\ MaxRuns \in Nat
           /\ crash_count \in Nat /\ Woken \in Nat
           /\ is_alive \in BOOLEAN /\ spawner \in BOOLEAN
           /\ Woken * used.runs \in Nat
<1>1. /\ used.spawns \in Nat /\ used.runs \in Nat /\ used.silences \in Nat
      /\ used.runs <= MaxRuns /\ MaxRuns \in Nat /\ crash_count \in Nat
  BY OrchestratorAssumption DEF TypeOK
<1>2. is_alive \in BOOLEAN /\ spawner \in BOOLEAN
  BY DEF TypeOK
<1>3. Woken \in Nat
  BY <1>1, <1>2 DEF Woken, CrashInv
<1> QED BY <1>1, <1>2, <1>3, Products

\* No more monitors suspect than have been started.
LEMMA SuspectsBound ==
    ASSUME TypeOK, CrashInv
    PROVE  /\ IsFiniteSet(Suspects)
           /\ Cardinality(Suspects) \in Nat
           /\ Cardinality(Suspects) <= used.runs
<1>1. /\ used.runs \in Nat /\ MaxRuns \in Nat
  BY CrashTypes
<1>2. Suspects \subseteq 1 .. used.runs
  BY <1>1 DEF Suspects, CrashInv
<1>3. IsFiniteSet(1 .. used.runs) /\ Cardinality(1 .. used.runs) = used.runs
  BY <1>1, FS_Interval
<1> QED BY <1>2, <1>3, FS_Subset, FS_CardinalityType

\* Steps that touch nothing CrashInv is about keep it.
LEMMA CrashUnchanged ==
    ASSUME CrashInv, UNCHANGED crashState
    PROVE  CrashInv'
BY DEF CrashInv, crashState, Suspects, Woken

\* Every step of every actor keeps CrashInv.
LEMMA CrashStep == TypeOK /\ CrashInv /\ [Next]_vars => CrashInv'
<1> SUFFICES ASSUME TypeOK, CrashInv, [Next]_vars PROVE CrashInv'
  OBVIOUS
<1> DEFINE C == Cardinality(Suspects)
           C1 == Cardinality(Suspects')
<1>t. /\ used.spawns \in Nat /\ used.runs \in Nat /\ used.silences \in Nat
      /\ used.runs <= MaxRuns /\ MaxRuns \in Nat
      /\ crash_count \in Nat /\ Woken \in Nat
      /\ is_alive \in BOOLEAN /\ spawner \in BOOLEAN
      /\ Woken * used.runs \in Nat
  BY CrashTypes
<1>f. IsFiniteSet(Suspects) /\ C \in Nat /\ C <= used.runs
  BY SuspectsBound
<1>m. monitor \in [1 .. MaxRuns -> {"off", "sleep", "suspect", "trigger", "reason"}]
  BY DEF TypeOK
<1>d. DOMAIN used = {"cmds", "spawns", "runs", "late", "silences", "barred"}
  BY DEF TypeOK
<1>i. /\ spawner => used.spawns >= 1
      /\ \A r \in 1 .. MaxRuns : r > used.runs => monitor[r] = "off"
      /\ crash_count + (IF is_alive THEN C ELSE 0) <= used.silences + Woken * used.runs
  BY DEF CrashInv
<1>1. CASE Run
  <2>1. /\ used'.runs = used.runs + 1 /\ used'.silences = used.silences
        /\ used'.spawns = used.spawns /\ Woken' = Woken
        /\ crash_count' = crash_count /\ is_alive' = is_alive /\ spawner' = spawner
    BY <1>1, <1>d DEF Run, backVars, Woken
  <2>2. Suspects' = Suspects
    BY <1>1, <1>m, <1>i, <1>t, SMTT(30) DEF Run, Suspects
  <2>3. \A r \in 1 .. MaxRuns : r > used'.runs => monitor'[r] = "off"
    BY <1>1, <1>m, <1>i, <1>t, <2>1 DEF Run
  <2>4. Woken * (used.runs + 1) = Woken * used.runs + Woken
    BY <1>t, Products
  <2> QED BY <1>t, <1>f, <1>i, <2>1, <2>2, <2>3, <2>4 DEF CrashInv
<1>2. CASE Stop
  <2>1. /\ UNCHANGED <<monitor, crash_count, spawner, used>>
        /\ is_alive' = FALSE \/ is_alive' = is_alive
    BY <1>2 DEF Stop
  <2>2. Suspects' = Suspects /\ Woken' = Woken
    BY <2>1 DEF Suspects, Woken
  <2> QED BY <1>t, <1>f, <1>i, <2>1, <2>2 DEF CrashInv
<1>3. CASE Spawn
  <2>1. /\ UNCHANGED <<monitor, crash_count, is_alive>>
        /\ ~spawner /\ spawner' = TRUE
        /\ used'.spawns = used.spawns + 1
        /\ used'.silences = used.silences /\ used'.runs = used.runs
    BY <1>3, <1>d DEF Spawn
  <2>2. Suspects' = Suspects /\ Woken' = Woken
    BY <2>1, <1>t DEF Suspects, Woken
  <2> QED BY <1>t, <1>f, <1>i, <2>1, <2>2 DEF CrashInv
<1>4. CASE SpawnAlive
  <2>1. /\ UNCHANGED <<monitor, crash_count, used>>
        /\ spawner /\ spawner' = FALSE /\ is_alive' = TRUE
    BY <1>4 DEF SpawnAlive
  <2>2. Suspects' = Suspects /\ Woken' = Woken + 1
    BY <2>1, <1>t DEF Suspects, Woken
  <2>3. (Woken + 1) * used.runs = Woken * used.runs + used.runs
    BY <1>t, Products
  <2> QED BY <1>t, <1>f, <1>i, <2>1, <2>2, <2>3 DEF CrashInv
<1>5. ASSUME NEW r \in 1 .. MaxRuns, MonitorPoll(r) PROVE CrashInv'
  <2>1. /\ UNCHANGED <<is_alive, crash_count, spawner>> /\ Woken' = Woken
        /\ used'.spawns = used.spawns /\ used'.runs = used.runs
        /\ used'.silences = IF ~triggered /\ is_alive /\ ~check_health
                            THEN used.silences + 1 ELSE used.silences
    BY <1>5, <1>d DEF MonitorPoll, backVars, Woken
  <2>2. \A q \in 1 .. MaxRuns : q > used.runs => monitor'[q] = "off"
    BY <1>5, <1>m, <1>i, <1>t DEF MonitorPoll
  <2>3. CASE triggered \/ check_health
    <3>1. Suspects' = Suspects
      BY <1>5, <1>m, <2>3 DEF MonitorPoll, Suspects
    <3>2. used'.silences = used.silences
      BY <2>1, <2>3
    <3> QED BY <1>t, <1>f, <1>i, <2>1, <2>2, <3>1, <3>2 DEF CrashInv
  <2>4. CASE ~triggered /\ ~check_health
    <3>1. Suspects' = Suspects \cup {r} /\ r \notin Suspects
      BY <1>5, <1>m, <2>4 DEF MonitorPoll, Suspects
    <3>2. C1 = C + 1
      BY <1>f, <3>1, FS_AddElement
    <3>3. is_alive => used'.silences = used.silences + 1
      BY <2>1, <2>4
    <3>4. ~is_alive => used'.silences = used.silences
      BY <2>1
    <3> QED BY <1>t, <1>f, <1>i, <2>1, <2>2, <3>2, <3>3, <3>4 DEF CrashInv
  <2> QED BY <2>3, <2>4
<1>6. ASSUME NEW r \in 1 .. MaxRuns, MonitorCount(r) PROVE CrashInv'
  <2>1. /\ UNCHANGED <<is_alive, spawner, used>> /\ Woken' = Woken
        /\ crash_count' = IF is_alive THEN crash_count + 1 ELSE crash_count
    BY <1>6 DEF MonitorCount, Woken
  <2>2. \A q \in 1 .. MaxRuns : q > used.runs => monitor'[q] = "off"
    BY <1>6, <1>m, <1>i, <1>t DEF MonitorCount
  <2>3. Suspects' = Suspects \ {r} /\ r \in Suspects
    BY <1>6, <1>m DEF MonitorCount, Suspects
  <2>4. C1 = C - 1
    BY <1>f, <2>3, FS_RemoveElement
  <2> QED BY <1>t, <1>f, <1>i, <2>1, <2>2, <2>4 DEF CrashInv
<1>7. ASSUME NEW r \in 1 .. MaxRuns, MonitorTrigger(r) \/ MonitorReason(r) PROVE CrashInv'
  <2>1. UNCHANGED <<is_alive, spawner, used, crash_count>> /\ Woken' = Woken
    BY <1>7 DEF MonitorTrigger, MonitorReason, backVars, Woken
  <2>2. \A q \in 1 .. MaxRuns : q > used.runs => monitor'[q] = "off"
    BY <1>7, <1>m, <1>i, <1>t DEF MonitorTrigger, MonitorReason
  <2>3. Suspects' = Suspects
    BY <1>7, <1>m DEF MonitorTrigger, MonitorReason, Suspects
  <2> QED BY <1>t, <1>f, <1>i, <2>1, <2>2, <2>3 DEF CrashInv
<1>8. ASSUME \/ Loop \/ RecvTimeout \/ Recv \/ Check \/ Emit \/ Warmup \/ WarmupStore
             \/ IpcInit \/ HandoffBegin \/ HandoffPoll \/ HandoffAgain \/ HandoffTimeout
             \/ PreLiveBegin \/ PreLiveCheck \/ GoLive \/ Fail \/ StopSend \/ StopChild
             \/ HealthCheck \/ MarkReady \/ Silence \/ UpdateHeartbeat \/ Receive
             \/ Abort \/ ResetKill
      PROVE  CrashInv'
  <2>1. UNCHANGED crashState
    BY <1>8, <1>d DEF crashState, mainRest, backVars, mainState, abort,
       Loop, RecvTimeout, Recv, Check, Emit, Warmup, WarmupStore, IpcInit,
       HandoffBegin, HandoffPoll, HandoffAgain, HandoffTimeout, PreLiveBegin, PreLiveCheck,
       GoLive, Fail, StopSend, StopChild, HealthCheck, MarkReady, Silence, UpdateHeartbeat,
       Receive, Abort, ResetKill
  <2> QED BY <2>1, CrashUnchanged
<1>9. CASE UNCHANGED vars
  <2>1. UNCHANGED crashState
    BY <1>9 DEF vars, crashState, backVars
  <2> QED BY <2>1, CrashUnchanged
<1> QED BY <1>1, <1>2, <1>3, <1>4, <1>5, <1>6, <1>7, <1>8, <1>9
     DEF Next, Main, Monitor, Environment

\* record_crash() is called at most once for each heartbeat found too old and
\* for each monitor under which a backend was spawned: stopping a backend is
\* never counted as a crash, whichever way the two readings of is_alive fall.
THEOREM CrashesJustifiedHold == Spec => []CrashesJustified
<1>1. Init => CrashInv
  <2> SUFFICES ASSUME Init PROVE CrashInv
    OBVIOUS
  <2>1. Woken = 0 /\ is_alive = FALSE /\ crash_count = 0 /\ used.silences = 0 /\ used.runs = 0
    BY DEF Init, Woken
  <2>2. spawner = FALSE /\ \A r \in 1 .. MaxRuns : monitor[r] = "off"
    BY DEF Init
  <2> QED BY <2>1, <2>2 DEF CrashInv
<1>2. TypeOK /\ CrashInv => CrashesJustified
  <2> SUFFICES ASSUME TypeOK, CrashInv PROVE CrashesJustified
    OBVIOUS
  <2>1. /\ used.spawns \in Nat /\ used.runs \in Nat /\ used.silences \in Nat
        /\ crash_count \in Nat /\ Woken \in Nat
        /\ is_alive \in BOOLEAN /\ spawner \in BOOLEAN
        /\ Woken * used.runs \in Nat
    BY CrashTypes
  <2>2. crash_count <= used.silences + Woken * used.runs
    BY <2>1, SuspectsBound DEF CrashInv
  <2>3. Woken * used.runs <= used.spawns * used.runs
    <3>1. CASE ~spawner
      BY <2>1, <3>1 DEF Woken
    <3>2. CASE spawner
      <4>1. used.spawns = Woken + 1
        BY <2>1, <3>2 DEF Woken
      <4> QED BY <2>1, <4>1, Products
    <3> QED BY <3>1, <3>2
  <2>4. used.spawns * used.runs \in Nat
    BY <2>1, Products
  <2> QED BY <2>1, <2>2, <2>3, <2>4 DEF CrashesJustified
<1> QED BY <1>1, <1>2, TypeInit, TypeStep, CrashStep, PTL DEF Spec
=============================================================================
