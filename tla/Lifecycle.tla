------------------------------ MODULE Lifecycle ------------------------------
(***************************************************************************)
(* The lifecycle manager of orchestrator/lifecycle.rs, and the orchestrator *)
(* of orch_mod.rs that ties it to the global kill flag and to the hardware *)
(* monitor.  The state and the confirmation have a mutex each; a call that *)
(* takes them in turn, or reads a flag in between, has a step for each.    *)
(*                                                                         *)
(* emergency_halt() forces down the lifecycle of init_lifecycle(), which   *)
(* is not the orchestrator's: here it only sets the kill flag, as the      *)
(* hardware monitor does.                                                  *)
(***************************************************************************)
EXTENDS Integers

CONSTANTS Callers

VARIABLES
    state, confirm,     \* current_state and shutdown_confirm
    force,              \* force_shutdown
    pause_enabled,
    killed,             \* GLOBAL_KILL_SWITCH
    hw_enabled, hw,     \* HW_MONITORING_ENABLED; the thread is running
    handle,             \* hw_monitor_handle holds its JoinHandle
    over,               \* MEMORY_USAGE_BYTES > MAX_MEMORY_BYTES
    call,               \* the call each caller is in: its step
    found,              \* ghost: the state at the start of that call
    authorised          \* ghost: a shutdown was confirmed, forced or called for

lcVars == <<state, confirm, force, pause_enabled, killed, hw_enabled, hw, handle,
            over, call, found, authorised>>
hwVars == <<hw_enabled, hw, handle, over>>

States == {"Idle", "Initializing", "Warmup", "HotStandby", "Live", "Paused",
           "ShuttingDown", "Terminated"}

LcTypeOK ==
    /\ state \in States /\ found \in [Callers -> States]
    /\ confirm \in {"Pending", "Confirmed", "Cancelled"}
    /\ {force, pause_enabled, killed, hw_enabled, hw, handle, over, authorised}
          \subseteq BOOLEAN
    /\ call \in [Callers -> {"idle", "confirmed", "kill", "forced", "requested",
                             "transition", "pend", "killed", "join", "no handle", "down",
                             "terminate", "shut"}]

LcInit ==
    /\ state = "Idle" /\ confirm = "Pending" /\ force = FALSE /\ pause_enabled = TRUE
    /\ killed = FALSE /\ hw_enabled = TRUE /\ hw = FALSE /\ handle = FALSE /\ over = FALSE
    /\ call = [c \in Callers |-> "idle"]
    /\ found = [c \in Callers |-> "Idle"]
    /\ authorised = FALSE

\* A paused system cannot be shut down (a mutated form).
Bug_PausedStays ==
    {<<"Idle", "Initializing">>, <<"Initializing", "Warmup">>, <<"Warmup", "HotStandby">>,
     <<"HotStandby", "Live">>, <<"HotStandby", "ShuttingDown">>,
     <<"Live", "Paused">>, <<"Live", "ShuttingDown">>,
     <<"Paused", "Live">>, <<"ShuttingDown", "Terminated">>}

\* validate_transition().
Valid ==
    {<<"Idle", "Initializing">>, <<"Initializing", "Warmup">>, <<"Warmup", "HotStandby">>,
     <<"HotStandby", "Live">>, <<"HotStandby", "ShuttingDown">>,
     <<"Live", "Paused">>, <<"Live", "ShuttingDown">>,
     <<"Paused", "Live">>, <<"Paused", "ShuttingDown">>,
     <<"ShuttingDown", "Terminated">>}

\* transition_to(), under the mutex; an invalid one is an error and no change.
transition_to(target) == state' = IF <<state, target>> \in Valid THEN target ELSE state

Is(c, label) == call[c] = label
To(c, label) == call' = [call EXCEPT ![c] = label]
Begin(c, label) == /\ state # "Idle" /\ Is(c, "idle")
                   /\ To(c, label) /\ found' = [found EXCEPT ![c] = state]

-----------------------------------------------------------------------------
(* Plain transitions.                                                       *)

\* init() with start_hw_monitoring(), before the orchestrator is published.
InitSystem ==
    /\ state = "Idle"
    /\ transition_to("Initializing")
    /\ hw' = hw_enabled /\ handle' = hw_enabled
    /\ UNCHANGED <<confirm, force, pause_enabled, killed, hw_enabled, over, call, found,
                   authorised>>

\* The caller that brings the system up, and resume().
Transition(c) ==
    /\ Is(c, "idle")
    /\ \E target \in {"Warmup", "HotStandby", "Live"} :
        /\ <<state, target>> \in Valid
        /\ transition_to(target)
    /\ UNCHANGED <<confirm, force, pause_enabled, killed, hwVars, call, found, authorised>>

\* pause(), which is refused before it looks at the state when it is disabled.
Pause(c) ==
    /\ Is(c, "idle") /\ pause_enabled
    /\ <<state, "Paused">> \in Valid
    /\ transition_to("Paused")
    /\ UNCHANGED <<confirm, force, pause_enabled, killed, hwVars, call, found, authorised>>

SetPauseEnabled ==
    /\ pause_enabled' = ~pause_enabled
    /\ UNCHANGED <<state, confirm, force, killed, hwVars, call, found, authorised>>

-----------------------------------------------------------------------------
(* request_shutdown(), confirm_shutdown(), force_shutdown() and             *)
(* activate_kill_switch().                                                  *)

RequestShutdown(c) ==
    /\ Begin(c, "requested")
    /\ UNCHANGED <<state, confirm, force, pause_enabled, killed, hwVars, authorised>>

ActivateKillSwitch(c) ==
    /\ Begin(c, "kill")
    /\ killed' = TRUE
    /\ UNCHANGED <<state, confirm, force, pause_enabled, hwVars, authorised>>

\* force_shutdown(), called by activate_kill_switch() or on its own.
ForceShutdown(c) ==
    /\ \/ Is(c, "kill") /\ To(c, "forced") /\ UNCHANGED found
       \/ Begin(c, "requested")
    /\ force' = TRUE /\ authorised' = TRUE
    /\ UNCHANGED <<state, confirm, pause_enabled, killed, hwVars>>

\* The state is read in request_shutdown(), then the flag.
RequestFlag(c) ==
    /\ Is(c, "requested") \/ Is(c, "forced")
    /\ To(c, CASE state = "Terminated" -> IF Is(c, "forced") THEN "killed" ELSE "idle"
               [] state # "Terminated" /\ force ->
                    IF Is(c, "forced") THEN "transition" ELSE "down"
               [] OTHER -> "pend")
    /\ UNCHANGED <<state, confirm, force, pause_enabled, killed, hwVars, found, authorised>>

RequestPending(c) ==
    /\ Is(c, "pend")
    /\ confirm' = "Pending"
    /\ To(c, "idle")
    /\ UNCHANGED <<state, force, pause_enabled, killed, hwVars, found, authorised>>

\* The transition of a kill (whose error is dropped), of a forced request and
\* of a confirmation.
DoTransition(c) ==
    /\ \/ Is(c, "transition") /\ To(c, "killed")
       \/ Is(c, "down") /\ To(c, "idle")
       \/ Is(c, "confirmed") /\ To(c, "idle")
    /\ transition_to("ShuttingDown")
    /\ UNCHANGED <<confirm, force, pause_enabled, killed, hwVars, found, authorised>>

ConfirmShutdown(c) ==
    /\ Begin(c, "confirmed")
    /\ confirm' = "Confirmed" /\ authorised' = TRUE
    /\ UNCHANGED <<state, force, pause_enabled, killed, hwVars>>

CancelShutdown(c) ==
    /\ state # "Idle" /\ Is(c, "idle")
    /\ confirm' = "Cancelled"
    /\ UNCHANGED <<state, force, pause_enabled, killed, hwVars, call, found, authorised>>

-----------------------------------------------------------------------------
(* The kill flag, the hardware monitor and shutdown().                      *)

EmergencyHalt ==
    /\ killed' = TRUE
    /\ UNCHANGED <<state, confirm, force, pause_enabled, hwVars, call, found, authorised>>

ResetKillSwitch ==
    /\ killed' = FALSE
    /\ UNCHANGED <<state, confirm, force, pause_enabled, hwVars, call, found, authorised>>

UpdateMemoryUsage ==
    /\ over' = ~over
    /\ UNCHANGED <<state, confirm, force, pause_enabled, killed, hw_enabled, hw, handle, call,
                   found, authorised>>

\* A round of the monitor: it ends when it is disabled, or after it has killed.
HwMonitor ==
    /\ hw
    /\ hw' = (hw_enabled /\ ~over)
    /\ killed' = (killed \/ (hw_enabled /\ over))
    /\ UNCHANGED <<state, confirm, force, pause_enabled, hw_enabled, handle, over, call, found,
                   authorised>>

\* shutdown(): disable the monitor and take its handle, which only the first
\* caller finds, ...
Shutdown(c) ==
    /\ Begin(c, IF handle THEN "join" ELSE "no handle")
    /\ hw_enabled' = FALSE /\ handle' = FALSE /\ authorised' = TRUE
    /\ UNCHANGED <<state, confirm, force, pause_enabled, killed, hw, over>>

\* ... join it, then the two transitions, each of which may fail.
ShutdownJoin(c) ==
    /\ (Is(c, "join") /\ ~hw) \/ Is(c, "no handle")
    /\ transition_to("ShuttingDown")
    /\ To(c, IF <<state, "ShuttingDown">> \in Valid THEN "terminate" ELSE "idle")
    /\ UNCHANGED <<confirm, force, pause_enabled, killed, hwVars, found, authorised>>

ShutdownTerminate(c) ==
    /\ Is(c, "terminate")
    /\ transition_to("Terminated")
    /\ To(c, "shut")
    /\ UNCHANGED <<confirm, force, pause_enabled, killed, hwVars, found, authorised>>

LcStep(c) ==
    \/ RequestFlag(c) \/ RequestPending(c) \/ DoTransition(c)
    \/ ShutdownJoin(c) \/ ShutdownTerminate(c)

LcNext ==
    \/ InitSystem \/ SetPauseEnabled \/ EmergencyHalt \/ ResetKillSwitch \/ UpdateMemoryUsage \/ HwMonitor
    \/ \E c \in Callers :
        \/ Transition(c) \/ Pause(c)
        \/ RequestShutdown(c) \/ ActivateKillSwitch(c) \/ ForceShutdown(c)
        \/ ConfirmShutdown(c) \/ CancelShutdown(c) \/ Shutdown(c)
        \/ LcStep(c)

-----------------------------------------------------------------------------
Down == {"ShuttingDown", "Terminated"}

\* activate_kill_switch() on a system that was ready, live or paused when it was
\* called has taken it down for good when it returns, whatever other callers
\* did meanwhile.  (On a system still starting it has no effect: the transition
\* is refused and the error dropped.)
KillTakesDown ==
    \A c \in Callers : Is(c, "killed") /\ found[c] \in {"HotStandby", "Live", "Paused"}
                          => state \in Down

\* No system goes down unless a shutdown was confirmed, forced or called for; a
\* request alone never does it.
DownAuthorised == state \in Down => authorised

\* A shutdown() that returned Ok has terminated the lifecycle, and has left no
\* hardware monitor behind that another shutdown() is not about to join.
ShutdownClean ==
    \A c \in Callers : Is(c, "shut")
        => state = "Terminated" /\ (~hw \/ \E d \in Callers : Is(d, "join"))
=============================================================================
