------------------------------ MODULE MCSafety ------------------------------
(***************************************************************************)
(* The parts of safety/ on their own: the kill switch and the circuit      *)
(* breaker, access by access, and the safety system that combines them,    *)
(* call by call.  A behaviour runs one of them, the subject, under one of  *)
(* its patterns of use, and the others stay as they were created.          *)
(***************************************************************************)
EXTENDS MCSafetySystem

CONSTANTS
    Threads, Supervisor, K_Ops, NoSource, CancelsOrders, Orders, Cooldown, K_MaxTime,
    K_MaxCalls, K_MaxRaceCalls,
    Callers, Owner, B_Ops, RaceOps, Equities, I64_MAX, max_drawdown_bps, max_api_errors,
    api_error_window, rejection_threshold_pct, cooldown, MinSample, B_MaxTime, B_MaxCalls,
    B_MaxRaceCalls, MaxRaceTime

VARIABLES
    subject,
    k_flag, k_state, trigger_source, kill_count, orders_pending, orders_cancelled, is_armed,
    cooldown_start, k_now, k_pc, k_reg, k_calls, k_usage,
    b_state, trip_count, last_trip, cooldown_end, peak_equity, api_error_count,
    window_start, orders_submitted, orders_rejected, enabled, b_auto_recovery, b_now, b_pc,
    b_reg, b_calls, best, errors

K == INSTANCE MCKillSwitch WITH
        Ops <- K_Ops, MaxTime <- K_MaxTime, MaxCalls <- K_MaxCalls,
        MaxRaceCalls <- K_MaxRaceCalls,
        kill_flag <- k_flag, state <- k_state, now <- k_now, pc <- k_pc, reg <- k_reg,
        calls <- k_calls, usage <- k_usage

B == INSTANCE MCCircuitBreaker WITH
        Threads <- Callers, Ops <- B_Ops, MaxTime <- B_MaxTime, MaxCalls <- B_MaxCalls,
        MaxRaceCalls <- B_MaxRaceCalls, auto_recovery <- b_auto_recovery,
        state <- b_state, now <- b_now, pc <- b_pc, reg <- b_reg, calls <- b_calls

ASSUME PartsAssumption == K!KillSwitchConstants /\ B!BreakerConstants

\* Callers of the kill switch take turns, or race to trigger it.
ASSUME UsagesAssumption == Usages \subseteq {"serial", "race"}

svars == <<is_active, safety_events, kill_flag, breaker, any_tripped, submitted, refused,
           todo, gpc, calls, orders, late, usage>>
kvars == <<k_flag, k_state, trigger_source, kill_count, orders_pending, orders_cancelled,
           is_armed, cooldown_start, k_now, k_pc, k_reg, k_calls, k_usage>>
bvars == <<b_state, trip_count, last_trip, cooldown_end, peak_equity, api_error_count,
           window_start, orders_submitted, orders_rejected, enabled, b_auto_recovery, b_now,
           b_pc, b_reg, b_calls, best, errors>>

\* A part that is not the subject has one initial state.
PartsInit ==
    /\ subject \in {"kill", "breaker", "system"}
    /\ K!MCInit /\ (subject # "kill" => k_usage = "serial")
    /\ B!Init /\ (subject # "breaker" => b_auto_recovery)
    /\ MCInit /\ (subject # "system" => usage = "serial")

PartsNext ==
    /\ UNCHANGED subject
    /\ \/ subject = "kill" /\ K!MCNext /\ UNCHANGED <<bvars, svars>>
       \/ subject = "breaker" /\ B!MCNext /\ UNCHANGED <<kvars, svars>>
       \/ subject = "system" /\ MCNext /\ UNCHANGED <<kvars, bvars>>

PartsSpec == PartsInit /\ [][PartsNext]_<<subject, kvars, bvars, svars>>

-----------------------------------------------------------------------------
\* For a supervisor that makes one call at a time: between its calls the state
\* the kill switch reports and the flag that stops trading agree, and the pending
\* count is exact.  Whoever calls, no time stamp of the switch is in the future.
KillConsistent == K!TypeOK /\ K!SerialStateMatchesFlag /\ K!SerialPendingExact

\* Of racing calls of trigger() none returns before trading is stopped.
KillRaceLatched == K!RaceLatched

\* SafetySystem::reset() gives trading back no earlier than the cooldown after
\* the last kill.
KillCooldown == [][K!CooldownRespected]_kvars

\* Whatever calls race, a breaker whose error count has reached the limit is not
\* left closed once they are over, and a breaker that stays closed has seen a
\* bounded number of errors in any window.
BreakerErrors == B!TypeOK /\ B!ErrorsTrip /\ B!WindowBound

\* Without auto_recovery only reset() ends a trip; with it, and one caller, a
\* tripped breaker recovers only after its cooldown.
BreakerRecovery == [][B!TripSticks /\ B!CooldownHonoured]_bvars
=============================================================================
