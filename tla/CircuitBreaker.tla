--------------------------- MODULE CircuitBreaker ---------------------------
(***************************************************************************)
(* One CircuitBreaker of safety/circuit_breaker.rs, called by several      *)
(* threads through &self.  One action is one atomic access together with   *)
(* the local computation that follows it; a clock reading belongs to the   *)
(* access before the one that uses it.  Stores nobody reads back           *)
(* (current_equity, last_event) are part of the next access.               *)
(***************************************************************************)
EXTENDS Integers, FiniteSets, FiniteSetsExt

CONSTANTS
    Threads, Ops,        \* the callers and the operations they use
    Equities,            \* values given to update_equity()
    I64_MAX,             \* i64::MAX, above every equity
    max_drawdown_bps, max_api_errors, api_error_window,
    rejection_threshold_pct, cooldown,   \* BreakerConfig
    MinSample,           \* the sample size of the rejection test: 10
    MaxTime, MaxCalls    \* bounds: the clock, and the calls of all threads

AllOps == {"equity", "error", "submission", "rejection", "allowed", "reset",
           "disable", "enable"}

\* What is assumed of the constants.
BreakerConstants ==
    /\ Ops \subseteq AllOps
    /\ Equities \subseteq Nat /\ I64_MAX \in Nat
    /\ \A e \in Equities : e < I64_MAX
    /\ {max_drawdown_bps, max_api_errors, rejection_threshold_pct, cooldown,
        MinSample, MaxTime} \subseteq Nat \ {0}
    /\ api_error_window \in Nat /\ MaxCalls \in Nat

VARIABLES
    state, trip_count, last_trip, cooldown_end, peak_equity,
    api_error_count, window_start, orders_submitted, orders_rejected, enabled,
    auto_recovery,       \* of BreakerConfig, fixed when the breaker is made
    now,
    pc, reg,             \* per thread: place and a local value
    calls,               \* calls made by all threads
    best, errors         \* history: highest equity reported, errors up to each instant

breaker == <<state, trip_count, last_trip, cooldown_end, peak_equity,
             api_error_count, window_start, orders_submitted, orders_rejected,
             enabled>>
history == <<best, errors>>
vars == <<breaker, auto_recovery, now, pc, reg, calls, history>>

BreakerState == {"Closed", "Open", "HalfOpen", "Cooldown"}

PC == {"out", "q_peak", "q_test", "e_window", "e_start", "e_one", "e_add",
       "s_add", "j_add", "j_test", "tr_state", "tr_count", "tr_end",
       "a_state", "a_cool", "a_half", "r_state", "r_count", "r_orders",
       "r_window", "enabled?", "x_off", "x_on"}

ErrorsTyped == errors \in [0 .. MaxTime -> Nat]

TypeOK ==
    /\ state \in BreakerState
    /\ {trip_count, last_trip, cooldown_end, peak_equity, api_error_count,
        window_start, orders_submitted, orders_rejected, calls} \subseteq Nat
    /\ {enabled, auto_recovery} \subseteq BOOLEAN /\ now \in 1 .. MaxTime
    /\ pc \in [Threads -> PC]
    /\ reg \in [Threads -> [op : AllOps, val : Nat]]
    /\ ErrorsTyped

Init ==
    /\ state = "Closed" /\ trip_count = 0 /\ last_trip = 0 /\ cooldown_end = 0
    /\ peak_equity = I64_MAX
    /\ api_error_count = 0 /\ window_start = 1
    /\ orders_submitted = 0 /\ orders_rejected = 0 /\ enabled = TRUE
    /\ auto_recovery \in BOOLEAN
    /\ now = 1
    /\ pc = [c \in Threads |-> "out"]
    /\ reg \in [Threads -> {[op |-> "allowed", val |-> 0]}]
    /\ calls = 0
    /\ best = 0 /\ errors = [t \in 0 .. MaxTime |-> 0]

Go(c, from, to) ==
    /\ pc[c] = from
    /\ pc' = [pc EXCEPT ![c] = to]
    /\ UNCHANGED <<auto_recovery, now, calls>>

Let(c, v) == reg' = [reg EXCEPT ![c].val = v]
val(c) == reg[c].val

-----------------------------------------------------------------------------
\* Where an operation goes on after the test of `enabled' that opens
\* update_equity, record_api_error, record_order_rejection and
\* is_trading_allowed.
AfterEnabled(op) == CASE op = "equity" -> "q_peak" [] op = "error" -> "e_window"
                      [] op = "rejection" -> "j_add" [] op = "allowed" -> "a_state"

\* A disabled breaker returns None or false at once.  record_api_error reads
\* the clock here, and an error that counts enters the history.
EnabledTest(c) ==
    /\ Go(c, "enabled?", IF enabled THEN AfterEnabled(reg[c].op) ELSE "out")
    /\ IF reg[c].op = "error" /\ enabled
         THEN /\ Let(c, now)
              /\ errors' = [t \in 0 .. MaxTime |-> IF t < now THEN errors[t] ELSE errors[t] + 1]
         ELSE UNCHANGED <<reg, errors>>
    /\ best' = IF reg[c].op = "equity" /\ enabled THEN Max({best, val(c)}) ELSE best
    /\ UNCHANGED breaker

(* update_equity(val): current_equity is stored, the peak raised, the       *)
(* drawdown tested unless the peak is still i64::MAX.  No equity exceeds    *)
(* the initial peak, so its load and store need not be told apart.          *)

EquityPeak(c) ==
    /\ Go(c, "q_peak", "q_test")
    /\ peak_equity' = IF val(c) > peak_equity THEN val(c) ELSE peak_equity
    /\ UNCHANGED <<state, trip_count, last_trip, cooldown_end, api_error_count,
                   window_start, orders_submitted, orders_rejected, enabled,
                   reg, history>>

drawdown_bps(peak, equity) == ((peak - equity) * 10000) \div peak

EquityTest(c) ==
    /\ Go(c, "q_test",
          IF /\ peak_equity > 0 /\ peak_equity # I64_MAX
             /\ drawdown_bps(peak_equity, val(c)) >= max_drawdown_bps
          THEN "tr_state" ELSE "out")
    /\ UNCHANGED <<breaker, reg, history>>

-----------------------------------------------------------------------------
(* record_api_error(): val is the clock reading                             *)

\* A window that is over at once, its length taken for nanoseconds (a mutated
\* form of ErrorWindow).
Bug_WindowInNanos(c) ==
    /\ Go(c, "e_window", "e_start")
    /\ UNCHANGED <<breaker, reg, history>>

ErrorWindow(c) ==
    /\ Go(c, "e_window",
          IF val(c) - window_start > api_error_window THEN "e_start" ELSE "e_add")
    /\ UNCHANGED <<breaker, reg, history>>

ErrorStart(c) ==
    /\ Go(c, "e_start", "e_one")
    /\ window_start' = val(c)
    /\ UNCHANGED <<state, trip_count, last_trip, cooldown_end, peak_equity,
                   api_error_count, orders_submitted, orders_rejected, enabled,
                   reg, history>>

\* The first error of a window: the count is stored, not compared.
ErrorOne(c) ==
    /\ Go(c, "e_one", "out")
    /\ api_error_count' = 1
    /\ UNCHANGED <<state, trip_count, last_trip, cooldown_end, peak_equity,
                   window_start, orders_submitted, orders_rejected, enabled,
                   reg, history>>

ErrorAdd(c) ==
    /\ Go(c, "e_add",
          IF api_error_count + 1 >= max_api_errors THEN "tr_state" ELSE "out")
    /\ api_error_count' = api_error_count + 1
    /\ UNCHANGED <<state, trip_count, last_trip, cooldown_end, peak_equity,
                   window_start, orders_submitted, orders_rejected, enabled,
                   reg, history>>

-----------------------------------------------------------------------------
(* record_order_submission() and record_order_rejection()                   *)

Submission(c) ==
    /\ Go(c, "s_add", "out")
    /\ orders_submitted' = orders_submitted + 1
    /\ UNCHANGED <<state, trip_count, last_trip, cooldown_end, peak_equity,
                   api_error_count, window_start, orders_rejected, enabled,
                   reg, history>>

RejectionAdd(c) ==
    /\ Go(c, "j_add", "j_test")
    /\ orders_rejected' = orders_rejected + 1
    /\ Let(c, orders_rejected + 1)
    /\ UNCHANGED <<state, trip_count, last_trip, cooldown_end, peak_equity,
                   api_error_count, window_start, orders_submitted, enabled,
                   history>>

\* The percentage is cast to u8.
rejection_pct(rejected) == ((rejected * 100) \div orders_submitted) % 256

RejectionTest(c) ==
    /\ Go(c, "j_test",
          IF /\ orders_submitted >= MinSample
             /\ rejection_pct(val(c)) >= rejection_threshold_pct
          THEN "tr_state" ELSE "out")
    /\ UNCHANGED <<breaker, reg, history>>

-----------------------------------------------------------------------------
(* trip(): state, count and clock, cooldown end                             *)

TripState(c) ==
    /\ Go(c, "tr_state", "tr_count")
    /\ state' = "Open"
    /\ UNCHANGED <<trip_count, last_trip, cooldown_end, peak_equity,
                   api_error_count, window_start, orders_submitted,
                   orders_rejected, enabled, reg, history>>

TripCount(c) ==
    /\ Go(c, "tr_count", "tr_end")
    /\ trip_count' = trip_count + 1
    /\ last_trip' = now
    /\ Let(c, now)
    /\ UNCHANGED <<state, cooldown_end, peak_equity, api_error_count,
                   window_start, orders_submitted, orders_rejected, enabled,
                   history>>

\* A trip() that keeps the cooldown of an earlier trip (a mutated form of
\* TripEnd).
Bug_TripKeepsOldEnd(c) ==
    /\ Go(c, "tr_end", "out")
    /\ cooldown_end' = IF cooldown_end = 0 THEN val(c) + cooldown ELSE cooldown_end
    /\ UNCHANGED <<state, trip_count, last_trip, peak_equity, api_error_count,
                   window_start, orders_submitted, orders_rejected, enabled,
                   reg, history>>

TripEnd(c) ==
    /\ Go(c, "tr_end", "out")
    /\ cooldown_end' = val(c) + cooldown
    /\ UNCHANGED <<state, trip_count, last_trip, peak_equity, api_error_count,
                   window_start, orders_submitted, orders_rejected, enabled,
                   reg, history>>

-----------------------------------------------------------------------------
(* is_trading_allowed() moves an open breaker whose cooldown has expired to *)
(* HalfOpen if auto_recovery is configured.                                 *)

AllowedState(c) ==
    /\ Go(c, "a_state", IF state = "Open" THEN "a_cool" ELSE "out")
    /\ UNCHANGED <<breaker, reg, history>>

is_cooldown_expired == cooldown_end = 0 \/ now >= cooldown_end

AllowedCooldown(c) ==
    /\ Go(c, "a_cool",
          IF is_cooldown_expired /\ auto_recovery THEN "a_half" ELSE "out")
    /\ UNCHANGED <<breaker, reg, history>>

AllowedHalfOpen(c) ==
    /\ Go(c, "a_half", "out")
    /\ state' = "HalfOpen"
    /\ UNCHANGED <<trip_count, last_trip, cooldown_end, peak_equity,
                   api_error_count, window_start, orders_submitted,
                   orders_rejected, enabled, reg, history>>

-----------------------------------------------------------------------------
(* reset(), disable(), enable()                                             *)

ResetState(c) ==
    /\ Go(c, "r_state", "r_count")
    /\ state' = "Closed"
    /\ UNCHANGED <<trip_count, last_trip, cooldown_end, peak_equity,
                   api_error_count, window_start, orders_submitted,
                   orders_rejected, enabled, reg, history>>

ResetCount(c) ==
    /\ Go(c, "r_count", "r_orders")
    /\ api_error_count' = 0
    /\ errors' = [t \in 0 .. MaxTime |-> 0]
    /\ best' = 0
    /\ UNCHANGED <<state, trip_count, last_trip, cooldown_end, peak_equity,
                   window_start, orders_submitted, orders_rejected, enabled, reg>>

ResetOrders(c) ==
    /\ Go(c, "r_orders", "r_window")
    /\ orders_submitted' = 0 /\ orders_rejected' = 0
    /\ UNCHANGED <<state, trip_count, last_trip, cooldown_end, peak_equity,
                   api_error_count, window_start, enabled, reg, history>>

ResetWindow(c) ==
    /\ Go(c, "r_window", "out")
    /\ window_start' = now
    /\ UNCHANGED <<state, trip_count, last_trip, cooldown_end, peak_equity,
                   api_error_count, orders_submitted, orders_rejected, enabled,
                   reg, history>>

Enable(c, from, to) ==
    /\ Go(c, from, "out")
    /\ enabled' = to
    /\ UNCHANGED <<state, trip_count, last_trip, cooldown_end, peak_equity,
                   api_error_count, window_start, orders_submitted,
                   orders_rejected, reg, history>>

-----------------------------------------------------------------------------
Entry(op) == CASE op = "submission" -> "s_add" [] op = "reset" -> "r_state"
               [] op = "disable" -> "x_off" [] op = "enable" -> "x_on"
               [] OTHER -> "enabled?"

Call(c) ==
    /\ pc[c] = "out" /\ calls < MaxCalls
    /\ \E op \in Ops, e \in Equities :
         /\ pc' = [pc EXCEPT ![c] = Entry(op)]
         /\ reg' = [reg EXCEPT ![c] =
                      [op |-> op, val |-> IF op = "equity" THEN e ELSE 0]]
    /\ calls' = calls + 1
    /\ UNCHANGED <<breaker, auto_recovery, now, history>>

Tick ==
    /\ now < MaxTime
    /\ now' = now + 1
    /\ UNCHANGED <<breaker, auto_recovery, pc, reg, calls, history>>

Step(c) ==
    \/ Call(c) \/ EnabledTest(c) \/ EquityPeak(c) \/ EquityTest(c)
    \/ ErrorWindow(c) \/ ErrorStart(c) \/ ErrorOne(c) \/ ErrorAdd(c)
    \/ Submission(c) \/ RejectionAdd(c) \/ RejectionTest(c)
    \/ TripState(c) \/ TripCount(c) \/ TripEnd(c)
    \/ AllowedState(c) \/ AllowedCooldown(c) \/ AllowedHalfOpen(c)
    \/ ResetState(c) \/ ResetCount(c) \/ ResetOrders(c) \/ ResetWindow(c)
    \/ Enable(c, "x_off", FALSE) \/ Enable(c, "x_on", TRUE)

Next == (\E c \in Threads : Step(c)) \/ Tick

Spec == Init /\ [][Next]_vars

-----------------------------------------------------------------------------
(* Properties                                                               *)

Quiet == \A c \in Threads : pc[c] = "out"

\* Whatever calls race (errors, window resets, manual resets), a breaker whose
\* count has reached the limit is not left closed once the calls are over.
ErrorsTrip == Quiet /\ api_error_count >= max_api_errors => state # "Closed"

\* Without auto_recovery only a manual reset() ends a trip.
TripSticks ==
    state = "Open" /\ state' # "Open" /\ ~auto_recovery
      => \E c \in Threads : pc[c] = "r_state" /\ pc'[c] = "r_count"

\* "until manual intervention or cooldown expires": is_trading_allowed() lets a
\* tripped breaker recover no earlier than its cooldown after the last trip.
CooldownHonoured ==
    state = "Open" /\ state' = "HalfOpen" => now >= last_trip + cooldown

\* What the tumbling window really promises to a single caller: a breaker that
\* stays closed has seen at most 2 * (max_api_errors - 1) errors within any
\* api_error_window, those at the end of one window and the start of the next.
WindowBound ==
    Quiet /\ enabled /\ state = "Closed" /\ auto_recovery
      => \A t \in 1 .. now, u \in 1 .. now :
            t <= u /\ u - t <= api_error_window
              => errors[u] - errors[t - 1] <= 2 * (max_api_errors - 1)

\* A fall of max_drawdown_bps from the highest equity reported trips the
\* breaker.
DrawdownTrips ==
    \A c \in Threads :
        pc[c] = "out" /\ reg[c].op = "equity" /\ enabled /\ best > 0 /\ Quiet
          => drawdown_bps(best, val(c)) < max_drawdown_bps \/ state # "Closed"

=============================================================================
