---------------------------- MODULE SafetySystem ----------------------------
(***************************************************************************)
(* safety/mod.rs: the SafetySystem that joins the kill switch and the      *)
(* CircuitBreakerManager's three breakers, and the SafeExecutionGateway in *)
(* front of the exchange, whose threads submit orders while control        *)
(* threads kill, trip, reset, activate and shut down.                      *)
(*                                                                         *)
(* A call on the kill switch or on one breaker is one step here; what may  *)
(* happen inside such a call is the subject of KillSwitch and              *)
(* CircuitBreaker.  Interleaved are the calls and stores each handler      *)
(* makes one after the other, and the five tests of is_trading_allowed().  *)
(* Whether a recorded error, rejection or equity trips its breaker, and    *)
(* whether a cooldown has expired, is left open.                           *)
(***************************************************************************)
EXTENDS Integers, FiniteSets, Sequences

CONSTANTS
    Control,                 \* threads that call the SafetySystem
    Gateways,                \* threads that call submit_order()
    auto_kill_on_breaker, enable_ui_kill, auto_recovery,   \* the configuration
    ControlOps,              \* the handlers the control threads use
    MaxCalls,                \* handler calls of all control threads (a bound)
    MaxOrders                \* orders each gateway thread submits (a bound)

Breakers == {"main", "api", "volatility"}

\* The causes for which trading stands still.
Causes == {"inactive", "killed"} \cup Breakers

\* The calls each handler makes, in order.  "win" is a trigger() whose result
\* is tested, "kill" one whose result is dropped.
Handler ==
    [ui_kill    |-> IF enable_ui_kill THEN <<"win", "event">> ELSE <<>>,
     panic      |-> <<"win", "event">>,
     equity     |-> IF auto_kill_on_breaker THEN <<"trip_main", "flag", "event", "kill">>
                    ELSE <<"trip_main", "flag", "event">>,
     api_error  |-> <<"trip_api", "flag">>,
     rejection  |-> <<"trip_main", "flag", "event">>,
     reset      |-> <<"cooled", "unkill", "close_main", "close_api",
                      "close_volatility", "unflag">>,
     activate   |-> <<"on", "unkill">>,
     deactivate |-> <<"off">>,
     emergency  |-> <<"kill", "off">>]

\* The calls a handler makes on one breaker.
TripCall == [main |-> "trip_main", api |-> "trip_api"]
CloseCall == [main |-> "close_main", api |-> "close_api", volatility |-> "close_volatility"]

ASSUME SafetyAssumption ==
    /\ ControlOps \subseteq DOMAIN Handler
    /\ {auto_kill_on_breaker, enable_ui_kill, auto_recovery} \subseteq BOOLEAN
    /\ MaxCalls \in Nat /\ MaxOrders \in Nat

VARIABLES
    is_active, safety_events,      \* SafetySystem
    kill_flag,                     \* kill_switch
    breaker, any_tripped,          \* circuit_breakers: states, and the flag
    submitted, refused,            \* SafeExecutionGateway's counters
    todo,                          \* per control thread: calls left to make
    gpc,                           \* per gateway thread: the next test
    calls, orders,                 \* handler calls; orders tried per gateway
    late                           \* history, see LateOrders

control == <<todo, calls>>
gateway == <<submitted, refused, gpc, orders>>
vars == <<is_active, safety_events, kill_flag, breaker, any_tripped,
          control, gateway, late>>

GPC == {"idle", "killed?", "main?", "api?", "volatility?", "count"}

\* No breaker is ever put in the state Cooldown.
TypeOK ==
    /\ {is_active, kill_flag, any_tripped} \subseteq BOOLEAN
    /\ breaker \in [Breakers -> {"Closed", "Open", "HalfOpen"}]
    /\ {safety_events, submitted, refused, calls} \subseteq Nat
    /\ DOMAIN todo = Control /\ gpc \in [Gateways -> GPC]
    /\ orders \in [Gateways -> 0 .. MaxOrders]
    /\ late \in [Gateways -> [Causes -> Nat]]

Init ==
    /\ is_active = TRUE /\ safety_events = 0
    /\ kill_flag = FALSE
    /\ breaker = [b \in Breakers |-> "Closed"] /\ any_tripped = FALSE
    /\ submitted = 0 /\ refused = 0
    /\ todo = [c \in Control |-> <<>>] /\ gpc = [g \in Gateways |-> "idle"]
    /\ calls = 0 /\ orders = [g \in Gateways |-> 0]
    /\ late = [g \in Gateways |-> [x \in Causes |-> 0]]

\* The causes that hold.
Stopped == {x \in Causes : CASE x = "inactive" -> ~is_active
                             [] x = "killed" -> kill_flag
                             [] OTHER -> breaker[x] = "Open"}

\* History, of every step: the orders a gateway let through since each cause
\* holds.
Observe ==
    late' = [g \in Gateways |-> [x \in Causes |->
               IF x \notin Stopped' THEN 0
               ELSE IF gpc[g] = "count" /\ gpc'[g] = "idle" THEN late[g][x] + 1
               ELSE late[g][x]]]

-----------------------------------------------------------------------------
(* The control threads                                                      *)

Call(c, op) ==
    /\ todo[c] = <<>> /\ calls < MaxCalls
    /\ todo' = [todo EXCEPT ![c] = Handler[op]]
    /\ calls' = calls + 1
    /\ UNCHANGED <<is_active, safety_events, kill_flag, breaker, any_tripped,
                   gateway>>

\* The next call of c's handler; afterwards the handler goes on, or returns.
Do(c, call, goesOn) ==
    /\ todo[c] # <<>> /\ Head(todo[c]) = call
    /\ todo' = [todo EXCEPT ![c] = IF goesOn THEN Tail(@) ELSE <<>>]
    /\ UNCHANGED <<calls, gateway>>

\* kill_switch.trigger(..) returns true only if the flag was not set.
Trigger(c) ==
    /\ Do(c, "win", ~kill_flag) \/ Do(c, "kill", TRUE)
    /\ kill_flag' = TRUE
    /\ UNCHANGED <<is_active, safety_events, breaker, any_tripped>>

record_safety_event(c) ==
    /\ Do(c, "event", TRUE)
    /\ safety_events' = safety_events + 1
    /\ UNCHANGED <<is_active, kill_flag, breaker, any_tripped>>

\* The breaker trips and returns an event, or returns None.
Trip(c, b) ==
    /\ \/ Do(c, TripCall[b], TRUE) /\ breaker' = [breaker EXCEPT ![b] = "Open"]
       \/ Do(c, TripCall[b], FALSE) /\ UNCHANGED breaker
    /\ UNCHANGED <<is_active, safety_events, kill_flag, any_tripped>>

\* A manager that forgets to report a trip (a mutated form of FlagTripped).
Bug_TripNotReported(c) ==
    /\ Do(c, "flag", TRUE)
    /\ UNCHANGED <<is_active, safety_events, kill_flag, breaker, any_tripped>>

FlagTripped(c) ==
    /\ Do(c, "flag", TRUE)
    /\ any_tripped' = TRUE
    /\ UNCHANGED <<is_active, safety_events, kill_flag, breaker>>

\* reset(): returns false before the kill switch's cooldown is over.
ResetTest(c) ==
    /\ Do(c, "cooled", TRUE) \/ Do(c, "cooled", FALSE)
    /\ UNCHANGED <<is_active, safety_events, kill_flag, breaker, any_tripped>>

\* kill_switch.reset(), also as the last step of arm().
Unkill(c) ==
    /\ Do(c, "unkill", TRUE)
    /\ kill_flag' = FALSE
    /\ UNCHANGED <<is_active, safety_events, breaker, any_tripped>>

CloseBreaker(c, b) ==
    /\ Do(c, CloseCall[b], TRUE)
    /\ breaker' = [breaker EXCEPT ![b] = "Closed"]
    /\ UNCHANGED <<is_active, safety_events, kill_flag, any_tripped>>

UnflagTripped(c) ==
    /\ Do(c, "unflag", TRUE)
    /\ any_tripped' = FALSE
    /\ UNCHANGED <<is_active, safety_events, kill_flag, breaker>>

SetActive(c, call, to) ==
    /\ Do(c, call, TRUE)
    /\ is_active' = to
    /\ UNCHANGED <<safety_events, kill_flag, breaker, any_tripped>>

-----------------------------------------------------------------------------
(* submit_order(): the tests of is_trading_allowed(), then the counters     *)

\* A test leads to the next one, or to orders_rejected_safety.
Test(g, from, to, passes) ==
    /\ gpc[g] = from
    /\ gpc' = [gpc EXCEPT ![g] = IF passes THEN to ELSE "idle"]
    /\ refused' = IF passes THEN refused ELSE refused + 1
    /\ UNCHANGED <<is_active, safety_events, kill_flag, any_tripped, submitted,
                   control>>

SubmitStart(g) ==
    /\ orders[g] < MaxOrders
    /\ orders' = [orders EXCEPT ![g] = @ + 1]
    /\ Test(g, "idle", "killed?", is_active)
    /\ UNCHANGED breaker

\* A gateway that does not look at the kill switch (a mutated form of
\* SubmitKilled).
Bug_IgnoresKill(g) ==
    /\ Test(g, "killed?", "main?", TRUE)
    /\ UNCHANGED <<breaker, orders>>

SubmitKilled(g) ==
    /\ Test(g, "killed?", "main?", ~kill_flag)
    /\ UNCHANGED <<breaker, orders>>

\* One breaker's is_trading_allowed(): with auto_recovery an open breaker whose
\* cooldown has expired becomes HalfOpen and allows.
SubmitBreaker(g, b, from, to) ==
    /\ \/ /\ Test(g, from, to, breaker[b] # "Open")
          /\ UNCHANGED breaker
       \/ /\ breaker[b] = "Open" /\ auto_recovery
          /\ Test(g, from, to, TRUE)
          /\ breaker' = [breaker EXCEPT ![b] = "HalfOpen"]
    /\ UNCHANGED orders

SubmitCount(g) ==
    /\ gpc[g] = "count"
    /\ gpc' = [gpc EXCEPT ![g] = "idle"]
    /\ submitted' = submitted + 1
    /\ UNCHANGED <<is_active, safety_events, kill_flag, breaker, any_tripped,
                   refused, orders, control>>

-----------------------------------------------------------------------------
ControlStep(c) ==
    \/ \E op \in ControlOps : Call(c, op)
    \/ Trigger(c) \/ record_safety_event(c)
    \/ Trip(c, "main") \/ Trip(c, "api") \/ FlagTripped(c)
    \/ ResetTest(c) \/ Unkill(c) \/ UnflagTripped(c)
    \/ \E b \in Breakers : CloseBreaker(c, b)
    \/ SetActive(c, "on", TRUE) \/ SetActive(c, "off", FALSE)

GatewayStep(g) ==
    \/ SubmitStart(g) \/ SubmitKilled(g)
    \/ SubmitBreaker(g, "main", "main?", "api?")
    \/ SubmitBreaker(g, "api", "api?", "volatility?")
    \/ SubmitBreaker(g, "volatility", "volatility?", "count")
    \/ SubmitCount(g)

Next ==
    \/ \E c \in Control : ControlStep(c) /\ Observe
    \/ \E g \in Gateways : GatewayStep(g) /\ Observe

Spec == Init /\ [][Next]_vars

-----------------------------------------------------------------------------
(* Properties                                                               *)

Quiet == \A c \in Control : todo[c] = <<>>

\* As long as one cause (a kill, an open breaker, a deactivation) holds without
\* interruption, each gateway thread lets at most one order through: the one
\* whose check was already past the test of that cause.
LateOrders == \A g \in Gateways, x \in Causes : late[g][x] <= 1

\* When all handlers have returned, the status report does not hide an open
\* breaker: the manager's any_tripped is set.
TrippedIsReported ==
    Quiet /\ (\E b \in Breakers : breaker[b] = "Open") => any_tripped

=============================================================================
