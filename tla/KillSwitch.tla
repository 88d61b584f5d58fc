----------------------------- MODULE KillSwitch -----------------------------
(***************************************************************************)
(* The GlobalKillSwitch of safety/kill_switch.rs: a set of independent     *)
(* atomics, changed by trigger(), the cancellation calls, reset(), arm(),  *)
(* disarm() and prepare_restart(), all through &self and without a lock.   *)
(*                                                                         *)
(* Threads call these operations at any time.  One action is one atomic    *)
(* access, except that stores nobody reads back (last_kill_ns,             *)
(* allow_restart) are part of the next access.  With CancelsOrders, a      *)
(* thread whose trigger() returned true cancels the open orders as         *)
(* test_cancellation_flow does: begin_cancellation(n),                     *)
(* record_cancellation() for every order, and then halt_trading().  `now'  *)
(* is the wall clock; it starts at 1, since the code takes a start of 0 to *)
(* mean "never killed".                                                    *)
(***************************************************************************)
EXTENDS Integers, FiniteSets

CONSTANTS
    Threads,      \* the callers
    Ops,          \* the operations the callers use, a subset of AllOps
    NoSource,     \* KillSource of a switch that was not triggered
    CancelsOrders,\* does the caller of a trigger() that wins cancel orders?
    Orders,       \* open orders to cancel after a kill
    Cooldown,     \* cooldown_ns
    MaxTime,      \* the clock stops there (a bound)
    MaxCalls      \* calls a thread makes (a bound)

AllOps == {"trigger", "reset", "activate", "prepare", "disarm"}

\* What is assumed of the constants.
KillSwitchConstants ==
    /\ Ops \subseteq AllOps /\ CancelsOrders \in BOOLEAN
    /\ Orders \in Nat \ {0} /\ Cooldown \in Nat \ {0}
    /\ MaxTime \in Nat \ {0} /\ MaxCalls \in Nat
    /\ NoSource \notin Threads

VARIABLES
    kill_flag, state, trigger_source, kill_count,
    orders_pending, orders_cancelled, is_armed, cooldown_start,
    now,
    pc,           \* where each thread is; "out" is outside the switch
    reg,          \* a local of each thread: a time stamp or a count
    calls         \* calls made by each thread

switch == <<kill_flag, state, trigger_source, kill_count,
            orders_pending, orders_cancelled, is_armed, cooldown_start>>
vars == <<switch, now, pc, reg, calls>>

KillState == {"Armed", "Triggered", "Cancelling", "Cancelled", "Halted",
              "Restarting"}

PC == {"out", "t_armed", "t_killed", "t_flag", "t_state", "t_source",
       "t_count", "t_cooldown", "b_state", "b_pending", "c_sub", "c_state",
       "h_state", "s_load", "s_test", "a_armed", "r_flag", "r_state",
       "r_source", "r_pending", "p_load", "p_test", "p_state", "d_armed"}

TypeOK ==
    /\ kill_flag \in BOOLEAN /\ is_armed \in BOOLEAN
    /\ state \in KillState
    /\ trigger_source \in Threads \cup {NoSource}
    /\ kill_count \in Nat
    /\ orders_pending \in Int   \* -k is the wrapped u64 value 2^64 - k
    /\ orders_cancelled \in Nat
    /\ cooldown_start \in 0 .. MaxTime /\ now \in 1 .. MaxTime
    /\ pc \in [Threads -> PC]
    /\ reg \in [Threads -> Int]
    /\ calls \in [Threads -> Nat]

Init ==
    /\ kill_flag = FALSE /\ state = "Armed" /\ trigger_source = NoSource
    /\ kill_count = 0 /\ orders_pending = 0 /\ orders_cancelled = 0
    /\ is_armed = TRUE /\ cooldown_start = 0
    /\ now = 1
    /\ pc = [c \in Threads |-> "out"]
    /\ reg = [c \in Threads |-> 0]
    /\ calls = [c \in Threads |-> 0]

\* Thread c moves from one label to another; the clock and the call count
\* stay as they are.
Go(c, from, to) ==
    /\ pc[c] = from
    /\ pc' = [pc EXCEPT ![c] = to]
    /\ UNCHANGED <<now, calls>>

Set(c, value) == reg' = [reg EXCEPT ![c] = value]

-----------------------------------------------------------------------------
(* trigger(source, ..); the source is named after the calling thread        *)

TriggerArmed(c) ==
    /\ Go(c, "t_armed", IF is_armed THEN "t_killed" ELSE "out")
    /\ UNCHANGED <<switch, reg>>

TriggerKilled(c) ==
    /\ Go(c, "t_killed", IF kill_flag THEN "out" ELSE "t_flag")
    /\ UNCHANGED <<switch, reg>>

\* A trigger() that does everything but set the flag (a mutated form of
\* TriggerFlag).
Bug_TriggerForgetsFlag(c) ==
    /\ Go(c, "t_flag", "t_state")
    /\ UNCHANGED <<switch, reg>>

TriggerFlag(c) ==
    /\ Go(c, "t_flag", "t_state")
    /\ kill_flag' = TRUE
    /\ UNCHANGED <<state, trigger_source, kill_count, orders_pending,
                   orders_cancelled, is_armed, cooldown_start, reg>>

TriggerState(c) ==
    /\ Go(c, "t_state", "t_source")
    /\ state' = "Triggered"
    /\ UNCHANGED <<kill_flag, trigger_source, kill_count, orders_pending,
                   orders_cancelled, is_armed, cooldown_start, reg>>

\* The source is stored and the clock is read.
TriggerSource(c) ==
    /\ Go(c, "t_source", "t_count")
    /\ trigger_source' = c
    /\ Set(c, now)
    /\ UNCHANGED <<kill_flag, state, kill_count, orders_pending,
                   orders_cancelled, is_armed, cooldown_start>>

TriggerCount(c) ==
    /\ Go(c, "t_count", "t_cooldown")
    /\ kill_count' = kill_count + 1
    /\ UNCHANGED <<kill_flag, state, trigger_source, orders_pending,
                   orders_cancelled, is_armed, cooldown_start, reg>>

\* The last store; trigger() returns true and its caller may start cancelling.
TriggerCooldown(c) ==
    /\ Go(c, "t_cooldown", IF CancelsOrders THEN "b_state" ELSE "out")
    /\ cooldown_start' = reg[c]
    /\ UNCHANGED <<kill_flag, state, trigger_source, kill_count,
                   orders_pending, orders_cancelled, is_armed, reg>>

-----------------------------------------------------------------------------
(* begin_cancellation(Orders), record_cancellation(), halt_trading()        *)

BeginState(c) ==
    /\ Go(c, "b_state", "b_pending")
    /\ state' = "Cancelling"
    /\ UNCHANGED <<kill_flag, trigger_source, kill_count, orders_pending,
                   orders_cancelled, is_armed, cooldown_start, reg>>

BeginPending(c) ==
    /\ Go(c, "b_pending", "c_sub")
    /\ orders_pending' = Orders
    /\ Set(c, Orders)          \* the orders c still has to cancel
    /\ UNCHANGED <<kill_flag, state, trigger_source, kill_count,
                   orders_cancelled, is_armed, cooldown_start>>

\* Where the caller goes after a record_cancellation(): to the next order, or
\* to halt_trading() after the last.
AfterCancel(c) == IF reg[c] = 1 THEN "h_state" ELSE "c_sub"

\* A record_cancellation() that is off by one in its test for the last order
\* (a mutated form of CancelSub).
Bug_LastButOne(c) ==
    /\ Go(c, "c_sub", IF orders_pending <= 2 THEN "c_state" ELSE AfterCancel(c))
    /\ orders_pending' = orders_pending - 1
    /\ orders_cancelled' = orders_cancelled + 1
    /\ reg' = IF orders_pending <= 2 THEN reg ELSE [reg EXCEPT ![c] = @ - 1]
    /\ UNCHANGED <<kill_flag, state, trigger_source, kill_count, is_armed,
                   cooldown_start>>

\* fetch_sub wraps, while `remaining' is computed with saturating_sub: it is
\* 0 for an old value of 1 and of 0.  Only then is the state stored.
CancelSub(c) ==
    /\ Go(c, "c_sub", IF orders_pending \in {0, 1} THEN "c_state" ELSE AfterCancel(c))
    /\ orders_pending' = orders_pending - 1
    /\ orders_cancelled' = orders_cancelled + 1
    /\ reg' = IF orders_pending \in {0, 1} THEN reg ELSE [reg EXCEPT ![c] = @ - 1]
    /\ UNCHANGED <<kill_flag, state, trigger_source, kill_count, is_armed,
                   cooldown_start>>

CancelState(c) ==
    /\ Go(c, "c_state", AfterCancel(c))
    /\ state' = "Cancelled"
    /\ Set(c, reg[c] - 1)
    /\ UNCHANGED <<kill_flag, trigger_source, kill_count, orders_pending,
                   orders_cancelled, is_armed, cooldown_start>>

HaltTrading(c) ==
    /\ Go(c, "h_state", "out")
    /\ state' = "Halted"
    /\ UNCHANGED <<kill_flag, trigger_source, kill_count, orders_pending,
                   orders_cancelled, is_armed, cooldown_start, reg>>

-----------------------------------------------------------------------------
(* is_cooldown_expired(): the start is loaded, then the clock is read       *)

LoadStart(c, from, to) ==
    /\ Go(c, from, to)
    /\ Set(c, cooldown_start)
    /\ UNCHANGED switch

is_cooldown_expired(start) == start = 0 \/ now - start >= Cooldown

(* SafetySystem::reset(): refused before the cooldown has expired           *)

ResetLoad(c) == LoadStart(c, "s_load", "s_test")

\* A reset() that does not look at the cooldown (a mutated form of ResetTest).
Bug_ResetIgnoresCooldown(c) ==
    /\ Go(c, "s_test", "r_flag")
    /\ UNCHANGED <<switch, reg>>

ResetTest(c) ==
    /\ Go(c, "s_test", IF is_cooldown_expired(reg[c]) THEN "r_flag" ELSE "out")
    /\ UNCHANGED <<switch, reg>>

(* GlobalKillSwitch::reset()                                                *)

ResetFlag(c) ==
    /\ Go(c, "r_flag", "r_state")
    /\ kill_flag' = FALSE
    /\ UNCHANGED <<state, trigger_source, kill_count, orders_pending,
                   orders_cancelled, is_armed, cooldown_start, reg>>

ResetState(c) ==
    /\ Go(c, "r_state", "r_source")
    /\ state' = "Armed"
    /\ UNCHANGED <<kill_flag, trigger_source, kill_count, orders_pending,
                   orders_cancelled, is_armed, cooldown_start, reg>>

ResetSource(c) ==
    /\ Go(c, "r_source", "r_pending")
    /\ trigger_source' = NoSource
    /\ UNCHANGED <<kill_flag, state, kill_count, orders_pending,
                   orders_cancelled, is_armed, cooldown_start, reg>>

ResetPending(c) ==
    /\ Go(c, "r_pending", "out")
    /\ orders_pending' = 0
    /\ UNCHANGED <<kill_flag, state, trigger_source, kill_count,
                   orders_cancelled, is_armed, cooldown_start, reg>>

-----------------------------------------------------------------------------
(* SafetySystem::activate() calls arm(): is_armed, then reset()             *)

Arm(c) ==
    /\ Go(c, "a_armed", "r_flag")
    /\ is_armed' = TRUE
    /\ Set(c, -1)              \* marks a reset() that comes from arm()
    /\ UNCHANGED <<kill_flag, state, trigger_source, kill_count,
                   orders_pending, orders_cancelled, cooldown_start>>

Disarm(c) ==
    /\ Go(c, "d_armed", "out")
    /\ is_armed' = FALSE
    /\ UNCHANGED <<kill_flag, state, trigger_source, kill_count,
                   orders_pending, orders_cancelled, cooldown_start, reg>>

(* prepare_restart()                                                        *)

PrepareLoad(c) == LoadStart(c, "p_load", "p_test")

PrepareTest(c) ==
    /\ Go(c, "p_test", IF is_cooldown_expired(reg[c]) THEN "p_state" ELSE "out")
    /\ UNCHANGED <<switch, reg>>

PrepareState(c) ==
    /\ Go(c, "p_state", "out")
    /\ state' = "Restarting"
    /\ UNCHANGED <<kill_flag, trigger_source, kill_count, orders_pending,
                   orders_cancelled, is_armed, cooldown_start, reg>>

-----------------------------------------------------------------------------
Entry(op) == CASE op = "trigger" -> "t_armed" [] op = "reset" -> "s_load"
               [] op = "activate" -> "a_armed" [] op = "prepare" -> "p_load"
               [] op = "disarm" -> "d_armed"

\* A thread calls an operation of the switch.
Call(c) ==
    /\ pc[c] = "out" /\ calls[c] < MaxCalls
    /\ \E op \in Ops : pc' = [pc EXCEPT ![c] = Entry(op)]
    /\ calls' = [calls EXCEPT ![c] = @ + 1]
    /\ UNCHANGED <<switch, now, reg>>

Tick ==
    /\ now < MaxTime
    /\ now' = now + 1
    /\ UNCHANGED <<switch, pc, reg, calls>>

Step(c) ==
    \/ Call(c)
    \/ TriggerArmed(c) \/ TriggerKilled(c) \/ TriggerFlag(c) \/ TriggerState(c)
    \/ TriggerSource(c) \/ TriggerCount(c) \/ TriggerCooldown(c)
    \/ BeginState(c) \/ BeginPending(c) \/ CancelSub(c) \/ CancelState(c)
    \/ HaltTrading(c)
    \/ ResetLoad(c) \/ ResetTest(c)
    \/ ResetFlag(c) \/ ResetState(c) \/ ResetSource(c) \/ ResetPending(c)
    \/ Arm(c) \/ Disarm(c)
    \/ PrepareLoad(c) \/ PrepareTest(c) \/ PrepareState(c)

Next == (\E c \in Threads : Step(c)) \/ Tick

Spec == Init /\ [][Next]_vars

-----------------------------------------------------------------------------
(* Properties                                                               *)

\* No thread is inside an operation.
Quiet == \A c \in Threads : pc[c] = "out"

\* When no operation is in progress, the state the switch reports and the
\* flag that stops trading agree: a killed switch does not report Armed, and
\* a switch that reports a phase of a kill is killed.
StateMatchesFlag ==
    Quiet => /\ kill_flag => state # "Armed"
             /\ state \in {"Triggered", "Cancelling", "Cancelled", "Halted"} => kill_flag

\* SafetySystem::reset() gives trading back no earlier than the cooldown after
\* the last kill; only activate() may.
CooldownRespected ==
    \A c \in Threads :
        pc[c] = "r_flag" /\ pc'[c] = "r_state" /\ kill_flag /\ reg[c] # -1
           => now - cooldown_start >= Cooldown

\* The count of pending orders stays within what begin_cancellation() set,
\* and a switch that is through with its cancellations has none pending.
PendingExact ==
    /\ orders_pending \in 0 .. Orders
    /\ state = "Cancelled" => orders_pending = 0

\* Whichever of several racing trigger() calls wins, trading is stopped when
\* any one of them has returned.
KillLatched ==
    (\E c \in Threads : pc[c] = "out" /\ calls[c] > 0) => kill_flag

=============================================================================
