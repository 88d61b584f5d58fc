---------------------------- MODULE SafetyProofs ----------------------------
(***************************************************************************)
(* safety/ for any number of threads, calls and orders: the kill switch    *)
(* and the circuit breaker access by access, and the safety system call by *)
(* call, as the run over MCSafety composes them.                           *)
(***************************************************************************)
EXTENDS MCSafety, TLAPS

-----------------------------------------------------------------------------
(* The kill switch: types.                                                  *)

\* The clock reading a trigger() carries to the store of cooldown_start.
KStamps == \A c \in Threads : k_pc[c] \in {"t_count", "t_cooldown"} => k_reg[c] \in 1 .. k_now

\* A call of the switch by one thread keeps the types.
LEMMA KTypeStep ==
    ASSUME K!TypeOK, KStamps, NEW c \in Threads, K!Step(c)
    PROVE  K!TypeOK' /\ KStamps'
<1> USE PartsAssumption
<1> USE DEF K!KillSwitchConstants, K!TypeOK, KStamps, K!PC, K!KillState, K!Go, K!switch
<1>1. CASE K!Call(c)
  BY <1>1 DEF K!Call, K!Entry, K!AllOps
<1>2. CASE K!TriggerArmed(c)
  BY <1>2 DEF K!TriggerArmed
<1>3. CASE K!TriggerKilled(c)
  BY <1>3 DEF K!TriggerKilled
<1>4. CASE K!TriggerFlag(c)
  BY <1>4 DEF K!TriggerFlag
<1>5. CASE K!TriggerState(c)
  BY <1>5 DEF K!TriggerState
<1>6. CASE K!TriggerSource(c)
  BY <1>6 DEF K!TriggerSource, K!Set
<1>7. CASE K!TriggerCount(c)
  BY <1>7 DEF K!TriggerCount
<1>8. CASE K!TriggerCooldown(c)
  BY <1>8 DEF K!TriggerCooldown
<1>9. CASE K!BeginState(c)
  BY <1>9 DEF K!BeginState
<1>10. CASE K!BeginPending(c)
  BY <1>10 DEF K!BeginPending, K!Set
<1>11. CASE K!CancelSub(c)
  BY <1>11 DEF K!CancelSub, K!AfterCancel
<1>12. CASE K!CancelState(c)
  BY <1>12 DEF K!CancelState, K!AfterCancel, K!Set
<1>13. CASE K!HaltTrading(c)
  BY <1>13 DEF K!HaltTrading
<1>14. CASE K!ResetLoad(c)
  BY <1>14 DEF K!ResetLoad, K!LoadStart, K!Set
<1>15. CASE K!ResetTest(c)
  BY <1>15 DEF K!ResetTest
<1>16. CASE K!ResetFlag(c)
  BY <1>16 DEF K!ResetFlag
<1>17. CASE K!ResetState(c)
  BY <1>17 DEF K!ResetState
<1>18. CASE K!ResetSource(c)
  BY <1>18 DEF K!ResetSource
<1>19. CASE K!ResetPending(c)
  BY <1>19 DEF K!ResetPending
<1>20. CASE K!Arm(c)
  BY <1>20 DEF K!Arm, K!Set
<1>21. CASE K!Disarm(c)
  BY <1>21 DEF K!Disarm
<1>22. CASE K!PrepareLoad(c)
  BY <1>22 DEF K!PrepareLoad, K!LoadStart, K!Set
<1>23. CASE K!PrepareTest(c)
  BY <1>23 DEF K!PrepareTest
<1>24. CASE K!PrepareState(c)
  BY <1>24 DEF K!PrepareState
<1> QED BY <1>1, <1>2, <1>3, <1>4, <1>5, <1>6, <1>7, <1>8, <1>9, <1>10, <1>11, <1>12,
     <1>13, <1>14, <1>15, <1>16, <1>17, <1>18, <1>19, <1>20, <1>21, <1>22, <1>23, <1>24
  DEF K!Step

-----------------------------------------------------------------------------
(* The kill switch: one caller at a time.                                   *)

InTrigger == {"t_state", "t_source", "t_count", "t_cooldown"}
InCancel == {"b_state", "b_pending", "c_sub", "c_state", "h_state"}

KStateAgrees ==
    /\ k_flag => k_state # "Armed"
    /\ k_state \in {"Triggered", "Cancelling", "Cancelled", "Halted"} => k_flag

\* What holds at each place of the one thread that is inside the switch, and
\* between its calls ("out").
KPlace(c) ==
    /\ k_pc[c] \notin {"t_state", "r_state"} => KStateAgrees
    /\ k_pc[c] \in {"t_flag", "r_state"} => ~k_flag
    /\ k_pc[c] \in InTrigger \cup InCancel => k_flag
    \* the pending count
    /\ orders_pending \in 0 .. Orders
    /\ k_state = "Cancelled" => orders_pending = 0
    /\ k_pc[c] \in {"b_pending", "c_sub", "c_state"} => k_state = "Cancelling"
    /\ k_pc[c] = "c_sub" => orders_pending = k_reg[c] /\ k_reg[c] >= 1
    /\ k_pc[c] = "c_state" => orders_pending = 0 /\ k_reg[c] = 1
    \* the cooldown
    /\ k_flag /\ k_pc[c] \notin InTrigger => cooldown_start > 0
    /\ k_pc[c] = "s_test" => k_reg[c] = cooldown_start
    /\ k_pc[c] = "r_flag" => \/ k_reg[c] = -1
                             \/ cooldown_start = 0
                             \/ k_now - cooldown_start >= Cooldown

\* The switch between two calls, when nobody is inside it.
KRest ==
    /\ KStateAgrees
    /\ orders_pending \in 0 .. Orders
    /\ k_state = "Cancelled" => orders_pending = 0
    /\ k_flag => cooldown_start > 0

\* The supervisor is the only thread that may be inside.
KSerial ==
    /\ \A c \in Threads : c # Supervisor => k_pc[c] = "out"
    /\ Supervisor \in Threads => KPlace(Supervisor)
    /\ Supervisor \notin Threads => KRest

\* The supervisor's own steps lead from one place to the next.
LEMMA KPlaceStep ==
    ASSUME K!TypeOK, KStamps, NEW c \in Threads, KPlace(c), K!Step(c)
    PROVE  KPlace(c)'
<1> USE PartsAssumption
<1> USE DEF K!KillSwitchConstants, K!TypeOK, KStamps, KPlace, KStateAgrees, InTrigger,
            InCancel, K!PC, K!KillState, K!Go, K!switch, K!is_cooldown_expired
<1>1. CASE K!Call(c)
  BY <1>1 DEF K!Call, K!Entry, K!AllOps
<1>2. CASE K!TriggerArmed(c)
  BY <1>2 DEF K!TriggerArmed
<1>3. CASE K!TriggerKilled(c)
  BY <1>3 DEF K!TriggerKilled
<1>4. CASE K!TriggerFlag(c)
  BY <1>4 DEF K!TriggerFlag
<1>5. CASE K!TriggerState(c)
  BY <1>5 DEF K!TriggerState
<1>6. CASE K!TriggerSource(c)
  BY <1>6 DEF K!TriggerSource, K!Set
<1>7. CASE K!TriggerCount(c)
  BY <1>7 DEF K!TriggerCount
<1>8. CASE K!TriggerCooldown(c)
  BY <1>8 DEF K!TriggerCooldown
<1>9. CASE K!BeginState(c)
  BY <1>9 DEF K!BeginState
<1>10. CASE K!BeginPending(c)
  BY <1>10 DEF K!BeginPending, K!Set
<1>11. CASE K!CancelSub(c)
  BY <1>11 DEF K!CancelSub, K!AfterCancel
<1>12. CASE K!CancelState(c)
  BY <1>12 DEF K!CancelState, K!AfterCancel, K!Set
<1>13. CASE K!HaltTrading(c)
  BY <1>13 DEF K!HaltTrading
<1>14. CASE K!ResetLoad(c)
  BY <1>14 DEF K!ResetLoad, K!LoadStart, K!Set
<1>15. CASE K!ResetTest(c)
  BY <1>15 DEF K!ResetTest
<1>16. CASE K!ResetFlag(c)
  BY <1>16 DEF K!ResetFlag
<1>17. CASE K!ResetState(c)
  BY <1>17 DEF K!ResetState
<1>18. CASE K!ResetSource(c)
  BY <1>18 DEF K!ResetSource
<1>19. CASE K!ResetPending(c)
  BY <1>19 DEF K!ResetPending
<1>20. CASE K!Arm(c)
  BY <1>20 DEF K!Arm, K!Set
<1>21. CASE K!Disarm(c)
  BY <1>21 DEF K!Disarm
<1>22. CASE K!PrepareLoad(c)
  BY <1>22 DEF K!PrepareLoad, K!LoadStart, K!Set
<1>23. CASE K!PrepareTest(c)
  BY <1>23 DEF K!PrepareTest
<1>24. CASE K!PrepareState(c)
  BY <1>24 DEF K!PrepareState
<1> QED BY <1>1, <1>2, <1>3, <1>4, <1>5, <1>6, <1>7, <1>8, <1>9, <1>10, <1>11, <1>12,
     <1>13, <1>14, <1>15, <1>16, <1>17, <1>18, <1>19, <1>20, <1>21, <1>22, <1>23, <1>24
  DEF K!Step

-----------------------------------------------------------------------------
(* The kill switch: racing triggers.                                        *)

\* Nobody disarms or resets, so a trigger() leaves only with the flag set.
KRace ==
    /\ is_armed
    /\ \A c \in Threads :
         /\ k_pc[c] \in {"out", "t_armed", "t_killed", "t_flag"} \cup InTrigger \cup InCancel
         /\ k_pc[c] \in InTrigger \cup InCancel \/ (k_pc[c] = "out" /\ k_calls[c] > 0)
               => k_flag

\* A thread that only calls trigger() keeps the others' and its own claim.
LEMMA KRaceStep ==
    ASSUME K!TypeOK, KRace, NEW c \in Threads, K!Step(c),
           k_pc[c] = "out" => k_pc'[c] = "t_armed"
    PROVE  KRace'
<1> USE DEF K!TypeOK, KRace, InTrigger, InCancel, K!Go, K!switch
<1>1. CASE K!Call(c)
  BY <1>1 DEF K!Call, K!Entry, K!AllOps
<1>2. CASE K!TriggerArmed(c)
  BY <1>2 DEF K!TriggerArmed
<1>3. CASE K!TriggerKilled(c)
  BY <1>3 DEF K!TriggerKilled
<1>4. CASE K!TriggerFlag(c)
  BY <1>4 DEF K!TriggerFlag
<1>5. CASE K!TriggerState(c)
  BY <1>5 DEF K!TriggerState
<1>6. CASE K!TriggerSource(c)
  BY <1>6 DEF K!TriggerSource, K!Set
<1>7. CASE K!TriggerCount(c)
  BY <1>7 DEF K!TriggerCount
<1>8. CASE K!TriggerCooldown(c)
  BY <1>8 DEF K!TriggerCooldown
<1>9. CASE K!BeginState(c)
  BY <1>9 DEF K!BeginState
<1>10. CASE K!BeginPending(c)
  BY <1>10 DEF K!BeginPending, K!Set
<1>11. CASE K!CancelSub(c)
  BY <1>11 DEF K!CancelSub, K!AfterCancel
<1>12. CASE K!CancelState(c)
  BY <1>12 DEF K!CancelState, K!AfterCancel, K!Set
<1>13. CASE K!HaltTrading(c)
  BY <1>13 DEF K!HaltTrading
<1>14. CASE K!ResetLoad(c)
  BY <1>14 DEF K!ResetLoad, K!LoadStart, K!Set
<1>15. CASE K!ResetTest(c)
  BY <1>15 DEF K!ResetTest
<1>16. CASE K!ResetFlag(c)
  BY <1>16 DEF K!ResetFlag
<1>17. CASE K!ResetState(c)
  BY <1>17 DEF K!ResetState
<1>18. CASE K!ResetSource(c)
  BY <1>18 DEF K!ResetSource
<1>19. CASE K!ResetPending(c)
  BY <1>19 DEF K!ResetPending
<1>20. CASE K!Arm(c)
  BY <1>20 DEF K!Arm, K!Set
<1>21. CASE K!Disarm(c)
  BY <1>21 DEF K!Disarm
<1>22. CASE K!PrepareLoad(c)
  BY <1>22 DEF K!PrepareLoad, K!LoadStart, K!Set
<1>23. CASE K!PrepareTest(c)
  BY <1>23 DEF K!PrepareTest
<1>24. CASE K!PrepareState(c)
  BY <1>24 DEF K!PrepareState
<1> QED BY <1>1, <1>2, <1>3, <1>4, <1>5, <1>6, <1>7, <1>8, <1>9, <1>10, <1>11, <1>12,
     <1>13, <1>14, <1>15, <1>16, <1>17, <1>18, <1>19, <1>20, <1>21, <1>22, <1>23, <1>24
  DEF K!Step

-----------------------------------------------------------------------------
(* The kill switch: the inductive invariant.                                *)

KInv ==
    /\ K!TypeOK
    /\ KStamps
    /\ k_usage = "serial" => KSerial
    /\ k_usage = "race" => KRace

\* The switch as new() makes it.
LEMMA KInvInit == K!MCInit => KInv
<1> SUFFICES ASSUME K!MCInit PROVE KInv
  OBVIOUS
<1> USE PartsAssumption DEF K!MCInit, K!Init, K!KillSwitchConstants
<1>a. is_armed /\ is_armed \in BOOLEAN /\ k_flag \in BOOLEAN
  OBVIOUS
<1>b. \A c \in Threads : k_pc[c] = "out" /\ k_reg[c] = 0 /\ k_calls[c] = 0
  OBVIOUS
<1>1. K!TypeOK /\ KStamps
  BY <1>a DEF K!TypeOK, KStamps, K!PC, K!KillState
<1>2. KSerial
  BY DEF KSerial, KPlace, KRest, KStateAgrees, InTrigger, InCancel
<1>3. KRace
  BY <1>a, <1>b DEF KRace, InTrigger, InCancel
<1> QED BY <1>1, <1>2, <1>3 DEF KInv

\* Each call, in each pattern of use, and each tick of the clock.
LEMMA KInvStep == KInv /\ K!MCNext => KInv'
<1>1. ASSUME KInv, NEW c \in Threads, K!MCStep(c) PROVE KInv'
  <2>1. K!TypeOK' /\ KStamps'
    BY <1>1, KTypeStep DEF KInv, K!MCStep
  <2>2. ASSUME k_usage = "serial" PROVE KSerial'
    <3>1. c = Supervisor /\ KSerial
      BY <1>1, <2>2 DEF K!MCStep, KInv
    <3>2. KPlace(Supervisor)'
      BY <1>1, <3>1, KPlaceStep DEF K!MCStep, KInv, KSerial
    <3>3. ASSUME NEW d \in Threads, d # c PROVE k_pc'[d] = k_pc[d]
      BY <1>1, <3>3 DEF K!MCStep, KInv, K!TypeOK, K!Step, K!Go, K!LoadStart,
         K!Call, K!TriggerArmed, K!TriggerKilled, K!TriggerFlag, K!TriggerState,
         K!TriggerSource, K!TriggerCount, K!TriggerCooldown, K!BeginState, K!BeginPending,
         K!CancelSub, K!CancelState, K!HaltTrading, K!ResetLoad, K!ResetTest, K!ResetFlag,
         K!ResetState, K!ResetSource, K!ResetPending, K!Arm, K!Disarm, K!PrepareLoad,
         K!PrepareTest, K!PrepareState
    <3> QED BY <3>1, <3>2, <3>3 DEF KSerial
  <2>3. ASSUME k_usage = "race" PROVE KRace'
    BY <1>1, <2>3, KRaceStep DEF K!MCStep, KInv
  <2> QED BY <1>1, <2>1, <2>2, <2>3 DEF KInv, K!MCStep
<1>2. ASSUME KInv, K!MCTick PROVE KInv'
  BY <1>2, PartsAssumption
     DEF K!MCTick, K!Tick, K!switch, KInv, K!TypeOK, KStamps, K!KillSwitchConstants,
         KSerial, KPlace, KRest, KStateAgrees, KRace, InTrigger, InCancel
<1> QED BY <1>1, <1>2 DEF K!MCNext

\* What KillConsistent says of the flag, the state and the pending count.
LEMMA KInvConsistent == KInv => KillConsistent
BY DEF KInv, KSerial, KPlace, KRest, KStateAgrees, KillConsistent, K!SerialStateMatchesFlag,
       K!SerialPendingExact, K!Serial, K!StateMatchesFlag, K!PendingExact, K!Quiet,
       InTrigger, InCancel

\* What KillRaceLatched says of racing calls.
LEMMA KInvLatched == KInv => KillRaceLatched
BY DEF KInv, KRace, KillRaceLatched, K!RaceLatched, K!KillLatched

\* A reset that gives trading back comes from a test that found the cooldown
\* over, and nobody has killed since.
LEMMA KInvCooldown ==
    KInv /\ k_usage \in {"serial", "race"} => K!CooldownRespected
<1> SUFFICES ASSUME KInv, k_usage \in {"serial", "race"}, NEW c \in Threads,
                    k_pc[c] = "r_flag", k_flag, k_reg[c] # -1
             PROVE  k_now - cooldown_start >= Cooldown
  BY DEF K!CooldownRespected
<1>1. k_usage = "serial"
  BY DEF KInv, KRace, InTrigger, InCancel
<1>2. c = Supervisor
  BY <1>1 DEF KInv, KSerial
<1>3. KPlace(c)
  BY <1>1, <1>2 DEF KInv, KSerial
<1> QED BY <1>3 DEF KPlace, InTrigger, KInv, K!TypeOK

-----------------------------------------------------------------------------
(* The circuit breaker: types.                                              *)

\* The operations that begin with the test of `enabled'.
BEnabled == \A c \in Callers :
    b_pc[c] = "enabled?" => b_reg[c].op \in {"equity", "error", "rejection", "allowed"}

\* A step of one caller keeps the types.
LEMMA BTypeStep ==
    ASSUME B!TypeOK, BEnabled, NEW c \in Callers, B!Step(c)
    PROVE  B!TypeOK' /\ BEnabled'
<1> USE PartsAssumption
<1>0. B!ErrorsTyped'
  <2> USE DEF B!TypeOK, B!ErrorsTyped
  <2>1. CASE B!EnabledTest(c)
    BY <2>1 DEF B!EnabledTest
  <2>2. CASE B!ResetCount(c)
    BY <2>2 DEF B!ResetCount
  <2>3. CASE UNCHANGED errors
    BY <2>3
  <2> QED BY <2>1, <2>2, <2>3 DEF B!Step, B!history, B!Call, B!EquityPeak, B!EquityTest,
             B!ErrorWindow, B!ErrorStart, B!ErrorOne, B!ErrorAdd, B!Submission, B!RejectionAdd,
             B!RejectionTest, B!TripState, B!TripCount, B!TripEnd, B!AllowedState,
             B!AllowedCooldown, B!AllowedHalfOpen, B!ResetState, B!ResetOrders,
             B!ResetWindow, B!Enable
<1> USE <1>0 DEF B!BreakerConstants, B!TypeOK, BEnabled, B!PC, B!BreakerState, B!Go, B!breaker,
            B!history, B!AllOps
<1>1. CASE B!Call(c)
  BY <1>1 DEF B!Call, B!Entry, B!AllOps
<1>2. CASE B!EnabledTest(c)
  <2>1. b_reg' \in [Callers -> [op : B!AllOps, val : Nat]] /\ b_reg'[c].op = b_reg[c].op
    <3>1. b_reg \in [Callers -> [op : B!AllOps, val : Nat]] /\ b_now \in Nat
      OBVIOUS
    <3>2. CASE b_reg' = b_reg
      BY <3>1, <3>2
    <3>3. CASE b_reg' = [b_reg EXCEPT ![c].val = b_now]
      BY <3>1, <3>3
    <3> QED BY <1>2, <3>2, <3>3 DEF B!EnabledTest, B!Let
  <2>2. \A d \in Callers : d # c => b_reg'[d] = b_reg[d]
    BY <1>2 DEF B!EnabledTest, B!Let
  <2>3. UNCHANGED B!breaker /\ UNCHANGED <<b_auto_recovery, b_now, b_calls>>
    BY <1>2 DEF B!EnabledTest
  <2>4. /\ b_pc' \in [Callers -> B!PC]
        /\ b_pc' = [b_pc EXCEPT ![c] = b_pc'[c]] /\ b_pc'[c] # "enabled?"
    BY <1>2 DEF B!EnabledTest, B!AfterEnabled
  <2> QED BY <2>1, <2>2, <2>3, <2>4
<1>3. CASE B!EquityPeak(c)
  BY <1>3 DEF B!EquityPeak, B!val
<1>4. CASE B!EquityTest(c)
  BY <1>4 DEF B!EquityTest
<1>5. CASE B!ErrorWindow(c)
  BY <1>5 DEF B!ErrorWindow
<1>6. CASE B!ErrorStart(c)
  BY <1>6 DEF B!ErrorStart, B!val
<1>7. CASE B!ErrorOne(c)
  BY <1>7 DEF B!ErrorOne
<1>8. CASE B!ErrorAdd(c)
  BY <1>8 DEF B!ErrorAdd
<1>9. CASE B!Submission(c)
  BY <1>9 DEF B!Submission
<1>10. CASE B!RejectionAdd(c)
  BY <1>10 DEF B!RejectionAdd, B!Let
<1>11. CASE B!RejectionTest(c)
  BY <1>11 DEF B!RejectionTest
<1>12. CASE B!TripState(c)
  BY <1>12 DEF B!TripState
<1>13. CASE B!TripCount(c)
  BY <1>13 DEF B!TripCount, B!Let
<1>14. CASE B!TripEnd(c)
  BY <1>14 DEF B!TripEnd, B!val
<1>15. CASE B!AllowedState(c)
  BY <1>15 DEF B!AllowedState
<1>16. CASE B!AllowedCooldown(c)
  BY <1>16 DEF B!AllowedCooldown, B!is_cooldown_expired
<1>17. CASE B!AllowedHalfOpen(c)
  BY <1>17 DEF B!AllowedHalfOpen
<1>18. CASE B!ResetState(c)
  BY <1>18 DEF B!ResetState
<1>19. CASE B!ResetCount(c)
  <2>1. /\ b_pc' = [b_pc EXCEPT ![c] = "r_orders"] /\ api_error_count' = 0
        /\ UNCHANGED <<b_state, trip_count, last_trip, cooldown_end, peak_equity, window_start,
                       orders_submitted, orders_rejected, enabled, b_reg, b_auto_recovery, b_now,
                       b_calls>>
    BY <1>19 DEF B!ResetCount
  <2> QED BY <2>1
<1>20. CASE B!ResetOrders(c)
  BY <1>20 DEF B!ResetOrders
<1>21. CASE B!ResetWindow(c)
  BY <1>21 DEF B!ResetWindow
<1>22. CASE B!Enable(c, "x_off", FALSE)
  BY <1>22 DEF B!Enable
<1>23. CASE B!Enable(c, "x_on", TRUE)
  BY <1>23 DEF B!Enable
<1> QED BY <1>1, <1>2, <1>3, <1>4, <1>5, <1>6, <1>7, <1>8, <1>9, <1>10, <1>11, <1>12,
     <1>13, <1>14, <1>15, <1>16, <1>17, <1>18, <1>19, <1>20, <1>21, <1>22, <1>23
  DEF B!Step

-----------------------------------------------------------------------------
(* The circuit breaker: the error count.                                    *)

\* A count that has reached the limit is on its way to a trip or to a reset,
\* unless the breaker has tripped.
BErrors ==
    api_error_count >= max_api_errors =>
       \/ b_state # "Closed"
       \/ \E c \in Callers : b_pc[c] \in {"tr_state", "r_count"}

\* Whatever other callers do, a step of one of them keeps that claim.  The
\* first error of a window is stored without a comparison, so the limit must
\* be more than one.
LEMMA BErrorsStep ==
    ASSUME B!TypeOK, BErrors, max_api_errors > 1, NEW c \in Callers, B!Step(c)
    PROVE  BErrors'
<1> USE PartsAssumption
<1> USE DEF B!BreakerConstants, B!TypeOK, BErrors, B!Go, B!breaker, B!history
<1>1. CASE B!Call(c)
  BY <1>1 DEF B!Call, B!Entry, B!AllOps
<1>2. CASE B!EnabledTest(c)
  BY <1>2 DEF B!EnabledTest, B!AfterEnabled, B!Let
<1>3. CASE B!EquityPeak(c)
  BY <1>3 DEF B!EquityPeak, B!val
<1>4. CASE B!EquityTest(c)
  BY <1>4 DEF B!EquityTest
<1>5. CASE B!ErrorWindow(c)
  BY <1>5 DEF B!ErrorWindow
<1>6. CASE B!ErrorStart(c)
  BY <1>6 DEF B!ErrorStart, B!val
<1>7. CASE B!ErrorOne(c)
  BY <1>7 DEF B!ErrorOne
<1>8. CASE B!ErrorAdd(c)
  BY <1>8 DEF B!ErrorAdd
<1>9. CASE B!Submission(c)
  BY <1>9 DEF B!Submission
<1>10. CASE B!RejectionAdd(c)
  BY <1>10 DEF B!RejectionAdd, B!Let
<1>11. CASE B!RejectionTest(c)
  BY <1>11 DEF B!RejectionTest
<1>12. CASE B!TripState(c)
  BY <1>12 DEF B!TripState
<1>13. CASE B!TripCount(c)
  BY <1>13 DEF B!TripCount, B!Let
<1>14. CASE B!TripEnd(c)
  BY <1>14 DEF B!TripEnd, B!val
<1>15. CASE B!AllowedState(c)
  BY <1>15 DEF B!AllowedState
<1>16. CASE B!AllowedCooldown(c)
  BY <1>16 DEF B!AllowedCooldown, B!is_cooldown_expired
<1>17. CASE B!AllowedHalfOpen(c)
  BY <1>17 DEF B!AllowedHalfOpen
<1>18. CASE B!ResetState(c)
  BY <1>18 DEF B!ResetState
<1>19. CASE B!ResetCount(c)
  <2>1. api_error_count' = 0
    BY <1>19 DEF B!ResetCount
  <2> QED BY <2>1
<1>20. CASE B!ResetOrders(c)
  BY <1>20 DEF B!ResetOrders
<1>21. CASE B!ResetWindow(c)
  BY <1>21 DEF B!ResetWindow
<1>22. CASE B!Enable(c, "x_off", FALSE)
  BY <1>22 DEF B!Enable
<1>23. CASE B!Enable(c, "x_on", TRUE)
  BY <1>23 DEF B!Enable
<1> QED BY <1>1, <1>2, <1>3, <1>4, <1>5, <1>6, <1>7, <1>8, <1>9, <1>10, <1>11, <1>12,
     <1>13, <1>14, <1>15, <1>16, <1>17, <1>18, <1>19, <1>20, <1>21, <1>22, <1>23
  DEF B!Step

-----------------------------------------------------------------------------
(* The circuit breaker: the error window.                                   *)

\* What has been counted of a sequence of errors, P[u] of them up to the instant
\* u, when the window opened at start and holds count of them: no more than the
\* bound in any window, no more than one window's worth before the window, all
\* of the count in the window.
Window(P, start, time, count) ==
    /\ P \in [0 .. B_MaxTime -> Int]
    /\ \A u, v \in 0 .. B_MaxTime : u <= v => P[u] <= P[v]
    /\ \A u \in 0 .. B_MaxTime : u >= time => P[u] = P[time]
    /\ \A t, u \in 1 .. time :
          t <= u /\ u - t <= api_error_window => P[u] - P[t - 1] <= 2 * (max_api_errors - 1)
    /\ \A t \in 1 .. time :
          t < start /\ start - t <= api_error_window
            => P[start - 1] - P[t - 1] <= max_api_errors - 1
    /\ P[time] - P[start - 1] = count
    /\ time > start + api_error_window => P[time] = P[start + api_error_window]

\* A caller in record_api_error() before its error is counted.
InError(c) == b_pc[c] \in {"e_window", "e_start", "e_one", "e_add"}

\* The errors up to each instant, without the one that is not counted yet.
Counted(c) ==
    [u \in 0 .. B_MaxTime |->
        errors[u] - (IF InError(c) /\ u >= b_reg[c].val THEN 1 ELSE 0)]

\* The window opened no later than now, and an error under way lies in it or
\* behind it, as the comparison said.
BClock(c) ==
    /\ window_start \in 1 .. b_now
    /\ InError(c) => b_reg[c].val \in window_start .. b_now
    /\ b_pc[c] = "e_add" => b_reg[c].val - window_start <= api_error_window
    /\ b_pc[c] = "e_start" => b_reg[c].val - window_start > api_error_window
    /\ b_pc[c] = "e_one" => b_reg[c].val = window_start

\* What the one caller of a breaker with auto_recovery has counted while the
\* breaker is closed and neither about to trip nor in the middle of a reset.
BWindow(c) ==
    b_state = "Closed" /\ b_pc[c] \notin {"tr_state", "r_count"} =>
        /\ api_error_count < max_api_errors
        /\ Window(Counted(c), window_start, b_now,
                  IF b_pc[c] = "e_one" THEN 0 ELSE api_error_count)
        /\ b_pc[c] \in {"r_orders", "r_window"} =>
              api_error_count = 0 /\ errors = [u \in 0 .. B_MaxTime |-> 0]

\* The clock moves on, and no error has come.
LEMMA WindowTick ==
    ASSUME NEW P, NEW s \in Nat, NEW t \in 1 .. B_MaxTime, NEW k, s \in 1 .. t,
           t < B_MaxTime, B_MaxTime \in Nat, api_error_window \in Nat, max_api_errors \in Nat,
           max_api_errors > 1, Window(P, s, t, k)
    PROVE  Window(P, s, t + 1, k)
<1>0. /\ P \in [0 .. B_MaxTime -> Int]
      /\ \A u \in 0 .. B_MaxTime : u >= t => P[u] = P[t]
      /\ \A a, u \in 1 .. t : a <= u /\ u - a <= api_error_window
            => P[u] - P[a - 1] <= 2 * (max_api_errors - 1)
      /\ P[t] - P[s - 1] = k
      /\ t > s + api_error_window => P[t] = P[s + api_error_window]
  BY DEF Window
<1>1. P[t + 1] = P[t] /\ P[t] \in Int
  BY <1>0
<1>2. \A u \in 0 .. B_MaxTime : u >= t + 1 => P[u] = P[t + 1]
  BY <1>0, <1>1
<1>3. ASSUME NEW a \in 1 .. t + 1, NEW u \in 1 .. t + 1, a <= u, u - a <= api_error_window
      PROVE  P[u] - P[a - 1] <= 2 * (max_api_errors - 1)
  <2>1. CASE u \in 1 .. t
    <3>1. a \in 1 .. t
      BY <1>3, <2>1
    <3> QED BY <1>0, <1>3, <2>1, <3>1
  <2>2. CASE u = t + 1 /\ a \in 1 .. t
    <3>1. t \in 1 .. t /\ a <= t /\ t - a <= api_error_window
      BY <1>3, <2>2
    <3>2. P[t] - P[a - 1] <= 2 * (max_api_errors - 1)
      BY <1>0, <2>2, <3>1
    <3> QED BY <1>1, <2>2, <3>2
  <2>3. CASE u = t + 1 /\ a = t + 1
    <3>1. P[u] - P[a - 1] = 0
      BY <1>1, <2>3
    <3> QED BY <3>1
  <2> QED BY <1>3, <2>1, <2>2, <2>3
<1>4. ASSUME NEW a \in 1 .. t + 1, a < s, s - a <= api_error_window
      PROVE  P[s - 1] - P[a - 1] <= max_api_errors - 1
  <2>1. a \in 1 .. t
    BY <1>4
  <2> QED BY <1>4, <2>1 DEF Window
<1>5. P[t + 1] - P[s - 1] = k
  BY <1>0, <1>1
<1>6. t + 1 > s + api_error_window => P[t + 1] = P[s + api_error_window]
  <2>1. CASE t > s + api_error_window
    BY <1>0, <1>1, <2>1
  <2>2. CASE ~(t > s + api_error_window)
    <3>1. t + 1 > s + api_error_window => t = s + api_error_window
      BY <2>2
    <3> QED BY <1>1, <3>1
  <2> QED BY <2>1, <2>2
<1>7. \A u, v \in 0 .. B_MaxTime : u <= v => P[u] <= P[v]
  BY DEF Window
<1> QED BY <1>0, <1>2, <1>3, <1>4, <1>5, <1>6, <1>7 DEF Window

\* A window that is over gives way to one that opens with a later error: what
\* it counted lies before the new one.
LEMMA WindowStart ==
    ASSUME NEW P, NEW s \in Nat, NEW t \in 1 .. B_MaxTime, NEW k \in Nat, s \in 1 .. t,
           NEW v \in s .. t, v - s > api_error_window, k < max_api_errors,
           B_MaxTime \in Nat, api_error_window \in Nat, max_api_errors \in Nat,
           Window(P, s, t, k)
    PROVE  Window(P, v, t, 0)
<1> DEFINE w == api_error_window
<1>0. /\ P \in [0 .. B_MaxTime -> Int]
      /\ \A u, x \in 0 .. B_MaxTime : u <= x => P[u] <= P[x]
      /\ P[t] - P[s - 1] = k
      /\ t > s + w => P[t] = P[s + w]
  BY DEF Window
<1>1. /\ s + w \in 0 .. B_MaxTime /\ v - 1 \in 0 .. B_MaxTime /\ s + w <= v - 1
      /\ t \in 0 .. B_MaxTime /\ v - 1 <= t /\ s - 1 \in 0 .. B_MaxTime
  OBVIOUS
<1>2. P[v - 1] = P[t]
  <2>1. P[s + w] <= P[v - 1] /\ P[v - 1] <= P[t]
    BY <1>0, <1>1
  <2>2. P[t] = P[s + w]
    BY <1>0, <1>1
  <2> QED BY <1>0, <1>1, <2>1, <2>2
<1>3. ASSUME NEW a \in 1 .. t, a < v, v - a <= w
      PROVE  P[v - 1] - P[a - 1] <= max_api_errors - 1
  <2>1. a - 1 \in 0 .. B_MaxTime /\ s - 1 <= a - 1
    BY <1>1, <1>3
  <2>2. P[s - 1] <= P[a - 1]
    BY <1>0, <1>1, <2>1
  <2>3. P[s - 1] \in Int /\ P[a - 1] \in Int /\ P[t] \in Int
    BY <1>0, <1>1, <2>1
  <2>4. P[t] - P[s - 1] = k
    BY <1>0
  <2> QED BY <1>2, <2>2, <2>3, <2>4
<1>4. P[t] - P[v - 1] = 0
  BY <1>0, <1>1, <1>2
<1>5. t > v + w => P[t] = P[v + w]
  <2> SUFFICES ASSUME t > v + w PROVE P[t] = P[v + w]
    OBVIOUS
  <2>1. v + w \in 0 .. B_MaxTime /\ v - 1 <= v + w /\ v + w <= t
    OBVIOUS
  <2>2. P[v - 1] <= P[v + w] /\ P[v + w] <= P[t]
    BY <1>0, <1>1, <2>1
  <2> QED BY <1>0, <1>1, <1>2, <2>1, <2>2
<1>6. /\ \A u \in 0 .. B_MaxTime : u >= t => P[u] = P[t]
      /\ \A a, u \in 1 .. t : a <= u /\ u - a <= api_error_window
            => P[u] - P[a - 1] <= 2 * (max_api_errors - 1)
  BY DEF Window
<1> QED BY <1>0, <1>3, <1>4, <1>5, <1>6 DEF Window

\* An error at v in the window is counted: any window that spans v begins in
\* this one, or takes in at most what was left of the one before.
LEMMA WindowAdd ==
    ASSUME NEW P, NEW s \in Nat, NEW t \in 1 .. B_MaxTime, NEW k \in Nat, s \in 1 .. t,
           NEW v \in s .. t, v - s <= api_error_window, k + 1 < max_api_errors,
           B_MaxTime \in Nat, api_error_window \in Nat, max_api_errors \in Nat,
           Window(P, s, t, k)
    PROVE  Window([u \in 0 .. B_MaxTime |-> P[u] + (IF u >= v THEN 1 ELSE 0)], s, t, k + 1)
<1> DEFINE w == api_error_window
           m == max_api_errors
           Q == [u \in 0 .. B_MaxTime |-> P[u] + (IF u >= v THEN 1 ELSE 0)]
<1>0. /\ P \in [0 .. B_MaxTime -> Int]
      /\ \A u, x \in 0 .. B_MaxTime : u <= x => P[u] <= P[x]
      /\ \A u \in 0 .. B_MaxTime : u >= t => P[u] = P[t]
      /\ \A a, u \in 1 .. t : a <= u /\ u - a <= w => P[u] - P[a - 1] <= 2 * (m - 1)
      /\ \A a \in 1 .. t : a < s /\ s - a <= w => P[s - 1] - P[a - 1] <= m - 1
      /\ P[t] - P[s - 1] = k
      /\ t > s + w => P[t] = P[s + w]
  BY DEF Window
<1>1. /\ v \in 1 .. t /\ t \in 0 .. B_MaxTime /\ s - 1 \in 0 .. B_MaxTime
      /\ s - 1 < v /\ v <= s + w
  OBVIOUS
<1>2. /\ Q \in [0 .. B_MaxTime -> Int]
      /\ \A u \in 0 .. B_MaxTime : u < v => Q[u] = P[u]
      /\ \A u \in 0 .. B_MaxTime : u >= v => Q[u] = P[u] + 1
  <2>1. ASSUME NEW u \in 0 .. B_MaxTime
        PROVE  /\ P[u] + (IF u >= v THEN 1 ELSE 0) \in Int
               /\ u < v => P[u] + (IF u >= v THEN 1 ELSE 0) = P[u]
               /\ u >= v => P[u] + (IF u >= v THEN 1 ELSE 0) = P[u] + 1
    <3>1. P[u] \in Int /\ v \in Int
      BY <1>0, <1>1
    <3> QED BY <3>1
  <2> QED BY <2>1
<1> HIDE DEF Q
<1>3. ASSUME NEW u \in 0 .. B_MaxTime, NEW x \in 0 .. B_MaxTime, u <= x PROVE Q[u] <= Q[x]
  <2>1. P[u] <= P[x] /\ P[u] \in Int /\ P[x] \in Int
    BY <1>0, <1>3
  <2>2. CASE u < v
    <3>1. Q[u] = P[u] /\ (Q[x] = P[x] \/ Q[x] = P[x] + 1)
      BY <1>1, <1>2, <2>2
    <3> QED BY <2>1, <3>1
  <2>3. CASE u >= v
    <3>1. Q[u] = P[u] + 1 /\ Q[x] = P[x] + 1
      BY <1>1, <1>2, <1>3, <2>3
    <3> QED BY <2>1, <3>1
  <2> QED BY <1>1, <2>2, <2>3
<1>4. ASSUME NEW u \in 0 .. B_MaxTime, u >= t PROVE Q[u] = Q[t]
  <2>1. P[u] = P[t] /\ u >= v /\ t >= v
    BY <1>0, <1>1, <1>4
  <2> QED BY <1>1, <1>2, <2>1
<1>5. Q[t] = P[t] + 1 /\ Q[s - 1] = P[s - 1] /\ P[t] \in Int /\ P[s - 1] \in Int
  BY <1>0, <1>1, <1>2
<1>6. Q[t] - Q[s - 1] = k + 1
  BY <1>0, <1>5
<1>7. ASSUME NEW a \in 1 .. t, a < s, s - a <= w PROVE Q[s - 1] - Q[a - 1] <= m - 1
  <2>1. a - 1 \in 0 .. B_MaxTime /\ a - 1 < v
    BY <1>1, <1>7
  <2>2. Q[a - 1] = P[a - 1]
    BY <1>2, <2>1
  <2> QED BY <1>0, <1>5, <1>7, <2>2
<1>8. ASSUME NEW a \in 1 .. t, NEW u \in 1 .. t, a <= u, u - a <= w
      PROVE  Q[u] - Q[a - 1] <= 2 * (m - 1)
  <2>1. /\ u \in 0 .. B_MaxTime /\ a - 1 \in 0 .. B_MaxTime
        /\ P[u] \in Int /\ P[a - 1] \in Int /\ P[u] - P[a - 1] <= 2 * (m - 1)
    BY <1>0, <1>8
  <2>2. CASE u < v
    <3>1. Q[u] = P[u] /\ Q[a - 1] = P[a - 1]
      BY <1>1, <1>2, <1>8, <2>1, <2>2
    <3> QED BY <2>1, <3>1
  <2>3. CASE a - 1 >= v
    <3>1. Q[u] = P[u] + 1 /\ Q[a - 1] = P[a - 1] + 1
      BY <1>1, <1>2, <1>8, <2>1, <2>3
    <3> QED BY <2>1, <3>1
  <2>4. CASE u >= v /\ a - 1 < v
    <3>1. Q[u] <= Q[t] /\ Q[u] \in Int
      BY <1>1, <1>2, <1>3, <2>1
    <3>2. CASE a >= s
      <4>1. Q[s - 1] <= Q[a - 1] /\ Q[a - 1] \in Int
        BY <1>1, <1>2, <1>3, <2>1, <3>2
      <4> QED BY <1>5, <1>6, <3>1, <4>1
    <3>3. CASE a < s
      <4>1. s - a <= w
        BY <1>8, <2>4, <3>3
      <4>2. Q[s - 1] - Q[a - 1] <= m - 1 /\ Q[a - 1] \in Int
        BY <1>2, <1>7, <2>1, <3>3, <4>1
      <4> QED BY <1>5, <1>6, <3>1, <4>2
    <3> QED BY <3>2, <3>3
  <2> QED BY <1>1, <2>1, <2>2, <2>3, <2>4
<1>9. t > s + w => Q[t] = Q[s + w]
  <2> SUFFICES ASSUME t > s + w PROVE Q[t] = Q[s + w]
    OBVIOUS
  <2>1. s + w \in 0 .. B_MaxTime /\ s + w >= v
    BY <1>1
  <2> QED BY <1>0, <1>2, <1>5, <2>1
<1>10. Window(Q, s, t, k + 1)
  BY <1>2, <1>3, <1>4, <1>6, <1>7, <1>8, <1>9 DEF Window
<1> QED BY <1>10 DEF Q

\* Nothing counted.
LEMMA WindowZero ==
    ASSUME NEW P, P = [u \in 0 .. B_MaxTime |-> 0], NEW t \in 1 .. B_MaxTime, NEW s \in 1 .. t,
           B_MaxTime \in Nat, api_error_window \in Nat, max_api_errors \in Nat,
           max_api_errors > 0
    PROVE  Window(P, s, t, 0)
<1>1. P \in [0 .. B_MaxTime -> Int] /\ \A u \in 0 .. B_MaxTime : P[u] = 0
  OBVIOUS
<1>2. t \in 0 .. B_MaxTime /\ s - 1 \in 0 .. B_MaxTime
  OBVIOUS
<1>3. t > s + api_error_window => s + api_error_window \in 0 .. B_MaxTime
  OBVIOUS
<1>4. \A a, u \in 1 .. t : P[u] - P[a - 1] <= 2 * (max_api_errors - 1)
  BY <1>1
<1>5. \A a \in 1 .. t : P[s - 1] - P[a - 1] <= max_api_errors - 1
  BY <1>1, <1>2
<1> QED BY <1>1, <1>2, <1>3, <1>4, <1>5 DEF Window

\* The constants of the window.
LEMMA BConstants ==
    /\ B_MaxTime \in Nat /\ api_error_window \in Nat /\ max_api_errors \in Nat
    /\ max_api_errors > 0
BY PartsAssumption DEF B!BreakerConstants

\* A step of the one caller keeps the clock readings in order.
LEMMA BClockStep ==
    ASSUME B!TypeOK, BEnabled, NEW c \in Callers, BClock(c), B!Step(c)
    PROVE  BClock(c)'
<1>0. /\ b_pc \in [Callers -> B!PC] /\ b_reg \in [Callers -> [op : B!AllOps, val : Nat]]
      /\ b_now \in 1 .. B_MaxTime /\ window_start \in Nat /\ api_error_window \in Nat
      /\ B_MaxTime \in Nat
  BY BConstants DEF B!TypeOK
<1> USE DEF BClock, InError, B!Go
<1>1. CASE B!Call(c)
  <2>1. UNCHANGED <<window_start, b_now>>
    BY <1>1 DEF B!Call, B!breaker
  <2>2. PICK op \in B_Ops : b_pc'[c] = B!Entry(op)
    BY <1>0, <1>1 DEF B!Call
  <2>3. ~InError(c)'
    BY <2>2 DEF B!Entry
  <2> QED BY <2>1, <2>3
<1>2. CASE B!EnabledTest(c)
  <2>1. UNCHANGED <<window_start, b_now>> /\ b_pc[c] = "enabled?"
    BY <1>2 DEF B!EnabledTest, B!breaker
  <2>2. CASE b_reg[c].op = "error" /\ enabled
    <3>1. b_pc'[c] = "e_window"
      BY <1>0, <1>2, <2>2 DEF B!EnabledTest, B!AfterEnabled
    <3>2. b_reg'[c].val = b_now
      BY <1>0, <1>2, <2>2 DEF B!EnabledTest, B!Let
    <3> QED BY <1>0, <2>1, <3>1, <3>2
  <2>3. CASE ~(b_reg[c].op = "error" /\ enabled)
    <3>1. b_pc'[c] \in {"out", "q_peak", "j_add", "a_state"}
      BY <1>0, <1>2, <2>1, <2>3 DEF B!EnabledTest, B!AfterEnabled, BEnabled
    <3> QED BY <2>1, <3>1
  <2> QED BY <2>2, <2>3
<1>3. CASE B!ErrorWindow(c)
  <2>1. /\ UNCHANGED <<window_start, b_now, b_reg>> /\ b_pc[c] = "e_window"
        /\ b_pc'[c] = IF b_reg[c].val - window_start > api_error_window
                      THEN "e_start" ELSE "e_add"
    BY <1>0, <1>3 DEF B!ErrorWindow, B!breaker, B!val
  <2> QED BY <1>0, <2>1
<1>4. CASE B!ErrorStart(c)
  <2>1. /\ UNCHANGED <<b_now, b_reg>> /\ b_pc[c] = "e_start" /\ b_pc'[c] = "e_one"
        /\ window_start' = b_reg[c].val
    BY <1>0, <1>4 DEF B!ErrorStart, B!val
  <2>2. b_reg[c].val \in 1 .. b_now
    BY <1>0, <2>1
  <2> QED BY <1>0, <2>1, <2>2
<1>5. CASE B!ResetWindow(c)
  <2>1. b_now' = b_now /\ window_start' = b_now /\ b_pc'[c] = "out"
    BY <1>0, <1>5 DEF B!ResetWindow
  <2> QED BY <1>0, <2>1
<1>6. CASE \/ B!ErrorOne(c) \/ B!ErrorAdd(c) \/ B!EquityPeak(c) \/ B!EquityTest(c)
           \/ B!Submission(c) \/ B!RejectionAdd(c) \/ B!RejectionTest(c)
           \/ B!TripState(c) \/ B!TripCount(c) \/ B!TripEnd(c)
           \/ B!AllowedState(c) \/ B!AllowedCooldown(c) \/ B!AllowedHalfOpen(c)
           \/ B!ResetState(c) \/ B!ResetCount(c) \/ B!ResetOrders(c)
           \/ B!Enable(c, "x_off", FALSE) \/ B!Enable(c, "x_on", TRUE)
  <2>1. UNCHANGED <<window_start, b_now>>
    BY <1>6 DEF B!ErrorOne, B!ErrorAdd, B!EquityPeak, B!EquityTest, B!Submission,
       B!RejectionAdd, B!RejectionTest, B!TripState, B!TripCount, B!TripEnd,
       B!AllowedState, B!AllowedCooldown, B!AllowedHalfOpen, B!ResetState, B!ResetCount,
       B!ResetOrders, B!Enable, B!breaker
  <2>2. ~InError(c)'
    BY <1>0, <1>6 DEF B!ErrorOne, B!ErrorAdd, B!EquityPeak, B!EquityTest, B!Submission,
       B!RejectionAdd, B!RejectionTest, B!TripState, B!TripCount, B!TripEnd,
       B!AllowedState, B!AllowedCooldown, B!AllowedHalfOpen, B!ResetState, B!ResetCount,
       B!ResetOrders, B!Enable
  <2> QED BY <2>1, <2>2
<1> QED BY <1>1, <1>2, <1>3, <1>4, <1>5, <1>6 DEF B!Step

\* A step outside record_api_error() and the stores of reset().
LEMMA BWindowFrame ==
    ASSUME NEW c \in Callers, BWindow(c),
           UNCHANGED <<errors, window_start, api_error_count, b_now>>,
           ~InError(c), ~InError(c)',
           b_state' = "Closed" =>
              b_state = "Closed" /\ b_pc[c] \notin {"tr_state", "r_count"},
           b_pc'[c] \in {"r_orders", "r_window"} => b_pc[c] \in {"r_orders", "r_window"}
    PROVE  BWindow(c)'
<1>1. Counted(c)' = Counted(c)
  BY DEF Counted
<1>2. b_pc[c] # "e_one" /\ b_pc'[c] # "e_one"
  BY DEF InError
<1> SUFFICES ASSUME b_state' = "Closed"
             PROVE  /\ api_error_count' < max_api_errors
                    /\ Window(Counted(c)', window_start', b_now', api_error_count')
                    /\ b_pc'[c] \in {"r_orders", "r_window"} =>
                          api_error_count' = 0 /\ errors' = [u \in 0 .. B_MaxTime |-> 0]
  BY <1>2 DEF BWindow
<1>3. /\ api_error_count < max_api_errors
      /\ Window(Counted(c), window_start, b_now, api_error_count)
      /\ b_pc[c] \in {"r_orders", "r_window"} =>
            api_error_count = 0 /\ errors = [u \in 0 .. B_MaxTime |-> 0]
  BY <1>2 DEF BWindow
<1> QED BY <1>1, <1>3

\* A step of the one caller keeps the bound.
LEMMA BWindowStep ==
    ASSUME B!TypeOK, BEnabled, max_api_errors > 1, NEW c \in Callers, BClock(c), BWindow(c),
           B!Step(c)
    PROVE  BWindow(c)'
<1>0. /\ b_pc \in [Callers -> B!PC] /\ b_reg \in [Callers -> [op : B!AllOps, val : Nat]]
      /\ b_now \in 1 .. B_MaxTime /\ window_start \in Nat /\ api_error_count \in Nat
      /\ B_MaxTime \in Nat /\ api_error_window \in Nat /\ max_api_errors \in Nat
      /\ window_start \in 1 .. b_now
      /\ InError(c) => b_reg[c].val \in window_start .. b_now
  BY BConstants DEF B!TypeOK, BClock
<1> DEFINE w == api_error_window
           v == b_reg[c].val
           P == Counted(c)
<1> USE DEF B!Go
<1>1. CASE B!Call(c)
  <2>1. /\ UNCHANGED <<errors, window_start, api_error_count, b_now, b_state>>
        /\ b_pc[c] = "out"
    BY <1>1 DEF B!Call, B!breaker, B!history
  <2>2. PICK op \in B_Ops : b_pc'[c] = B!Entry(op)
    BY <1>0, <1>1 DEF B!Call
  <2>3. b_pc'[c] \in {"s_add", "r_state", "x_off", "x_on", "enabled?"}
    BY <2>2 DEF B!Entry
  <2> QED BY <2>1, <2>3, BWindowFrame DEF InError
<1>2. CASE B!EnabledTest(c)
  <2>1. /\ UNCHANGED <<window_start, api_error_count, b_now, b_state>>
        /\ b_pc[c] = "enabled?"
    BY <1>2 DEF B!EnabledTest, B!breaker
  <2>2. CASE ~(b_reg[c].op = "error" /\ enabled)
    <3>1. b_pc'[c] \in {"out", "q_peak", "j_add", "a_state"} /\ errors' = errors
      BY <1>0, <1>2, <2>1, <2>2 DEF B!EnabledTest, B!AfterEnabled, BEnabled
    <3> QED BY <2>1, <3>1, BWindowFrame DEF InError
  <2>3. CASE b_reg[c].op = "error" /\ enabled
    <3>1. b_pc'[c] = "e_window"
      BY <1>0, <1>2, <2>3 DEF B!EnabledTest, B!AfterEnabled
    <3>2. b_reg'[c].val = b_now
      BY <1>0, <1>2, <2>3 DEF B!EnabledTest, B!Let
    <3>3. errors' = [t \in 0 .. B_MaxTime |-> IF t < b_now THEN errors[t] ELSE errors[t] + 1]
      BY <1>2, <2>3 DEF B!EnabledTest
    <3> SUFFICES ASSUME b_state = "Closed" PROVE BWindow(c)'
      BY <2>1 DEF BWindow
    <3>4. /\ api_error_count < max_api_errors
          /\ Window(P, window_start, b_now, api_error_count)
      BY <2>1 DEF BWindow
    <3>5. Counted(c)' = P
      <4>1. P \in [0 .. B_MaxTime -> Int] /\ P = [u \in 0 .. B_MaxTime |-> errors[u] - 0]
        BY <2>1, <3>4 DEF Window, Counted, InError
      <4>2. \A u \in 0 .. B_MaxTime : errors[u] \in Int
        BY DEF B!TypeOK, B!ErrorsTyped
      <4>3. ASSUME NEW u \in 0 .. B_MaxTime
            PROVE  errors'[u] - (IF InError(c)' /\ u >= b_reg'[c].val THEN 1 ELSE 0)
                      = errors[u] - 0
        <5> DEFINE x == IF InError(c)' /\ u >= b_reg'[c].val THEN 1 ELSE 0
        <5>1. InError(c)'
          BY <3>1 DEF InError
        <5>2. CASE u < b_now
          <6>1. errors'[u] = errors[u] /\ ~(u >= b_reg'[c].val)
            BY <1>0, <3>2, <3>3, <5>2
          <6> QED BY <6>1
        <5>3. CASE u >= b_now
          <6>1. errors'[u] = errors[u] + 1 /\ u >= b_reg'[c].val
            BY <1>0, <3>2, <3>3, <5>3
          <6>2. (errors[u] + 1) - 1 = errors[u] - 0
            BY <4>2
          <6>3. x = 1
            BY <5>1, <6>1
          <6> SUFFICES errors'[u] - x = errors[u] - 0
            OBVIOUS
          <6> HIDE DEF x
          <6> QED BY <6>1, <6>2, <6>3
        <5> QED BY <1>0, <5>2, <5>3
      <4>4. Counted(c)' = [u \in 0 .. B_MaxTime |-> errors[u] - 0]
        BY <4>3 DEF Counted
      <4> QED BY <4>1, <4>4
    <3> HIDE DEF P
    <3> QED BY <2>1, <3>1, <3>4, <3>5 DEF BWindow
  <2> QED BY <2>2, <2>3
<1>3. CASE B!ErrorWindow(c)
  <2>1. /\ UNCHANGED <<errors, window_start, api_error_count, b_now, b_state, b_reg>>
        /\ b_pc[c] = "e_window" /\ b_pc'[c] \in {"e_start", "e_add"}
    BY <1>0, <1>3 DEF B!ErrorWindow, B!breaker, B!history
  <2>2. Counted(c)' = P
    BY <2>1 DEF Counted, InError
  <2> HIDE DEF P
  <2>3. b_state = "Closed" => api_error_count < max_api_errors
            /\ Window(P, window_start, b_now, api_error_count)
    BY <2>1 DEF BWindow, P
  <2> QED BY <2>1, <2>2, <2>3 DEF BWindow
<1>4. CASE B!ErrorStart(c)
  <2>1. /\ UNCHANGED <<errors, api_error_count, b_now, b_state, b_reg>>
        /\ b_pc[c] = "e_start" /\ b_pc'[c] = "e_one" /\ window_start' = v
    BY <1>0, <1>4 DEF B!ErrorStart, B!history, B!val
  <2>2. Counted(c)' = P
    BY <2>1 DEF Counted, InError
  <2>3. v \in window_start .. b_now /\ v - window_start > api_error_window
    BY <1>0, <2>1 DEF BClock, InError
  <2> SUFFICES ASSUME b_state = "Closed" PROVE BWindow(c)'
    BY <2>1 DEF BWindow
  <2>4. /\ api_error_count < max_api_errors
        /\ Window(P, window_start, b_now, api_error_count)
    BY <2>1 DEF BWindow
  <2> HIDE DEF P, v
  <2>5. Window(P, v, b_now, 0)
    BY <1>0, <2>3, <2>4, WindowStart
  <2> QED BY <2>1, <2>2, <2>4, <2>5 DEF BWindow
<1>5. CASE B!ErrorOne(c) \/ B!ErrorAdd(c)
  <2> DEFINE k == IF b_pc[c] = "e_one" THEN 0 ELSE api_error_count
  <2>1. /\ UNCHANGED <<errors, window_start, b_now, b_state, b_reg>>
        /\ b_pc[c] \in {"e_one", "e_add"} /\ api_error_count' = k + 1
        /\ b_pc'[c] = IF b_pc[c] = "e_add" /\ k + 1 >= max_api_errors
                      THEN "tr_state" ELSE "out"
    BY <1>0, <1>5 DEF B!ErrorOne, B!ErrorAdd, B!history
  <2>2. /\ v \in window_start .. b_now /\ v - window_start <= api_error_window
        /\ InError(c) /\ ~InError(c)'
    BY <1>0, <2>1 DEF BClock, InError
  <2> SUFFICES ASSUME b_state = "Closed", b_pc'[c] = "out" PROVE BWindow(c)'
    BY <2>1 DEF BWindow
  <2>3. k \in Nat /\ k + 1 < max_api_errors
    BY <1>0, <2>1
  <2>4. Window(P, window_start, b_now, k)
    BY <2>1 DEF BWindow
  <2> DEFINE Q == [u \in 0 .. B_MaxTime |-> P[u] + (IF u >= v THEN 1 ELSE 0)]
  <2>5. Counted(c)' = Q
    <3>1. P \in [0 .. B_MaxTime -> Int]
      BY <2>4 DEF Window
    <3>2. ASSUME NEW u \in 0 .. B_MaxTime PROVE errors[u] - 0 = Q[u]
      <4>1. P[u] = errors[u] - (IF u >= v THEN 1 ELSE 0) /\ P[u] \in Int
        BY <2>2, <3>1 DEF Counted
      <4>2. errors[u] \in Int
        BY DEF B!TypeOK, B!ErrorsTyped
      <4> QED BY <4>1, <4>2
    <3>3. Counted(c)' = [u \in 0 .. B_MaxTime |-> errors[u] - 0]
      BY <2>1, <2>2 DEF Counted
    <3>4. Q = [u \in 0 .. B_MaxTime |-> Q[u]]
      OBVIOUS
    <3> HIDE DEF Q, P, v
    <3> QED BY <3>2, <3>3, <3>4
  <2>6. Window(Q, window_start, b_now, k + 1)
    <3> HIDE DEF P, v, k
    <3> QED BY <1>0, <2>2, <2>3, <2>4, WindowAdd
  <2> HIDE DEF Q, k, P
  <2> QED BY <2>1, <2>3, <2>5, <2>6 DEF BWindow
<1>6. CASE B!ResetState(c)
  <2>1. b_pc'[c] = "r_count"
    BY <1>0, <1>6 DEF B!ResetState
  <2> QED BY <2>1 DEF BWindow
<1>7. CASE B!ResetCount(c)
  <2>1. /\ UNCHANGED <<window_start, b_now, b_state, b_reg>>
        /\ b_pc'[c] = "r_orders" /\ api_error_count' = 0
        /\ errors' = [u \in 0 .. B_MaxTime |-> 0]
    BY <1>0, <1>7 DEF B!ResetCount
  <2>2. Counted(c)' = [u \in 0 .. B_MaxTime |-> 0]
    BY <2>1 DEF Counted, InError
  <2>3. Window(Counted(c)', window_start, b_now, 0)
    BY <1>0, <2>2, WindowZero
  <2> QED BY <1>0, <2>1, <2>3 DEF BWindow
<1>8. CASE B!ResetWindow(c)
  <2>1. /\ UNCHANGED <<errors, api_error_count, b_now, b_state, b_reg>>
        /\ b_pc[c] = "r_window" /\ b_pc'[c] = "out" /\ window_start' = b_now
    BY <1>0, <1>8 DEF B!ResetWindow, B!history
  <2> SUFFICES ASSUME b_state = "Closed" PROVE BWindow(c)'
    BY <2>1 DEF BWindow
  <2>2. api_error_count = 0 /\ errors = [u \in 0 .. B_MaxTime |-> 0]
    BY <2>1 DEF BWindow
  <2>3. Counted(c)' = [u \in 0 .. B_MaxTime |-> 0]
    BY <2>1, <2>2 DEF Counted, InError
  <2>4. Window(Counted(c)', b_now, b_now, 0)
    BY <1>0, <2>3, WindowZero
  <2> QED BY <1>0, <2>1, <2>2, <2>4 DEF BWindow
<1>9. CASE B!TripState(c) \/ B!AllowedHalfOpen(c)
  <2>1. b_state' # "Closed"
    BY <1>9 DEF B!TripState, B!AllowedHalfOpen
  <2> QED BY <2>1 DEF BWindow
<1>10. CASE \/ B!EquityPeak(c) \/ B!EquityTest(c)
            \/ B!Submission(c) \/ B!RejectionAdd(c) \/ B!RejectionTest(c)
            \/ B!TripCount(c) \/ B!TripEnd(c)
            \/ B!AllowedState(c) \/ B!AllowedCooldown(c) \/ B!ResetOrders(c)
            \/ B!Enable(c, "x_off", FALSE) \/ B!Enable(c, "x_on", TRUE)
  <2>1. UNCHANGED <<errors, window_start, api_error_count, b_now, b_state>>
    BY <1>10 DEF B!EquityPeak, B!EquityTest, B!Submission, B!RejectionAdd, B!RejectionTest,
       B!TripCount, B!TripEnd, B!AllowedState, B!AllowedCooldown, B!ResetOrders, B!Enable,
       B!breaker, B!history
  <2>2. /\ b_pc[c] \in {"q_peak", "q_test", "s_add", "j_add", "j_test", "tr_count", "tr_end",
                        "a_state", "a_cool", "r_orders", "x_off", "x_on"}
        /\ b_pc'[c] \in {"q_test", "tr_state", "out", "j_test", "tr_end", "a_cool", "a_half",
                         "r_window"}
        /\ b_pc'[c] = "r_window" => b_pc[c] = "r_orders"
    BY <1>0, <1>10 DEF B!EquityPeak, B!EquityTest, B!Submission, B!RejectionAdd,
       B!RejectionTest, B!TripCount, B!TripEnd, B!AllowedState, B!AllowedCooldown,
       B!ResetOrders, B!Enable
  <2> QED BY <2>1, <2>2, BWindowFrame DEF InError
<1> QED BY <1>1, <1>2, <1>3, <1>4, <1>5, <1>6, <1>7, <1>8, <1>9, <1>10 DEF B!Step

\* The windows of a breaker with auto_recovery; without its owner nobody calls
\* it.  A limit of one is left out: the error that opens a window is counted and
\* not compared.
BWindows ==
    b_auto_recovery /\ max_api_errors > 1 =>
        /\ Owner \in Callers => BClock(Owner) /\ BWindow(Owner)
        /\ Owner \notin Callers => errors = [u \in 0 .. B_MaxTime |-> 0]

LEMMA BWindowsInit == B!Init => BWindows
<1> SUFFICES ASSUME B!Init, Owner \in Callers, max_api_errors > 1
             PROVE  BClock(Owner) /\ BWindow(Owner)
  BY DEF BWindows, B!Init
<1>1. /\ window_start = 1 /\ b_now = 1 /\ b_pc[Owner] = "out" /\ api_error_count = 0
      /\ errors = [u \in 0 .. B_MaxTime |-> 0]
  BY DEF B!Init
<1>2. BClock(Owner)
  BY <1>1 DEF BClock, InError
<1>3. Counted(Owner) = [u \in 0 .. B_MaxTime |-> 0]
  BY <1>1 DEF Counted, InError
<1>4. B_MaxTime > 0
  BY PartsAssumption DEF B!BreakerConstants
<1>5. Window(Counted(Owner), 1, 1, 0)
  BY <1>3, <1>4, BConstants, WindowZero
<1> QED BY <1>1, <1>2, <1>5, BConstants DEF BWindow

LEMMA BWindowsTick ==
    ASSUME B!TypeOK, BWindows, B!Tick
    PROVE  BWindows'
<1>0. /\ b_now \in 1 .. B_MaxTime /\ b_now < B_MaxTime /\ b_now' = b_now + 1
      /\ window_start \in Nat
      /\ UNCHANGED <<b_state, api_error_count, window_start, b_auto_recovery, b_pc, b_reg,
                     errors>>
  BY DEF B!TypeOK, B!Tick, B!breaker, B!history
<1> SUFFICES ASSUME b_auto_recovery, max_api_errors > 1, Owner \in Callers
             PROVE  BClock(Owner)' /\ BWindow(Owner)'
  BY <1>0 DEF BWindows
<1>1. BClock(Owner) /\ BWindow(Owner)
  BY DEF BWindows
<1>2. BClock(Owner)'
  BY <1>0, <1>1 DEF BClock, InError
<1>3. Counted(Owner)' = Counted(Owner)
  BY <1>0 DEF Counted, InError
<1>4. ASSUME NEW k, Window(Counted(Owner), window_start, b_now, k)
      PROVE  Window(Counted(Owner), window_start, b_now + 1, k)
  BY <1>0, <1>1, <1>4, BConstants, WindowTick DEF BClock
<1>5. BWindow(Owner)'
  <2> DEFINE k == IF b_pc[Owner] = "e_one" THEN 0 ELSE api_error_count
  <2> SUFFICES ASSUME b_state = "Closed", b_pc[Owner] \notin {"tr_state", "r_count"}
               PROVE  BWindow(Owner)'
    BY <1>0 DEF BWindow
  <2>1. Window(Counted(Owner), window_start, b_now, k)
    BY <1>1 DEF BWindow
  <2>2. Window(Counted(Owner), window_start, b_now + 1, k)
    <3> HIDE DEF k
    <3> QED BY <1>4, <2>1
  <2> QED BY <1>0, <1>1, <1>3, <2>2 DEF BWindow
<1> QED BY <1>2, <1>5

\* What they say of a breaker at rest.
LEMMA BWindowsGoal ==
    ASSUME B!TypeOK, BWindows, max_api_errors > 1
    PROVE  B!WindowBound
<1> SUFFICES ASSUME B!Quiet, b_state = "Closed", b_auto_recovery,
                    NEW t \in 1 .. b_now, NEW u \in 1 .. b_now,
                    t <= u, u - t <= api_error_window
             PROVE  errors[u] - errors[t - 1] <= 2 * (max_api_errors - 1)
  BY DEF B!WindowBound
<1>0. /\ b_now \in 1 .. B_MaxTime /\ B_MaxTime \in Nat /\ max_api_errors \in Nat
      /\ errors \in [0 .. B_MaxTime -> Nat]
  BY BConstants DEF B!TypeOK, B!ErrorsTyped
<1>1. u \in 0 .. B_MaxTime /\ t - 1 \in 0 .. B_MaxTime
  BY <1>0
<1>2. CASE Owner \in Callers
  <2>1. b_pc[Owner] = "out"
    BY <1>2 DEF B!Quiet
  <2>2. Window(Counted(Owner), window_start, b_now, api_error_count)
    BY <1>2, <2>1 DEF BWindows, BWindow
  <2>3. Counted(Owner)[u] - Counted(Owner)[t - 1] <= 2 * (max_api_errors - 1)
    BY <2>2 DEF Window
  <2>4. Counted(Owner)[u] = errors[u] /\ Counted(Owner)[t - 1] = errors[t - 1]
    <3>1. Counted(Owner) = [i \in 0 .. B_MaxTime |-> errors[i] - 0]
      BY <2>1 DEF Counted, InError
    <3>2. \A i \in 0 .. B_MaxTime : errors[i] - 0 = errors[i]
      BY <1>0
    <3> QED BY <1>1, <3>1, <3>2
  <2> QED BY <2>3, <2>4
<1>3. CASE Owner \notin Callers
  <2>1. errors[u] = 0 /\ errors[t - 1] = 0
    BY <1>1, <1>3 DEF BWindows
  <2> QED BY <1>0, <2>1
<1> QED BY <1>2, <1>3

-----------------------------------------------------------------------------
(* The circuit breaker: recovery.                                           *)

\* What the one caller of a breaker with auto_recovery knows at its places.
BPlace(c) ==
    /\ b_state = "Open" /\ b_pc[c] \notin {"tr_count", "tr_end"}
          => cooldown_end = last_trip + cooldown
    /\ b_pc[c] = "tr_end" => b_reg[c].val = last_trip
    /\ b_pc[c] = "a_half" => cooldown_end = 0 \/ b_now >= cooldown_end

\* A step of that caller leads from one place to the next.
LEMMA BPlaceStep ==
    ASSUME B!TypeOK, BEnabled, NEW c \in Callers, BPlace(c), B!Step(c)
    PROVE  BPlace(c)'
<1> USE PartsAssumption
<1> USE DEF B!BreakerConstants, B!TypeOK, BEnabled, BPlace, B!Go, B!breaker, B!history
<1>1. CASE B!Call(c)
  BY <1>1 DEF B!Call, B!Entry, B!AllOps
<1>2. CASE B!EnabledTest(c)
  BY <1>2 DEF B!EnabledTest, B!AfterEnabled, B!Let
<1>3. CASE B!EquityPeak(c)
  BY <1>3 DEF B!EquityPeak, B!val
<1>4. CASE B!EquityTest(c)
  BY <1>4 DEF B!EquityTest
<1>5. CASE B!ErrorWindow(c)
  BY <1>5 DEF B!ErrorWindow
<1>6. CASE B!ErrorStart(c)
  BY <1>6 DEF B!ErrorStart, B!val
<1>7. CASE B!ErrorOne(c)
  BY <1>7 DEF B!ErrorOne
<1>8. CASE B!ErrorAdd(c)
  BY <1>8 DEF B!ErrorAdd
<1>9. CASE B!Submission(c)
  BY <1>9 DEF B!Submission
<1>10. CASE B!RejectionAdd(c)
  BY <1>10 DEF B!RejectionAdd, B!Let
<1>11. CASE B!RejectionTest(c)
  BY <1>11 DEF B!RejectionTest
<1>12. CASE B!TripState(c)
  BY <1>12 DEF B!TripState
<1>13. CASE B!TripCount(c)
  BY <1>13 DEF B!TripCount, B!Let
<1>14. CASE B!TripEnd(c)
  BY <1>14 DEF B!TripEnd, B!val
<1>15. CASE B!AllowedState(c)
  BY <1>15 DEF B!AllowedState
<1>16. CASE B!AllowedCooldown(c)
  BY <1>16 DEF B!AllowedCooldown, B!is_cooldown_expired
<1>17. CASE B!AllowedHalfOpen(c)
  BY <1>17 DEF B!AllowedHalfOpen
<1>18. CASE B!ResetState(c)
  BY <1>18 DEF B!ResetState
<1>19. CASE B!ResetCount(c)
  BY <1>19 DEF B!ResetCount
<1>20. CASE B!ResetOrders(c)
  BY <1>20 DEF B!ResetOrders
<1>21. CASE B!ResetWindow(c)
  BY <1>21 DEF B!ResetWindow
<1>22. CASE B!Enable(c, "x_off", FALSE)
  BY <1>22 DEF B!Enable
<1>23. CASE B!Enable(c, "x_on", TRUE)
  BY <1>23 DEF B!Enable
<1> QED BY <1>1, <1>2, <1>3, <1>4, <1>5, <1>6, <1>7, <1>8, <1>9, <1>10, <1>11, <1>12,
     <1>13, <1>14, <1>15, <1>16, <1>17, <1>18, <1>19, <1>20, <1>21, <1>22, <1>23
  DEF B!Step

\* Without auto_recovery nobody is about to store HalfOpen; with it, the owner
\* is the only caller.
BRecovery ==
    /\ ~b_auto_recovery => \A c \in Callers : b_pc[c] # "a_half"
    /\ b_auto_recovery =>
         /\ \A c \in Callers : c # Owner => b_pc[c] = "out"
         /\ Owner \in Callers => BPlace(Owner)
         /\ Owner \notin Callers => b_state = "Closed"

\* A step leaves the other callers where they are.
LEMMA BOthers ==
    ASSUME B!TypeOK, NEW c \in Callers, B!Step(c), NEW d \in Callers, d # c
    PROVE  b_pc'[d] = b_pc[d]
BY DEF B!TypeOK, B!Step, B!Go, B!Call, B!EnabledTest, B!EquityPeak, B!EquityTest,
       B!ErrorWindow, B!ErrorStart, B!ErrorOne, B!ErrorAdd, B!Submission, B!RejectionAdd,
       B!RejectionTest, B!TripState, B!TripCount, B!TripEnd, B!AllowedState,
       B!AllowedCooldown, B!AllowedHalfOpen, B!ResetState, B!ResetCount, B!ResetOrders,
       B!ResetWindow, B!Enable

\* The way to HalfOpen is barred without auto_recovery.
LEMMA BNoRecovery ==
    ASSUME B!TypeOK, BEnabled, NEW c \in Callers, B!Step(c), ~b_auto_recovery
    PROVE  b_auto_recovery' = b_auto_recovery /\ b_pc'[c] # "a_half"
<1> USE PartsAssumption
<1> USE DEF B!BreakerConstants, B!TypeOK, BEnabled, B!Go, B!breaker, B!history
<1>1. CASE B!Call(c)
  BY <1>1 DEF B!Call, B!Entry, B!AllOps
<1>2. CASE B!EnabledTest(c)
  BY <1>2 DEF B!EnabledTest, B!AfterEnabled, B!Let
<1>3. CASE B!EquityPeak(c)
  BY <1>3 DEF B!EquityPeak, B!val
<1>4. CASE B!EquityTest(c)
  BY <1>4 DEF B!EquityTest
<1>5. CASE B!ErrorWindow(c)
  BY <1>5 DEF B!ErrorWindow
<1>6. CASE B!ErrorStart(c)
  BY <1>6 DEF B!ErrorStart, B!val
<1>7. CASE B!ErrorOne(c)
  BY <1>7 DEF B!ErrorOne
<1>8. CASE B!ErrorAdd(c)
  BY <1>8 DEF B!ErrorAdd
<1>9. CASE B!Submission(c)
  BY <1>9 DEF B!Submission
<1>10. CASE B!RejectionAdd(c)
  BY <1>10 DEF B!RejectionAdd, B!Let
<1>11. CASE B!RejectionTest(c)
  BY <1>11 DEF B!RejectionTest
<1>12. CASE B!TripState(c)
  BY <1>12 DEF B!TripState
<1>13. CASE B!TripCount(c)
  BY <1>13 DEF B!TripCount, B!Let
<1>14. CASE B!TripEnd(c)
  BY <1>14 DEF B!TripEnd, B!val
<1>15. CASE B!AllowedState(c)
  BY <1>15 DEF B!AllowedState
<1>16. CASE B!AllowedCooldown(c)
  BY <1>16 DEF B!AllowedCooldown, B!is_cooldown_expired
<1>17. CASE B!AllowedHalfOpen(c)
  BY <1>17 DEF B!AllowedHalfOpen
<1>18. CASE B!ResetState(c)
  BY <1>18 DEF B!ResetState
<1>19. CASE B!ResetCount(c)
  BY <1>19 DEF B!ResetCount
<1>20. CASE B!ResetOrders(c)
  BY <1>20 DEF B!ResetOrders
<1>21. CASE B!ResetWindow(c)
  BY <1>21 DEF B!ResetWindow
<1>22. CASE B!Enable(c, "x_off", FALSE)
  BY <1>22 DEF B!Enable
<1>23. CASE B!Enable(c, "x_on", TRUE)
  BY <1>23 DEF B!Enable
<1> QED BY <1>1, <1>2, <1>3, <1>4, <1>5, <1>6, <1>7, <1>8, <1>9, <1>10, <1>11, <1>12,
     <1>13, <1>14, <1>15, <1>16, <1>17, <1>18, <1>19, <1>20, <1>21, <1>22, <1>23
  DEF B!Step

\* auto_recovery is fixed when the breaker is made.
LEMMA BConfigFixed ==
    ASSUME NEW c \in Callers, B!Step(c)
    PROVE  b_auto_recovery' = b_auto_recovery
BY DEF B!Step, B!Go, B!Call, B!EnabledTest, B!EquityPeak, B!EquityTest,
       B!ErrorWindow, B!ErrorStart, B!ErrorOne, B!ErrorAdd, B!Submission, B!RejectionAdd,
       B!RejectionTest, B!TripState, B!TripCount, B!TripEnd, B!AllowedState,
       B!AllowedCooldown, B!AllowedHalfOpen, B!ResetState, B!ResetCount, B!ResetOrders,
       B!ResetWindow, B!Enable

BInv ==
    /\ B!TypeOK
    /\ BEnabled
    /\ BRecovery
    /\ max_api_errors > 1 => BErrors
    /\ BWindows

\* The breaker as new() makes it.
LEMMA BInvInit == B!Init => BInv
<1> SUFFICES ASSUME B!Init PROVE BInv
  OBVIOUS
<1> USE PartsAssumption DEF B!Init, B!BreakerConstants
<1>a. enabled \in BOOLEAN /\ b_auto_recovery \in BOOLEAN
  OBVIOUS
<1>b. B!ErrorsTyped
  BY DEF B!ErrorsTyped
<1>1. B!TypeOK
  BY <1>a, <1>b DEF B!TypeOK, B!PC, B!BreakerState, B!AllOps
<1>2. BEnabled /\ BRecovery
  BY DEF BEnabled, BRecovery, BPlace
<1>3. BErrors
  BY DEF BErrors
<1>4. BWindows
  BY BWindowsInit
<1> QED BY <1>1, <1>2, <1>3, <1>4 DEF BInv

\* Each step of a caller and each tick of the clock.
LEMMA BInvStep == BInv /\ B!MCNext => BInv'
<1>1. ASSUME BInv, NEW c \in Callers, B!MCStep(c) PROVE BInv'
  <2>1. B!Step(c) /\ B!TypeOK /\ BEnabled
    BY <1>1 DEF BInv, B!MCStep
  <2>2. B!TypeOK' /\ BEnabled'
    BY <2>1, BTypeStep
  <2>3. max_api_errors > 1 => BErrors'
    BY <1>1, <2>1, BErrorsStep DEF BInv
  <2>4. CASE ~b_auto_recovery
    <3>1. b_auto_recovery' = b_auto_recovery /\ b_pc'[c] # "a_half"
      BY <2>1, <2>4, BNoRecovery
    <3>2. \A d \in Callers : d # c => b_pc'[d] = b_pc[d]
      BY <2>1, BOthers
    <3>3. BRecovery'
      BY <1>1, <2>4, <3>1, <3>2 DEF BRecovery, BInv
    <3>4. BWindows'
      BY <2>4, <3>1 DEF BWindows
    <3> QED BY <2>2, <2>3, <3>3, <3>4 DEF BInv
  <2>5. CASE b_auto_recovery
    <3>1. c = Owner /\ BPlace(c)
      BY <1>1, <2>5 DEF B!MCStep, BInv, BRecovery
    <3>2. BPlace(Owner)'
      BY <2>1, <3>1, BPlaceStep
    <3>3. \A d \in Callers : d # c => b_pc'[d] = b_pc[d]
      BY <2>1, BOthers
    <3>4. b_auto_recovery' = b_auto_recovery
      BY <2>1, BConfigFixed
    <3>5. BRecovery'
      BY <1>1, <2>5, <3>1, <3>2, <3>3, <3>4 DEF BRecovery, BInv
    <3>6. max_api_errors > 1 => BClock(c)' /\ BWindow(c)'
      BY <1>1, <2>1, <2>5, <3>1, BClockStep, BWindowStep DEF BInv, BWindows
    <3>7. BWindows'
      BY <3>1, <3>6 DEF BWindows
    <3> QED BY <2>2, <2>3, <3>5, <3>7 DEF BInv
  <2> QED BY <2>4, <2>5
<1>2. ASSUME BInv, B!MCTick PROVE BInv'
  <2>0. BWindows'
    BY <1>2, BWindowsTick DEF BInv, B!MCTick
  <2> USE <1>2, PartsAssumption
      DEF B!MCTick, B!Tick, B!breaker, B!history, BInv, B!TypeOK, B!BreakerConstants
  <2>1. B!TypeOK' /\ BEnabled'
    <3>1. B!ErrorsTyped'
      BY DEF B!ErrorsTyped
    <3>2. UNCHANGED <<b_state, trip_count, last_trip, cooldown_end, peak_equity, api_error_count,
                      window_start, orders_submitted, orders_rejected, b_calls, enabled,
                      b_auto_recovery, b_pc, b_reg>>
          /\ b_now' \in 1 .. B_MaxTime
      OBVIOUS
    <3> QED BY <3>1, <3>2 DEF BEnabled
  <2>2. BRecovery'
    BY DEF BRecovery, BPlace
  <2>3. max_api_errors > 1 => BErrors'
    BY DEF BErrors
  <2> QED BY <2>0, <2>1, <2>2, <2>3
<1> QED BY <1>1, <1>2 DEF B!MCNext

\* A trip that ends without auto_recovery was ended by reset(), and a step to
\* HalfOpen finds the cooldown of the last trip over.
LEMMA BInvRecovery == BInv /\ B!MCNext => B!TripSticks /\ B!CooldownHonoured
<1> USE PartsAssumption
<1>1. ASSUME BInv, NEW c \in Callers, B!Step(c), b_state = "Open", b_state' # "Open"
      PROVE  B!ResetState(c) \/ B!AllowedHalfOpen(c)
  BY <1>1 DEF B!Step, B!Go, B!Call, B!EnabledTest, B!EquityPeak, B!EquityTest,
     B!ErrorWindow, B!ErrorStart, B!ErrorOne, B!ErrorAdd, B!Submission, B!RejectionAdd,
     B!RejectionTest, B!TripState, B!TripCount, B!TripEnd, B!AllowedState,
     B!AllowedCooldown, B!ResetCount, B!ResetOrders, B!ResetWindow, B!Enable, B!breaker
<1>2. ASSUME BInv, NEW c \in Callers, B!MCStep(c), b_state = "Open", b_state' # "Open",
             ~b_auto_recovery
      PROVE  b_pc[c] = "r_state" /\ b_pc'[c] = "r_count"
  <2>1. B!ResetState(c)
    BY <1>1, <1>2 DEF B!MCStep, B!AllowedHalfOpen, B!Go, BInv, BRecovery
  <2> QED BY <1>2, <2>1 DEF B!ResetState, B!Go, BInv, B!TypeOK
<1>3. ASSUME BInv, NEW c \in Callers, B!MCStep(c), b_state = "Open", b_state' = "HalfOpen"
      PROVE  b_now >= last_trip + cooldown
  <2>1. B!AllowedHalfOpen(c)
    BY <1>1, <1>3 DEF B!MCStep, B!ResetState
  <2>2. b_pc[c] = "a_half" /\ b_auto_recovery
    BY <1>3, <2>1 DEF B!AllowedHalfOpen, B!Go, BInv, BRecovery
  <2>3. BPlace(c)
    BY <1>3, <2>2 DEF B!MCStep, BInv, BRecovery
  <2>4. cooldown \in Nat \ {0} /\ last_trip \in Nat
    BY <1>3 DEF B!BreakerConstants, BInv, B!TypeOK
  <2> QED BY <1>3, <2>2, <2>3, <2>4 DEF BPlace
<1>4. ASSUME B!MCTick PROVE b_state' = b_state
  BY <1>4 DEF B!MCTick, B!Tick, B!breaker
<1> QED BY <1>2, <1>3, <1>4 DEF B!MCNext, B!TripSticks, B!CooldownHonoured
-----------------------------------------------------------------------------
(* The safety system: orders that were already on their way.                *)

\* The places of submit_order() behind the test of a cause.
Beyond(x) ==
    CASE x = "inactive" -> {"killed?", "main?", "api?", "volatility?", "count"}
      [] x = "killed" -> {"main?", "api?", "volatility?", "count"}
      [] x = "main" -> {"api?", "volatility?", "count"}
      [] x = "api" -> {"volatility?", "count"}
      [] x = "volatility" -> {"count"}

\* A gateway that has let its one order through while the cause holds is not
\* beyond the test of that cause.
LateInv ==
    \A g \in Gateways, x \in Causes :
        /\ late[g][x] \in {0, 1}
        /\ late[g][x] = 1 => x \in Stopped /\ gpc[g] \notin Beyond(x)

\* While a cause holds, no gateway comes from before its test to beyond it.
LEMMA TestHolds ==
    ASSUME TypeOK, NEW h \in Gateways, GatewayStep(h),
           NEW g \in Gateways, NEW x \in Causes, x \in Stopped, x \in Stopped',
           gpc[g] \notin Beyond(x)
    PROVE  gpc'[g] \notin Beyond(x)
<1> USE DEF TypeOK, Stopped, Beyond, Test, Causes, Breakers, GPC
<1>1. CASE SubmitStart(h)
  BY <1>1 DEF SubmitStart
<1>2. CASE SubmitKilled(h)
  BY <1>2 DEF SubmitKilled
<1>3. CASE SubmitBreaker(h, "main", "main?", "api?")
  BY <1>3 DEF SubmitBreaker
<1>4. CASE SubmitBreaker(h, "api", "api?", "volatility?")
  BY <1>4 DEF SubmitBreaker
<1>5. CASE SubmitBreaker(h, "volatility", "volatility?", "count")
  BY <1>5 DEF SubmitBreaker
<1>6. CASE SubmitCount(h)
  BY <1>6 DEF SubmitCount
<1> QED BY <1>1, <1>2, <1>3, <1>4, <1>5, <1>6 DEF GatewayStep

\* The control threads leave the gateways where they are.
LEMMA ControlLeavesGateways ==
    ASSUME NEW c \in Control, ControlStep(c)
    PROVE  UNCHANGED gateway
BY DEF ControlStep, Do, Call, Trigger, record_safety_event, Trip, FlagTripped, ResetTest,
       Unkill, CloseBreaker, UnflagTripped, SetActive

\* Every step, of whichever thread, keeps LateInv.
LEMMA LateStep == TypeOK /\ LateInv /\ MCNext => LateInv'
<1> SUFFICES ASSUME TypeOK, LateInv, MCNext, NEW g \in Gateways, NEW x \in Causes
             PROVE  /\ late'[g][x] \in {0, 1}
                    /\ late'[g][x] = 1 => x \in Stopped' /\ gpc'[g] \notin Beyond(x)
  BY DEF LateInv, Beyond
<1>1. late'[g][x] = IF x \notin Stopped' THEN 0
                    ELSE IF gpc[g] = "count" /\ gpc'[g] = "idle" THEN late[g][x] + 1
                    ELSE late[g][x]
  BY DEF MCNext, MCControl, MCGateway, Observe
<1>2. /\ late[g][x] \in {0, 1}
      /\ late[g][x] = 1 => x \in Stopped /\ gpc[g] \notin Beyond(x)
  BY DEF LateInv
<1>3. "count" \in Beyond(x) /\ "idle" \notin Beyond(x)
  BY DEF Beyond, Causes, Breakers
<1>4. x \in Stopped /\ x \in Stopped' /\ gpc[g] \notin Beyond(x) => gpc'[g] \notin Beyond(x)
  <2>1. CASE \E h \in Gateways : GatewayStep(h)
    BY <2>1, TestHolds
  <2>2. CASE \E c \in Control : ControlStep(c)
    BY <2>2, ControlLeavesGateways DEF gateway
  <2> QED BY <2>1, <2>2 DEF MCNext, MCControl, MCGateway
<1>5. CASE x \notin Stopped'
  BY <1>1, <1>5
<1>6. CASE x \in Stopped' /\ gpc[g] = "count" /\ gpc'[g] = "idle"
  BY <1>1, <1>2, <1>3, <1>6
<1>7. CASE x \in Stopped' /\ ~(gpc[g] = "count" /\ gpc'[g] = "idle")
  BY <1>1, <1>2, <1>4, <1>7
<1> QED BY <1>5, <1>6, <1>7

-----------------------------------------------------------------------------
(* The safety system: types.                                                *)

\* Names for what is left of a handler, so that the provers see the calls and
\* not the sequences.
First(s) == Head(s)
After(s) == Tail(s)

\* What the handlers may have left to do, named after the calls.
WinEvent == <<"win", "event">>
Event == <<"event">>
TripMainKill == <<"trip_main", "flag", "event", "kill">>
FlagEventKill == <<"flag", "event", "kill">>
EventKill == <<"event", "kill">>
KillOnly == <<"kill">>
TripMain == <<"trip_main", "flag", "event">>
FlagEvent == <<"flag", "event">>
TripApi == <<"trip_api", "flag">>
FlagOnly == <<"flag">>
ResetFromTest == <<"cooled", "unkill", "close_main", "close_api", "close_volatility",
                   "unflag">>
ResetFromKill == <<"unkill", "close_main", "close_api", "close_volatility",
                   "unflag">>
ResetFromMain == <<"close_main", "close_api", "close_volatility",
                   "unflag">>
ResetFromApi == <<"close_api", "close_volatility",
                   "unflag">>
ResetFromVolatility == <<"close_volatility", "unflag">>
ResetFromFlag == <<"unflag">>
OnUnkill == <<"on", "unkill">>
UnkillOnly == <<"unkill">>
OffOnly == <<"off">>
KillOff == <<"kill", "off">>

Todos ==
    {<<>>, WinEvent, Event, TripMainKill, FlagEventKill, EventKill, KillOnly, TripMain,
     FlagEvent, TripApi, FlagOnly, ResetFromTest, ResetFromKill, ResetFromMain,
     ResetFromApi, ResetFromVolatility, ResetFromFlag, OnUnkill, UnkillOnly, OffOnly,
     KillOff}

\* The calls after which the manager's flag or breakers are in between.
Inner == {"flag", "close_api", "close_volatility", "unflag"}

\* A handler starts with none of the inner calls.
LEMMA HandlerTodos ==
    ASSUME NEW op \in ControlOps
    PROVE  Handler[op] \in Todos /\ (Handler[op] # <<>> => First(Handler[op]) \notin Inner)
<1>1. op \in {"ui_kill", "panic", "equity", "api_error", "rejection", "reset", "activate",
              "deactivate", "emergency"}
  BY SafetyAssumption DEF Handler
<1>2. Handler[op] \in {<<>>, WinEvent, TripMainKill, TripMain, TripApi, ResetFromTest,
                         OnUnkill, OffOnly, KillOff}
  BY <1>1 DEF Handler, WinEvent, TripMainKill, TripMain, TripApi, ResetFromTest, OnUnkill,
              OffOnly, KillOff
<1>3. Handler[op] \in Todos
  BY <1>2 DEF Todos
<1>4. Handler[op] # <<>> => First(Handler[op]) \notin Inner
  BY <1>2 DEF First, Inner, WinEvent, TripMainKill, TripMain, TripApi, ResetFromTest,
              OnUnkill, OffOnly, KillOff
<1> QED BY <1>3, <1>4

\* What each call leaves to do.
LEMMA Afters ==
    /\ After(WinEvent) = Event /\ After(Event) = <<>>
    /\ After(TripMainKill) = FlagEventKill /\ After(FlagEventKill) = EventKill
    /\ After(EventKill) = KillOnly /\ After(KillOnly) = <<>>
    /\ After(TripMain) = FlagEvent /\ After(FlagEvent) = Event
    /\ After(TripApi) = FlagOnly /\ After(FlagOnly) = <<>>
    /\ After(ResetFromTest) = ResetFromKill /\ After(ResetFromKill) = ResetFromMain
    /\ After(ResetFromMain) = ResetFromApi /\ After(ResetFromApi) = ResetFromVolatility
    /\ After(ResetFromVolatility) = ResetFromFlag /\ After(ResetFromFlag) = <<>>
    /\ After(OnUnkill) = UnkillOnly /\ After(UnkillOnly) = <<>> /\ After(OffOnly) = <<>>
    /\ After(KillOff) = OffOnly
BY SMT
DEF After, WinEvent, Event, TripMainKill, FlagEventKill, EventKill, KillOnly, TripMain,
    FlagEvent, TripApi, FlagOnly, ResetFromTest, ResetFromKill, ResetFromMain,
    ResetFromApi, ResetFromVolatility, ResetFromFlag, OnUnkill, UnkillOnly, OffOnly,
    KillOff

\* The first call of what is left.
LEMMA Firsts ==
    /\ First(WinEvent) = "win" /\ First(Event) = "event"
    /\ First(TripMainKill) = "trip_main" /\ First(FlagEventKill) = "flag"
    /\ First(EventKill) = "event" /\ First(KillOnly) = "kill"
    /\ First(TripMain) = "trip_main" /\ First(FlagEvent) = "flag"
    /\ First(TripApi) = "trip_api" /\ First(FlagOnly) = "flag"
    /\ First(ResetFromTest) = "cooled" /\ First(ResetFromKill) = "unkill"
    /\ First(ResetFromMain) = "close_main" /\ First(ResetFromApi) = "close_api"
    /\ First(ResetFromVolatility) = "close_volatility"
    /\ First(ResetFromFlag) = "unflag" /\ First(OnUnkill) = "on"
    /\ First(UnkillOnly) = "unkill" /\ First(OffOnly) = "off" /\ First(KillOff) = "kill"
BY SMT
DEF First, WinEvent, Event, TripMainKill, FlagEventKill, EventKill, KillOnly, TripMain,
    FlagEvent, TripApi, FlagOnly, ResetFromTest, ResetFromKill, ResetFromMain,
    ResetFromApi, ResetFromVolatility, ResetFromFlag, OnUnkill, UnkillOnly, OffOnly,
    KillOff

\* How the calls of a handler follow each other.
LEMMA TodoSteps ==
    ASSUME NEW s \in Todos, s # <<>>
    PROVE  /\ After(s) \in Todos
           /\ First(s) \in {"trip_main", "trip_api"}
                 => After(s) # <<>> /\ First(After(s)) = "flag"
           /\ After(s) # <<>> =>
                /\ First(After(s)) = "flag" => First(s) \in {"trip_main", "trip_api"}
                /\ First(After(s)) = "close_api" => First(s) = "close_main"
                /\ First(After(s)) = "close_volatility" => First(s) = "close_api"
                /\ First(After(s)) = "unflag" => First(s) = "close_volatility"
<1>1. FlagEventKill # <<>> /\ FlagEvent # <<>> /\ FlagOnly # <<>>
  BY DEF FlagEventKill, FlagEvent, FlagOnly
<1> QED BY <1>1, Afters, Firsts, SMT DEF Todos

STodo == todo \in [Control -> Todos]

\* One call of a handler takes it to the next one or ends it.
LEMMA DoStep ==
    ASSUME STodo, NEW c \in Control, NEW call, NEW on \in BOOLEAN, Do(c, call, on)
    PROVE  /\ todo[c] # <<>> /\ First(todo[c]) = call
           /\ todo' \in [Control -> Todos]
           /\ todo'[c] = IF on THEN After(todo[c]) ELSE <<>>
           /\ \A d \in Control : d # c => todo'[d] = todo[d]
           /\ UNCHANGED <<calls, gateway>>
<1>1. todo[c] \in Todos /\ todo[c] # <<>> /\ First(todo[c]) = call
  BY DEF STodo, Do, First
<1>2. todo' = [todo EXCEPT ![c] = IF on THEN After(todo[c]) ELSE <<>>]
  BY DEF Do, After
<1>3. After(todo[c]) \in Todos /\ <<>> \in Todos
  BY <1>1, TodoSteps DEF Todos
<1>4. UNCHANGED <<calls, gateway>>
  BY DEF Do
<1> HIDE DEF Todos
<1> QED BY <1>1, <1>2, <1>3, <1>4 DEF STodo

\* The history keeps its type.
LEMMA ObserveType ==
    ASSUME TypeOK, Observe
    PROVE  late' \in [Gateways -> [Causes -> Nat]]
BY DEF TypeOK, Observe

\* Everything but the history, at a step of a control thread.
LEMMA ControlTypes ==
    ASSUME TypeOK, STodo, NEW c \in Control, ControlStep(c), Observe
    PROVE  TypeOK' /\ STodo'
<1>a. late' \in [Gateways -> [Causes -> Nat]]
  BY ObserveType
<1>b. ASSUME NEW call, NEW on \in BOOLEAN, Do(c, call, on)
      PROVE  todo' \in [Control -> Todos] /\ UNCHANGED <<calls, gateway>>
  BY <1>b, DoStep
<1> USE <1>a DEF TypeOK, gateway
<1>1. ASSUME NEW op \in ControlOps, Call(c, op) PROVE TypeOK' /\ STodo'
  BY <1>1, HandlerTodos DEF Call, STodo
<1>2. CASE Trigger(c)
  BY <1>2, <1>b DEF Trigger, STodo
<1>3. CASE record_safety_event(c)
  <2>1. UNCHANGED <<calls, gateway>> /\ STodo'
    BY <1>3, <1>b DEF record_safety_event, STodo
  <2>2. safety_events \in Nat /\ safety_events' = safety_events + 1
    BY <1>3 DEF record_safety_event
  <2>3. UNCHANGED <<is_active, kill_flag, breaker, any_tripped>>
    BY <1>3 DEF record_safety_event
  <2> QED BY <2>1, <2>2, <2>3 DEF STodo
<1>4. CASE Trip(c, "main") \/ Trip(c, "api")
  BY <1>4, <1>b DEF Trip, STodo, Breakers
<1>5. CASE FlagTripped(c)
  BY <1>5, <1>b DEF FlagTripped, STodo
<1>6. CASE ResetTest(c)
  BY <1>6, <1>b DEF ResetTest, STodo
<1>7. CASE Unkill(c)
  BY <1>7, <1>b DEF Unkill, STodo
<1>8. CASE UnflagTripped(c)
  BY <1>8, <1>b DEF UnflagTripped, STodo
<1>9. ASSUME NEW b \in Breakers, CloseBreaker(c, b) PROVE TypeOK' /\ STodo'
  BY <1>9, <1>b DEF CloseBreaker, STodo
<1>10. CASE SetActive(c, "on", TRUE) \/ SetActive(c, "off", FALSE)
  BY <1>10, <1>b DEF SetActive, STodo
<1> QED BY <1>1, <1>2, <1>3, <1>4, <1>5, <1>6, <1>7, <1>8, <1>9, <1>10 DEF ControlStep

\* A gateway's test of one breaker keeps the types.
LEMMA BreakerTest ==
    ASSUME TypeOK, STodo, NEW g \in Gateways, NEW b \in Breakers, NEW from \in GPC,
           NEW to \in GPC, SubmitBreaker(g, b, from, to), Observe
    PROVE  TypeOK' /\ STodo'
<1>1. breaker' \in [Breakers -> {"Closed", "Open", "HalfOpen"}]
  BY DEF SubmitBreaker, TypeOK
<1>2. gpc' \in [Gateways -> GPC]
  BY DEF SubmitBreaker, Test, TypeOK, GPC
<1>3. refused' \in Nat
  BY DEF SubmitBreaker, Test, TypeOK
<1>4. UNCHANGED <<is_active, safety_events, kill_flag, any_tripped, submitted, control,
                  orders>>
  BY DEF SubmitBreaker, Test
<1>5. late' \in [Gateways -> [Causes -> Nat]]
  BY ObserveType
<1> QED BY <1>1, <1>2, <1>3, <1>4, <1>5 DEF TypeOK, STodo, control

\* The same at a step of a gateway thread.
LEMMA GatewayTypes ==
    ASSUME TypeOK, STodo, NEW g \in Gateways, GatewayStep(g), Observe
    PROVE  TypeOK' /\ STodo'
<1>a. late' \in [Gateways -> [Causes -> Nat]]
  BY ObserveType
<1> USE <1>a, SafetyAssumption DEF TypeOK, STodo, Test, control, GPC
<1>1. CASE SubmitStart(g)
  BY <1>1 DEF SubmitStart
<1>2. CASE SubmitKilled(g)
  BY <1>2 DEF SubmitKilled
<1>3. CASE SubmitBreaker(g, "main", "main?", "api?")
  BY <1>3, BreakerTest DEF Breakers
<1>4. CASE SubmitBreaker(g, "api", "api?", "volatility?")
  BY <1>4, BreakerTest DEF Breakers
<1>5. CASE SubmitBreaker(g, "volatility", "volatility?", "count")
  BY <1>5, BreakerTest DEF Breakers
<1>6. CASE SubmitCount(g)
  BY <1>6 DEF SubmitCount
<1> QED BY <1>1, <1>2, <1>3, <1>4, <1>5, <1>6 DEF GatewayStep

-----------------------------------------------------------------------------
(* The safety system: what the status report says of an open breaker.       *)

Open(b) == breaker[b] = "Open"

\* Where a reset() stands, the breakers it has closed are not open; an open
\* breaker is reported, or about to be.
SerialPlace(c) ==
    /\ (\E b \in Breakers : Open(b))
          => any_tripped \/ (todo[c] # <<>> /\ First(todo[c]) = "flag")
    /\ todo[c] # <<>> =>
         /\ First(todo[c]) = "close_api" => ~Open("main")
         /\ First(todo[c]) = "close_volatility" => ~Open("main") /\ ~Open("api")
         /\ First(todo[c]) = "unflag" => \A b \in Breakers : ~Open(b)

\* One handler at a time: whoever is inside one, if anybody, is at its place.
SerialInv ==
    /\ \A c, d \in Control : todo[c] # <<>> /\ todo[d] # <<>> => c = d
    /\ \A c \in Control : (\A d \in Control \ {c} : todo[d] = <<>>) => SerialPlace(c)
    /\ Control = {} => \A b \in Breakers : ~Open(b)

\* A call of the thread that is alone inside its handler keeps its place.
LEMMA SerialPlaceStep ==
    ASSUME TypeOK, STodo, NEW c \in Control, SerialPlace(c), ControlStep(c)
    PROVE  SerialPlace(c)'
<1> DEFINE s == todo[c]
<1>a. ASSUME s # <<>> PROVE
        /\ First(s) \in {"trip_main", "trip_api"}
              => After(s) # <<>> /\ First(After(s)) = "flag"
        /\ After(s) # <<>> =>
             /\ First(After(s)) = "flag" => First(s) \in {"trip_main", "trip_api"}
             /\ First(After(s)) = "close_api" => First(s) = "close_main"
             /\ First(After(s)) = "close_volatility" => First(s) = "close_api"
             /\ First(After(s)) = "unflag" => First(s) = "close_volatility"
  BY <1>a, TodoSteps DEF STodo
<1>b. ASSUME NEW call, NEW on \in BOOLEAN, Do(c, call, on)
      PROVE  s # <<>> /\ First(s) = call /\ todo'[c] = IF on THEN After(s) ELSE <<>>
  BY <1>b, DoStep
<1> HIDE DEF s
<1>t. breaker \in [Breakers -> {"Closed", "Open", "HalfOpen"}] /\ kill_flag \in BOOLEAN
  BY DEF TypeOK
<1>p. /\ (\E b \in Breakers : Open(b)) => any_tripped \/ (s # <<>> /\ First(s) = "flag")
      /\ s # <<>> =>
           /\ First(s) = "close_api" => ~Open("main")
           /\ First(s) = "close_volatility" => ~Open("main") /\ ~Open("api")
           /\ First(s) = "unflag" => \A b \in Breakers : ~Open(b)
  BY DEF SerialPlace, s
<1>c. ASSUME NEW call, NEW on \in BOOLEAN, Do(c, call, on),
             call \notin {"trip_main", "trip_api", "close_main", "close_api",
                          "close_volatility"}
      PROVE  todo'[c] # <<>> => First(todo'[c]) \notin Inner
  BY <1>a, <1>b, <1>c DEF Inner
<1>d. ASSUME NEW call, NEW on \in BOOLEAN, Do(c, call, on), UNCHANGED <<breaker, any_tripped>>,
             call \in {"win", "kill", "event", "cooled", "unkill", "on", "off"}
      PROVE  SerialPlace(c)'
  <2>1. todo'[c] # <<>> => First(todo'[c]) \notin Inner
    BY <1>c, <1>d
  <2>2. First(s) # "flag"
    BY <1>b, <1>d
  <2> QED BY <1>d, <1>p, <2>1, <2>2 DEF SerialPlace, Open, Inner
<1>1. ASSUME NEW op \in ControlOps, Call(c, op) PROVE SerialPlace(c)'
  <2>1. s = <<>> /\ todo'[c] = Handler[op] /\ UNCHANGED <<breaker, any_tripped>>
    BY <1>1 DEF Call, STodo, s
  <2>2. todo'[c] # <<>> => First(todo'[c]) \notin Inner
    BY <2>1, HandlerTodos
  <2> QED BY <1>p, <2>1, <2>2 DEF SerialPlace, Open, Inner
<1>2. CASE Trigger(c)
  <2>1. (~kill_flag) \in BOOLEAN
    OBVIOUS
  <2> QED BY <1>2, <1>d, <2>1 DEF Trigger
<1>3. CASE record_safety_event(c)
  BY <1>3, <1>d DEF record_safety_event
<1>4. ASSUME NEW b \in {"main", "api"}, Trip(c, b) PROVE SerialPlace(c)'
  <2>1. TripCall[b] \in {"trip_main", "trip_api"}
    BY <1>4 DEF TripCall
  <2>2. CASE Do(c, TripCall[b], TRUE)
    <3>1. todo'[c] # <<>> /\ First(todo'[c]) = "flag"
      BY <1>a, <1>b, <2>1, <2>2
    <3> QED BY <3>1 DEF SerialPlace
  <2>3. CASE Do(c, TripCall[b], FALSE) /\ UNCHANGED breaker
    <3>1. First(s) # "flag" /\ todo'[c] = <<>> /\ UNCHANGED any_tripped
      BY <1>4, <1>b, <2>1, <2>3 DEF Trip
    <3> QED BY <1>p, <2>3, <3>1 DEF SerialPlace, Open
  <2> QED BY <1>4, <2>2, <2>3 DEF Trip
<1>5. CASE FlagTripped(c)
  <2>1. Do(c, "flag", TRUE) /\ any_tripped'
    BY <1>5 DEF FlagTripped
  <2>2. todo'[c] # <<>> => First(todo'[c]) \notin Inner
    BY <1>c, <2>1
  <2> QED BY <2>1, <2>2 DEF SerialPlace, Inner
<1>6. CASE ResetTest(c)
  BY <1>6, <1>d DEF ResetTest
<1>7. CASE Unkill(c)
  BY <1>7, <1>d DEF Unkill
<1>8. CASE UnflagTripped(c)
  <2>1. Do(c, "unflag", TRUE) /\ UNCHANGED breaker
    BY <1>8 DEF UnflagTripped
  <2>2. todo'[c] # <<>> => First(todo'[c]) \notin Inner
    BY <1>c, <2>1
  <2>3. \A b \in Breakers : ~Open(b)'
    BY <1>b, <1>p, <2>1 DEF Open
  <2> QED BY <2>2, <2>3 DEF SerialPlace, Inner
<1>9. ASSUME NEW b \in Breakers, CloseBreaker(c, b) PROVE SerialPlace(c)'
  <2>1. /\ s # <<>> /\ First(s) = CloseCall[b] /\ todo'[c] = After(s)
        /\ breaker' = [breaker EXCEPT ![b] = "Closed"] /\ UNCHANGED any_tripped
    BY <1>9, <1>b DEF CloseBreaker
  <2>2. \A d \in Breakers : Open(d)' <=> d # b /\ Open(d)
    BY <1>t, <2>1 DEF Open
  <2>3. CASE b = "main"
    BY <1>a, <1>p, <2>1, <2>2, <2>3 DEF SerialPlace, CloseCall, Breakers
  <2>4. CASE b = "api"
    BY <1>a, <1>p, <2>1, <2>2, <2>4 DEF SerialPlace, CloseCall, Breakers
  <2>5. CASE b = "volatility"
    BY <1>a, <1>p, <2>1, <2>2, <2>5 DEF SerialPlace, CloseCall, Breakers
  <2> QED BY <2>3, <2>4, <2>5 DEF Breakers
<1>10. CASE SetActive(c, "on", TRUE) \/ SetActive(c, "off", FALSE)
  BY <1>10, <1>d DEF SetActive
<1> QED BY <1>1, <1>2, <1>3, <1>4, <1>5, <1>6, <1>7, <1>8, <1>9, <1>10 DEF ControlStep

\* A control thread does nothing to the handlers of the others.
LEMMA ControlAlone ==
    ASSUME STodo, NEW c \in Control, ControlStep(c)
    PROVE  \A d \in Control : d # c => todo'[d] = todo[d]
<1>1. ASSUME NEW call, NEW on \in BOOLEAN, Do(c, call, on)
      PROVE  \A d \in Control : d # c => todo'[d] = todo[d]
  BY <1>1, DoStep
<1>2. ASSUME NEW op \in ControlOps, Call(c, op)
      PROVE  \A d \in Control : d # c => todo'[d] = todo[d]
  BY <1>2 DEF Call, STodo
<1>3. \/ \E op \in ControlOps : Call(c, op)
      \/ \E call : Do(c, call, TRUE) \/ Do(c, call, FALSE) \/ Do(c, call, ~kill_flag)
  BY DEF ControlStep, Trigger, record_safety_event, Trip, FlagTripped, ResetTest, Unkill,
         CloseBreaker, UnflagTripped, SetActive
<1>4. ASSUME NEW call, Do(c, call, ~kill_flag)
      PROVE  \A d \in Control : d # c => todo'[d] = todo[d]
  <2>1. (~kill_flag) \in BOOLEAN
    OBVIOUS
  <2> QED BY <1>1, <1>4, <2>1
<1> QED BY <1>1, <1>2, <1>3, <1>4

\* A gateway changes no handler and no report, and opens no breaker.
LEMMA GatewaySerial ==
    ASSUME TypeOK, NEW g \in Gateways, GatewayStep(g)
    PROVE  /\ UNCHANGED <<todo, any_tripped>>
           /\ \A b \in Breakers : Open(b)' => Open(b)
BY DEF TypeOK, GatewayStep, SubmitStart, SubmitKilled, SubmitBreaker, SubmitCount, Test,
       Open, control

\* Steps of one handler at a time keep SerialInv.
LEMMA SerialStep == TypeOK /\ STodo /\ SerialInv /\ usage = "serial" /\ MCNext => SerialInv'
<1> SUFFICES ASSUME TypeOK, STodo, SerialInv, usage = "serial", MCNext PROVE SerialInv'
  OBVIOUS
<1>1. ASSUME NEW c \in Control, MCControl(c) PROVE SerialInv'
  <2>1. \A d \in Control \ {c} : todo[d] = <<>>
    BY <1>1 DEF MCControl
  <2>2. SerialPlace(c)'
    BY <1>1, <2>1, SerialPlaceStep DEF MCControl, SerialInv
  <2>3. \A d \in Control \ {c} : todo'[d] = <<>>
    BY <1>1, <2>1, ControlAlone DEF MCControl
  <2>4. ASSUME NEW d \in Control, \A e \in Control \ {d} : todo'[e] = <<>>
        PROVE  SerialPlace(d)'
    BY <2>2, <2>3, <2>4 DEF SerialPlace
  <2> QED BY <2>3, <2>4 DEF SerialInv
<1>2. ASSUME NEW g \in Gateways, MCGateway(g) PROVE SerialInv'
  <2>1. /\ UNCHANGED <<todo, any_tripped>>
        /\ \A b \in Breakers : Open(b)' => Open(b)
    BY <1>2, GatewaySerial DEF MCGateway
  <2> QED BY <2>1 DEF SerialInv, SerialPlace, Breakers
<1> QED BY <1>1, <1>2 DEF MCNext

-----------------------------------------------------------------------------
(* The composition: a behaviour runs one of the three parts.                *)

SInv ==
    /\ TypeOK
    /\ STodo
    /\ LateInv
    /\ usage = "serial" => SerialInv

\* The system as new() makes it.
LEMMA SInvInit == MCInit => SInv
<1> SUFFICES ASSUME MCInit PROVE SInv
  OBVIOUS
<1> USE SafetyAssumption DEF MCInit, Init
<1>1. TypeOK
  <2>1. is_active \in BOOLEAN /\ kill_flag \in BOOLEAN /\ any_tripped \in BOOLEAN
    OBVIOUS
  <2>2. gpc \in [Gateways -> GPC] /\ orders \in [Gateways -> 0 .. MaxOrders]
    BY DEF GPC
  <2>3. late \in [Gateways -> [Causes -> Nat]]
    OBVIOUS
  <2> QED BY <2>1, <2>2, <2>3 DEF TypeOK
<1>2. STodo
  BY DEF STodo, Todos
<1>3. LateInv
  BY DEF LateInv
<1>4. SerialInv
  BY DEF SerialInv, SerialPlace, Open
<1> QED BY <1>1, <1>2, <1>3, <1>4 DEF SInv

\* Each step of the system keeps all of it.
LEMMA SInvStep == SInv /\ MCNext => SInv'
<1> SUFFICES ASSUME SInv, MCNext PROVE SInv'
  OBVIOUS
<1>1. TypeOK' /\ STodo'
  BY ControlTypes, GatewayTypes DEF SInv, MCNext, MCControl, MCGateway
<1>2. LateInv'
  BY LateStep DEF SInv
<1>3. usage' = usage
  BY DEF MCNext, MCControl, MCGateway
<1>4. usage' = "serial" => SerialInv'
  BY <1>3, SerialStep DEF SInv
<1> QED BY <1>1, <1>2, <1>4 DEF SInv

\* What the run's invariants say of the system.
LEMMA SInvGoals == SInv => LateOrders /\ SerialTrippedIsReported
<1> SUFFICES ASSUME SInv PROVE LateOrders /\ SerialTrippedIsReported
  OBVIOUS
<1>1. LateOrders
  BY DEF SInv, LateInv, LateOrders
<1>2. usage = "serial" => TrippedIsReported
  BY DEF SInv, SerialInv, SerialPlace, TrippedIsReported, Quiet, Open
<1> QED BY <1>1, <1>2 DEF SInv, SerialTrippedIsReported

PInv ==
    /\ KInv /\ BInv /\ SInv
    /\ k_usage \in {"serial", "race"}

\* All three parts start right.
LEMMA PInvInit == PartsInit => PInv
BY KInvInit, BInvInit, SInvInit, UsagesAssumption DEF PartsInit, PInv, K!MCInit

\* The parts that do not run stay as they are.
LEMMA PInvStep == PInv /\ [PartsNext]_<<subject, kvars, bvars, svars>> => PInv'
<1> SUFFICES ASSUME PInv, [PartsNext]_<<subject, kvars, bvars, svars>> PROVE PInv'
  OBVIOUS
<1>k. UNCHANGED kvars => KInv'
  BY DEF PInv, kvars, KInv, K!TypeOK, KStamps, KSerial, KPlace, KRest, KStateAgrees, KRace
<1>b. UNCHANGED bvars => BInv'
  BY DEF PInv, bvars, BInv, B!TypeOK, B!ErrorsTyped, BEnabled, BRecovery, BPlace, BErrors, BWindows, BClock,
     BWindow, Counted, InError
<1>s. UNCHANGED svars => SInv'
  BY DEF PInv, svars, SInv, TypeOK, STodo, LateInv, Stopped, SerialInv, SerialPlace, Open
<1>u. k_usage' = k_usage
  BY DEF PartsNext, K!MCNext, K!MCStep, K!MCTick, kvars
<1>1. KInv'
  BY <1>k, KInvStep DEF PInv, PartsNext
<1>2. BInv'
  BY <1>b, BInvStep DEF PInv, PartsNext
<1>3. SInv'
  BY <1>s, SInvStep DEF PInv, PartsNext
<1> QED BY <1>u, <1>1, <1>2, <1>3 DEF PInv

\* PInv holds throughout.
THEOREM PartsInvariant == PartsSpec => []PInv
BY PInvInit, PInvStep, PTL DEF PartsSpec

\* For a supervisor who makes one call at a time, the flag that stops trading
\* and the reported state of kill_switch.rs agree between its calls and the
\* pending count is exact, for any cooldown and any number of orders.
THEOREM KillConsistentHolds == PartsSpec => []KillConsistent
<1>1. PInv => KillConsistent
  BY KInvConsistent DEF PInv
<1> QED BY <1>1, PartsInvariant, PTL

\* None of any number of racing trigger() calls returns before the flag is set.
THEOREM KillRaceLatchedHolds == PartsSpec => []KillRaceLatched
<1>1. PInv => KillRaceLatched
  BY KInvLatched DEF PInv
<1> QED BY <1>1, PartsInvariant, PTL

\* SafetySystem::reset() gives trading back no earlier than the cooldown after
\* the last kill.
THEOREM KillCooldownHolds == PartsSpec => KillCooldown
<1>1. PInv /\ [PartsNext]_<<subject, kvars, bvars, svars>> => [K!CooldownRespected]_kvars
  BY KInvCooldown DEF PInv
<1> QED BY <1>1, PartsInvariant, PTL DEF PartsSpec, KillCooldown

\* Only reset() ends a trip without auto_recovery, and with it the breaker of
\* circuit_breaker.rs recovers only after the cooldown of its last trip.
THEOREM BreakerRecoveryHolds == PartsSpec => BreakerRecovery
<1>1. PInv /\ [PartsNext]_<<subject, kvars, bvars, svars>>
        => [B!TripSticks /\ B!CooldownHonoured]_bvars
  <2> SUFFICES ASSUME PInv, [PartsNext]_<<subject, kvars, bvars, svars>>, ~UNCHANGED bvars
               PROVE  B!TripSticks /\ B!CooldownHonoured
    OBVIOUS
  <2>1. B!MCNext
    BY DEF PartsNext
  <2> QED BY <2>1, BInvRecovery DEF PInv
<1> QED BY <1>1, PartsInvariant, PTL DEF PartsSpec, BreakerRecovery

\* Whatever calls race, a breaker whose error count has reached the limit is not
\* left closed once they are over; and one that its single caller leaves closed
\* has seen at most 2 * (max_api_errors - 1) errors in any window of that length,
\* wherever its own windows began and whatever resets came between.  The limit is
\* more than one: the error that opens a window is counted and not compared.
THEOREM BreakerErrorsHold ==
    ASSUME max_api_errors > 1
    PROVE  PartsSpec => []BreakerErrors
<1>1. PInv => BreakerErrors
  <2> SUFFICES ASSUME PInv PROVE BreakerErrors
    OBVIOUS
  <2>1. B!TypeOK /\ B!ErrorsTrip
    BY DEF PInv, BInv, BErrors, B!ErrorsTrip, B!Quiet
  <2>2. B!WindowBound
    BY BWindowsGoal DEF PInv, BInv
  <2> QED BY <2>1, <2>2 DEF BreakerErrors
<1> QED BY <1>1, PartsInvariant, PTL

\* While a kill, an open breaker or a deactivation lasts, each of any number of
\* gateway threads lets at most one order through.
THEOREM LateOrdersHold == PartsSpec => []LateOrders
<1>1. PInv => LateOrders
  BY SInvGoals DEF PInv
<1> QED BY <1>1, PartsInvariant, PTL

\* If the handlers of safety/mod.rs do not overlap, any_tripped never hides an
\* open breaker once they have returned.
THEOREM TrippedIsReportedHolds == PartsSpec => []SerialTrippedIsReported
<1>1. PInv => SerialTrippedIsReported
  BY SInvGoals DEF PInv
<1> QED BY <1>1, PartsInvariant, PTL
=============================================================================
