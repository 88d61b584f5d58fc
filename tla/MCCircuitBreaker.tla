-------------------------- MODULE MCCircuitBreaker --------------------------
(***************************************************************************)
(* CircuitBreaker under two patterns of use, told apart by the             *)
(* configuration: a breaker with auto_recovery is called by one thread at  *)
(* a time, with every operation; a breaker without it by all threads at    *)
(* once, with the operations in RaceOps.                                   *)
(***************************************************************************)
EXTENDS CircuitBreaker, TLC

CONSTANTS Owner,                 \* the caller of a breaker with auto_recovery
          RaceOps,               \* what racing callers use
          MaxRaceCalls, MaxRaceTime   \* their bounds

MCStep(c) ==
    /\ auto_recovery => c = Owner
    /\ ~auto_recovery /\ pc[c] = "out" => calls < MaxRaceCalls
    /\ Step(c)
    /\ ~auto_recovery /\ pc[c] = "out" => reg'[c].op \in RaceOps

MCTick == (auto_recovery \/ now < MaxRaceTime) /\ Tick

MCNext == (\E c \in Threads : MCStep(c)) \/ MCTick

MCSpec == Init /\ [][MCNext]_vars
=============================================================================
