---------------------------- MODULE MCKillSwitch ----------------------------
(***************************************************************************)
(* KillSwitch under patterns of use, one of which a behaviour keeps to     *)
(* from its start: "serial", where the thread Supervisor alone calls every *)
(* operation in any order; "race", where all threads only trigger(); and   *)
(* "free", where every thread calls what it likes.                         *)
(***************************************************************************)
EXTENDS KillSwitch, TLC

CONSTANTS Supervisor,
          Usages,          \* the patterns of use to be explored
          MaxRaceCalls     \* calls of a racing thread (a bound)

VARIABLE usage

MCInit == Init /\ usage \in Usages

MCStep(c) ==
    /\ usage = "serial" => c = Supervisor
    /\ usage = "race" /\ pc[c] = "out" => calls[c] < MaxRaceCalls
    /\ Step(c)
    /\ usage = "race" /\ pc[c] = "out" => pc'[c] = "t_armed"
    /\ UNCHANGED usage

MCTick == usage # "race" /\ Tick /\ UNCHANGED usage

MCNext == (\E c \in Threads : MCStep(c)) \/ MCTick

MCSpec == MCInit /\ [][MCNext]_<<vars, usage>>

Serial == usage = "serial"

\* For a supervisor that makes one call at a time: between its calls the
\* reported state and the flag that stops trading agree.
SerialStateMatchesFlag == Serial => StateMatchesFlag

\* For a supervisor that makes one call at a time: the pending count is exact.
SerialPendingExact == Serial => PendingExact

\* For racing triggers: none returns before trading is stopped.
RaceLatched == usage = "race" => KillLatched
=============================================================================
