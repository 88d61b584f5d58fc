------------------------------ MODULE MCOrder ------------------------------
(***************************************************************************)
(* OrderStateMachine under patterns of use, one of which a behaviour keeps *)
(* to from its start: "serial", where calls do not overlap, and "race",    *)
(* where they do.                                                          *)
(***************************************************************************)
EXTENDS OrderStateMachine, TLC

CONSTANTS Usages,          \* the patterns of use to be explored
          MaxRaceCalls     \* calls when they race (a bound)

VARIABLE usage

MCInit == Init /\ usage \in Usages

MCStep(c) ==
    /\ usage = "serial" => \A d \in Threads \ {c} : pc[d] = "idle"
    /\ usage = "race" /\ pc[c] = "idle" => calls < MaxRaceCalls
    /\ Step(c)
    /\ UNCHANGED usage

MCNext == \E c \in Threads : MCStep(c)

MCSpec == MCInit /\ [][MCNext]_<<vars, usage>>

\* If calls do not overlap, the state only moves along the valid transitions;
\* no call sequence, failed calls included, leads off that path.
SerialLegalPath ==
    [][usage = "serial" /\ state' # state
         => is_valid_transition(state, state')]_<<vars, usage>>

\* Callers are only compared for equality.
Symmetry == Permutations(Threads)
=============================================================================
