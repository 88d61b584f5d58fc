--------------------------- MODULE MCSafetySystem ---------------------------
(***************************************************************************)
(* SafetySystem under two patterns of use, one of which a behaviour keeps  *)
(* to from its start: "serial", where the control threads' handlers do not *)
(* overlap, and "race", where they do.                                     *)
(***************************************************************************)
EXTENDS SafetySystem, TLC

CONSTANTS Usages,          \* the patterns of use to be explored
          MaxRaceCalls     \* handler calls when they race (a bound)

VARIABLE usage

MCInit == Init /\ usage \in Usages

MCControl(c) ==
    /\ usage = "serial" => \A d \in Control \ {c} : todo[d] = <<>>
    /\ usage = "race" /\ todo[c] = <<>> => calls < MaxRaceCalls
    /\ ControlStep(c)
    /\ Observe
    /\ UNCHANGED usage

MCGateway(g) == GatewayStep(g) /\ Observe /\ UNCHANGED usage

MCNext ==
    \/ \E c \in Control : MCControl(c)
    \/ \E g \in Gateways : MCGateway(g)

MCSpec == MCInit /\ [][MCNext]_<<vars, usage>>

\* If handlers do not overlap, the status report never hides an open breaker;
\* whether they do or not, the system keeps its types.
SerialTrippedIsReported == TypeOK /\ (usage = "serial" => TrippedIsReported)

\* Threads of one kind are only compared for equality.
Symmetry == Permutations(Control) \cup Permutations(Gateways)
=============================================================================
