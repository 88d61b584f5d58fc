----------------------------- MODULE TicketQueue -----------------------------
(***************************************************************************)
(* What a bounded queue of tickets promises.  A producer reserves the next *)
(* ticket, commits it when its element is in place, and consumers take     *)
(* committed tickets one by one in the order of reservation.  A ticket     *)
(* that is not committed holds up the ones behind it; nothing is lost,     *)
(* taken twice, or taken before it is committed.                           *)
(***************************************************************************)
EXTENDS Integers

CONSTANT Capacity      \* tickets that may be outstanding

VARIABLES
    taken,             \* tickets below this one have been taken
    reserved,          \* tickets below this one have been reserved
    ready              \* outstanding tickets that are committed

qvars == <<taken, reserved, ready>>

QInit == taken = 0 /\ reserved = 0 /\ ready = {}

Reserve ==
    /\ reserved - taken < Capacity
    /\ reserved' = reserved + 1
    /\ UNCHANGED <<taken, ready>>

Commit ==
    /\ \E n \in taken .. reserved - 1 :
          /\ n \notin ready
          /\ ready' = ready \cup {n}
    /\ UNCHANGED <<taken, reserved>>

Take ==
    /\ taken \in ready
    /\ taken' = taken + 1
    /\ ready' = ready \ {taken}
    /\ UNCHANGED reserved

QNext == Reserve \/ Commit \/ Take

QSpec == QInit /\ [][QNext]_qvars
=============================================================================
