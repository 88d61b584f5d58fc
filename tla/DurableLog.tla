----------------------------- MODULE DurableLog -----------------------------
(***************************************************************************)
(* What a write-ahead log promises to its reader.  Records go in at rising *)
(* places; a sync secures all that are in; a crash takes away the latest   *)
(* ones, and never a secured one.  A record that is read keeps its place   *)
(* and its value, and none appears before another that is already there.   *)
(***************************************************************************)
EXTENDS Integers

VARIABLES
    content,           \* the records that can be read: their values by place
    secured            \* the places of those that no crash takes away

logVars == <<content, secured>>

Places == DOMAIN content

LogInit == Places = {} /\ secured = {}

Record ==
    /\ \E p \in DOMAIN content' :
          /\ DOMAIN content' = Places \cup {p}
          /\ \A q \in Places : q < p /\ content'[q] = content[q]
    /\ UNCHANGED secured

Secure ==
    /\ secured' = Places
    /\ UNCHANGED content

\* What is left is on the disk.
Crash ==
    \E kept \in SUBSET Places :
        /\ secured \subseteq kept
        /\ \A p \in kept, q \in Places : q < p => q \in kept
        /\ content' = [p \in kept |-> content[p]]
        /\ secured' = kept

LogNext == Record \/ Secure \/ Crash

LogSpec == LogInit /\ [][LogNext]_logVars
=============================================================================
