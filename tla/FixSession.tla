----------------------------- MODULE FixSession -----------------------------
(***************************************************************************)
(* The FIX session of fix/session.rs: one thread in process_message(), and *)
(* other threads that send, start, stop and reset.  The counterparty       *)
(* numbers its messages from 1; the network may lose, repeat and reorder   *)
(* them, so any number sent so far may come next.  Payloads, statistics    *)
(* and times are left out.                                                 *)
(***************************************************************************)
EXTENDS Integers

CONSTANTS
    ResetOnDisconnect,  \* the values of config.reset_on_disconnect
    MaxSeq, MaxOut      \* bounds on the two sequences of numbers

\* What is assumed of the constants.
FixConstants == ResetOnDisconnect \subseteq BOOLEAN /\ MaxSeq \in Nat /\ MaxOut \in Nat

VARIABLES
    session,            \* state
    active,             \* is_running
    out_seq, in_seq,    \* outgoing_seq_num, incoming_seq_num
    last,               \* last_received_seq
    pending, range,     \* pending_resend, and its begin and end
    resets,             \* config.reset_on_disconnect
    proc,               \* process_message(): its step, number and message type
    closing,            \* a thread in stop(), before the state store
    peer,               \* the last number the counterparty has used
    handled,            \* ghost: the numbers handled since the last reset
    raced               \* ghost: the numbers were reset under a message

fixVars == <<session, active, out_seq, in_seq, last, pending, range, resets, proc,
             closing, peer, handled, raced>>
seqs == <<in_seq, last, pending, range>>

SessionState == {"Disconnected", "Connecting", "AwaitingLogon", "LoggedOn", "LoggingOff",
                 "Terminated", "ResendRequested"}
MsgType == {"Heartbeat", "Logon", "Logout", "ResendRequest", "Other"}
Idle == [at |-> "idle", n |-> 0]

FixTypeOK ==
    /\ session \in SessionState
    /\ {active, pending, closing, raced} \subseteq BOOLEAN
    /\ resets \in ResetOnDisconnect
    /\ out_seq \in 1 .. MaxOut + 1 /\ in_seq \in 1 .. MaxSeq + 1
    /\ last \in 0 .. MaxSeq /\ peer \in 0 .. MaxSeq /\ handled \subseteq 1 .. MaxSeq
    /\ range \in (0 .. MaxSeq) \X (0 .. MaxSeq)
    /\ proc \in [at : {"idle", "bump", "handle"}, n : 0 .. MaxSeq]

FixInit ==
    /\ session = "Disconnected" /\ active = FALSE
    /\ out_seq = 1 /\ in_seq = 1 /\ last = 0 /\ pending = FALSE /\ range = <<0, 0>>
    /\ resets \in ResetOnDisconnect
    /\ proc = Idle /\ closing = FALSE /\ peer = 0 /\ handled = {} /\ raced = FALSE

-----------------------------------------------------------------------------
(* process_message().                                                       *)

PeerSend ==
    /\ peer < MaxSeq
    /\ peer' = peer + 1
    /\ UNCHANGED <<session, active, out_seq, seqs, resets, proc, closing, handled, raced>>

\* request_resend(n): only a number beyond the next one opens a range, which
\* replaces the one before.
request_resend(n) ==
    IF n > last + 1
    THEN pending' = TRUE /\ range' = <<last + 1, n - 1>> /\ session' = "ResendRequested"
    ELSE UNCHANGED <<pending, range, session>>

\* validate_sequence() up to the comparison, with request_resend() when it fails.
ReceiveCheck(n) ==
    /\ active /\ proc = Idle
    /\ IF n = in_seq
       THEN proc' = [at |-> "bump", n |-> n] /\ UNCHANGED <<pending, range, session>>
       ELSE proc' = [at |-> "handle", n |-> n] /\ request_resend(n)
    /\ UNCHANGED <<active, out_seq, in_seq, last, resets, closing, peer, handled, raced>>

\* last_received_seq follows the expected number, not the message (a mutated form).
Bug_LastAhead ==
    /\ proc.at = "bump"
    /\ in_seq' = in_seq + 1 /\ last' = in_seq + 1
    /\ proc' = [proc EXCEPT !.at = "handle"]
    /\ UNCHANGED <<session, active, out_seq, pending, range, resets, closing, peer, handled,
                   raced>>

ReceiveBump ==
    /\ proc.at = "bump"
    /\ in_seq' = in_seq + 1 /\ last' = proc.n
    /\ proc' = [proc EXCEPT !.at = "handle"]
    /\ UNCHANGED <<session, active, out_seq, pending, range, resets, closing, peer, handled,
                   raced>>

\* The handlers; a message is handled whatever its number was.
Handle ==
    /\ proc.at = "handle"
    /\ \E type \in MsgType :
        /\ session' = CASE type \in {"Logon", "ResendRequest"} -> "LoggedOn"
                        [] type = "Logout" -> "Disconnected"
                        [] OTHER -> session
        /\ pending' = (pending /\ type # "ResendRequest")
    /\ handled' = handled \cup {proc.n}
    /\ proc' = Idle
    /\ UNCHANGED <<active, out_seq, in_seq, last, range, resets, closing, peer, raced>>

-----------------------------------------------------------------------------
(* The other threads.                                                       *)

Start ==
    /\ ~active /\ ~closing
    /\ session' = "Connecting" /\ active' = TRUE
    /\ UNCHANGED <<out_seq, seqs, resets, proc, closing, peer, handled, raced>>

\* reset_sequence_numbers(), which keeps a pending resend; the counterparty
\* starts again at 1 too.
reset_sequence_numbers ==
    /\ out_seq' = 1 /\ in_seq' = 1 /\ last' = 0
    /\ peer' = 0 /\ handled' = {} /\ raced' = (raced \/ proc # Idle)
    /\ UNCHANGED <<pending, range>>

Stop ==
    /\ active
    /\ active' = FALSE /\ closing' = TRUE
    /\ IF resets THEN reset_sequence_numbers
       ELSE UNCHANGED <<out_seq, seqs, peer, handled, raced>>
    /\ UNCHANGED <<session, resets, proc>>

StopState ==
    /\ closing
    /\ session' = "Terminated" /\ closing' = FALSE
    /\ UNCHANGED <<active, out_seq, seqs, resets, proc, peer, handled, raced>>

\* send_logon(), send_logout(), send_heartbeat() and send_test_request(): each
\* takes the next number, the first two set the state.
Send ==
    /\ out_seq <= MaxOut
    /\ out_seq' = out_seq + 1
    /\ session' \in {"AwaitingLogon", "LoggingOff", session}
    /\ UNCHANGED <<active, seqs, resets, proc, closing, peer, handled, raced>>

FixNext ==
    \/ PeerSend \/ (\E n \in 1 .. peer : ReceiveCheck(n)) \/ ReceiveBump \/ Handle
    \/ Start \/ Stop \/ StopState \/ Send

-----------------------------------------------------------------------------
\* The expected number never passes a message that was not handled, however the
\* network loses, repeats and reorders, unless the numbers were reset while a
\* message was being processed.
NoLoss ==
    ~raced => \A k \in 1 .. in_seq - 1 : k \in handled \/ (proc.at = "handle" /\ k = proc.n)

\* Where the numbers survive a disconnect, the range of a pending resend begins
\* no later than the next message and ends just before one that has arrived: a
\* counterparty that answers it leaves no gap below that message.
ResendRange ==
    ~resets /\ pending =>
        /\ 1 <= range[1] /\ range[1] <= range[2] /\ range[1] <= in_seq
        /\ range[2] + 1 \in handled \cup {proc.n}
=============================================================================
