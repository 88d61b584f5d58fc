--------------------------- MODULE ServicesProofs ---------------------------
(***************************************************************************)
(* The services of MCServices for any number of threads, venues, clients,  *)
(* tasks and priorities, and any bounds: the FIX session, the worker pool, *)
(* the graceful shutdown, the gateway, the lifecycle, the failover pair    *)
(* and the event store keep what the run checks on a small instance, and   *)
(* the event store implements DurableLog.                                  *)
(***************************************************************************)
EXTENDS MCServices, FiniteSetTheorems, SequenceTheorems, WellFoundedInduction, TLAPS

-----------------------------------------------------------------------------
(* The services' own copies of the operators of FiniteSets.                 *)

LEMMA SameFinite ==
    ASSUME NEW S
    PROVE  /\ W!IsFiniteSet(S) = IsFiniteSet(S) /\ P!IsFiniteSet(S) = IsFiniteSet(S)
BY DEF W!IsFiniteSet, P!IsFiniteSet, IsFiniteSet

LEMMA SameCardinality ==
    ASSUME NEW S
    PROVE  /\ W!Cardinality(S) = Cardinality(S) /\ P!Cardinality(S) = Cardinality(S)
           /\ F!Cardinality(S) = Cardinality(S) /\ E!Cardinality(S) = Cardinality(S)
BY DEF W!Cardinality, P!Cardinality, F!Cardinality, E!Cardinality, Cardinality

-----------------------------------------------------------------------------
(* The FIX session.                                                         *)

\* The number in process_message() is one of the counterparty's; between the
\* comparison and the store it is the expected one, unless a reset came in.
FixPlace ==
    /\ proc.at # "idle" => proc.n \in 1 .. MaxSeq
    /\ proc.at = "bump" => in_seq <= proc.n /\ (~raced => in_seq = proc.n)

\* Where the numbers survive a disconnect, the last one received is the one
\* before the expected one.
FixLast == ~resets => ~raced /\ last = in_seq - 1

FixInv == X!FixTypeOK /\ FixPlace /\ FixLast /\ X!NoLoss /\ X!ResendRange

\* The session as new() makes it.
LEMMA FixInvInit == X!FixInit => FixInv
<1> SUFFICES ASSUME X!FixInit PROVE FixInv
  OBVIOUS
<1> USE ServicesAssumption DEF X!FixInit, X!FixConstants, X!Idle
<1>1. X!FixTypeOK
  <2>1. active \in BOOLEAN /\ pending \in BOOLEAN /\ closing \in BOOLEAN /\ raced \in BOOLEAN
    OBVIOUS
  <2>2. range \in (0 .. MaxSeq) \X (0 .. MaxSeq)
    OBVIOUS
  <2> QED BY <2>1, <2>2 DEF X!FixTypeOK, X!SessionState
<1>2. FixPlace /\ FixLast /\ X!NoLoss /\ X!ResendRange
  BY DEF FixPlace, FixLast, X!NoLoss, X!ResendRange
<1> QED BY <1>1, <1>2 DEF FixInv

\* Every step of every thread and of the network keeps FixInv.
LEMMA FixInvStep == FixInv /\ X!FixNext => FixInv'
<1> SUFFICES ASSUME FixInv, X!FixNext PROVE FixInv'
  OBVIOUS
<1> USE ServicesAssumption
<1> USE DEF FixInv, X!FixTypeOK, FixPlace, FixLast, X!NoLoss, X!ResendRange, X!FixConstants,
            X!SessionState, X!seqs, X!Idle
<1>1. CASE X!PeerSend
  BY <1>1 DEF X!PeerSend
<1>2. ASSUME NEW n \in 1 .. peer, X!ReceiveCheck(n) PROVE FixInv'
  <2>1. CASE n = in_seq
    BY <1>2, <2>1 DEF X!ReceiveCheck
  <2>2. CASE n # in_seq /\ n > last + 1
    <3>1. /\ proc = X!Idle /\ proc' = [at |-> "handle", n |-> n]
          /\ pending' = TRUE /\ range' = <<last + 1, n - 1>>
          /\ session' = "ResendRequested"
          /\ UNCHANGED <<active, out_seq, in_seq, last, resets, closing, peer, handled, raced>>
      BY <1>2, <2>2 DEF X!ReceiveCheck, X!request_resend
    <3>2. n \in 1 .. MaxSeq /\ last + 1 \in 0 .. MaxSeq /\ n - 1 \in 0 .. MaxSeq
      BY <1>2, <2>2
    <3>3. X!FixTypeOK'
      BY <3>1, <3>2
    <3>4. FixPlace' /\ FixLast' /\ X!NoLoss' /\ X!ResendRange'
      BY <2>2, <3>1, <3>2
    <3> QED BY <3>3, <3>4
  <2>3. CASE n # in_seq /\ ~(n > last + 1)
    BY <1>2, <2>3 DEF X!ReceiveCheck, X!request_resend
  <2> QED BY <2>1, <2>2, <2>3
<1>3. CASE X!ReceiveBump
  BY <1>3 DEF X!ReceiveBump
<1>4. CASE X!Handle
  BY <1>4 DEF X!Handle, X!MsgType
<1>5. CASE X!Start
  BY <1>5 DEF X!Start
<1>6. CASE X!Stop
  <2>1. CASE resets
    <3>1. /\ active' = FALSE /\ closing' = TRUE /\ out_seq' = 1 /\ in_seq' = 1 /\ last' = 0
          /\ peer' = 0 /\ handled' = {} /\ raced' = (raced \/ proc # X!Idle)
          /\ UNCHANGED <<pending, range, session, resets, proc>>
      BY <1>6, <2>1 DEF X!Stop, X!reset_sequence_numbers
    <3>2. raced' \in BOOLEAN /\ active' \in BOOLEAN /\ closing' \in BOOLEAN
      BY <3>1
    <3>3. X!FixTypeOK'
      <4>1. {active, pending, closing, raced}' \subseteq BOOLEAN
        BY <3>1, <3>2
      <4> QED BY <3>1, <4>1
    <3>4. FixPlace'
      <4>1. proc.at # "idle" => proc # X!Idle
        OBVIOUS
      <4>2. proc.at # "idle" => raced'
        BY <3>1, <4>1
      <4> QED BY <3>1, <4>2
    <3>5. FixLast' /\ X!NoLoss' /\ X!ResendRange'
      BY <2>1, <3>1
    <3> QED BY <3>3, <3>4, <3>5
  <2>2. CASE ~resets
    BY <1>6, <2>2 DEF X!Stop
  <2> QED BY <2>1, <2>2
<1>7. CASE X!StopState
  BY <1>7 DEF X!StopState
<1>8. CASE X!Send
  BY <1>8 DEF X!Send
<1> QED BY <1>1, <1>2, <1>3, <1>4, <1>5, <1>6, <1>7, <1>8 DEF X!FixNext

-----------------------------------------------------------------------------
(* The graceful shutdown.                                                   *)

Under == {"loop", "advance", "store", "finish", "end"}

\* Nothing has happened before initiate(); while it is between its two stores
\* an executor can only find the phase Running and return.
GsEarly ==
    /\ ~initiated => /\ stage = G!Running /\ ~complete /\ ~overdue /\ ~forcing /\ ~forced
                     /\ ~initiator /\ \A e \in Executors : exec[e].at \in {"idle", "returned"}
    /\ initiator => /\ stage = G!Running /\ ~complete /\ ~overdue /\ ~forcing /\ ~forced
                    /\ \A e \in Executors : exec[e].at \in {"idle", "loop", "returned"}
    /\ initiated /\ ~initiator => stage # G!Running
    /\ \A e \in Executors : exec[e].at = "store" => exec[e].next # G!Running

\* A complete shutdown is in the last phase, or somebody will still put it there.
GsPending ==
    complete => \/ stage = G!Complete \/ forcing
                \/ \E e \in Executors : exec[e].at \in Under

\* How far the callbacks are at each place of an executor that is alone.
GsAt(e) ==
    /\ exec[e].at = "loop" =>
         stage = G!Complete \/ Len(ran) = (IF stage >= 2 THEN stage - 2 ELSE 0)
    /\ exec[e].at = "advance" =>
          stage = G!Complete \/ (stage \in 1 .. 4 /\ Len(ran) = stage - 1)
    /\ exec[e].at = "store" => exec[e].next \in 2 .. 5 /\ Len(ran) = exec[e].next - 2
    /\ exec[e].at \in {"finish", "end"} => forced \/ Len(ran) = 4
    /\ complete /\ ~forced => exec[e].at \in {"end", "returned"} /\ Len(ran) = 4

Alone == \A e, f \in G!Executing : e = f

GsOrder ==
    Alone =>
      /\ \A k \in 1 .. Len(ran) : ran[k] = k + 1
      /\ G!Executing = {} => /\ ran = <<>> /\ stage \in {0, 1, G!Complete}
                             /\ complete => forced
      /\ \A e \in G!Executing : GsAt(e)

GsInv == G!GsTypeOK /\ GsEarly /\ GsPending /\ GsOrder

\* The coordinator as new() makes it.
LEMMA GsInvInit == G!GsInit => GsInv
<1> SUFFICES ASSUME G!GsInit PROVE GsInv
  OBVIOUS
<1> USE DEF G!GsInit, G!Running, G!Complete, G!PersistState
<1>1. G!GsTypeOK
  <2>1. {initiated, complete, initiator, overdue, forcing, forced} \subseteq BOOLEAN
    OBVIOUS
  <2> QED BY <2>1 DEF G!GsTypeOK
<1>2. GsEarly /\ GsPending
  BY DEF GsEarly, GsPending
<1>3. GsOrder
  BY DEF GsOrder, G!Executing, Alone
<1> QED BY <1>1, <1>2, <1>3 DEF GsInv

\* The steps of initiate(), force_complete() and the clock.
LEMMA GsOutside ==
    ASSUME GsInv, \/ G!Initiate \/ G!InitiatePhase \/ G!TimeOut \/ G!ForceComplete
                  \/ G!ForcePhase
    PROVE  GsInv'
<1> USE DEF GsInv, G!GsTypeOK, G!Running, G!Complete, G!PersistState, G!StopNewOrders
<1>1. CASE G!Initiate
  <2> USE <1>1 DEF G!Initiate
  <2>1. G!GsTypeOK'
    <3>1. initiated' \in BOOLEAN /\ initiator' \in BOOLEAN
      OBVIOUS
    <3>2. {initiated, complete, initiator, overdue, forcing, forced}' \subseteq BOOLEAN
      BY <3>1
    <3> QED BY <3>2
  <2>2. GsEarly' /\ GsPending'
    BY DEF GsEarly, GsPending, Under
  <2>3. GsOrder'
    BY DEF GsOrder, GsAt, G!Executing, Alone
  <2> QED BY <2>1, <2>2, <2>3
<1>2. CASE G!InitiatePhase
  <2> USE <1>2 DEF G!InitiatePhase
  <2>1. G!GsTypeOK'
    <3>1. initiator' \in BOOLEAN
      OBVIOUS
    <3>2. {initiated, complete, initiator, overdue, forcing, forced}' \subseteq BOOLEAN
      BY <3>1
    <3> QED BY <3>2
  <2>2. GsEarly' /\ GsPending'
    BY DEF GsEarly, GsPending, Under
  <2>3. GsOrder'
    BY DEF GsOrder, GsAt, G!Executing, Alone, GsEarly
  <2> QED BY <2>1, <2>2, <2>3
<1>3. CASE G!TimeOut
  <2> USE <1>3 DEF G!TimeOut
  <2>1. G!GsTypeOK'
    OBVIOUS
  <2>2. GsEarly' /\ GsPending'
    BY DEF GsEarly, GsPending, Under
  <2>3. GsOrder'
    BY DEF GsOrder, GsAt, G!Executing, Alone
  <2> QED BY <2>1, <2>2, <2>3
<1>4. CASE G!ForceComplete
  <2> USE <1>4 DEF G!ForceComplete
  <2>1. G!GsTypeOK'
    <3>1. complete' \in BOOLEAN /\ forcing' \in BOOLEAN /\ forced' \in BOOLEAN
      OBVIOUS
    <3>2. {initiated, complete, initiator, overdue, forcing, forced}' \subseteq BOOLEAN
      BY <3>1
    <3> QED BY <3>2
  <2>2. GsEarly' /\ GsPending'
    BY DEF GsEarly, GsPending, Under
  <2>3. GsOrder'
    BY DEF GsOrder, GsAt, G!Executing, Alone
  <2> QED BY <2>1, <2>2, <2>3
<1>5. CASE G!ForcePhase
  <2> USE <1>5 DEF G!ForcePhase
  <2>1. G!GsTypeOK'
    <3>1. forcing' \in BOOLEAN
      OBVIOUS
    <3>2. {initiated, complete, initiator, overdue, forcing, forced}' \subseteq BOOLEAN
      BY <3>1
    <3> QED BY <3>2
  <2>2. GsEarly' /\ GsPending'
    BY DEF GsEarly, GsPending, Under
  <2>3. GsOrder'
    BY DEF GsOrder, GsAt, G!Executing, Alone
  <2> QED BY <2>1, <2>2, <2>3
<1> QED BY <1>1, <1>2, <1>3, <1>4, <1>5

\* The first step of an executor.
LEMMA GsExecute ==
    ASSUME GsInv, NEW e \in Executors, G!Execute(e)
    PROVE  GsInv'
<1> USE DEF GsInv, G!GsTypeOK, G!Execute, G!To, G!Running, G!Complete, G!PersistState
<1>1. G!GsTypeOK'
  OBVIOUS
<1>2. GsEarly' /\ GsPending'
  BY DEF GsEarly, GsPending, Under
<1>3. GsOrder'
  <2> SUFFICES ASSUME Alone' PROVE GsOrder'
    BY DEF GsOrder
  <2>1. G!Executing' = G!Executing \cup {e} /\ e \notin G!Executing
    BY DEF G!Executing
  <2>2. G!Executing = {} /\ Alone
    BY <2>1 DEF Alone
  <2>3. ran = <<>> /\ stage \in {0, 1, G!Complete} /\ (complete => forced)
    BY <2>2 DEF GsOrder
  <2>4. GsAt(e)'
    BY <2>3 DEF GsAt, GsEarly
  <2> QED BY <2>1, <2>2, <2>3, <2>4 DEF GsOrder
<1> QED BY <1>1, <1>2, <1>3

\* The later steps: the executor stays one, and so does its being alone.
LEMMA GsSame ==
    ASSUME GsInv, NEW e \in Executors, G!GsStep(e)
    PROVE  G!Executing' = G!Executing /\ e \in G!Executing
<1>1. exec[e].at # "idle" /\ exec'[e].at # "idle"
  BY DEF GsInv, G!GsTypeOK, G!GsStep, G!Callback, G!Advance, G!AdvanceStore, G!Finish,
         G!FinishPhase, G!To
<1>2. \A f \in Executors : f # e => exec'[f] = exec[f]
  BY DEF GsInv, G!GsTypeOK, G!GsStep, G!Callback, G!Advance, G!AdvanceStore, G!Finish,
         G!FinishPhase, G!To
<1> QED BY <1>1, <1>2 DEF G!Executing

\* Types and what is pending, at the later steps.
LEMMA GsStepPending ==
    ASSUME GsInv, NEW e \in Executors, G!GsStep(e)
    PROVE  G!GsTypeOK' /\ GsEarly' /\ GsPending'
<1> USE DEF GsInv, G!GsTypeOK, GsEarly, GsPending, Under, G!To, G!Running, G!Complete,
            G!PersistState
<1>1. CASE G!Callback(e)
  BY <1>1 DEF G!Callback
<1>2. CASE G!Advance(e)
  BY <1>2 DEF G!Advance
<1>3. CASE G!AdvanceStore(e)
  BY <1>3 DEF G!AdvanceStore
<1>4. CASE G!Finish(e)
  BY <1>4 DEF G!Finish
<1>5. CASE G!FinishPhase(e)
  BY <1>5 DEF G!FinishPhase
<1> QED BY <1>1, <1>2, <1>3, <1>4, <1>5 DEF G!GsStep

\* The order of the callbacks, at the later steps.
LEMMA GsStepOrder ==
    ASSUME GsInv, NEW e \in Executors, G!GsStep(e)
    PROVE  GsOrder'
<1> SUFFICES ASSUME Alone' PROVE GsOrder'
  BY DEF GsOrder
<1>1. G!Executing' = G!Executing /\ G!Executing = {e} /\ Alone
  BY GsSame DEF Alone
<1>2. GsAt(e) /\ \A k \in 1 .. Len(ran) : ran[k] = k + 1
  BY <1>1 DEF GsInv, GsOrder
<1>3. ran \in Seq(2 .. 5) /\ Len(ran) \in Nat
  BY DEF GsInv, G!GsTypeOK, G!PersistState
<1> SUFFICES GsAt(e)' /\ \A k \in 1 .. Len(ran') : ran'[k] = k + 1
  BY <1>1 DEF GsOrder
<1> USE <1>2, <1>3 DEF GsInv, G!GsTypeOK, GsAt, G!To, G!Running, G!Complete, G!PersistState
<1>4. CASE G!Callback(e)
  <2>1. CASE stage \in 2 .. 5
    <3>1. ran' = Append(ran, stage) /\ stage' = stage
      BY <1>1, <1>4, <2>1 DEF G!Callback
    <3>2. exec[e].at = "loop" /\ Len(ran) = stage - 2
      BY <1>4, <2>1 DEF G!Callback
    <3>3. Len(ran') = stage - 1 /\ \A k \in 1 .. Len(ran') : ran'[k] = k + 1
      BY <3>1, <3>2, <2>1
    <3>4. exec'[e].at = IF stage = 5 THEN "finish" ELSE "advance"
      BY <1>4, <2>1 DEF G!Callback
    <3>5. UNCHANGED <<complete, forced>>
      BY <1>4 DEF G!Callback
    <3> QED BY <2>1, <3>1, <3>2, <3>3, <3>4, <3>5
  <2>2. CASE stage \notin 2 .. 5
    BY <1>4, <2>2 DEF G!Callback, GsEarly
  <2> QED BY <2>1, <2>2
<1>5. CASE G!Advance(e)
  BY <1>5 DEF G!Advance
<1>6. CASE G!AdvanceStore(e)
  BY <1>6 DEF G!AdvanceStore
<1>7. CASE G!Finish(e)
  BY <1>7 DEF G!Finish
<1>8. CASE G!FinishPhase(e)
  BY <1>8 DEF G!FinishPhase
<1> QED BY <1>4, <1>5, <1>6, <1>7, <1>8 DEF G!GsStep

\* Every step keeps GsInv.
LEMMA GsInvStep == GsInv /\ G!GsNext => GsInv'
<1>1. ASSUME GsInv, NEW e \in Executors, G!GsStep(e) PROVE GsInv'
  BY <1>1, GsStepPending, GsStepOrder DEF GsInv
<1> QED BY <1>1, GsOutside, GsExecute DEF G!GsNext

\* What the run's invariant says of a shutdown.
LEMMA GsInvGoals == GsInv => G!GsTypeOK /\ G!InOrder /\ G!Settled
<1> SUFFICES ASSUME GsInv PROVE G!InOrder /\ G!Settled
  BY DEF GsInv
<1>1. G!Settled
  BY DEF GsInv, GsPending, Under, G!Settled
<1>2. G!InOrder
  <2> SUFFICES ASSUME Alone
               PROVE  /\ \A k \in DOMAIN ran : ran[k] = k + 1
                      /\ complete /\ ~forced => Len(ran) = 4
    BY DEF G!InOrder, Alone
  <2>1. DOMAIN ran = 1 .. Len(ran)
    BY DEF GsInv, G!GsTypeOK
  <2>2. \A k \in DOMAIN ran : ran[k] = k + 1
    BY <2>1 DEF GsInv, GsOrder
  <2>3. complete /\ ~forced => Len(ran) = 4
    BY DEF GsInv, GsOrder, GsAt
  <2> QED BY <2>2, <2>3
<1> QED BY <1>1, <1>2

-----------------------------------------------------------------------------
(* The lifecycle manager.                                                   *)

\* A system once ready is ready, live or paused until it goes down.
Ready == {"HotStandby", "Live", "Paused"}

\* A kill that found the system ready finds it so, or down, at each of its
\* steps, with the force flag set once force_shutdown() was called.
LcKill ==
    \A c \in Callers :
        /\ call[c] \in {"kill", "forced", "transition", "killed"} /\ found[c] \in Ready
              => state \in Ready \cup L!Down
        /\ call[c] = "forced" => force
        /\ call[c] = "killed" /\ found[c] \in Ready => state \in L!Down

\* Every caller on its way to a transition to ShuttingDown was authorised.
LcAuthorised ==
    /\ state \in L!Down \/ force => authorised
    /\ \A c \in Callers : call[c] \in {"confirmed", "transition", "down", "join",
                                       "no handle", "terminate"} => authorised

\* The monitor's handle is where init() left it or with the shutdown() that
\* joins it; a shutdown() past its first step has taken it.
LcMonitor ==
    /\ hw => handle \/ \E d \in Callers : call[d] = "join"
    /\ \A c \in Callers :
        /\ call[c] \in {"join", "no handle", "terminate", "shut"} => ~handle /\ state # "Idle"
        /\ call[c] = "terminate" => state \in L!Down
        /\ call[c] = "shut" => state = "Terminated"

LcInv == L!LcTypeOK /\ LcKill /\ LcAuthorised /\ LcMonitor

\* The lifecycle as new() makes it.
LEMMA LcInvInit == L!LcInit => LcInv
<1> SUFFICES ASSUME L!LcInit PROVE LcInv
  OBVIOUS
<1> USE DEF L!LcInit
<1>1. L!LcTypeOK
  <2>1. {force, pause_enabled, killed, hw_enabled, hw, handle, over, authorised}
           \subseteq BOOLEAN
    OBVIOUS
  <2>2. /\ call \in [Callers -> {"idle", "confirmed", "kill", "forced", "requested",
                             "transition", "pend", "killed", "join", "no handle", "down",
                             "terminate", "shut"}]
        /\ state \in L!States /\ found \in [Callers -> L!States]
        /\ confirm \in {"Pending", "Confirmed", "Cancelled"}
    BY DEF L!States
  <2> QED BY <2>1, <2>2 DEF L!LcTypeOK
<1>2. LcKill /\ LcAuthorised /\ LcMonitor
  BY DEF LcKill, LcAuthorised, LcMonitor, L!Down, Ready
<1> QED BY <1>1, <1>2 DEF LcInv

\* A transition leads to a state, never back to Idle, never out of the ready
\* ones except down, and never up again.
LEMMA LcTransition ==
    ASSUME NEW target \in L!States, state \in L!States, L!transition_to(target)
    PROVE  /\ state' \in L!States
           /\ state # "Idle" => state' # "Idle"
           /\ state \in Ready \cup L!Down => state' \in Ready \cup L!Down
           /\ state \in L!Down => state' \in L!Down
           /\ state = "Terminated" => state' = "Terminated"
           /\ state' \in L!Down => state \in L!Down \/ target \in L!Down
BY DEF L!transition_to, L!Valid, L!States, L!Down, Ready

\* The steps outside a call: init(), the monitor and the flags.
LEMMA LcOutside ==
    ASSUME LcInv, \/ L!InitSystem \/ L!SetPauseEnabled \/ L!EmergencyHalt
                  \/ L!ResetKillSwitch \/ L!UpdateMemoryUsage \/ L!HwMonitor
    PROVE  LcInv'
<1> USE DEF LcInv, L!LcTypeOK
<1>1. CASE L!InitSystem
  <2> USE <1>1 DEF L!InitSystem
  <2>1. state = "Idle" /\ state' = "Initializing"
    BY DEF L!transition_to, L!Valid
  <2>2. L!LcTypeOK'
    BY <2>1 DEF L!States
  <2>3. LcKill' /\ LcAuthorised' /\ LcMonitor'
    BY <2>1 DEF LcKill, LcAuthorised, LcMonitor, L!Down, Ready
  <2> QED BY <2>2, <2>3
<1>2. CASE L!SetPauseEnabled
  <2> USE <1>2 DEF L!SetPauseEnabled, L!hwVars
  <2>1. L!LcTypeOK'
    <3>1. (~pause_enabled) \in BOOLEAN
      OBVIOUS
    <3>2. {force, pause_enabled, killed, hw_enabled, hw, handle, over, authorised}'
             \subseteq BOOLEAN
      BY <3>1
    <3> QED BY <3>2
  <2>2. LcKill' /\ LcAuthorised' /\ LcMonitor'
    BY DEF LcKill, LcAuthorised, LcMonitor, L!Down, Ready
  <2> QED BY <2>1, <2>2
<1>3. CASE L!EmergencyHalt \/ L!ResetKillSwitch
  <2> USE <1>3 DEF L!EmergencyHalt, L!ResetKillSwitch, L!hwVars
  <2>1. L!LcTypeOK'
    <3>1. killed' \in BOOLEAN
      OBVIOUS
    <3>2. {force, pause_enabled, killed, hw_enabled, hw, handle, over, authorised}'
             \subseteq BOOLEAN
      BY <3>1
    <3> QED BY <3>2
  <2>2. UNCHANGED <<state, force, hw, handle, call, found, authorised>>
    OBVIOUS
  <2>3. LcKill' /\ LcAuthorised' /\ LcMonitor'
    BY <2>2 DEF LcKill, LcAuthorised, LcMonitor
  <2> QED BY <2>1, <2>3
<1>4. CASE L!UpdateMemoryUsage
  <2> USE <1>4 DEF L!UpdateMemoryUsage
  <2>1. L!LcTypeOK'
    <3>1. (~over) \in BOOLEAN
      OBVIOUS
    <3>2. {force, pause_enabled, killed, hw_enabled, hw, handle, over, authorised}'
             \subseteq BOOLEAN
      BY <3>1
    <3> QED BY <3>2
  <2>2. LcKill' /\ LcAuthorised' /\ LcMonitor'
    BY DEF LcKill, LcAuthorised, LcMonitor, L!Down, Ready
  <2> QED BY <2>1, <2>2
<1>5. CASE L!HwMonitor
  <2> USE <1>5 DEF L!HwMonitor
  <2>1. L!LcTypeOK'
    <3>1. (hw_enabled /\ ~over) \in BOOLEAN /\ (killed \/ (hw_enabled /\ over)) \in BOOLEAN
      OBVIOUS
    <3>2. {force, pause_enabled, killed, hw_enabled, hw, handle, over, authorised}'
             \subseteq BOOLEAN
      BY <3>1
    <3> QED BY <3>2
  <2>2. LcKill' /\ LcAuthorised' /\ LcMonitor'
    BY DEF LcKill, LcAuthorised, LcMonitor, L!Down, Ready
  <2> QED BY <2>1, <2>2
<1> QED BY <1>1, <1>2, <1>3, <1>4, <1>5

\* The calls with one step: a transition, a pause, a cancellation.
LEMMA LcPlain ==
    ASSUME LcInv, NEW c \in Callers, L!Transition(c) \/ L!Pause(c) \/ L!CancelShutdown(c)
    PROVE  LcInv'
<1> USE DEF LcInv, L!LcTypeOK, L!hwVars, L!Is
<1>1. CASE L!Transition(c) \/ L!Pause(c)
  <2>1. PICK target \in {"Warmup", "HotStandby", "Live", "Paused"} : L!transition_to(target)
    BY <1>1 DEF L!Transition, L!Pause
  <2>2. /\ target \in L!States /\ target \notin L!Down
        /\ UNCHANGED <<confirm, force, pause_enabled, killed, hw_enabled, hw, handle, over,
                       call, found, authorised>>
    BY <1>1, <2>1 DEF L!Transition, L!Pause, L!States, L!Down
  <2>3. /\ state' \in L!States
        /\ state # "Idle" => state' # "Idle"
        /\ state \in Ready \cup L!Down => state' \in Ready \cup L!Down
        /\ state \in L!Down => state' \in L!Down
        /\ state = "Terminated" => state' = "Terminated"
        /\ state' \in L!Down => state \in L!Down
    BY <2>1, <2>2, LcTransition
  <2>4. L!LcTypeOK'
    BY <2>2, <2>3
  <2>5. LcKill' /\ LcAuthorised' /\ LcMonitor'
    BY <2>2, <2>3 DEF LcKill, LcAuthorised, LcMonitor
  <2> QED BY <2>4, <2>5
<1>2. CASE L!CancelShutdown(c)
  BY <1>2 DEF L!CancelShutdown, LcKill, LcAuthorised, LcMonitor
<1> QED BY <1>1, <1>2

\* The first steps of the calls that take several.
LEMMA LcBegin ==
    ASSUME LcInv, NEW c \in Callers,
           \/ L!RequestShutdown(c) \/ L!ActivateKillSwitch(c) \/ L!ForceShutdown(c)
           \/ L!ConfirmShutdown(c) \/ L!Shutdown(c)
    PROVE  LcInv'
<1> USE DEF LcInv, L!LcTypeOK, L!hwVars, L!Is, L!To, L!Begin
<1>1. CASE L!RequestShutdown(c)
  <2> USE <1>1 DEF L!RequestShutdown
  <2>1. L!LcTypeOK'
    OBVIOUS
  <2>2. LcKill' /\ LcAuthorised' /\ LcMonitor'
    BY DEF LcKill, LcAuthorised, LcMonitor
  <2> QED BY <2>1, <2>2
<1>2. CASE L!ActivateKillSwitch(c)
  <2> USE <1>2 DEF L!ActivateKillSwitch
  <2>1. L!LcTypeOK'
    OBVIOUS
  <2>2. LcKill' /\ LcAuthorised' /\ LcMonitor'
    BY DEF LcKill, LcAuthorised, LcMonitor
  <2> QED BY <2>1, <2>2
<1>3. CASE L!ForceShutdown(c)
  <2> USE <1>3 DEF L!ForceShutdown
  <2>1. L!LcTypeOK'
    OBVIOUS
  <2>2. LcKill' /\ LcAuthorised' /\ LcMonitor'
    BY DEF LcKill, LcAuthorised, LcMonitor
  <2> QED BY <2>1, <2>2
<1>4. CASE L!ConfirmShutdown(c)
  <2> USE <1>4 DEF L!ConfirmShutdown
  <2>1. L!LcTypeOK'
    OBVIOUS
  <2>2. LcKill' /\ LcAuthorised' /\ LcMonitor'
    BY DEF LcKill, LcAuthorised, LcMonitor
  <2> QED BY <2>1, <2>2
<1>5. CASE L!Shutdown(c)
  <2> USE <1>5 DEF L!Shutdown
  <2>1. L!LcTypeOK'
    OBVIOUS
  <2>2. LcKill' /\ LcAuthorised' /\ LcMonitor'
    BY DEF LcKill, LcAuthorised, LcMonitor
  <2> QED BY <2>1, <2>2
<1> QED BY <1>1, <1>2, <1>3, <1>4, <1>5

\* The later steps of a call.
LEMMA LcLater ==
    ASSUME LcInv, NEW c \in Callers, L!LcStep(c)
    PROVE  LcInv'
<1> USE DEF LcInv, L!LcTypeOK, L!hwVars, L!Is, L!To
<1>1. CASE L!RequestFlag(c)
  <2> USE <1>1 DEF L!RequestFlag
  <2>1. L!LcTypeOK'
    OBVIOUS
  <2>2. LcKill' /\ LcAuthorised' /\ LcMonitor'
    BY DEF LcKill, LcAuthorised, LcMonitor, L!Down
  <2> QED BY <2>1, <2>2
<1>2. CASE L!RequestPending(c)
  <2> USE <1>2 DEF L!RequestPending
  <2>1. L!LcTypeOK'
    OBVIOUS
  <2>2. LcKill' /\ LcAuthorised' /\ LcMonitor'
    BY DEF LcKill, LcAuthorised, LcMonitor
  <2> QED BY <2>1, <2>2
<1>3. CASE L!DoTransition(c)
  <2> USE <1>3 DEF L!DoTransition
  <2>1. L!LcTypeOK'
    BY LcTransition DEF L!States
  <2>2. /\ state # "Idle" => state' # "Idle"
        /\ state \in Ready \cup L!Down => state' \in L!Down
        /\ state = "Terminated" => state' = "Terminated"
    BY DEF L!transition_to, L!Valid, L!States, L!Down, Ready
  <2>3. authorised
    BY DEF LcAuthorised
  <2>4. LcKill' /\ LcMonitor'
    BY <2>2 DEF LcKill, LcMonitor
  <2>5. LcAuthorised'
    BY <2>3 DEF LcAuthorised
  <2> QED BY <2>1, <2>4, <2>5
<1>4. CASE L!ShutdownJoin(c)
  <2> USE <1>4 DEF L!ShutdownJoin
  <2>1. L!LcTypeOK'
    BY LcTransition DEF L!States
  <2>2. /\ state # "Idle" => state' # "Idle"
        /\ state \in Ready \cup L!Down => state' \in L!Down
        /\ state = "Terminated" => state' = "Terminated"
        /\ <<state, "ShuttingDown">> \in L!Valid => state' \in L!Down
    BY DEF L!transition_to, L!Valid, L!States, L!Down, Ready
  <2>3. authorised
    BY DEF LcAuthorised
  <2>4. LcKill' /\ LcMonitor'
    BY <2>2 DEF LcKill, LcMonitor
  <2>5. LcAuthorised'
    BY <2>3 DEF LcAuthorised
  <2> QED BY <2>1, <2>4, <2>5
<1>5. CASE L!ShutdownTerminate(c)
  <2> USE <1>5 DEF L!ShutdownTerminate
  <2>1. state \in L!Down /\ authorised
    BY DEF LcMonitor, LcAuthorised
  <2>2. state' = "Terminated"
    BY <2>1 DEF L!transition_to, L!Valid, L!Down
  <2>3. L!LcTypeOK'
    BY <2>2 DEF L!States
  <2>4. LcKill' /\ LcMonitor' /\ LcAuthorised'
    BY <2>1, <2>2 DEF LcKill, LcMonitor, LcAuthorised, L!Down
  <2> QED BY <2>3, <2>4
<1> QED BY <1>1, <1>2, <1>3, <1>4, <1>5 DEF L!LcStep

\* Every step of every caller and of the monitor keeps LcInv.
LEMMA LcInvStep == LcInv /\ L!LcNext => LcInv'
BY LcOutside, LcPlain, LcBegin, LcLater DEF L!LcNext

LEMMA LcInvGoals ==
    LcInv => L!LcTypeOK /\ L!KillTakesDown /\ L!DownAuthorised /\ L!ShutdownClean
BY DEF LcInv, LcKill, LcAuthorised, LcMonitor, L!KillTakesDown, L!DownAuthorised,
       L!ShutdownClean, L!Is, Ready

-----------------------------------------------------------------------------
(* The gateway.                                                             *)

\* A set of naturals has a least element, the one Min chooses.
LEMMA LeastElement ==
    ASSUME NEW S \in SUBSET Nat, S # {}
    PROVE  W!Min(S) \in S /\ \A y \in S : W!Min(S) <= y
<1> DEFINE R == OpToRel(<, Nat)
<1>1. IsWellFoundedOn(R, Nat)
  BY NatLessThanWellFounded
<1>2. R = {ss \in Nat \X Nat : ss[1] < ss[2]}
  BY DEF OpToRel
<1> HIDE DEF R
<1>3. PICK x \in S : \A y \in S : ~ (<<y, x>> \in R)
  BY <1>1, WFMin
<1>4. ASSUME NEW y \in S PROVE x <= y
  <2>1. x \in Nat /\ y \in Nat
    OBVIOUS
  <2>2. y < x => <<y, x>> \in R
    BY <2>1, <1>2
  <2> QED BY <2>1, <2>2, <1>3
<1> QED BY <1>4 DEF W!Min

\* Attempts stay within the limit of the call and the ghosts within the
\* attempts; until an order is done every acceptance of it was lost; a router
\* that submitted late decides or is done.
GwRoute ==
    \A r \in Routers :
        /\ route[r].at = "idle" => route[r].attempt = 0
        /\ route[r].at \in {"decide", "submit"} => route[r].attempt < route[r].limit
        /\ route[r].at = "submit" => route[r].venue \in W!Venues
        /\ copies[r] <= route[r].attempt /\ lost[r] <= route[r].attempt
        /\ copies[r] <= 1 + lost[r] /\ (route[r].at # "done" => copies[r] <= lost[r])
        /\ late[r] <= 1
        /\ late[r] = 1 => W!Stopped /\ route[r].at \in {"decide", "done"}

\* A venue that stop() has disconnected stays without a score.
GwClosed == \A v \in closed : status[v] = 0

\* The count of the pool is that of the clients that hold a slot; alone in
\* try_acquire(), a client still has the room it has tested for.
GwPool ==
    /\ pool_active = Cardinality({c \in Clients : slot[c] = "in"})
    /\ ~crowd => /\ pool_active <= PoolLimit
                 /\ \A c \in Clients : slot[c] = "add" =>
                       /\ pool_active < PoolLimit
                       /\ \A d \in Clients : slot[d] = "add" => d = c

GwGhosts == copies \in [Routers -> 0 .. 3] /\ lost \in [Routers -> 0 .. 3]
               /\ late \in [Routers -> 0 .. 3]

GwInv == W!GwTypeOK /\ GwGhosts /\ GwRoute /\ GwClosed /\ GwPool

\* The clients that hold a slot are finitely many.
LEMMA GwHolders ==
    ASSUME NEW T \in SUBSET Clients
    PROVE  IsFiniteSet(T) /\ Cardinality(T) \in 0 .. Cardinality(Clients)
<1>1. IsFiniteSet(Clients)
  BY ServicesAssumption, SameFinite DEF W!GatewayConstants
<1>2. IsFiniteSet(T) /\ Cardinality(T) <= Cardinality(Clients)
  BY <1>1, FS_Subset
<1>3. Cardinality(T) \in Nat /\ Cardinality(Clients) \in Nat
  BY <1>1, <1>2, FS_CardinalityType
<1> QED BY <1>2, <1>3

\* As many venues as MAX_VENUES, at most, are active.
LEMMA GwActive ==
    ASSUME NEW T \in SUBSET W!Venues
    PROVE  Cardinality(T) \in 0 .. MaxVenues
<1>1. MaxVenues \in Nat \ {0} /\ 0 \in Int /\ MaxVenues - 1 \in Int
  BY ServicesAssumption DEF W!GatewayConstants
<1>2. IsFiniteSet(W!Venues) /\ Cardinality(W!Venues) = MaxVenues
  <2>1. IsFiniteSet(0 .. MaxVenues - 1)
          /\ Cardinality(0 .. MaxVenues - 1)
               = IF 0 > MaxVenues - 1 THEN 0 ELSE (MaxVenues - 1) - 0 + 1
    BY <1>1, FS_Interval
  <2> QED BY <1>1, <2>1 DEF W!Venues
<1>3. IsFiniteSet(T) /\ Cardinality(T) <= MaxVenues
  BY <1>2, FS_Subset
<1>4. Cardinality(T) \in Nat
  BY <1>3, FS_CardinalityType
<1> QED BY <1>1, <1>3, <1>4

\* The manager and the pool as new() makes them.
LEMMA GwInvInit == W!GwInit => GwInv
<1> SUFFICES ASSUME W!GwInit PROVE GwInv
  OBVIOUS
<1> USE ServicesAssumption DEF W!GwInit, W!GatewayConstants
<1>1. 0 \in 0 .. Cardinality(Clients)
  <2>1. IsFiniteSet(Clients)
    BY SameFinite
  <2> QED BY <2>1, FS_CardinalityType
<1>2. W!GwTypeOK
  <2>1. {pool_running, crowd, repeated} \subseteq BOOLEAN
    OBVIOUS
  <2>2. route \in [Routers -> [at : {"idle", "decide", "submit", "done"}, limit : {1, 3},
                               attempt : 0 .. 3, venue : W!Venues \cup {W!None}]]
    OBVIOUS
  <2>3. pool_active \in 0 .. W!Cardinality(Clients)
    BY <1>1, SameCardinality
  <2>4. status \in [W!Venues -> 0 .. MaxScore] /\ active_count \in 0 .. MaxVenues
           /\ rr_index \in W!Venues
    BY DEF W!Venues
  <2> QED BY <2>1, <2>2, <2>3, <2>4 DEF W!GwTypeOK
<1>3. GwPool
  <2>1. {c \in Clients : slot[c] = "in"} = {}
    OBVIOUS
  <2>2. Cardinality({c \in Clients : slot[c] = "in"}) = 0
    BY <2>1, FS_EmptySet
  <2> QED BY <2>2 DEF GwPool
<1>4. GwGhosts /\ GwRoute /\ GwClosed
  BY DEF GwGhosts, GwRoute, GwClosed
<1> QED BY <1>2, <1>3, <1>4 DEF GwInv

\* The balancer chooses a healthy venue or none.
LEMMA BestChoice ==
    ASSUME NEW S \in SUBSET W!Venues, status \in [W!Venues -> 0 .. MaxScore]
    PROVE  W!Best(S) \in W!Healthy \cup {W!None}
<1> DEFINE good == S \cap W!Healthy
           top == {v \in good : \A w \in good : status[w] <= status[v]}
           worse == {MaxScore - status[v] : v \in good}
<1> USE ServicesAssumption DEF W!GatewayConstants
<1>1. good \subseteq W!Venues /\ W!Venues \subseteq Nat
  BY DEF W!Healthy, W!Venues
<1>2. CASE good = {}
  BY <1>2 DEF W!Best
<1>3. CASE good # {}
  <2>1. worse \in SUBSET Nat /\ worse # {}
    <3>1. \A v \in good : MaxScore - status[v] \in Nat
      BY <1>1
    <3> QED BY <3>1, <1>3
  <2>2. PICK v \in good : W!Min(worse) = MaxScore - status[v]
    <3> HIDE DEF good
    <3>1. W!Min(worse) \in worse
      <4> HIDE DEF worse
      <4> QED BY <2>1, LeastElement
    <3> QED BY <3>1
  <2>3. ASSUME NEW w \in good PROVE status[w] <= status[v]
    <3>1. MaxScore - status[v] <= MaxScore - status[w]
      BY <2>1, <2>2, LeastElement
    <3>2. status[v] \in Nat /\ status[w] \in Nat
      BY <1>1
    <3> QED BY <3>1, <3>2
  <2>4. top \in SUBSET Nat /\ top # {}
    BY <1>1, <2>3
  <2>5. W!Min(top) \in top
    BY <2>4, LeastElement
  <2>6. W!Best(S) = W!Min(top)
    BY <1>3 DEF W!Best
  <2> QED BY <2>5, <2>6
<1> QED BY <1>2, <1>3

LEMMA RoundRobinChoice == W!select_round_robin \in W!Healthy \cup {W!None}
<1> DEFINE steps == {k \in W!Venues : (rr_index + k) % MaxVenues \in W!Healthy}
<1>1. steps \in SUBSET Nat
  BY ServicesAssumption DEF W!GatewayConstants, W!Venues
<1>2. CASE active_count = 0 \/ steps = {}
  BY <1>2 DEF W!select_round_robin
<1>3. CASE ~(active_count = 0 \/ steps = {})
  <2>1. W!Min(steps) \in steps
    BY <1>1, <1>3, LeastElement
  <2>2. W!select_round_robin = (rr_index + W!Min(steps)) % MaxVenues
    BY <1>3 DEF W!select_round_robin
  <2> QED BY <2>1, <2>2
<1> QED BY <1>2, <1>3

\* The venue of the next attempt.
GwVenue(r) == IF route[r].attempt = 0 THEN W!select_best_venue ELSE W!get_failover_venue(0)

\* Whatever the policy, the next attempt goes to a healthy venue, of which a
\* stopped manager has none.
LEMMA VenueChoice ==
    ASSUME GwInv, NEW r \in Routers
    PROVE  GwVenue(r) \in W!Healthy \cup {W!None} /\ (W!Stopped => W!Healthy = {})
<1>1. status \in [W!Venues -> 0 .. MaxScore]
  BY DEF GwInv, W!GwTypeOK
<1>2. W!select_best_venue \in W!Healthy \cup {W!None}
  BY <1>1, BestChoice DEF W!select_best_venue
<1>3. W!get_failover_venue(0) \in W!Healthy \cup {W!None}
  <2>1. W!Venues \ {0} \in SUBSET W!Venues
    OBVIOUS
  <2>2. W!Best(W!Venues \ {0}) \in W!Healthy \cup {W!None}
    BY <1>1, <2>1, BestChoice
  <2> QED BY <2>2, RoundRobinChoice DEF W!get_failover_venue
<1>4. W!Stopped => W!Healthy = {}
  BY DEF W!Stopped, W!Healthy, GwInv, GwClosed
<1> QED BY <1>2, <1>3, <1>4 DEF GwVenue

\* Connecting, the feeds, stop() and start().
LEMMA GwManager ==
    ASSUME GwInv, W!ConnectAll \/ W!UpdateVenueStatus \/ W!StopManager \/ W!StartManager
    PROVE  GwInv'
<1> USE ServicesAssumption DEF GwInv, W!GwTypeOK, GwGhosts, W!GatewayConstants, W!poolVars,
                               W!ghosts
<1>1. W!Venues # {} /\ W!Venues \subseteq Nat
  <2>1. 0 \in 0 .. MaxVenues - 1 /\ 0 .. MaxVenues - 1 \subseteq Nat
    OBVIOUS
  <2> QED BY <2>1 DEF W!Venues
<1>2. CASE W!ConnectAll
  <2> USE <1>2 DEF W!ConnectAll
  <2>1. status' \in [W!Venues -> 0 .. MaxScore]
    OBVIOUS
  <2>2. active_count' \in 0 .. MaxVenues
    <3>1. {u \in W!Venues : status'[u] > 0} \in SUBSET W!Venues
      OBVIOUS
    <3>2. Cardinality({u \in W!Venues : status'[u] > 0}) \in 0 .. MaxVenues
      BY <3>1, GwActive
    <3> QED BY <3>2, SameCardinality
  <2>3. W!GwTypeOK' /\ GwGhosts'
    BY <2>1, <2>2
  <2>4. GwRoute' /\ GwClosed' /\ GwPool'
    BY <1>1 DEF GwRoute, GwClosed, GwPool, W!Stopped
  <2> QED BY <2>3, <2>4
<1>3. CASE W!UpdateVenueStatus
  <2> USE <1>3 DEF W!UpdateVenueStatus
  <2>1. W!GwTypeOK' /\ GwGhosts'
    OBVIOUS
  <2>2. GwRoute' /\ GwClosed' /\ GwPool'
    BY <1>1 DEF GwRoute, GwClosed, GwPool, W!Stopped
  <2> QED BY <2>1, <2>2
<1>4. CASE W!StopManager
  <2> DEFINE v == W!Min(W!Venues \ closed)
  <2>1. v \in W!Venues
    <3>1. W!Venues \ closed \in SUBSET Nat /\ W!Venues \ closed # {}
      BY <1>1, <1>4 DEF W!StopManager, W!Stopped
    <3>2. v \in W!Venues \ closed
      BY <3>1, LeastElement
    <3> QED BY <3>2
  <2>2. /\ status' = [status EXCEPT ![v] = 0] /\ closed' = closed \cup {v}
        /\ UNCHANGED <<rr_index, policy, pool_active, slot, crowd, route, tried, copies, lost,
                       late, repeated>>
    BY <1>4 DEF W!StopManager
  <2>3. active_count' \in 0 .. MaxVenues
    <3>1. {u \in W!Venues : status'[u] > 0} \in SUBSET W!Venues
      OBVIOUS
    <3>2. Cardinality({u \in W!Venues : status'[u] > 0}) \in 0 .. MaxVenues
      BY <3>1, GwActive
    <3> QED BY <1>4, <3>2, SameCardinality DEF W!StopManager
  <2>4. pool_running' \in BOOLEAN
    BY <1>4 DEF W!StopManager
  <2> HIDE DEF v
  <2>5. {pool_running, crowd, repeated}' \subseteq BOOLEAN
    BY <2>2, <2>4
  <2>6. W!GwTypeOK' /\ GwGhosts'
    <3>1. status' \in [W!Venues -> 0 .. MaxScore]
      BY <2>1, <2>2
    <3>2. closed' \subseteq W!Venues
      BY <2>1, <2>2
    <3> QED BY <2>2, <2>3, <2>5, <3>1, <3>2
  <2>7. GwClosed'
    <3>1. \A u \in closed \cup {v} : status'[u] = 0
      BY <2>1, <2>2 DEF GwClosed
    <3> QED BY <2>2, <3>1 DEF GwClosed
  <2>8. GwRoute' /\ GwPool'
    <3>1. W!Stopped => W!Stopped'
      BY <2>1, <2>2 DEF W!Stopped
    <3> QED BY <2>2, <3>1 DEF GwRoute, GwPool
  <2> QED BY <2>6, <2>7, <2>8
<1>5. CASE W!StartManager
  <2> USE <1>5 DEF W!StartManager
  <2>1. W!GwTypeOK' /\ GwGhosts'
    OBVIOUS
  <2>2. GwRoute' /\ GwClosed' /\ GwPool'
    BY DEF GwRoute, GwClosed, GwPool, W!Stopped
  <2> QED BY <2>1, <2>2
<1> QED BY <1>2, <1>3, <1>4, <1>5

\* try_acquire() and release().
LEMMA GwSlots ==
    ASSUME GwInv, NEW c \in Clients, W!PoolTest(c) \/ W!PoolAdd(c) \/ W!PoolRelease(c)
    PROVE  GwInv'
<1> USE DEF GwInv, W!GwTypeOK, GwGhosts, W!ghosts
<1> DEFINE held == {d \in Clients : slot[d] = "in"}
<1>1. /\ IsFiniteSet(held) /\ Cardinality(held) \in Nat /\ pool_active = Cardinality(held)
      /\ held' \in SUBSET Clients
      /\ Cardinality(held') \in 0 .. W!Cardinality(Clients)
  BY GwHolders, SameCardinality DEF GwPool
<1>2. PoolLimit \in Nat
  BY ServicesAssumption DEF W!GatewayConstants
<1>3. CASE W!PoolTest(c)
  <2> USE <1>3 DEF W!PoolTest
  <2>1. held' = held
    OBVIOUS
  <2>2. crowd' \in BOOLEAN
    OBVIOUS
  <2>3. {pool_running, crowd, repeated}' \subseteq BOOLEAN
    BY <2>2
  <2>4. W!GwTypeOK' /\ GwGhosts'
    BY <2>3
  <2>5. GwPool'
    BY <1>1, <1>2, <2>1 DEF GwPool
  <2>6. GwRoute' /\ GwClosed'
    BY DEF GwRoute, GwClosed, W!Stopped
  <2> QED BY <2>4, <2>5, <2>6
<1>4. CASE W!PoolAdd(c)
  <2> USE <1>4 DEF W!PoolAdd
  <2>1. held' = held \cup {c} /\ c \notin held
    OBVIOUS
  <2>2. pool_active' = Cardinality(held')
    BY <1>1, <2>1, FS_AddElement
  <2>3. pool_active' \in 0 .. W!Cardinality(Clients)
    BY <1>1, <2>2
  <2>4. slot' \in [Clients -> {"out", "add", "in"}]
    OBVIOUS
  <2>5. W!GwTypeOK' /\ GwGhosts'
    BY <2>3, <2>4
  <2>6. GwPool'
    <3> SUFFICES ASSUME ~crowd' PROVE /\ pool_active' <= PoolLimit
                                      /\ \A d \in Clients : slot'[d] # "add"
      BY <2>2 DEF GwPool
    <3> QED BY <1>1, <1>2 DEF GwPool
  <2>7. GwRoute' /\ GwClosed'
    BY DEF GwRoute, GwClosed, W!Stopped
  <2> QED BY <2>5, <2>6, <2>7
<1>5. CASE W!PoolRelease(c)
  <2> USE <1>5 DEF W!PoolRelease
  <2>1. held' = held \ {c} /\ c \in held
    OBVIOUS
  <2>2. pool_active' = Cardinality(held')
    <3>1. Cardinality(held \ {c}) = Cardinality(held) - 1
      BY <1>1, <2>1, FS_RemoveElement
    <3> QED BY <1>1, <2>1, <3>1
  <2>3. pool_active' \in 0 .. W!Cardinality(Clients)
    BY <1>1, <2>2
  <2>4. slot' \in [Clients -> {"out", "add", "in"}]
    OBVIOUS
  <2>5. W!GwTypeOK' /\ GwGhosts'
    BY <2>3, <2>4
  <2>6. GwPool'
    BY <1>1, <1>2, <2>2 DEF GwPool
  <2>7. GwRoute' /\ GwClosed'
    BY DEF GwRoute, GwClosed, W!Stopped
  <2> QED BY <2>5, <2>6, <2>7
<1> QED BY <1>3, <1>4, <1>5

Calls == [at : {"idle", "decide", "submit", "done"}, limit : {1, 3}, attempt : 0 .. 3,
          venue : W!Venues \cup {W!None}]

\* A router's call after an attempt.
LEMMA AfterAttempt ==
    ASSUME NEW f \in [Routers -> Calls], NEW r \in Routers, NEW n \in 0 .. 3,
           NEW next \in {"idle", "decide", "submit", "done"}
    PROVE  [f EXCEPT ![r].attempt = n, ![r].at = next] \in [Routers -> Calls]
<1> DEFINE c == [f[r] EXCEPT !.attempt = n, !.at = next]
<1>1. c \in Calls
  <2>1. f[r] \in Calls
    OBVIOUS
  <2> QED BY <2>1 DEF Calls
<1>2. [f EXCEPT ![r].attempt = n, ![r].at = next] = [f EXCEPT ![r] = c]
  OBVIOUS
<1> HIDE DEF c
<1> QED BY <1>1, <1>2

\* The steps of a router.
LEMMA GwRouting ==
    ASSUME GwInv, NEW r \in Routers, W!RouteOrder(r) \/ W!Decide(r) \/ W!Submit(r)
    PROVE  GwInv'
<1> USE DEF GwInv, W!GwTypeOK, GwGhosts, W!poolVars, W!ghosts
<1>1. CASE W!RouteOrder(r)
  <2> USE <1>1 DEF W!RouteOrder
  <2>1. PICK n \in {1, 3} : route' = [route EXCEPT ![r].at = "decide", ![r].limit = n]
    OBVIOUS
  <2>2. W!GwTypeOK' /\ GwGhosts'
    BY <2>1, SMTT(30)
  <2>3. GwRoute'
    BY <2>1 DEF GwRoute, W!Stopped
  <2>4. GwClosed' /\ GwPool'
    BY DEF GwClosed, GwPool
  <2> QED BY <2>2, <2>3, <2>4
<1>2. CASE W!Decide(r)
  <2> DEFINE v == GwVenue(r)
  <2>1. /\ route[r].at = "decide"
        /\ route' = [route EXCEPT ![r].venue = v,
                                  ![r].at = IF v = W!None THEN "done" ELSE "submit"]
        /\ rr_index' = IF route[r].attempt # 0 /\ policy = "RoundRobin" /\ v # W!None
                       THEN (v + 1) % MaxVenues ELSE rr_index
        /\ UNCHANGED <<status, active_count, policy, pool_running, pool_active, slot, crowd,
                       closed, tried, copies, lost, late>>
    BY <1>2 DEF W!Decide, GwVenue
  <2>2. repeated' \in BOOLEAN
    BY <1>2 DEF W!Decide
  <2>3. v \in W!Healthy \cup {W!None} /\ (W!Stopped => v = W!None)
    BY VenueChoice
  <2>4. v \in W!Venues \cup {W!None}
    BY <2>3 DEF W!Healthy
  <2> HIDE DEF v
  <2>5. rr_index' \in W!Venues
    BY <2>1, <2>4, ServicesAssumption DEF W!GatewayConstants, W!Venues
  <2>6. {pool_running, crowd, repeated}' \subseteq BOOLEAN
    BY <2>1, <2>2
  <2>7. route' \in [Routers -> [at : {"idle", "decide", "submit", "done"}, limit : {1, 3},
                               attempt : 0 .. 3, venue : W!Venues \cup {W!None}]]
    BY <2>1, <2>4
  <2>8. W!GwTypeOK' /\ GwGhosts'
    BY <2>1, <2>5, <2>6, <2>7
  <2>9. GwRoute'
    BY <2>1, <2>3, <2>4 DEF GwRoute, W!Stopped
  <2>10. GwClosed' /\ GwPool'
    BY <2>1 DEF GwClosed, GwPool
  <2> QED BY <2>8, <2>9, <2>10
<1>3. CASE W!Submit(r)
  <2> DEFINE n == route[r].attempt + 1
  <2>1. PICK answer \in {"accepted", "refused", "timeout"} :
          /\ copies' = [copies EXCEPT ![r] = IF answer # "refused" THEN @ + 1 ELSE @]
          /\ lost' = [lost EXCEPT ![r] = IF answer = "timeout" THEN @ + 1 ELSE @]
          /\ route' = [route EXCEPT ![r].attempt = n, ![r].at =
                          IF answer = "accepted" \/ n >= route[r].limit THEN "done"
                          ELSE "decide"]
    BY <1>3 DEF W!Submit
  <2>2. /\ route[r].at = "submit"
        /\ tried' = [tried EXCEPT ![r] = route[r].venue]
        /\ late' = [late EXCEPT ![r] = IF W!Stopped THEN @ + 1 ELSE @]
        /\ UNCHANGED <<status, active_count, rr_index, policy, pool_running, pool_active, slot,
                       crowd, closed, repeated>>
    BY <1>3 DEF W!Submit
  <2>3. /\ n \in 1 .. 3 /\ n <= route[r].limit
        /\ copies[r] <= lost[r] /\ lost[r] < n /\ late[r] = 0
    BY <2>2 DEF GwRoute
  <2>4. route' \in [Routers -> [at : {"idle", "decide", "submit", "done"}, limit : {1, 3},
                               attempt : 0 .. 3, venue : W!Venues \cup {W!None}]]
    <3>1. PICK next \in {"done", "decide"} :
             route' = [route EXCEPT ![r].attempt = n, ![r].at = next]
      BY <2>1
    <3> HIDE DEF n
    <3>2. n \in 0 .. 3 /\ next \in {"idle", "decide", "submit", "done"}
      BY <2>3
    <3> QED BY <3>1, <3>2, AfterAttempt DEF Calls
  <2>5. GwGhosts'
    BY <2>1, <2>2, <2>3
  <2>6. W!GwTypeOK'
    BY <2>2, <2>4, <2>5
  <2>7. GwRoute'
    BY <2>1, <2>2, <2>3 DEF GwRoute, W!Stopped
  <2>8. GwClosed' /\ GwPool'
    BY <2>2 DEF GwClosed, GwPool
  <2> QED BY <2>5, <2>6, <2>7, <2>8
<1> QED BY <1>1, <1>2, <1>3

LEMMA GwInvStep == GwInv /\ W!GwNext => GwInv'
BY GwManager, GwSlots, GwRouting DEF W!GwNext

LEMMA GwInvGoals == GwInv => W!GwTypeOK /\ W!PoolBound /\ W!SingleCopy /\ W!LateSubmissions
BY DEF GwInv, GwPool, GwRoute, W!PoolBound, W!SingleCopy, W!LateSubmissions

-----------------------------------------------------------------------------
(* The worker pool.                                                         *)

\* A task is in the channel of a priority.
Holds(s, t) == \E k \in 1 .. Capacity : k <= Len(s) /\ s[k] = t

\* The workers whose poll of priority q has found nothing this round.
Past(q) == {w \in Workers : worker[w].at = "poll" /\ worker[w].level > q}

\* A task is queued once accepted, under one priority, and a worker runs only a
\* task that was accepted.
PoolPlaces ==
    /\ \A t \in Tasks, q \in P!Levels : Holds(queue[q], t) =>
          /\ fate[t] \in {"accepted", "ended"}
          /\ \A p \in P!Levels : Holds(queue[p], t) => p = q
    /\ \A w \in Workers : worker[w].at = "run" =>
          worker[w].task \in Tasks /\ fate[worker[w].task] \in {"accepted", "ended"}

\* An accepted task is queued or running.
PoolKept ==
    \A t \in Tasks : fate[t] = "accepted" =>
        (\E q \in P!Levels : Holds(queue[q], t)) \/ P!RunningOf(t) # {}

\* What has overtaken a task, and what still can before it is polled, is at
\* most one task per worker; nothing overtakes a task that was not submitted.
PoolOvertaken ==
    /\ \A t \in Tasks : overtaken[t] <= Cardinality(Workers)
    /\ \A t \in Tasks : fate[t] = "new" => overtaken[t] = 0
    /\ \A t \in Tasks, q \in P!Levels : Holds(queue[q], t) =>
          overtaken[t] + Cardinality(Past(q)) <= Cardinality(Workers)

\* shutdown() returns when every worker is gone.
PoolJoined == join = "done" => \A w \in Workers : worker[w].at \in {"exited", "dead"}

PoolInv == P!PoolTypeOK /\ PoolPlaces /\ PoolKept /\ PoolOvertaken /\ PoolJoined

-----------------------------------------------------------------------------
\* What try_send() adds to a channel.
LEMMA HoldsAppend ==
    ASSUME NEW s \in Seq(Tasks), Len(s) < Capacity, NEW t \in Tasks
    PROVE  /\ Append(s, t) \in Seq(Tasks) /\ Len(Append(s, t)) <= Capacity
           /\ \A u \in Tasks : Holds(Append(s, t), u) <=> Holds(s, u) \/ u = t
<1> USE ServicesAssumption DEF P!PoolConstants
<1>1. /\ Append(s, t) \in Seq(Tasks) /\ Len(Append(s, t)) = Len(s) + 1
      /\ \A k \in 1 .. Len(s) : Append(s, t)[k] = s[k]
      /\ Append(s, t)[Len(s) + 1] = t
      /\ Len(s) \in Nat
  OBVIOUS
<1> QED BY <1>1 DEF Holds

\* What try_recv() takes from it.
LEMMA HoldsTail ==
    ASSUME NEW s \in Seq(Tasks), s # <<>>, Len(s) <= Capacity
    PROVE  /\ Tail(s) \in Seq(Tasks) /\ Len(Tail(s)) <= Capacity
           /\ Head(s) \in Tasks /\ Holds(s, Head(s))
           /\ \A u \in Tasks : Holds(Tail(s), u) => Holds(s, u)
           /\ \A u \in Tasks : Holds(s, u) => Holds(Tail(s), u) \/ u = Head(s)
<1> USE ServicesAssumption DEF P!PoolConstants
<1>1. /\ Tail(s) \in Seq(Tasks) /\ Len(Tail(s)) = Len(s) - 1
      /\ Head(s) = s[1] /\ Head(s) \in Tasks
      /\ \A k \in 1 .. Len(s) - 1 : Tail(s)[k] = s[k + 1]
      /\ Len(s) \in Nat \ {0}
  OBVIOUS
<1>2. Holds(s, Head(s))
  BY <1>1 DEF Holds
<1>3. ASSUME NEW u \in Tasks, Holds(Tail(s), u) PROVE Holds(s, u)
  <2>1. PICK k \in 1 .. Capacity : k <= Len(Tail(s)) /\ Tail(s)[k] = u
    BY <1>3 DEF Holds
  <2>2. k + 1 \in 1 .. Capacity /\ k + 1 <= Len(s) /\ s[k + 1] = u
    BY <1>1, <2>1
  <2> QED BY <2>2 DEF Holds
<1>4. ASSUME NEW u \in Tasks, Holds(s, u), u # Head(s) PROVE Holds(Tail(s), u)
  <2>1. PICK k \in 1 .. Capacity : k <= Len(s) /\ s[k] = u
    BY <1>4 DEF Holds
  <2>2. k - 1 \in 1 .. Capacity /\ k - 1 <= Len(Tail(s)) /\ Tail(s)[k - 1] = u
    BY <1>1, <1>4, <2>1
  <2> QED BY <2>2 DEF Holds
<1> QED BY <1>1, <1>2, <1>3, <1>4

LEMMA HoldsEmpty == \A t \in Tasks : ~Holds(<<>>, t)
BY DEF Holds

\* Sets of workers and of tasks are finite.
LEMMA PoolFinite ==
    /\ \A A \in SUBSET Workers : /\ IsFiniteSet(A) /\ Cardinality(A) \in Nat
                                 /\ Cardinality(A) <= Cardinality(Workers)
    /\ \A A \in SUBSET Tasks : IsFiniteSet(A) /\ Cardinality(A) \in Nat
    /\ Cardinality(Workers) \in Nat
<1>1. IsFiniteSet(Workers) /\ IsFiniteSet(Tasks)
  BY ServicesAssumption, SameFinite DEF P!PoolConstants
<1>2. \A A \in SUBSET Workers : IsFiniteSet(A) /\ Cardinality(A) <= Cardinality(Workers)
  BY <1>1, FS_Subset
<1>3. \A A \in SUBSET Tasks : IsFiniteSet(A)
  BY <1>1, FS_Subset
<1> QED BY <1>1, <1>2, <1>3, FS_CardinalityType

\* The pool as new() makes it.
LEMMA PoolInvInit == P!PoolInit => PoolInv
<1> SUFFICES ASSUME P!PoolInit PROVE PoolInv
  OBVIOUS
<1> USE ServicesAssumption DEF P!PoolInit, P!PoolConstants
<1>1. P!PoolTypeOK
  <2>1. queue \in [P!Levels -> Seq(Tasks)] /\ \A p \in P!Levels : Len(queue[p]) <= Capacity
    OBVIOUS
  <2>2. {t \in Tasks : fate[t] \in {"accepted", "ended"}} = {}
    OBVIOUS
  <2>3. Cardinality({t \in Tasks : fate[t] \in {"accepted", "ended"}}) = 0
    BY <2>2, FS_EmptySet
  <2>4. worker \in [Workers -> [at : {"top", "poll", "run", "exited", "dead"},
                                level : P!Levels, task : Tasks \cup {P!None}]]
    BY DEF P!Levels
  <2> QED BY <2>1, <2>3, <2>4, SameCardinality DEF P!PoolTypeOK
<1>2. \A t \in Tasks, q \in P!Levels : ~Holds(queue[q], t)
  BY HoldsEmpty
<1>3. PoolPlaces /\ PoolKept /\ PoolJoined
  BY <1>2 DEF PoolPlaces, PoolKept, PoolJoined
<1>4. PoolOvertaken
  BY <1>2, PoolFinite DEF PoolOvertaken
<1> QED BY <1>1, <1>3, <1>4 DEF PoolInv

-----------------------------------------------------------------------------
\* The tasks that tasks_submitted counts.
Submitted == {t \in Tasks : fate[t] \in {"accepted", "ended"}}

LEMMA PoolSubmit ==
    ASSUME PoolInv, NEW t \in Tasks, NEW p \in P!Levels, P!SubmitTask(t, p)
    PROVE  PoolInv'
<1> USE DEF PoolInv, P!PoolTypeOK
<1>1. fate[t] = "new" /\ UNCHANGED <<worker, stop, join, overtaken>>
  BY DEF P!SubmitTask
<1>2. CASE Len(queue[p]) < Capacity
  <2>1. /\ queue' = [queue EXCEPT ![p] = Append(queue[p], t)]
        /\ tasks_submitted' = tasks_submitted + 1
        /\ fate' = [fate EXCEPT ![t] = "accepted"]
    BY <1>2 DEF P!SubmitTask
  <2>2. /\ Append(queue[p], t) \in Seq(Tasks) /\ Len(Append(queue[p], t)) <= Capacity
        /\ \A u \in Tasks : Holds(Append(queue[p], t), u) <=> Holds(queue[p], u) \/ u = t
    BY <1>2, HoldsAppend
  <2>3. \A u \in Tasks, q \in P!Levels :
           Holds(queue'[q], u) <=> Holds(queue[q], u) \/ (u = t /\ q = p)
    BY <2>1, <2>2
  <2>4. \A q \in P!Levels : ~Holds(queue[q], t)
    BY <1>1 DEF PoolPlaces
  <2>5. P!PoolTypeOK'
    <3>1. Submitted' = Submitted \cup {t} /\ t \notin Submitted
      BY <1>1, <2>1 DEF Submitted
    <3>2. Submitted \in SUBSET Tasks /\ tasks_submitted = Cardinality(Submitted)
      BY SameCardinality DEF Submitted
    <3>3. Cardinality(Submitted \cup {t}) = Cardinality(Submitted) + 1
      BY <3>1, <3>2, PoolFinite, FS_AddElement
    <3>4. tasks_submitted' = Cardinality(Submitted')
      BY <2>1, <3>1, <3>2, <3>3
    <3>5. queue' \in [P!Levels -> Seq(Tasks)]
             /\ \A q \in P!Levels : Len(queue'[q]) <= Capacity
      BY <2>1, <2>2
    <3>6. fate' \in [Tasks -> {"new", "refused", "accepted", "ended"}]
      BY <2>1
    <3> QED BY <1>1, <3>4, <3>5, <3>6, SameCardinality DEF Submitted
  <2>6. PoolPlaces'
    BY <1>1, <2>1, <2>3, <2>4 DEF PoolPlaces
  <2>7. PoolKept' /\ PoolJoined'
    <3>1. \A u \in Tasks : P!RunningOf(u)' = P!RunningOf(u)
      BY <1>1 DEF P!RunningOf
    <3>2. ASSUME NEW u \in Tasks, fate'[u] = "accepted"
          PROVE  (\E q \in P!Levels : Holds(queue'[q], u)) \/ P!RunningOf(u) # {}
      BY <3>2, <2>1, <2>3 DEF PoolKept
    <3> QED BY <1>1, <3>1, <3>2 DEF PoolKept, PoolJoined
  <2>8. PoolOvertaken'
    <3>1. \A q \in P!Levels : Past(q)' = Past(q) /\ Past(q) \in SUBSET Workers
      BY <1>1 DEF Past
    <3>2. \A q \in P!Levels :
             Cardinality(Past(q)) \in Nat /\ Cardinality(Past(q)) <= Cardinality(Workers)
      BY <3>1, PoolFinite
    <3>3. overtaken[t] = 0
      BY <1>1 DEF PoolOvertaken
    <3>4. ASSUME NEW u \in Tasks, NEW q \in P!Levels, Holds(queue'[q], u)
          PROVE  overtaken[u] + Cardinality(Past(q)) <= Cardinality(Workers)
      <4>1. CASE Holds(queue[q], u)
        BY <4>1 DEF PoolOvertaken
      <4>2. CASE u = t
        BY <4>2, <3>2, <3>3
      <4> QED BY <3>4, <2>3, <4>1, <4>2
    <3>5. \A u \in Tasks : fate'[u] = "new" => fate[u] = "new"
      BY <2>1
    <3> QED BY <1>1, <3>1, <3>4, <3>5 DEF PoolOvertaken
  <2> QED BY <2>5, <2>6, <2>7, <2>8
<1>3. CASE ~(Len(queue[p]) < Capacity)
  <2>1. fate' = [fate EXCEPT ![t] = "refused"] /\ UNCHANGED <<queue, tasks_submitted>>
    BY <1>3 DEF P!SubmitTask
  <2>2. \A q \in P!Levels : ~Holds(queue[q], t)
    BY <1>1 DEF PoolPlaces
  <2>3. P!PoolTypeOK'
    <3>1. {u \in Tasks : fate'[u] \in {"accepted", "ended"}}
            = {u \in Tasks : fate[u] \in {"accepted", "ended"}}
      BY <1>1, <2>1
    <3> QED BY <1>1, <2>1, <3>1
  <2>4. PoolPlaces' /\ PoolKept' /\ PoolJoined'
    BY <1>1, <2>1, <2>2 DEF PoolPlaces, PoolKept, PoolJoined, P!RunningOf
  <2>5. PoolOvertaken'
    BY <1>1, <2>1 DEF PoolOvertaken, Past
  <2> QED BY <2>3, <2>4, <2>5
<1> QED BY <1>2, <1>3

\* The head of the loop, which no task's bound depends on: polling starts at
\* the most urgent priority.
LEMMA PoolTop ==
    ASSUME PoolInv, NEW w \in Workers, P!LoopTop(w)
    PROVE  PoolInv'
<1> USE DEF PoolInv, P!PoolTypeOK
<1>1. /\ worker[w].at = "top"
      /\ UNCHANGED <<queue, stop, join, tasks_submitted, fate, overtaken>>
  BY DEF P!LoopTop
<1>2. PICK next \in {"exited", "poll"} :
         worker' = [worker EXCEPT ![w].at = next, ![w].level = 0]
  BY DEF P!LoopTop
<1>3. 0 \in P!Levels
  BY ServicesAssumption DEF P!PoolConstants, P!Levels
<1>4. P!PoolTypeOK'
  BY <1>1, <1>2, <1>3, ZenonT(60)
<1>5. PoolPlaces' /\ PoolJoined'
  BY <1>1, <1>2 DEF PoolPlaces, PoolJoined
<1>6. PoolKept'
  BY <1>1, <1>2 DEF PoolKept, P!RunningOf
<1>7. PoolOvertaken'
  <2>1. \A q \in P!Levels : Past(q)' = Past(q)
    BY <1>1, <1>2, ServicesAssumption DEF Past, P!Levels, P!PoolConstants
  <2> QED BY <1>1, <2>1 DEF PoolOvertaken
<1> QED BY <1>4, <1>5, <1>6, <1>7

\* A worker's poll of one priority.
LEMMA PoolPoll ==
    ASSUME PoolInv, NEW w \in Workers, P!Poll(w)
    PROVE  PoolInv'
<1> USE DEF PoolInv, P!PoolTypeOK
<1> DEFINE p == worker[w].level
<1>1. /\ worker[w].at = "poll" /\ p \in P!Levels
      /\ UNCHANGED <<stop, join, tasks_submitted, fate>>
  BY DEF P!Poll
<1>2. PoolJoined'
  BY <1>1 DEF PoolJoined
<1>3. \A q \in P!Levels : q \in Int /\ p \in Int
  BY <1>1, ServicesAssumption DEF P!PoolConstants, P!Levels
<1>4. CASE queue[p] # <<>>
  <2>1. /\ worker' = [worker EXCEPT ![w].at = "run", ![w].task = Head(queue[p])]
        /\ queue' = [queue EXCEPT ![p] = Tail(queue[p])]
        /\ overtaken' = [t \in Tasks |->
              IF \E q \in 0 .. p - 1, k \in 1 .. Capacity :
                    k <= Len(queue[q]) /\ queue[q][k] = t
              THEN overtaken[t] + 1 ELSE overtaken[t]]
    BY <1>4 DEF P!Poll
  <2>2. /\ Tail(queue[p]) \in Seq(Tasks) /\ Len(Tail(queue[p])) <= Capacity
        /\ Head(queue[p]) \in Tasks /\ Holds(queue[p], Head(queue[p]))
        /\ \A u \in Tasks : Holds(Tail(queue[p]), u) => Holds(queue[p], u)
        /\ \A u \in Tasks :
              Holds(queue[p], u) => Holds(Tail(queue[p]), u) \/ u = Head(queue[p])
    BY <1>1, <1>4, HoldsTail
  <2>3. \A u \in Tasks, q \in P!Levels :
           /\ Holds(queue'[q], u) => Holds(queue[q], u)
           /\ Holds(queue[q], u) => Holds(queue'[q], u) \/ u = Head(queue[p])
    BY <1>1, <2>1, <2>2
  <2>4. worker'[w].at = "run" /\ worker'[w].task = Head(queue[p])
           /\ \A v \in Workers : v # w => worker'[v] = worker[v]
    BY <2>1
  <2>5. ASSUME NEW t \in Tasks
        PROVE  overtaken'[t] = IF \E q \in P!Levels : q < p /\ Holds(queue[q], t)
                               THEN overtaken[t] + 1 ELSE overtaken[t]
    <3>1. 0 .. p - 1 = {q \in P!Levels : q < p}
      BY <1>1, ServicesAssumption DEF P!PoolConstants, P!Levels
    <3> QED BY <2>1, <3>1 DEF Holds
  <2>6. P!PoolTypeOK'
    <3>1. worker' \in [Workers -> [at : {"top", "poll", "run", "exited", "dead"},
                                   level : P!Levels, task : Tasks \cup {P!None}]]
      BY <2>1, <2>2, ZenonT(60)
    <3>2. queue' \in [P!Levels -> Seq(Tasks)]
             /\ \A q \in P!Levels : Len(queue'[q]) <= Capacity
      BY <1>1, <2>1, <2>2
    <3>3. overtaken' \in [Tasks -> Nat]
      BY <2>1
    <3> QED BY <1>1, <3>1, <3>2, <3>3
  <2>7. PoolPlaces'
    BY <1>1, <2>2, <2>3, <2>4 DEF PoolPlaces
  <2>8. PoolKept'
    <3> SUFFICES ASSUME NEW t \in Tasks, fate[t] = "accepted"
                 PROVE  (\E q \in P!Levels : Holds(queue'[q], t)) \/ P!RunningOf(t)' # {}
      BY <1>1 DEF PoolKept
    <3>1. CASE t = Head(queue[p])
      BY <3>1, <2>4 DEF P!RunningOf
    <3>2. CASE P!RunningOf(t) # {}
      BY <3>2, <1>1, <2>4 DEF P!RunningOf
    <3>3. CASE t # Head(queue[p]) /\ \E q \in P!Levels : Holds(queue[q], t)
      BY <3>3, <2>3
    <3> QED BY <3>1, <3>2, <3>3 DEF PoolKept
  <2>9. PoolOvertaken'
    <3>1. ASSUME NEW q \in P!Levels
          PROVE  /\ Past(q)' = Past(q) \ {w} /\ Past(q) \in SUBSET Workers
                 /\ w \in Past(q) <=> q < p
      BY <1>1, <1>3, <2>4 DEF Past
    <3>2. ASSUME NEW q \in P!Levels
          PROVE  /\ Cardinality(Past(q)) \in Nat
                 /\ Cardinality(Past(q)') = IF q < p THEN Cardinality(Past(q)) - 1
                                            ELSE Cardinality(Past(q))
      <4>1. IsFiniteSet(Past(q)) /\ Cardinality(Past(q)) \in Nat
        BY <3>1, PoolFinite
      <4>2. Cardinality(Past(q) \ {w}) = IF w \in Past(q) THEN Cardinality(Past(q)) - 1
                                         ELSE Cardinality(Past(q))
        BY <4>1, FS_RemoveElement
      <4> QED BY <3>1, <4>1, <4>2
    <3>3. ASSUME NEW t \in Tasks, NEW q \in P!Levels, Holds(queue[q], t)
          PROVE  /\ overtaken'[t] <= Cardinality(Workers)
                 /\ overtaken'[t] + Cardinality(Past(q)') <= Cardinality(Workers)
      <4>1. overtaken[t] + Cardinality(Past(q)) <= Cardinality(Workers)
        BY <3>3 DEF PoolOvertaken
      <4>2. overtaken'[t] = IF q < p THEN overtaken[t] + 1 ELSE overtaken[t]
        BY <3>3, <2>5 DEF PoolPlaces
      <4>3. Cardinality(Past(q)) \in Nat /\ Cardinality(Past(q)') \in Nat
        <5>1. Past(q)' \in SUBSET Workers
          BY <3>1
        <5> QED BY <3>2, <5>1, PoolFinite
      <4> QED BY <4>1, <4>2, <4>3, <3>2, <1>3, PoolFinite
    <3>4. ASSUME NEW t \in Tasks, \A q \in P!Levels : ~Holds(queue[q], t)
          PROVE  overtaken'[t] = overtaken[t]
      BY <3>4, <2>5
    <3>5. \A t \in Tasks : overtaken'[t] <= Cardinality(Workers)
      BY <3>3, <3>4 DEF PoolOvertaken
    <3>6. \A t \in Tasks : fate'[t] = "new" => overtaken'[t] = 0
      BY <1>1, <3>4 DEF PoolOvertaken, PoolPlaces
    <3>7. \A t \in Tasks, q \in P!Levels : Holds(queue'[q], t) =>
             overtaken'[t] + Cardinality(Past(q)') <= Cardinality(Workers)
      BY <2>3, <3>3
    <3> QED BY <3>5, <3>6, <3>7 DEF PoolOvertaken
  <2> QED BY <1>2, <2>6, <2>7, <2>8, <2>9
<1>5. CASE queue[p] = <<>>
  <2>1. /\ worker' = [worker EXCEPT ![w] =
              IF p = Priorities - 1 THEN [worker[w] EXCEPT !.at = "top", !.level = 0]
              ELSE [worker[w] EXCEPT !.level = p + 1]]
        /\ UNCHANGED <<queue, overtaken>>
    BY <1>5 DEF P!Poll
  <2>2. /\ worker'[w].at \in {"top", "poll"}
        /\ worker'[w].at = "poll" => worker'[w].level = p + 1
        /\ \A v \in Workers : v # w => worker'[v] = worker[v]
    BY <1>1, <2>1
  <2>3. P!PoolTypeOK'
    <3>1. 0 \in P!Levels /\ (p # Priorities - 1 => p + 1 \in P!Levels)
      BY <1>1, ServicesAssumption, SMTT(30) DEF P!PoolConstants, P!Levels
    <3>2. worker' \in [Workers -> [at : {"top", "poll", "run", "exited", "dead"},
                                   level : P!Levels, task : Tasks \cup {P!None}]]
      BY <2>1, <3>1, ZenonT(60)
    <3> QED BY <1>1, <2>1, <3>2
  <2>4. PoolPlaces'
    BY <1>1, <2>1, <2>2 DEF PoolPlaces
  <2>5. PoolKept'
    <3>1. \A t \in Tasks : P!RunningOf(t) \subseteq P!RunningOf(t)'
      BY <1>1, <2>2 DEF P!RunningOf
    <3> QED BY <1>1, <2>1, <3>1 DEF PoolKept
  <2>6. PoolOvertaken'
    <3>1. ASSUME NEW t \in Tasks, NEW q \in P!Levels, Holds(queue[q], t)
          PROVE  overtaken[t] + Cardinality(Past(q)') <= Cardinality(Workers)
      <4>1. q # p
        BY <3>1, <1>5, HoldsEmpty
      <4>2. Past(q)' \subseteq Past(q) /\ Past(q) \subseteq Workers
        <5>1. ASSUME NEW v \in Past(q)', v # w PROVE v \in Past(q)
          BY <5>1, <2>2 DEF Past
        <5>2. ASSUME w \in Past(q)' PROVE w \in Past(q)
          <6>1. p + 1 > q
            BY <5>2, <2>2 DEF Past
          <6>2. p > q
            BY <6>1, <4>1, <1>3
          <6> QED BY <6>2, <1>1 DEF Past
        <5> QED BY <5>1, <5>2 DEF Past
      <4>3. IsFiniteSet(Past(q)) /\ Cardinality(Past(q)) \in Nat
               /\ Cardinality(Past(q)') \in Nat
        BY <4>2, PoolFinite
      <4>4. Cardinality(Past(q)') <= Cardinality(Past(q))
        BY <4>2, <4>3, FS_Subset
      <4>5. overtaken[t] + Cardinality(Past(q)) <= Cardinality(Workers)
        BY <3>1 DEF PoolOvertaken
      <4> QED BY <4>3, <4>4, <4>5, PoolFinite
    <3> QED BY <1>1, <2>1, <3>1 DEF PoolOvertaken
  <2> QED BY <1>2, <2>3, <2>4, <2>5, <2>6
<1> QED BY <1>4, <1>5

\* The end of a task, or of its worker.
LEMMA PoolRun ==
    ASSUME PoolInv, NEW w \in Workers, P!RunTask(w)
    PROVE  PoolInv'
<1> USE DEF PoolInv, P!PoolTypeOK
<1>1. /\ worker[w].at = "run"
      /\ fate' = [fate EXCEPT ![worker[w].task] = "ended"]
      /\ UNCHANGED <<queue, stop, join, tasks_submitted, overtaken>>
  BY DEF P!RunTask
<1>2. PICK next \in {"top", "dead"} :
         worker' = [worker EXCEPT ![w] = [at |-> next, level |-> 0, task |-> P!None]]
  BY DEF P!RunTask
<1>3. worker[w].task \in Tasks /\ fate[worker[w].task] \in {"accepted", "ended"}
  BY <1>1 DEF PoolPlaces
<1>4. 0 \in P!Levels
  BY ServicesAssumption DEF P!PoolConstants, P!Levels
<1>5. P!PoolTypeOK'
  <2>1. {t \in Tasks : fate'[t] \in {"accepted", "ended"}}
          = {t \in Tasks : fate[t] \in {"accepted", "ended"}}
    BY <1>1, <1>3
  <2>2. worker' \in [Workers -> [at : {"top", "poll", "run", "exited", "dead"},
                                 level : P!Levels, task : Tasks \cup {P!None}]]
    BY <1>2, <1>4
  <2>3. fate' \in [Tasks -> {"new", "refused", "accepted", "ended"}]
    BY <1>1
  <2> QED BY <1>1, <2>1, <2>2, <2>3
<1>6. PoolPlaces' /\ PoolJoined'
  BY <1>1, <1>2, <1>3 DEF PoolPlaces, PoolJoined
<1>7. PoolKept'
  <2> SUFFICES ASSUME NEW t \in Tasks, fate'[t] = "accepted"
               PROVE  (\E q \in P!Levels : Holds(queue'[q], t)) \/ P!RunningOf(t)' # {}
    BY DEF PoolKept
  <2>1. fate[t] = "accepted" /\ t # worker[w].task
    BY <1>1, <1>3
  <2>2. P!RunningOf(t) \subseteq P!RunningOf(t)'
    BY <1>2, <2>1 DEF P!RunningOf
  <2> QED BY <1>1, <2>1, <2>2 DEF PoolKept
<1>8. PoolOvertaken'
  <2>1. \A q \in P!Levels : Past(q)' = Past(q)
    BY <1>1, <1>2 DEF Past
  <2> QED BY <1>1, <2>1 DEF PoolOvertaken
<1> QED BY <1>5, <1>6, <1>7, <1>8

\* shutdown(): the flag, and the joins.
LEMMA PoolShutdown ==
    ASSUME PoolInv, P!ShutdownPool \/ P!JoinWorkers
    PROVE  PoolInv'
<1> USE DEF PoolInv, P!PoolTypeOK, P!ShutdownPool, P!JoinWorkers
<1>1. P!PoolTypeOK'
  OBVIOUS
<1>2. PoolPlaces' /\ PoolKept'
  BY DEF PoolPlaces, PoolKept, P!RunningOf
<1>3. PoolJoined'
  BY DEF PoolJoined
<1>4. PoolOvertaken'
  BY DEF PoolOvertaken, Past
<1> QED BY <1>1, <1>2, <1>3, <1>4

LEMMA PoolInvStep == PoolInv /\ P!PoolNext => PoolInv'
BY PoolSubmit, PoolTop, PoolPoll, PoolRun, PoolShutdown DEF P!PoolNext

LEMMA PoolInvGoals == PoolInv => P!PoolTypeOK /\ P!OvertakeBound /\ P!ShutdownQuiet
<1> SUFFICES ASSUME PoolInv PROVE P!OvertakeBound /\ P!ShutdownQuiet
  BY DEF PoolInv
<1>1. P!OvertakeBound
  BY SameCardinality DEF PoolInv, PoolOvertaken, P!OvertakeBound
<1>2. ASSUME join = "done", NEW t \in Tasks PROVE P!RunningOf(t) = {}
  BY <1>2 DEF PoolInv, PoolJoined, P!RunningOf
<1>3. ASSUME join = "done", NEW t \in Tasks, fate[t] = "accepted" PROVE P!Queued(t)
  BY <1>2, <1>3 DEF PoolInv, PoolKept, Holds, P!Queued
<1> QED BY <1>1, <1>2, <1>3 DEF P!ShutdownQuiet

-----------------------------------------------------------------------------
(* The failover manager and its snapshots.                                  *)

\* Snapshots never carry a checksum that loads; who is writing one has the last
\* file, and is alone unless writers have overlapped.
FoFiles ==
    /\ \A k \in DOMAIN files : files[k].checksum = F!HeaderChecksum
    /\ \A i \in Instances : F!At(i, "write") => files # <<>>
    /\ ~overlap => \A i \in Instances : F!At(i, "write") =>
          /\ files[Len(files)].owner = i
          /\ \A j \in Instances : F!At(j, "write") => j = i
    /\ F!LastCompleteKept

\* In a pair: where an instance is tells its mode, one on its way to hot is
\* unseen, and a hot one that is not has beaten less than MaxAge ago.
FoPlace(i) ==
    /\ inst[i].pc # "load"
    /\ inst[i].is_active => inst[i].mode = "Hot" /\ inst[i].pc \in {"idle", "beat"}
    /\ inst[i].mode = "Hot" => inst[i].up
    /\ inst[i].pc = "promote" => inst[i].mode = "Recovering" /\ i \in unseen
    /\ inst[i].pc \in {"beat", "unlink", "create", "write"} => inst[i].mode = "Hot"
    /\ inst[i].last_heartbeat <= now
    /\ inst[i].mode = "Hot" /\ i \notin unseen => now - inst[i].last_heartbeat < MaxAge

FoPlaces == ~F!Free => \A i \in Instances : FoPlace(i)

\* It trades, or is about to.
Claims(i) == inst[i].is_active \/ inst[i].pc = "promote"

\* Nobody can judge instance i dead: the file is no older than its last heartbeat
\* or is truncated, or everybody else is hot and can only go cold by a snapshot.
Shown(i) ==
    \/ heartbeat = F!Empty
    \/ heartbeat >= inst[i].last_heartbeat
    \/ \A k \in Instances \ {i} : inst[k].up => inst[k].mode = "Hot"

\* In a pair without blind promotions one instance trades; until there is a
\* snapshot, after which no promotion succeeds, one claims to, and it shows.
FoPair ==
    ~F!Free /\ ~blind =>
        /\ \A i, j \in Instances : inst[i].is_active /\ inst[j].is_active => i = j
        /\ files = <<>> =>
              /\ \A i, j \in Instances : Claims(i) /\ Claims(j) => i = j
              /\ \A i \in Instances : inst[i].is_active /\ i \notin unseen => Shown(i)

FoInv == F!TypeOK /\ FoFiles /\ FoPlaces /\ FoPair

\* The constants of the failover manager.
LEMMA FoConstants ==
    /\ MaxAge \in Nat /\ MaxAge > 0 /\ MaxSnapshots \in Nat /\ MaxSnapshots > 0
    /\ MaxTime \in Nat /\ MaxFiles \in Nat /\ MaxRestarts \in Nat
    /\ \A i, j \in Instances \ {Primary} : i = j
BY ServicesAssumption DEF F!FailoverConstants

\* Completing a snapshot keeps the files, their owners and their checksums, and
\* makes the last file whole if it is its owner who completes it.
LEMMA CompleteFacts ==
    ASSUME NEW s \in Seq(F!File), NEW i \in Instances
    PROVE  /\ F!Complete(s, i) \in Seq(F!File) /\ Len(F!Complete(s, i)) = Len(s)
           /\ \A k \in 1 .. Len(s) : F!Complete(s, i)[k].checksum = s[k].checksum
           /\ s # <<>> /\ s[Len(s)].owner = i => ~F!Complete(s, i)[Len(s)].partial
<1> DEFINE f(k) == IF s[k].owner = i /\ \A n \in k + 1 .. Len(s) : s[n].owner # i
                   THEN [s[k] EXCEPT !.partial = FALSE] ELSE s[k]
<1>1. Len(s) \in Nat /\ DOMAIN s = 1 .. Len(s) /\ \A k \in 1 .. Len(s) : s[k] \in F!File
  BY LenProperties, ElementOfSeq
<1>2. F!Complete(s, i) = [k \in 1 .. Len(s) |-> f(k)]
  BY <1>1 DEF F!Complete
<1>3. \A k \in 1 .. Len(s) : f(k) \in F!File /\ f(k).checksum = s[k].checksum
  BY <1>1 DEF F!File
<1>4. s # <<>> /\ s[Len(s)].owner = i => Len(s) \in 1 .. Len(s) /\ ~f(Len(s)).partial
  <2> SUFFICES ASSUME s # <<>>, s[Len(s)].owner = i
               PROVE  Len(s) \in 1 .. Len(s) /\ ~f(Len(s)).partial
    OBVIOUS
  <2>1. Len(s) \in 1 .. Len(s)
    BY <1>1, EmptySeq
  <2>2. \A n \in Len(s) + 1 .. Len(s) : s[n].owner # i
    BY <1>1
  <2>3. f(Len(s)) = [s[Len(s)] EXCEPT !.partial = FALSE] /\ s[Len(s)] \in F!File
    BY <1>1, <2>1, <2>2
  <2> HIDE DEF f
  <2>4. f(Len(s)).partial = FALSE
    BY <2>3 DEF F!File
  <2> QED BY <2>1, <2>4
<1> HIDE DEF f
<1>5. F!Complete(s, i) \in Seq(F!File) /\ Len(F!Complete(s, i)) = Len(s)
  BY <1>1, <1>2, <1>3, IsASeq, LenProperties
<1> QED BY <1>2, <1>3, <1>4, <1>5

\* The clean-up keeps the newest file, and only files that were there.
LEMMA CleanupFacts ==
    ASSUME NEW s \in Seq(F!File)
    PROVE  /\ F!Cleanup(s) \in Seq(F!File) /\ Len(F!Cleanup(s)) <= Len(s)
           /\ \A k \in DOMAIN F!Cleanup(s) : \E n \in 1 .. Len(s) : F!Cleanup(s)[k] = s[n]
           /\ s # <<>> => /\ F!Cleanup(s) # <<>>
                          /\ F!Cleanup(s)[Len(F!Cleanup(s))] = s[Len(s)]
<1> USE FoConstants
<1>1. Len(s) \in Nat /\ DOMAIN s = 1 .. Len(s) /\ \A k \in 1 .. Len(s) : s[k] \in F!File
  BY LenProperties, ElementOfSeq
<1>2. CASE Len(s) <= MaxSnapshots
  BY <1>1, <1>2 DEF F!Cleanup
<1>3. CASE Len(s) > MaxSnapshots
  <2> DEFINE m == Len(s) - MaxSnapshots + 1
             t == SubSeq(s, m, Len(s))
  <2>1. F!Cleanup(s) = t /\ m \in 1 .. Len(s)
    BY <1>1, <1>3 DEF F!Cleanup
  <2>2. /\ t \in Seq(F!File) /\ Len(t) = MaxSnapshots
        /\ \A k \in 1 .. MaxSnapshots : t[k] = s[m + k - 1]
    BY <1>1, <2>1, SubSeqProperties
  <2> HIDE DEF t
  <2>3. DOMAIN t = 1 .. MaxSnapshots /\ t # <<>>
    BY <2>2, LenProperties, EmptySeq
  <2>4. \A k \in 1 .. MaxSnapshots : m + k - 1 \in 1 .. Len(s)
    BY <1>1, <1>3
  <2>5. t[MaxSnapshots] = s[Len(s)]
    BY <1>1, <2>2
  <2> QED BY <1>1, <1>3, <2>1, <2>2, <2>3, <2>4, <2>5
<1> QED BY <1>1, <1>2, <1>3

\* A snapshot never loads, so recovery makes hot only without one.
LEMMA HotOnlyWithoutFiles ==
    ASSUME FoFiles, F!TypeOK
    PROVE  /\ F!LoadLatest \in {"Ok", "NoSnapshotsFound", "Io", "ChecksumMismatch"}
           /\ F!LoadLatest \in {"Ok", "NoSnapshotsFound"} => files = <<>>
<1>1. files # <<>> => Len(files) \in DOMAIN files
  BY LenProperties, EmptySeq DEF F!TypeOK
<1>2. files # <<>> => files[Len(files)].checksum # F!Crc
  BY <1>1 DEF FoFiles, F!HeaderChecksum, F!Crc
<1> QED BY <1>2 DEF F!LoadLatest

\* The initial state.
LEMMA FoInvInit == F!Init => FoInv
<1> SUFFICES ASSUME F!Init PROVE FoInv
  OBVIOUS
<1> USE FoConstants
<1>1. \A i \in Instances : inst[i] \in F!Manager
  BY DEF F!Init, F!Manager, F!New
<1>2. F!TypeOK
  <2>1. {dir, blind, written, overlap} \subseteq BOOLEAN
    BY Zenon DEF F!Init
  <2>2. inst \in [Instances -> F!Manager]
    BY <1>1 DEF F!Init
  <2>3. files \in Seq(F!File) /\ Len(files) <= created
    BY EmptySeq DEF F!Init
  <2>4. heartbeat \in {F!None, F!Empty} \cup 0 .. now
    BY DEF F!Init
  <2> QED BY <2>1, <2>2, <2>3, <2>4 DEF F!Init, F!TypeOK
<1>3. \A i \in Instances : /\ inst[i].pc = "idle" /\ inst[i].up /\ inst[i].last_heartbeat = 0
                           /\ inst[i].is_active => inst[i].mode = "Hot" /\ i = Primary
                           /\ inst[i].mode = "Hot" => inst[i].is_active
  BY DEF F!Init, F!New
<1>4. FoFiles
  <2>1. DOMAIN files = {} /\ \A i \in Instances : ~F!At(i, "write")
    BY <1>3 DEF F!Init, F!At
  <2>2. ~written
    BY DEF F!Init
  <2> QED BY <2>1, <2>2 DEF FoFiles, F!LastCompleteKept
<1>5. FoPlaces
  BY <1>3 DEF FoPlaces, FoPlace, F!Init
<1>6. FoPair
  BY <1>3 DEF F!Init, FoPair, F!Free, Claims, Shown
<1> QED BY <1>2, <1>4, <1>5, <1>6 DEF FoInv

\* What the steps other than those of a snapshot do to the manager of one
\* instance and to the files.
LEMMA FoQuiet ==
    ASSUME FoInv, NEW i \in Instances,
           \/ F!InitializeHot(i) \/ F!InitializeCold(i)
           \/ F!SendHeartbeat(i) \/ F!WriteHeartbeat(i) \/ F!HeartbeatFails(i)
           \/ F!PromoteCheck(i) \/ F!RecoverStart(i) \/ F!Recover(i)
           \/ F!Shutdown(i) \/ F!ShutdownUnlink(i) \/ F!SnapshotFails(i)
           \/ F!Crash(i) \/ F!Restart(i)
    PROVE  /\ \E m \in F!Manager : inst' = [inst EXCEPT ![i] = m] /\ (m.up => m.pc # "write")
           /\ UNCHANGED <<now, dir, files, created, written, overlap, usage>>
<1> DEFINE Goal == \E m \in F!Manager :
                       inst' = [inst EXCEPT ![i] = m] /\ (m.up => m.pc # "write")
<1> USE DEF F!Set, F!Step, F!At, F!disk
<1>1. inst \in [Instances -> F!Manager] /\ inst[i] \in F!Manager /\ now \in Nat
  BY FoConstants DEF FoInv, F!TypeOK
<1>2. UNCHANGED <<now, dir, files, created, written, overlap, usage>>
  BY DEF F!InitializeHot, F!InitializeCold, F!SendHeartbeat, F!WriteHeartbeat,
     F!HeartbeatFails, F!PromoteCheck, F!RecoverStart, F!Recover, F!Shutdown,
     F!ShutdownUnlink, F!SnapshotFails, F!Crash, F!Restart
<1>3. CASE F!InitializeHot(i) \/ F!InitializeCold(i)
  <2>1. PICK m \in {[inst[i] EXCEPT !.mode = "Hot", !.is_active = TRUE, !.pc = "beat"],
                    [inst[i] EXCEPT !.mode = "Cold", !.is_active = FALSE]} :
            inst' = [inst EXCEPT ![i] = m] /\ (m.pc = "beat" \/ m.pc = inst[i].pc)
    BY <1>3, <1>1 DEF F!InitializeHot, F!InitializeCold, F!Manager
  <2>2. m \in F!Manager /\ inst[i].pc = "idle"
    BY <1>1, <1>3 DEF F!Manager, F!InitializeHot, F!InitializeCold
  <2> QED BY <1>2, <2>1, <2>2
<1>4. CASE F!SendHeartbeat(i) \/ F!HeartbeatFails(i) \/ F!ShutdownUnlink(i)
           \/ F!SnapshotFails(i)
  <2>1. PICK l \in {"beat", "idle", "create"} :
            inst' = [inst EXCEPT ![i] = [inst[i] EXCEPT !.pc = l]]
    BY <1>4 DEF F!SendHeartbeat, F!HeartbeatFails, F!ShutdownUnlink, F!SnapshotFails
  <2>2. [inst[i] EXCEPT !.pc = l] \in F!Manager /\ [inst[i] EXCEPT !.pc = l].pc = l
    BY <1>1 DEF F!Manager
  <2> QED BY <1>2, <2>1, <2>2
<1>5. CASE F!WriteHeartbeat(i)
  <2> DEFINE m == [inst[i] EXCEPT !.last_heartbeat = now, !.pc = "idle"]
  <2>1. inst' = [inst EXCEPT ![i] = m]
    BY <1>5 DEF F!WriteHeartbeat
  <2>2. m \in F!Manager /\ m.pc = "idle"
    BY <1>1 DEF F!Manager
  <2> QED BY <1>2, <2>1, <2>2
<1>6. CASE F!PromoteCheck(i) \/ F!RecoverStart(i)
  <2>1. PICK l \in {"promote", "load"} :
            inst' = [inst EXCEPT ![i] = [inst[i] EXCEPT !.mode = "Recovering", !.pc = l]]
    BY <1>6 DEF F!PromoteCheck, F!RecoverStart
  <2> DEFINE m == [inst[i] EXCEPT !.mode = "Recovering", !.pc = l]
  <2>2. m \in F!Manager /\ m.pc = l
    BY <1>1 DEF F!Manager
  <2> QED BY <1>2, <2>1, <2>2
<1>7. CASE F!Recover(i)
  <2> DEFINE hot == F!LoadLatest \in {"Ok", "NoSnapshotsFound"}
             m == [inst[i] EXCEPT !.mode = IF hot THEN "Hot" ELSE @,
                                  !.is_active = hot \/ @,
                                  !.error = IF hot THEN "" ELSE F!LoadLatest,
                                  !.pc = "idle"]
  <2>1. inst' = [inst EXCEPT ![i] = m]
    BY <1>7 DEF F!Recover
  <2>2. (hot \/ inst[i].is_active) \in BOOLEAN
    OBVIOUS
  <2>3. (IF hot THEN "" ELSE F!LoadLatest) \in {"", "Io", "ChecksumMismatch"}
    BY HotOnlyWithoutFiles DEF FoInv
  <2>4. m \in F!Manager /\ m.pc = "idle"
    BY <1>1, <2>2, <2>3 DEF F!Manager
  <2> QED BY <1>2, <2>1, <2>4
<1>8. CASE F!Shutdown(i)
  <2> DEFINE m == [inst[i] EXCEPT !.is_active = FALSE, !.pc = "unlink"]
  <2>1. inst' = [inst EXCEPT ![i] = m]
    BY <1>8 DEF F!Shutdown
  <2>2. m \in F!Manager /\ m.pc = "unlink"
    BY <1>1 DEF F!Manager
  <2> QED BY <1>2, <2>1, <2>2
<1>9. CASE F!Crash(i) \/ F!Restart(i)
  <2>1. PICK m \in {F!New, [F!New EXCEPT !.up = FALSE]} : inst' = [inst EXCEPT ![i] = m]
    BY <1>9 DEF F!Crash, F!Restart
  <2>2. F!New \in F!Manager /\ F!New.pc = "idle"
    BY DEF F!New, F!Manager
  <2>3. [F!New EXCEPT !.up = FALSE] \in F!Manager /\ [F!New EXCEPT !.up = FALSE].pc = "idle"
    BY <2>2 DEF F!Manager
  <2>4. m \in F!Manager /\ m.pc = "idle"
    BY <2>1, <2>2, <2>3
  <2> QED BY <1>2, <2>1, <2>4
<1> QED BY <1>3, <1>4, <1>5, <1>6, <1>7, <1>8, <1>9

\* Those steps keep the types and what is said of the files.
LEMMA FoQuietStep ==
    ASSUME FoInv, NEW i \in Instances,
           \/ F!InitializeHot(i) \/ F!InitializeCold(i)
           \/ F!SendHeartbeat(i) \/ F!WriteHeartbeat(i) \/ F!HeartbeatFails(i)
           \/ F!PromoteCheck(i) \/ F!RecoverStart(i) \/ F!Recover(i)
           \/ F!Shutdown(i) \/ F!ShutdownUnlink(i) \/ F!SnapshotFails(i)
           \/ F!Crash(i) \/ F!Restart(i)
    PROVE  F!TypeOK' /\ FoFiles'
<1> DEFINE Quiet == UNCHANGED <<now, dir, files, created, written, overlap, usage>>
<1>1. PICK m \in F!Manager :
          Quiet /\ inst' = [inst EXCEPT ![i] = m] /\ (m.up => m.pc # "write")
  BY FoQuiet
<1>2. F!TypeOK /\ FoFiles
  BY DEF FoInv
<1>3. F!TypeOK'
  <2> USE DEF F!InitializeHot, F!InitializeCold, F!SendHeartbeat, F!WriteHeartbeat,
          F!HeartbeatFails, F!PromoteCheck, F!RecoverStart, F!Recover, F!Shutdown,
          F!ShutdownUnlink, F!SnapshotFails, F!Crash, F!Restart, F!sight
  <2>1. inst' \in [Instances -> F!Manager]
    BY <1>1, <1>2 DEF F!TypeOK
  <2>2. heartbeat' \in {F!None, F!Empty} \cup 0 .. now'
    BY <1>1, <1>2 DEF F!TypeOK
  <2>3. restarts' \in 0 .. MaxRestarts
    BY <1>2, FoConstants DEF F!TypeOK
  <2>4. unseen' \subseteq Instances
    BY <1>2 DEF F!TypeOK
  <2>5. blind' \in BOOLEAN
    <3>1. F!PromoteCheck(i) \/ blind' = blind
      OBVIOUS
    <3>2. F!PromoteCheck(i) => blind' \in BOOLEAN
      BY Zenon
    <3>3. blind \in BOOLEAN
      BY <1>2 DEF F!TypeOK
    <3> QED BY <3>1, <3>2, <3>3
  <2> QED BY <1>1, <1>2, <2>1, <2>2, <2>3, <2>4, <2>5 DEF F!TypeOK
<1>4. FoFiles'
  <2>1. \A j \in Instances : F!At(j, "write")' => F!At(j, "write")
    BY <1>1, <1>2 DEF F!At, F!TypeOK
  <2> QED BY <1>1, <1>2, <2>1 DEF FoFiles, F!LastCompleteKept, F!HeaderChecksum
<1> QED BY <1>3, <1>4

\* A snapshot that is begun: it is the last file, and another writer is noted.
LEMMA FoCreate ==
    ASSUME FoInv, NEW i \in Instances, F!SnapshotCreate(i)
    PROVE  F!TypeOK' /\ FoFiles' /\ files' # <<>>
<1> DEFINE new == [owner |-> i, partial |-> TRUE, checksum |-> F!HeaderChecksum]
           m == [inst[i] EXCEPT !.pc = "write"]
<1>1. F!TypeOK /\ FoFiles
  BY DEF FoInv
<1>2. /\ F!At(i, "create") /\ created < MaxFiles /\ created' = created + 1
      /\ overlap' = (overlap \/ \E j \in Instances : F!At(j, "write"))
      /\ dir' = TRUE /\ files' = Append(files, new) /\ inst' = [inst EXCEPT ![i] = m]
      /\ UNCHANGED <<now, heartbeat, written, unseen, blind, restarts, usage>>
  BY DEF F!SnapshotCreate, F!Step, F!Set, F!sight
<1>3. new \in F!File
  BY DEF F!File, F!HeaderChecksum
<1>4. /\ files \in Seq(F!File) /\ Len(files) \in Nat /\ Len(files) <= created
      /\ DOMAIN files = 1 .. Len(files)
  BY <1>1, LenProperties DEF F!TypeOK
<1>5. /\ files' \in Seq(F!File) /\ Len(files') = Len(files) + 1
      /\ \A k \in 1 .. Len(files) : files'[k] = files[k]
      /\ files'[Len(files) + 1] = new /\ DOMAIN files' = 1 .. Len(files) + 1 /\ files' # <<>>
  BY <1>2, <1>3, <1>4, AppendProperties, LenProperties
<1> HIDE DEF new
<1>6. m \in F!Manager
  BY <1>1 DEF F!TypeOK, F!Manager
<1> HIDE DEF m
<1>7. F!TypeOK'
  <2>1. overlap' \in BOOLEAN
    BY <1>2, Zenon
  <2>2. created' \in 0 .. MaxFiles /\ Len(files') <= created'
    BY <1>1, <1>2, <1>4, <1>5, FoConstants DEF F!TypeOK
  <2>3. inst' \in [Instances -> F!Manager]
    BY <1>1, <1>2, <1>6 DEF F!TypeOK
  <2> QED BY <1>1, <1>2, <1>5, <2>1, <2>2, <2>3 DEF F!TypeOK
<1>8. \A k \in DOMAIN files' : files'[k].checksum = F!HeaderChecksum
  BY <1>1, <1>4, <1>5 DEF FoFiles, new
<1>9. ~overlap' => /\ ~overlap /\ \A j \in Instances : ~F!At(j, "write")
  BY <1>2, Zenon
<1>10. ~overlap' => \A j \in Instances : F!At(j, "write")' => j = i
  BY <1>1, <1>2, <1>9 DEF F!At, F!TypeOK
<1>11. files'[Len(files')].owner = i
  BY <1>5 DEF new
<1>12. F!LastCompleteKept'
  <2> SUFFICES ASSUME written', ~overlap' PROVE \E k \in DOMAIN files' : ~files'[k].partial
    BY DEF F!LastCompleteKept
  <2>1. PICK k \in DOMAIN files : ~files[k].partial
    BY <1>1, <1>2, <1>9 DEF FoFiles, F!LastCompleteKept
  <2> QED BY <1>4, <1>5, <2>1
<1>13. ~overlap' => \A k \in Instances : F!At(k, "write")' =>
          /\ files'[Len(files')].owner = k
          /\ \A j \in Instances : F!At(j, "write")' => j = k
  BY <1>10, <1>11
<1> QED BY <1>5, <1>7, <1>8, <1>12, <1>13 DEF FoFiles, F!HeaderChecksum

\* A snapshot that is completed: its file is whole and survives the clean-up.
LEMMA FoWrite ==
    ASSUME FoInv, NEW i \in Instances, F!SnapshotWrite(i)
    PROVE  F!TypeOK' /\ FoFiles' /\ files' # <<>>
<1> DEFINE s == F!Complete(files, i)
           m == [inst[i] EXCEPT !.mode = "Cold", !.pc = "idle"]
<1>1. F!TypeOK /\ FoFiles
  BY DEF FoInv
<1>2. /\ F!At(i, "write") /\ files' = F!Cleanup(s) /\ written' = TRUE
      /\ inst' = [inst EXCEPT ![i] = m]
      /\ UNCHANGED <<now, heartbeat, dir, created, overlap, unseen, blind, restarts, usage>>
  BY DEF F!SnapshotWrite, F!Set, F!sight
<1>3. /\ files \in Seq(F!File) /\ Len(files) \in Nat /\ Len(files) <= created
      /\ DOMAIN files = 1 .. Len(files) /\ files # <<>>
  BY <1>1, <1>2, LenProperties DEF F!TypeOK, FoFiles
<1>4. /\ s \in Seq(F!File) /\ Len(s) = Len(files)
      /\ \A k \in 1 .. Len(files) : s[k].checksum = files[k].checksum
      /\ files[Len(files)].owner = i => ~s[Len(files)].partial
  BY <1>3, CompleteFacts
<1> HIDE DEF s
<1>5. s # <<>>
  BY <1>3, <1>4, EmptySeq
<1>6. /\ files' \in Seq(F!File) /\ Len(files') <= Len(files) /\ files' # <<>>
      /\ \A k \in DOMAIN files' : \E n \in 1 .. Len(files) : files'[k] = s[n]
      /\ files'[Len(files')] = s[Len(files)]
  BY <1>2, <1>4, <1>5, CleanupFacts, SMTT(30)
<1>7. Len(files') \in DOMAIN files' /\ Len(files') \in Nat
  BY <1>6, LenProperties, EmptySeq
<1>8. m \in F!Manager /\ m.pc = "idle"
  BY <1>1 DEF F!TypeOK, F!Manager
<1> HIDE DEF m
<1>9. F!TypeOK'
  <2>1. inst' \in [Instances -> F!Manager]
    BY <1>1, <1>2, <1>8 DEF F!TypeOK
  <2>2. created \in Nat /\ Len(files') <= created
    BY <1>1, <1>3, <1>6, <1>7, FoConstants DEF F!TypeOK
  <2> QED BY <1>1, <1>2, <1>6, <2>1, <2>2 DEF F!TypeOK
<1>10. \A k \in DOMAIN files' : files'[k].checksum = F!HeaderChecksum
  BY <1>1, <1>3, <1>4, <1>6 DEF FoFiles
<1>11. \A j \in Instances : F!At(j, "write")' => j # i /\ F!At(j, "write")
  BY <1>1, <1>2, <1>8 DEF F!At, F!TypeOK
<1>12. ~overlap' => \A j \in Instances : ~F!At(j, "write")'
  BY <1>1, <1>2, <1>11 DEF FoFiles
<1>13. F!LastCompleteKept'
  <2> SUFFICES ASSUME ~overlap' PROVE \E k \in DOMAIN files' : ~files'[k].partial
    BY DEF F!LastCompleteKept
  <2>1. files[Len(files)].owner = i
    BY <1>1, <1>2 DEF FoFiles
  <2> QED BY <1>4, <1>6, <1>7, <2>1
<1> QED BY <1>6, <1>9, <1>10, <1>12, <1>13 DEF FoFiles, F!HeaderChecksum

\* A step of instance i leaves the places of the others.
LEMMA FoPlaceFrame ==
    ASSUME FoPlaces, ~F!Free, NEW i \in Instances, FoPlace(i)', now' = now,
           \A j \in Instances : j # i => inst'[j] = inst[j] /\ (j \in unseen' <=> j \in unseen)
    PROVE  FoPlaces'
<1>1. ASSUME NEW j \in Instances, j # i PROVE FoPlace(j)'
  BY <1>1 DEF FoPlaces, FoPlace
<1> QED BY <1>1 DEF FoPlaces

\* In a pair every step keeps places, modes and the age of the heartbeats.
LEMMA FoPlacesStep ==
    ASSUME FoInv, F!Next PROVE FoPlaces'
<1> SUFFICES ASSUME ~F!Free PROVE FoPlaces'
  <2>1. F!Free' = F!Free
    BY DEF F!Next, F!Tick, F!InitializeHot, F!InitializeCold, F!SendHeartbeat,
       F!WriteHeartbeat, F!HeartbeatFails, F!PromoteCheck, F!RecoverStart, F!Recover,
       F!Shutdown, F!ShutdownUnlink, F!SnapshotCreate, F!SnapshotWrite, F!SnapshotFails,
       F!Crash, F!Restart, F!Free
  <2> QED BY <2>1 DEF FoPlaces, FoPlace
<1> USE FoConstants DEF F!Set, F!Step, F!At, F!disk, F!sight
<1>1. FoPlaces /\ inst \in [Instances -> F!Manager] /\ now \in Nat
  BY DEF FoInv, F!TypeOK
<1>2. \A i \in Instances : /\ inst[i].last_heartbeat \in Nat
                           /\ inst[i].up \in BOOLEAN /\ inst[i].is_active \in BOOLEAN
  BY <1>1 DEF F!Manager
<1>3. CASE F!Tick
  BY <1>1, <1>2, <1>3 DEF F!Tick, FoPlaces, FoPlace
<1>4. ASSUME NEW i \in Instances,
             F!SendHeartbeat(i) \/ F!WriteHeartbeat(i) \/ F!HeartbeatFails(i)
      PROVE  FoPlaces'
  <2>1. CASE F!SendHeartbeat(i) \/ F!HeartbeatFails(i)
    <3>m. inst[i].mode = "Hot"
      BY <1>1, <2>1 DEF F!SendHeartbeat, F!HeartbeatFails, FoPlaces, FoPlace
    <3>l. PICK l \in {"idle", "beat"} : inst' = [inst EXCEPT ![i] = [inst[i] EXCEPT !.pc = l]]
      BY <2>1 DEF F!SendHeartbeat, F!HeartbeatFails
    <3>1. /\ inst'[i].pc = l /\ inst'[i].mode = "Hot"
          /\ inst'[i].is_active = inst[i].is_active /\ inst'[i].up = inst[i].up
          /\ inst'[i].last_heartbeat = inst[i].last_heartbeat
      BY <1>1, <3>m, <3>l DEF F!Manager
    <3>2. /\ \A j \in Instances : j # i => inst'[j] = inst[j]
          /\ UNCHANGED <<now, usage, unseen>>
      BY <1>1, <2>1 DEF F!SendHeartbeat, F!HeartbeatFails
    <3>3. FoPlace(i)'
      BY <1>1, <1>2, <3>m, <3>1, <3>2 DEF FoPlaces, FoPlace
    <3> QED BY <1>1, <3>2, <3>3, FoPlaceFrame
  <2>2. CASE F!WriteHeartbeat(i)
    <3>1. /\ inst[i].pc = "beat" /\ inst'[i].pc = "idle" /\ inst'[i].last_heartbeat = now
          /\ inst'[i].mode = inst[i].mode /\ inst'[i].is_active = inst[i].is_active
          /\ inst'[i].up = inst[i].up
      BY <1>1, <2>2 DEF F!WriteHeartbeat, F!Manager
    <3>2. /\ \A j \in Instances : j # i => inst'[j] = inst[j]
          /\ unseen' = unseen \ {i} /\ UNCHANGED <<now, usage>>
      BY <1>1, <2>2 DEF F!WriteHeartbeat
    <3>3. FoPlace(i)'
      BY <1>1, <1>2, <3>1, <3>2 DEF FoPlaces, FoPlace
    <3> QED BY <1>1, <3>2, <3>3, FoPlaceFrame
  <2> QED BY <1>4, <2>1, <2>2
<1>5. ASSUME NEW i \in Instances, F!PromoteCheck(i) PROVE FoPlaces'
  <2>1. /\ inst[i].mode = "Cold" /\ inst'[i].pc = "promote"
        /\ inst'[i].mode = "Recovering" /\ inst'[i].is_active = inst[i].is_active
        /\ inst'[i].last_heartbeat = inst[i].last_heartbeat
        /\ unseen' = unseen \cup {i}
    BY <1>1, <1>5 DEF F!PromoteCheck, F!Manager
  <2>2. /\ \A j \in Instances : j # i => inst'[j] = inst[j]
        /\ UNCHANGED <<now, usage>>
    BY <1>1, <1>5 DEF F!PromoteCheck
  <2>3. FoPlace(i)'
    BY <1>1, <1>2, <2>1, <2>2 DEF FoPlaces, FoPlace
  <2> QED BY <1>1, <2>1, <2>2, <2>3, FoPlaceFrame
<1>6. ASSUME NEW i \in Instances, F!Recover(i) PROVE FoPlaces'
  <2>1. inst[i].pc = "promote" /\ i \in unseen /\ ~inst[i].is_active
        /\ inst[i].mode = "Recovering" /\ inst[i].up
    BY <1>1, <1>6 DEF F!Recover, FoPlaces, FoPlace
  <2> DEFINE hot == F!LoadLatest \in {"Ok", "NoSnapshotsFound"}
  <2>2. /\ inst'[i].is_active = (hot \/ inst[i].is_active) /\ inst'[i].pc = "idle"
        /\ inst'[i].mode = (IF hot THEN "Hot" ELSE inst[i].mode)
        /\ inst'[i].up = inst[i].up /\ inst'[i].last_heartbeat = inst[i].last_heartbeat
        /\ \A j \in Instances : j # i => inst'[j] = inst[j]
        /\ unseen' = IF hot THEN unseen ELSE unseen \ {i}
        /\ UNCHANGED <<now, usage>>
    BY <1>1, <1>6 DEF F!Recover, F!Manager
  <2> HIDE DEF hot
  <2>3. CASE hot
    <3>1. FoPlace(i)'
      BY <1>1, <1>2, <2>1, <2>2, <2>3 DEF FoPlaces, FoPlace
    <3> QED BY <1>1, <2>2, <2>3, <3>1, FoPlaceFrame
  <2>4. CASE ~hot
    <3>1. FoPlace(i)'
      BY <1>1, <1>2, <2>1, <2>2, <2>4 DEF FoPlaces, FoPlace
    <3> QED BY <1>1, <2>2, <2>4, <3>1, FoPlaceFrame
  <2> QED BY <2>3, <2>4
<1>7. ASSUME NEW i \in Instances, F!Shutdown(i) \/ F!ShutdownUnlink(i) PROVE FoPlaces'
  <2>1. /\ inst[i].mode = "Hot" /\ inst[i].up
        /\ inst'[i].pc \in {"unlink", "create"} /\ ~inst'[i].is_active
        /\ inst'[i].mode = inst[i].mode /\ inst'[i].up = inst[i].up
        /\ inst'[i].last_heartbeat = inst[i].last_heartbeat
    <3>1. CASE F!Shutdown(i)
      BY <1>1, <3>1 DEF F!Shutdown, F!Manager
    <3>2. CASE F!ShutdownUnlink(i)
      BY <1>1, <3>2 DEF F!ShutdownUnlink, F!Manager, FoPlaces, FoPlace
    <3> QED BY <1>7, <3>1, <3>2
  <2>2. /\ \A j \in Instances : j # i => inst'[j] = inst[j]
        /\ UNCHANGED <<now, usage, unseen>>
    BY <1>1, <1>7 DEF F!Shutdown, F!ShutdownUnlink
  <2>3. FoPlace(i)'
    BY <1>1, <1>2, <2>1, <2>2 DEF FoPlaces, FoPlace
  <2> QED BY <1>1, <2>1, <2>2, <2>3, FoPlaceFrame
<1>8. ASSUME NEW i \in Instances,
             F!SnapshotCreate(i) \/ F!SnapshotWrite(i) \/ F!SnapshotFails(i)
      PROVE  FoPlaces'
  <2>1. inst[i].mode = "Hot" /\ inst[i].up /\ ~inst[i].is_active
    BY <1>1, <1>8 DEF F!SnapshotCreate, F!SnapshotWrite, F!SnapshotFails, FoPlaces, FoPlace
  <2>2. /\ inst'[i].is_active = inst[i].is_active /\ inst'[i].up = inst[i].up
        /\ inst'[i].last_heartbeat = inst[i].last_heartbeat
        /\ \/ inst'[i].mode = "Hot" /\ inst'[i].pc \in {"write", "idle"}
           \/ inst'[i].mode = "Cold" /\ inst'[i].pc = "idle"
    <3>1. CASE F!SnapshotCreate(i)
      BY <1>1, <2>1, <3>1 DEF F!SnapshotCreate, F!Manager
    <3>2. CASE F!SnapshotWrite(i)
      BY <1>1, <2>1, <3>2 DEF F!SnapshotWrite, F!Manager
    <3>3. CASE F!SnapshotFails(i)
      BY <1>1, <2>1, <3>3 DEF F!SnapshotFails, F!Manager
    <3> QED BY <1>8, <3>1, <3>2, <3>3
  <2>3. /\ \A j \in Instances : j # i => inst'[j] = inst[j]
        /\ UNCHANGED <<now, usage, unseen>>
    BY <1>1, <1>8 DEF F!SnapshotCreate, F!SnapshotWrite, F!SnapshotFails
  <2>4. FoPlace(i)'
    BY <1>1, <1>2, <2>1, <2>2, <2>3 DEF FoPlaces, FoPlace
  <2> QED BY <1>1, <2>3, <2>4, FoPlaceFrame
<1>9. ASSUME NEW i \in Instances, F!Crash(i) PROVE FoPlaces'
  <2>1. /\ inst'[i].pc = "idle" /\ ~inst'[i].is_active /\ inst'[i].mode = "Cold"
        /\ inst'[i].last_heartbeat = 0
    BY <1>1, <1>9 DEF F!Crash, F!New
  <2>2. /\ \A j \in Instances : j # i => inst'[j] = inst[j]
        /\ unseen' = unseen \ {i} /\ UNCHANGED <<now, usage>>
    BY <1>1, <1>9 DEF F!Crash
  <2>3. FoPlace(i)'
    BY <1>1, <1>2, <2>1, <2>2 DEF FoPlaces, FoPlace
  <2> QED BY <1>1, <2>1, <2>2, <2>3, FoPlaceFrame
<1> QED BY <1>3, <1>4, <1>5, <1>6, <1>7, <1>8, <1>9
  DEF F!Next, F!InitializeHot, F!InitializeCold, F!RecoverStart, F!Restart

\* No step of a pair makes a second instance trade.
LEMMA FoPairStep ==
    ASSUME FoInv, F!Next, ~F!Free, F!TypeOK', FoFiles' PROVE FoPair'
<1> USE FoConstants DEF F!Set, F!Step, F!At, F!disk, F!sight
<1>1. FoPlaces /\ FoPair /\ inst \in [Instances -> F!Manager] /\ now \in Nat
      /\ heartbeat \in Int
  BY DEF FoInv, F!TypeOK, F!None, F!Empty
<1>2. \A i \in Instances : /\ inst[i].last_heartbeat \in Nat
                           /\ inst[i].up \in BOOLEAN /\ inst[i].is_active \in BOOLEAN
  BY <1>1 DEF F!Manager
<1>3. CASE F!Tick
  BY <1>1, <1>2, <1>3 DEF F!Tick, FoPair, F!Free, Claims, Shown
<1>4. ASSUME NEW i \in Instances,
             F!SendHeartbeat(i) \/ F!HeartbeatFails(i) \/ F!Shutdown(i) \/ F!SnapshotFails(i)
      PROVE  FoPair'
  <2>1. /\ \A j \in Instances :
              /\ inst'[j].is_active => inst[j].is_active
              /\ inst'[j].mode = inst[j].mode /\ inst'[j].up = inst[j].up
              /\ inst'[j].last_heartbeat = inst[j].last_heartbeat
              /\ inst'[j].pc = "promote" => inst[j].pc = "promote"
        /\ heartbeat' \in {heartbeat, F!Empty} /\ UNCHANGED <<files, unseen, blind, usage>>
    <3>1. CASE F!SendHeartbeat(i)
      BY <1>1, <3>1 DEF F!SendHeartbeat, F!Manager
    <3>2. CASE F!HeartbeatFails(i)
      BY <1>1, <3>2 DEF F!HeartbeatFails, F!Manager
    <3>3. CASE F!Shutdown(i)
      BY <1>1, <3>3 DEF F!Shutdown, F!Manager
    <3>4. CASE F!SnapshotFails(i)
      BY <1>1, <3>4 DEF F!SnapshotFails, F!Manager
    <3> QED BY <1>4, <3>1, <3>2, <3>3, <3>4
  <2>2. \A j \in Instances : (Claims(j)' => Claims(j)) /\ (Shown(j) => Shown(j)')
    BY <2>1 DEF Claims, Shown, F!Empty
  <2> QED BY <1>1, <2>1, <2>2 DEF FoPair, F!Free
<1>5. ASSUME NEW i \in Instances, F!WriteHeartbeat(i) PROVE FoPair'
  <2>1. /\ \A j \in Instances :
              /\ inst'[j].is_active = inst[j].is_active
              /\ inst'[j].last_heartbeat \in {inst[j].last_heartbeat, now}
              /\ inst'[j].pc = "promote" => inst[j].pc = "promote"
        /\ heartbeat' = now /\ UNCHANGED <<files, blind, usage>>
    BY <1>1, <1>5, ZenonT(60) DEF F!WriteHeartbeat, F!Manager
  <2>2. \A j \in Instances : Claims(j)' => Claims(j)
    BY <2>1 DEF Claims
  <2>3. \A j \in Instances : Shown(j)'
    BY <1>1, <1>2, <2>1 DEF FoPlaces, FoPlace, Shown
  <2> QED BY <1>1, <2>1, <2>2, <2>3 DEF FoPair, F!Free
<1>6. ASSUME NEW i \in Instances, F!PromoteCheck(i) PROVE FoPair'
  <2> SUFFICES ASSUME ~blind' PROVE FoPair'
    BY DEF FoPair
  <2>1. ~blind /\ heartbeat # F!Empty /\ unseen = {}
    BY <1>6, Zenon DEF F!PromoteCheck
  <2>2. ASSUME files = <<>>, NEW j \in Instances, Claims(j) PROVE FALSE
    <3>1. inst[j].is_active /\ inst[j].mode = "Hot" /\ j # i
      BY <1>1, <1>6, <2>1, <2>2 DEF FoPlaces, FoPlace, Claims, F!PromoteCheck
    <3>2. Shown(j) /\ now - inst[j].last_heartbeat < MaxAge
      BY <1>1, <2>1, <2>2, <3>1 DEF FoPair, FoPlaces, FoPlace
    <3>3. heartbeat >= inst[j].last_heartbeat
      BY <1>6, <2>1, <3>1, <3>2 DEF Shown, F!PromoteCheck
    <3> QED BY <1>1, <1>2, <1>6, <3>2, <3>3 DEF F!PromoteCheck, F!check_primary_alive
  <2>3. \A j \in Instances : /\ inst'[j].is_active = inst[j].is_active
                             /\ Claims(j)' => j = i \/ Claims(j)
    BY <1>1, <1>6 DEF F!PromoteCheck, F!Manager, Claims
  <2>4. files' = files
    BY <1>6 DEF F!PromoteCheck
  <2>5. \A j \in Instances : files = <<>> => ~inst'[j].is_active
    BY <2>2, <2>3 DEF Claims
  <2>6. \A j \in Instances : files = <<>> /\ Claims(j)' => j = i
    BY <2>2, <2>3
  <2> QED BY <1>1, <2>1, <2>3, <2>4, <2>5, <2>6 DEF FoPair
<1>7. ASSUME NEW i \in Instances, F!Recover(i) PROVE FoPair'
  <2> DEFINE hot == F!LoadLatest \in {"Ok", "NoSnapshotsFound"}
  <2>1. inst[i].pc = "promote" /\ i \in unseen /\ ~inst[i].is_active
    BY <1>1, <1>7 DEF F!Recover, FoPlaces, FoPlace
  <2>2. /\ inst'[i].is_active = (hot \/ inst[i].is_active) /\ inst'[i].pc = "idle"
        /\ \A j \in Instances : j # i => inst'[j] = inst[j]
        /\ UNCHANGED <<heartbeat, files, blind, usage>>
        /\ unseen' = IF hot THEN unseen ELSE unseen \ {i}
    BY <1>1, <1>7 DEF F!Recover, F!Manager
  <2>3. hot => files = <<>>
    BY HotOnlyWithoutFiles DEF FoInv
  <2> HIDE DEF hot
  <2>4. inst'[i].is_active => hot
    BY <2>1, <2>2
  <2>5. \A j \in Instances : Claims(j)' => Claims(j)
    BY <2>1, <2>2 DEF Claims
  <2>6. \A j \in Instances : inst'[j].is_active /\ j \notin unseen'
                                => j # i /\ inst[j].is_active /\ j \notin unseen
    BY <2>1, <2>2, <2>4
  <2>7. CASE hot
    <3>1. \A j \in Instances : inst'[j].is_active => Claims(j)
      BY <2>1, <2>2 DEF Claims
    <3>2. ~F!Free /\ ~blind => \A j \in Instances : Claims(j) => j = i
      BY <1>1, <2>1, <2>3, <2>7 DEF FoPair, Claims
    <3>3. ~blind => \A j \in Instances : ~(inst'[j].is_active /\ j \notin unseen')
      BY <2>6, <3>2 DEF Claims
    <3> QED BY <2>2, <2>5, <3>1, <3>2, <3>3 DEF FoPair, F!Free
  <2>8. CASE ~hot
    <3>1. \A j \in Instances : inst'[j].is_active => inst[j].is_active /\ j # i
      BY <2>1, <2>2, <2>8
    <3>2. \A j \in Instances : inst[j].is_active /\ j # i /\ ~blind /\ files = <<>> => FALSE
      BY <1>1, <2>1 DEF FoPair, Claims
    <3> QED BY <1>1, <2>2, <2>5, <3>1, <3>2 DEF FoPair, F!Free
  <2> QED BY <2>7, <2>8
<1>8. ASSUME NEW i \in Instances, F!ShutdownUnlink(i) PROVE FoPair'
  <2>1. ~inst[i].is_active /\ inst[i].mode = "Hot"
    BY <1>1, <1>8 DEF F!ShutdownUnlink, FoPlaces, FoPlace
  <2>2. /\ \A j \in Instances : /\ inst'[j].is_active = inst[j].is_active
                                /\ inst'[j].mode = inst[j].mode
                                /\ Claims(j)' => Claims(j)
        /\ UNCHANGED <<files, unseen, blind, usage>>
    BY <1>1, <1>8 DEF F!ShutdownUnlink, F!Manager, Claims
  <2>3. \A j, k \in Instances : j # i /\ k # j => k = i
    OBVIOUS
  <2>4. \A j \in Instances : inst'[j].is_active => Shown(j)'
    BY <2>1, <2>2, <2>3 DEF Shown
  <2> QED BY <1>1, <2>2, <2>4 DEF FoPair, F!Free
<1>9. ASSUME NEW i \in Instances, F!SnapshotCreate(i) \/ F!SnapshotWrite(i) PROVE FoPair'
  <2>1. files' # <<>>
    BY <1>9, FoCreate, FoWrite
  <2>2. /\ \A j \in Instances : inst'[j].is_active = inst[j].is_active
        /\ blind' = blind /\ usage' = usage
    <3>1. CASE F!SnapshotCreate(i)
      BY <1>1, <3>1 DEF F!SnapshotCreate, F!Manager
    <3>2. CASE F!SnapshotWrite(i)
      BY <1>1, <3>2 DEF F!SnapshotWrite, F!Manager
    <3> QED BY <1>9, <3>1, <3>2
  <2> QED BY <1>1, <2>1, <2>2 DEF FoPair, F!Free
<1>10. ASSUME NEW i \in Instances, F!Crash(i) PROVE FoPair'
  <2>1. ~inst'[i].is_active /\ ~inst'[i].up /\ inst'[i].pc = "idle"
    BY <1>1, <1>10 DEF F!Crash, F!New
  <2>2. \A j \in Instances : j # i => inst'[j] = inst[j]
    BY <1>1, <1>10 DEF F!Crash
  <2>3. unseen' = unseen \ {i} /\ UNCHANGED <<heartbeat, files, blind, usage>>
    BY <1>10 DEF F!Crash
  <2> QED BY <1>1, <2>1, <2>2, <2>3 DEF FoPair, F!Free, Claims, Shown
<1> QED BY <1>3, <1>4, <1>5, <1>6, <1>7, <1>8, <1>9, <1>10
  DEF F!Next, F!InitializeHot, F!InitializeCold, F!RecoverStart, F!Restart

\* Every step of the failover manager preserves its invariant.
LEMMA FoInvStep == FoInv /\ F!Next => FoInv'
<1> SUFFICES ASSUME FoInv, F!Next PROVE FoInv'
  OBVIOUS
<1>1. F!TypeOK' /\ FoFiles'
  <2>1. CASE F!Tick
    <3>1. /\ now < MaxTime /\ now' = now + 1
          /\ UNCHANGED <<heartbeat, dir, files, created, written, overlap, unseen, blind,
                         restarts, usage, inst>>
      BY <2>1 DEF F!Tick, F!disk, F!sight
    <3>2. F!TypeOK'
      BY <3>1, FoConstants DEF FoInv, F!TypeOK
    <3> QED BY <3>1, <3>2 DEF FoInv, FoFiles, F!At, F!LastCompleteKept, F!HeaderChecksum
  <2>2. ASSUME NEW i \in Instances, F!SnapshotCreate(i) \/ F!SnapshotWrite(i)
        PROVE  F!TypeOK' /\ FoFiles'
    BY <2>2, FoCreate, FoWrite
  <2> QED BY <2>1, <2>2, FoQuietStep DEF F!Next
<1>2. FoPair'
  <2>1. F!Free' = F!Free
    BY DEF F!Next, F!Tick, F!InitializeHot, F!InitializeCold, F!SendHeartbeat,
       F!WriteHeartbeat, F!HeartbeatFails, F!PromoteCheck, F!RecoverStart, F!Recover,
       F!Shutdown, F!ShutdownUnlink, F!SnapshotCreate, F!SnapshotWrite, F!SnapshotFails,
       F!Crash, F!Restart, F!Free
  <2>2. CASE F!Free
    BY <2>1, <2>2 DEF FoPair
  <2>3. CASE ~F!Free
    BY <1>1, <2>3, FoPairStep
  <2> QED BY <2>2, <2>3
<1> QED BY <1>1, <1>2, FoPlacesStep DEF FoInv

\* The invariant says what the run checks.
LEMMA FoInvGoals == FoInv => F!TypeOK /\ F!OneActive /\ F!LastCompleteKept
<1> SUFFICES ASSUME FoInv PROVE F!OneActive
  BY DEF FoInv, FoFiles
<1> SUFFICES ASSUME ~F!Free, ~blind PROVE F!Cardinality(F!Active) <= 1
  BY DEF F!OneActive
<1>1. \A i, j \in F!Active : i = j
  BY DEF FoInv, FoPair, F!Active
<1>2. CASE F!Active = {}
  BY <1>2, FS_EmptySet, SameCardinality
<1>3. CASE F!Active # {}
  <2>1. PICK i : F!Active = {i}
    BY <1>1, <1>3
  <2> QED BY <2>1, FS_Singleton, SameCardinality
<1> QED BY <1>2, <1>3

-----------------------------------------------------------------------------
(* The event store: what was synced stays readable, and what was not is     *)
(* counted.                                                                 *)

Piece == [part : {"head", "data", "torn"}, event : 0 .. MaxEvent]

\* The last piece of an entry whose header is piece i.
EndOf(i) == i + (IF log[i].event = 0 THEN 0 ELSE 1)

\* The entries on disk for sure, and those that a crash may lose.
Kept == {i \in E!Readable : EndOf(i) <= synced}
AtRisk == {i \in E!Readable : EndOf(i) > synced}

\* Between the two writes of an append the log ends with the header, and the
\* limit of the unsynced entries is reached only on the way to a sync.
EsPlaces ==
    /\ step.at = "data" =>
          /\ Len(log) > 0 /\ step.event # 0
          /\ log[Len(log)] = [part |-> "head", event |-> step.event]
    /\ counted = SyncInterval => step.at \in {"sync", "clear"}

\* What was whole when it was synced is among the entries that stay.
EsDurable == durable <= Cardinality(Kept)

\* The entries at risk are counted, but for the one about to be.
EsRisk == ~wiped => Cardinality(AtRisk) <= counted + (IF step.at = "count" THEN 1 ELSE 0)

\* The switches of the replay and of the log follow the store's, one after the
\* other, and process_event() finds all three on unless a set_active() or a
\* failed write came across it.
EsSwitch ==
    /\ toggle.at = "idle" => toggle = E!Quiescent /\ book_on = store_on /\ wal_on = store_on
    /\ toggle.at = "book" => store_on = toggle.value
    /\ toggle.at = "wal" => store_on = toggle.value /\ book_on = toggle.value
    /\ ~apart /\ step # E!Idle => toggle = E!Quiescent /\ book_on /\ wal_on

\* An event is in the book and its header is the next piece of the log.
Pushed == step.at = "head" /\ step.event # 0

\* The number expected is the successor of the event under way.
EsFeed ==
    /\ step.at = "idle" => step.event = 0
    /\ step.at = "push" => step.event # 0
    /\ step.at = "push" \/ Pushed => expected = step.event + 1
    /\ expected = 0 => applied = <<>> /\ step.at = "idle"

\* The place of i among the members of S, and two sets of places, of a log and
\* of a book, that hold the same events in the same order.
Place(S, i) == Cardinality({j \in S : j <= i})

Matches(A, pieces, B, book) ==
    /\ Cardinality(A) = Cardinality(B)
    /\ \A i \in A, k \in B : Place(A, i) = Place(B, k) => pieces[i].event = book[k]

\* The events of the book that are in the log, the event the book is due to see
\* next, and the break, if any, that it will then see.
Logged == IF Pushed THEN E!BookEvents \ {Len(applied)} ELSE E!BookEvents
Due == IF step.at = "push" THEN step.event ELSE expected
Break == IF applied # <<>> /\ applied[Len(applied)] + 1 # Due THEN 1 ELSE 0
GapWaits == IF step.at = "head" /\ step.event = 0 THEN 1 ELSE 0

\* The log holds what the book holds, but for what process_event() is about to
\* append, and every break of the book, seen or yet to be seen, is a gap counted.
EsReplay ==
    ~apart =>
        /\ Pushed => Len(applied) > 0 /\ applied[Len(applied)] = step.event
        /\ Matches(E!LogEvents, log, Logged, applied)
        /\ Cardinality(E!LogGaps) + GapWaits = gaps
        /\ Cardinality(E!BookGaps) + Break <= gaps

EsBook == EsSwitch /\ EsFeed /\ EsReplay

EsInv == E!StoreTypeOK /\ EsPlaces /\ EsDurable /\ EsRisk /\ EsBook

LEMMA EsConstants ==
    /\ SyncInterval \in Nat /\ SyncInterval > 0 /\ MaxEvent \in Nat
BY ServicesAssumption DEF E!StoreConstants

\* The sets of entries are finite.
LEMMA EsFinite ==
    E!StoreTypeOK =>
        /\ IsFiniteSet(E!Readable) /\ IsFiniteSet(Kept) /\ IsFiniteSet(AtRisk)
        /\ Cardinality(Kept) \in Nat /\ Cardinality(AtRisk) \in Nat
        /\ Cardinality(E!Readable) \in Nat
<1> SUFFICES ASSUME E!StoreTypeOK
             PROVE  /\ IsFiniteSet(E!Readable) /\ IsFiniteSet(Kept) /\ IsFiniteSet(AtRisk)
                    /\ Cardinality(Kept) \in Nat /\ Cardinality(AtRisk) \in Nat
                    /\ Cardinality(E!Readable) \in Nat
  OBVIOUS
<1>1. log \in Seq(Piece)
  BY DEF E!StoreTypeOK, Piece
<1>2. E!Readable \in SUBSET (1 .. Len(log)) /\ Len(log) \in Nat
  BY <1>1 DEF E!Readable
<1>3. IsFiniteSet(1 .. Len(log))
  BY <1>2, FS_Interval
<1>4. IsFiniteSet(E!Readable)
  BY <1>2, <1>3, FS_Subset
<1>5. Kept \in SUBSET E!Readable /\ AtRisk \in SUBSET E!Readable
  BY DEF Kept, AtRisk
<1>6. IsFiniteSet(Kept) /\ IsFiniteSet(AtRisk)
  BY <1>4, <1>5, FS_Subset
<1> QED BY <1>4, <1>6, FS_CardinalityType

\* What the reader gets is what the log of DurableLog holds.
LEMMA EsKept ==
    E!StoreTypeOK => E!Secured = Kept /\ E!Readable \ E!Secured = AtRisk
<1> SUFFICES ASSUME E!StoreTypeOK
             PROVE  E!Secured = Kept /\ E!Readable \ E!Secured = AtRisk
  OBVIOUS
<1>1. log \in Seq(Piece) /\ synced \in Int
  BY DEF E!StoreTypeOK, Piece
<1>2. \A i \in E!Readable : EndOf(i) \in Int
  BY <1>1 DEF E!Readable, EndOf
<1>3. E!Secured = Kept
  BY DEF E!Secured, Kept, EndOf
<1> QED BY <1>1, <1>2, <1>3 DEF Kept, AtRisk

\* One more piece makes at most one entry readable: a gap's, or the one whose
\* data it is.
LEMMA EsAppend ==
    ASSUME E!StoreTypeOK, E!StoreTypeOK', NEW p \in Piece, log' = Append(log, p)
    PROVE  /\ E!Readable \subseteq E!Readable'
           /\ \A i \in E!Readable : EndOf(i)' = EndOf(i)
           /\ \A i \in E!Readable' : i \notin E!Readable =>
                 IF p.part = "data" THEN i = Len(log)
                 ELSE i = Len(log) + 1 /\ p.part = "head" /\ p.event = 0
<1>1. log \in Seq(Piece) /\ Len(log) \in Nat
  BY DEF E!StoreTypeOK, Piece
<1>2. /\ log' \in Seq(Piece) /\ Len(log') = Len(log) + 1
      /\ \A i \in 1 .. Len(log) : log'[i] = log[i]
      /\ log'[Len(log) + 1] = p
  BY <1>1, AppendProperties
<1>3. ASSUME NEW j \in 1 .. Len(log), E!Bad(j)' PROVE E!Bad(j)
  BY <1>1, <1>2, <1>3 DEF E!Bad, Piece
<1>4. ASSUME NEW j \in 1 .. Len(log), E!Bad(j), ~E!Bad(j)' PROVE j = Len(log) /\ p.part = "data"
  BY <1>1, <1>2, <1>4 DEF E!Bad, Piece
<1>5. ASSUME NEW i \in E!Readable PROVE i \in E!Readable' /\ EndOf(i)' = EndOf(i)
  <2>1. i \in 1 .. Len(log) /\ log[i].part = "head" /\ \A j \in 1 .. i : ~E!Bad(j)
    BY <1>1, <1>5 DEF E!Readable
  <2>2. \A j \in 1 .. i : ~E!Bad(j)'
    BY <2>1, <1>1, <1>3
  <2>3. i \in DOMAIN log' /\ log'[i] = log[i]
    BY <2>1, <1>1, <1>2
  <2> QED BY <2>1, <2>2, <2>3 DEF E!Readable, EndOf
<1>6. ASSUME NEW i \in E!Readable', i \notin E!Readable
      PROVE  IF p.part = "data" THEN i = Len(log)
             ELSE i = Len(log) + 1 /\ p.part = "head" /\ p.event = 0
  <2>1. i \in 1 .. Len(log) + 1 /\ log'[i].part = "head" /\ \A j \in 1 .. i : ~E!Bad(j)'
    BY <1>1, <1>2, <1>6 DEF E!Readable
  <2>2. CASE i \in 1 .. Len(log)
    <3>1. PICK j \in 1 .. i : E!Bad(j)
      BY <2>1, <2>2, <1>1, <1>2, <1>6 DEF E!Readable
    <3>2. j = Len(log) /\ p.part = "data"
      BY <3>1, <2>1, <2>2, <1>1, <1>4
    <3> QED BY <3>1, <3>2, <2>2, <1>1
  <2>3. CASE i = Len(log) + 1
    <3>1. p.part = "head" /\ ~E!Bad(i)'
      BY <2>1, <2>3, <1>1, <1>2
    <3>2. p.event = 0
      BY <3>1, <2>3, <1>1, <1>2 DEF E!Bad
    <3> QED BY <3>1, <3>2, <2>3
  <2> QED BY <2>1, <2>2, <2>3, <1>1
<1> QED BY <1>5, <1>6

\* An append loses no entry and puts at most one at risk.
LEMMA EsGrowth ==
    ASSUME EsInv, E!StoreTypeOK', NEW p \in Piece, log' = Append(log, p),
           UNCHANGED <<synced, durable>>
    PROVE  /\ EsDurable'
           /\ Cardinality(AtRisk') <= Cardinality(AtRisk) + 1
           /\ p.part = "torn" \/ (p.part = "head" /\ p.event # 0)
                 => Cardinality(AtRisk') <= Cardinality(AtRisk)
<1> DEFINE x == IF p.part = "data" THEN Len(log) ELSE Len(log) + 1
<1>0. E!StoreTypeOK /\ EsDurable
  BY DEF EsInv
<1>1. /\ E!Readable \subseteq E!Readable'
      /\ \A i \in E!Readable : EndOf(i)' = EndOf(i)
      /\ \A i \in E!Readable' : i \notin E!Readable =>
            IF p.part = "data" THEN i = Len(log)
            ELSE i = Len(log) + 1 /\ p.part = "head" /\ p.event = 0
  BY <1>0, EsAppend
<1>2. Kept \subseteq Kept'
  BY <1>1 DEF Kept
<1>3. AtRisk' \subseteq AtRisk \cup {x}
  BY <1>1 DEF AtRisk
<1>4. p.part = "torn" \/ (p.part = "head" /\ p.event # 0) => AtRisk' \subseteq AtRisk
  BY <1>1 DEF AtRisk
<1>5. /\ IsFiniteSet(Kept) /\ IsFiniteSet(AtRisk)
      /\ Cardinality(Kept) \in Nat /\ Cardinality(AtRisk) \in Nat
  BY <1>0, EsFinite
<1>6. /\ IsFiniteSet(Kept)' /\ IsFiniteSet(AtRisk)'
      /\ (Cardinality(Kept) \in Nat)' /\ (Cardinality(AtRisk) \in Nat)'
  BY EsFinite, PTL
<1>7. Cardinality(Kept) <= Cardinality(Kept')
  BY <1>2, <1>6, FS_Subset
<1>8. /\ IsFiniteSet(AtRisk \cup {x})
      /\ Cardinality(AtRisk \cup {x}) <= Cardinality(AtRisk) + 1
  <2>1. /\ IsFiniteSet(AtRisk \cup {x})
        /\ Cardinality(AtRisk \cup {x}) =
              IF x \in AtRisk THEN Cardinality(AtRisk) ELSE Cardinality(AtRisk) + 1
    BY <1>5, FS_AddElement, Zenon
  <2> QED BY <2>1, <1>5
<1>9. Cardinality(AtRisk') <= Cardinality(AtRisk \cup {x})
  BY <1>3, <1>8, FS_Subset
<1>10. Cardinality(AtRisk \cup {x}) \in Nat
  BY <1>8, FS_CardinalityType
<1>11. p.part = "torn" \/ (p.part = "head" /\ p.event # 0)
          => Cardinality(AtRisk') <= Cardinality(AtRisk)
  BY <1>4, <1>5, FS_Subset
<1>12. EsDurable'
  <2>1. durable' = durable /\ durable \in Nat
    BY <1>0 DEF E!StoreTypeOK
  <2> QED BY <2>1, <1>0, <1>5, <1>6, <1>7 DEF EsDurable
<1> QED BY <1>5, <1>6, <1>8, <1>9, <1>10, <1>11, <1>12

\* Both sets depend on the log and on what of it is synced.
LEMMA EsSame ==
    ASSUME EsDurable, EsRisk, UNCHANGED <<log, synced, durable>>
    PROVE  EsDurable' /\ (UNCHANGED <<wiped, counted>> /\ (step.at = "count" <=> step'.at = "count")
                             => EsRisk')
<1>1. Kept' = Kept /\ AtRisk' = AtRisk
  BY DEF Kept, AtRisk, EndOf, E!Readable, E!Bad
<1> QED BY <1>1 DEF EsDurable, EsRisk

\* After a sync nothing is at risk, and every readable entry is kept.
LEMMA EsSynced ==
    ASSUME E!StoreTypeOK, synced = Len(log)
    PROVE  AtRisk = {} /\ Kept = E!Readable
<1>1. log \in Seq(Piece) /\ Len(log) \in Nat
  BY DEF E!StoreTypeOK, Piece
<1>2. ASSUME NEW i \in E!Readable PROVE EndOf(i) <= Len(log)
  <2>1. i \in 1 .. Len(log) /\ log[i].part = "head" /\ ~E!Bad(i) /\ log[i] \in Piece
    BY <1>1, <1>2 DEF E!Readable
  <2> QED BY <2>1, <1>1 DEF E!Bad, EndOf, Piece
<1>3. \A i \in E!Readable : EndOf(i) \in Int
  BY <1>1 DEF E!Readable, EndOf
<1> QED BY <1>1, <1>2, <1>3 DEF AtRisk, Kept

\* A crash leaves a beginning of the log, what was synced with it, and perhaps
\* one torn piece.
LEMMA EsCrashLog ==
    ASSUME E!StoreTypeOK, E!CrashRestart
    PROVE  /\ log' \in Seq(Piece) /\ Len(log') \in Nat /\ Len(log') >= synced
           /\ \A i \in 1 .. synced : log'[i] = log[i]
           /\ \E n \in synced .. Len(log) :
                 /\ log' \in Seq(Piece) /\ Len(log') \in {n, n + 1}
                 /\ \A i \in 1 .. n : log'[i] = log[i]
                 /\ Len(log') = n + 1 => log'[n + 1].part = "torn"
<1>0. /\ log \in Seq(Piece) /\ Len(log) \in Nat /\ synced \in 0 .. Len(log)
  BY DEF E!StoreTypeOK, Piece
<1>1. PICK n \in synced .. Len(log), torn \in BOOLEAN :
        /\ torn => n < Len(log)
        /\ log' = IF torn
                  THEN Append(SubSeq(log, 1, n), [log[n + 1] EXCEPT !.part = "torn"])
                  ELSE SubSeq(log, 1, n)
  BY DEF E!CrashRestart, E!Reopened
<1> DEFINE s == SubSeq(log, 1, n)
<1>2. /\ s \in Seq(Piece) /\ Len(s) = n
      /\ \A i \in 1 .. n : s[i] = log[i]
  <2>1. \A i \in 1 .. n : log[i] \in Piece
    BY <1>0
  <2> QED BY <1>0, <2>1, SubSeqProperties
<1> HIDE DEF s
<1> SUFFICES /\ log' \in Seq(Piece) /\ Len(log') \in {n, n + 1}
             /\ \A i \in 1 .. n : log'[i] = log[i]
             /\ Len(log') = n + 1 => log'[n + 1].part = "torn"
  BY <1>0
<1>3. CASE ~torn
  <2>1. log' = s
    BY <1>1, <1>3 DEF s
  <2> QED BY <1>0, <1>2, <2>1
<1>4. CASE torn
  <2> DEFINE p == [log[n + 1] EXCEPT !.part = "torn"]
  <2>1. p \in Piece /\ p.part = "torn"
    <3>1. log[n + 1] \in Piece
      BY <1>0, <1>1, <1>4
    <3> QED BY <3>1 DEF Piece
  <2> HIDE DEF p
  <2>2. /\ Append(s, p) \in Seq(Piece) /\ Len(Append(s, p)) = n + 1
        /\ \A i \in 1 .. n : Append(s, p)[i] = s[i]
        /\ Append(s, p)[n + 1] = p
    BY <1>2, <2>1, AppendProperties
  <2>3. log' = Append(s, p)
    BY <1>1, <1>4 DEF s, p
  <2> QED BY <1>0, <1>2, <2>1, <2>2, <2>3
<1> QED BY <1>3, <1>4

\* What was kept can be read from the log that a crash leaves.
LEMMA EsCrashKeeps ==
    ASSUME E!StoreTypeOK, E!CrashRestart
    PROVE  Kept \subseteq E!Readable'
<1>0. /\ log \in Seq(Piece) /\ Len(log) \in Nat /\ synced \in 0 .. Len(log)
  BY DEF E!StoreTypeOK, Piece
<1>1. /\ log' \in Seq(Piece) /\ Len(log') \in Nat /\ Len(log') >= synced
      /\ \A i \in 1 .. synced : log'[i] = log[i]
  BY EsCrashLog
<1> SUFFICES ASSUME NEW i \in Kept PROVE i \in E!Readable'
  OBVIOUS
<1>2. /\ i \in 1 .. Len(log) /\ log[i].part = "head" /\ EndOf(i) <= synced
      /\ \A j \in 1 .. i : ~E!Bad(j)
  BY <1>0 DEF Kept, E!Readable
<1>3. i \in 1 .. synced /\ (log[i].event # 0 => i + 1 <= synced)
  BY <1>0, <1>2 DEF EndOf
<1>4. ASSUME NEW j \in 1 .. i PROVE ~E!Bad(j)'
  <2>1. ~E!Bad(j) /\ j \in 1 .. synced /\ log'[j] = log[j]
    BY <1>0, <1>1, <1>2, <1>3
  <2>2. j # 1 => j - 1 \in 1 .. synced /\ log'[j - 1] = log[j - 1]
    BY <1>0, <1>1, <2>1
  <2>3. log[j].part = "head" /\ log[j].event # 0 =>
            j + 1 \in 1 .. synced /\ log'[j + 1] = log[j + 1] /\ j < Len(log')
    BY <1>0, <1>1, <1>2, <1>3, <2>1
  <2> QED BY <1>0, <1>1, <2>1, <2>2, <2>3 DEF E!Bad
<1>5. i \in DOMAIN log' /\ log'[i].part = "head"
  BY <1>0, <1>1, <1>2, <1>3
<1> QED BY <1>4, <1>5 DEF E!Readable

\* The types, those of the flags apart.
EsFlags == {store_on, book_on, wal_on, syncing, cut, wiped, apart} \subseteq BOOLEAN

EsData ==
    /\ expected \in 0 .. MaxEvent + 1 /\ gaps \in Nat
    /\ applied \in Seq(0 .. MaxEvent)
    /\ log \in Seq(Piece)
    /\ synced \in 0 .. Len(log) /\ base \in 0 .. Len(log)
    /\ counted \in 0 .. SyncInterval /\ durable \in Nat
    /\ step \in [at : {"idle", "push", "head", "data", "count", "sync", "clear"},
                 event : 0 .. MaxEvent]
    /\ toggle \in [at : {"idle", "book", "wal"}, value : BOOLEAN]

LEMMA EsTypes == E!StoreTypeOK <=> EsFlags /\ EsData
BY DEF E!StoreTypeOK, EsFlags, EsData, Piece

LEMMA EsFlagsStep ==
    ASSUME EsFlags, toggle \in [at : {"idle", "book", "wal"}, value : BOOLEAN], E!StoreNext
    PROVE  EsFlags'
<1>0. /\ store_on \in BOOLEAN /\ book_on \in BOOLEAN /\ wal_on \in BOOLEAN
      /\ syncing \in BOOLEAN /\ cut \in BOOLEAN /\ wiped \in BOOLEAN /\ apart \in BOOLEAN
      /\ toggle.value \in BOOLEAN
  BY DEF EsFlags
<1> SUFFICES /\ store_on' \in BOOLEAN /\ book_on' \in BOOLEAN /\ wal_on' \in BOOLEAN
             /\ syncing' \in BOOLEAN /\ cut' \in BOOLEAN /\ wiped' \in BOOLEAN
             /\ apart' \in BOOLEAN
  BY DEF EsFlags
<1> USE <1>0 DEF E!activity, E!walState, E!rest
<1>1. ASSUME NEW n \in 1 .. MaxEvent, E!Process(n)
      PROVE  UNCHANGED <<store_on, book_on, wal_on, syncing, cut, wiped>> /\ apart' \in BOOLEAN
  BY <1>1 DEF E!Process
<1>2. CASE E!PushEvent
  BY <1>2 DEF E!PushEvent
<1>3. CASE E!WriteHeader
  BY <1>3 DEF E!WriteHeader
<1>4. CASE E!WriteData
  BY <1>4 DEF E!WriteData
<1>5. CASE E!WriteFails
  BY <1>5 DEF E!WriteFails
<1>6. CASE E!CountPending
  BY <1>6 DEF E!CountPending
<1>7. CASE E!AppendSync
  BY <1>7 DEF E!AppendSync, E!SyncData
<1>8. CASE E!AppendClear
  BY <1>8 DEF E!AppendClear, E!ClearPending
<1>9. CASE E!Sync
  BY <1>9 DEF E!Sync, E!SyncData
<1>10. CASE E!SyncClear
  BY <1>10 DEF E!SyncClear, E!ClearPending
<1>11. CASE E!SetActive
  BY <1>11 DEF E!SetActive
<1>12. CASE E!SetActiveBook
  BY <1>12 DEF E!SetActiveBook
<1>13. CASE E!SetActiveWal
  BY <1>13 DEF E!SetActiveWal
<1>14. CASE E!Reset
  BY <1>14 DEF E!Reset
<1>15. CASE E!CrashRestart
  BY <1>15 DEF E!CrashRestart
<1> QED BY <1>1, <1>2, <1>3, <1>4, <1>5, <1>6, <1>7, <1>8, <1>9, <1>10, <1>11, <1>12,
           <1>13, <1>14, <1>15 DEF E!StoreNext

\* A sync counts what it finds whole, unless the log is cut.
LEMMA EsSync ==
    E!AppendSync \/ E!Sync => durable' = durable \/ durable' = Cardinality(E!Readable)
<1>1. E!AppendSync \/ E!Sync =>
        durable' = IF cut THEN durable ELSE Cardinality(E!Readable)
  BY SameCardinality, Zenon DEF E!AppendSync, E!Sync, E!SyncData
<1> QED BY <1>1, Zenon

LEMMA EsDataStep ==
    ASSUME EsFlags, EsData, EsPlaces, E!StoreNext
    PROVE  EsData' /\ EsPlaces'
<1> USE EsConstants DEF EsData, EsPlaces
<1>0. /\ log \in Seq(Piece) /\ Len(log) \in Nat /\ applied \in Seq(0 .. MaxEvent)
      /\ synced \in 0 .. Len(log) /\ base \in 0 .. Len(log)
  OBVIOUS
<1>a. E!StoreTypeOK
  BY EsTypes
<1>1. ASSUME NEW n \in 1 .. MaxEvent, E!Process(n) PROVE EsData' /\ EsPlaces'
  <2>1. UNCHANGED <<applied, log, synced, counted, toggle, base, durable>> /\ step.at = "idle"
    BY <1>1 DEF E!Process, E!Idle, E!activity, E!walState, E!rest
  <2>2. expected' = n + 1 /\ (gaps' = gaps \/ gaps' = gaps + 1)
    BY <1>1 DEF E!Process
  <2>3. step' \in [at : {"push", "head"}, event : 0 .. MaxEvent]
    BY <1>1 DEF E!Process
  <2> QED BY <2>1, <2>2, <2>3
<1>2. CASE E!PushEvent
  <2>1. step.event \in 0 .. MaxEvent /\ step.at = "push"
    BY <1>2 DEF E!PushEvent
  <2>2. Append(applied, step.event) \in Seq(0 .. MaxEvent)
    BY <1>0, <2>1, AppendProperties
  <2>3. applied \o <<0, step.event>> \in Seq(0 .. MaxEvent)
    BY <1>0, <2>1
  <2>4. applied' \in Seq(0 .. MaxEvent)
    BY <1>0, <1>2, <2>2, <2>3 DEF E!PushEvent
  <2> QED BY <1>2, <2>1, <2>4 DEF E!PushEvent, E!activity, E!walState, E!rest
<1>3. CASE E!WriteHeader
  <2>1. UNCHANGED <<expected, gaps, applied, synced, counted, toggle, base, durable>>
          /\ step.at = "head"
    BY <1>3 DEF E!WriteHeader, E!activity, E!rest
  <2>2. CASE wal_on
    <3> DEFINE p == [part |-> "head", event |-> step.event]
    <3>1. p \in Piece /\ log' = Append(log, p)
      BY <1>3, <2>2 DEF E!WriteHeader, Piece
    <3>2. log' \in Seq(Piece) /\ Len(log') = Len(log) + 1 /\ log'[Len(log) + 1] = p
      BY <3>1, <1>0, AppendProperties
    <3>3. step' = [step EXCEPT !.at = IF step.event = 0 THEN "count" ELSE "data"]
      BY <1>3, <2>2 DEF E!WriteHeader
    <3>4. EsData'
      <4>1. step' \in [at : {"count", "data"}, event : 0 .. MaxEvent]
        BY <3>3
      <4>2. synced' \in 0 .. Len(log') /\ base' \in 0 .. Len(log')
        BY <1>0, <2>1, <3>2
      <4> HIDE DEF p
      <4> QED BY <2>1, <3>2, <4>1, <4>2
    <3>5. EsPlaces'
      BY <1>0, <2>1, <3>2, <3>3
    <3> QED BY <3>4, <3>5
  <2>3. CASE ~wal_on
    <3>1. log' = log /\ step' = E!Idle
      BY <1>3, <2>3 DEF E!WriteHeader
    <3> QED BY <1>0, <2>1, <3>1 DEF E!Idle
  <2> QED BY <2>2, <2>3
<1>4. CASE E!WriteData
  <2> DEFINE p == [part |-> "data", event |-> step.event]
  <2>1. p \in Piece /\ log' = Append(log, p) /\ step.at = "data"
    BY <1>4 DEF E!WriteData, Piece
  <2>2. log' \in Seq(Piece) /\ Len(log') = Len(log) + 1
    BY <2>1, <1>0, AppendProperties
  <2>3. /\ UNCHANGED <<expected, gaps, applied, synced, counted, toggle, base, durable>>
        /\ step' = [step EXCEPT !.at = "count"]
    BY <1>4 DEF E!WriteData, E!activity, E!rest
  <2>4. EsPlaces'
    BY <2>1, <2>3
  <2>5. EsData'
    <3>1. step' \in [at : {"count"}, event : 0 .. MaxEvent]
      BY <2>3
    <3>2. synced' \in 0 .. Len(log') /\ base' \in 0 .. Len(log')
      BY <1>0, <2>2, <2>3
    <3> HIDE DEF p
    <3> QED BY <2>2, <2>3, <3>1, <3>2
  <2> QED BY <2>4, <2>5
<1>5. CASE E!WriteFails
  <2> DEFINE p == [part |-> "torn", event |-> step.event]
  <2>1. p \in Piece /\ log' \in {log, Append(log, p)} /\ step.at \in {"data", "head"}
    BY <1>5 DEF E!WriteFails, Piece
  <2>2. log' \in Seq(Piece) /\ Len(log') >= Len(log) /\ Len(log') \in Nat
    <3> HIDE DEF p, EsData, EsPlaces
    <3>1. Append(log, p) \in Seq(Piece) /\ Len(Append(log, p)) = Len(log) + 1
      BY <2>1, <1>0, AppendProperties
    <3> QED BY <2>1, <3>1, <1>0, SMTT(30)
  <2>3. /\ UNCHANGED <<expected, gaps, applied, synced, counted, toggle, base, durable>>
        /\ step' = E!Idle
    BY <1>5 DEF E!WriteFails, E!activity
  <2> QED BY <1>0, <2>1, <2>2, <2>3 DEF E!Idle
<1>6. CASE E!CountPending
  <2>1. /\ UNCHANGED <<expected, gaps, applied, log, synced, toggle, base, durable>>
        /\ step.at = "count" /\ counted' = counted + 1
    BY <1>6 DEF E!CountPending, E!activity, E!rest
  <2>2. step' = IF counted' >= SyncInterval THEN [step EXCEPT !.at = "sync"] ELSE E!Idle
    BY <1>6 DEF E!CountPending
  <2>3. counted' \in 0 .. SyncInterval /\ (counted' = SyncInterval => step'.at = "sync")
    BY <2>1, <2>2
  <2>4. step' \in [at : {"idle", "sync"}, event : 0 .. MaxEvent]
    <3>1. step' = E!Idle \/ step' = [step EXCEPT !.at = "sync"]
      BY <2>2
    <3>2. step \in [at : {"idle", "push", "head", "data", "count", "sync", "clear"},
                    event : 0 .. MaxEvent]
      OBVIOUS
    <3>3. 0 \in 0 .. MaxEvent
      OBVIOUS
    <3> HIDE DEF EsData, EsPlaces
    <3> QED BY <3>1, <3>2, <3>3 DEF E!Idle
  <2> QED BY <2>1, <2>3, <2>4
<1>7. CASE E!AppendSync \/ E!Sync
  <2>1. durable' \in Nat
    <3>1. Cardinality(E!Readable) \in Nat
      BY <1>a, EsFinite
    <3>2. durable' = durable \/ durable' = Cardinality(E!Readable)
      BY <1>7, EsSync
    <3> QED BY <3>1, <3>2
  <2>2. /\ UNCHANGED <<expected, gaps, applied, log, counted, toggle, base>>
        /\ synced' = Len(log)
        /\ step' = step \/ (step.at = "sync" /\ step' = [step EXCEPT !.at = "clear"])
    BY <1>7 DEF E!AppendSync, E!Sync, E!SyncData, E!activity, E!rest
  <2> QED BY <1>0, <2>1, <2>2
<1>8. CASE E!AppendClear \/ E!SyncClear
  <2>1. /\ UNCHANGED <<expected, gaps, applied, log, synced, toggle, base, durable>>
        /\ counted' = 0 /\ step' \in {step, E!Idle}
    BY <1>8 DEF E!AppendClear, E!SyncClear, E!ClearPending, E!activity, E!rest
  <2> QED BY <1>0, <2>1 DEF E!Idle
<1>9. CASE E!SetActive \/ E!SetActiveBook \/ E!SetActiveWal
  <2>1. UNCHANGED <<expected, gaps, applied, log, synced, counted, step, base, durable>>
    BY <1>9 DEF E!SetActive, E!SetActiveBook, E!SetActiveWal, E!walState, E!rest
  <2>2. store_on \in BOOLEAN
    BY DEF EsFlags
  <2>3. toggle' \in [at : {"idle", "book", "wal"}, value : BOOLEAN]
    <3>1. CASE E!SetActive
      BY <3>1, <2>2 DEF E!SetActive
    <3>2. CASE E!SetActiveBook
      BY <3>2 DEF E!SetActiveBook
    <3>3. CASE E!SetActiveWal
      BY <3>3 DEF E!SetActiveWal, E!Quiescent
    <3> QED BY <1>9, <3>1, <3>2, <3>3
  <2> QED BY <2>1, <2>3
<1>10. CASE E!Reset
  <2>1. /\ UNCHANGED <<log, synced, counted, step, toggle, durable>>
        /\ expected' = 0 /\ gaps' = 0 /\ applied' = <<>> /\ base' = Len(log)
    BY <1>10 DEF E!Reset, E!activity, E!walState
  <2> QED BY <1>0, <2>1
<1>11. CASE E!CrashRestart
  <2>1. log' \in Seq(Piece) /\ Len(log') \in Nat
    BY <1>11, <1>a, EsCrashLog
  <2>2. /\ synced' = Len(log') /\ base' = Len(log') /\ durable' = durable
        /\ expected' = 0 /\ gaps' = 0 /\ applied' = <<>> /\ counted' = 0
        /\ step' = E!Idle /\ toggle' = E!Quiescent
    BY <1>11 DEF E!CrashRestart
  <2> QED BY <2>1, <2>2 DEF E!Idle, E!Quiescent
<1> QED BY <1>1, <1>2, <1>3, <1>4, <1>5, <1>6, <1>7, <1>8, <1>9, <1>10, <1>11
        DEF E!StoreNext

\* A number above the members of a set comes after them.
LEMMA PlaceAbove ==
    ASSUME NEW S \in SUBSET Int, IsFiniteSet(S), NEW m \in Int, \A i \in S : i < m
    PROVE  /\ Cardinality(S \cup {m}) = Cardinality(S) + 1
           /\ Place(S \cup {m}, m) = Cardinality(S) + 1
           /\ \A i \in S : Place(S \cup {m}, i) = Place(S, i) /\ Place(S, i) <= Cardinality(S)
<1>1. m \notin S
  OBVIOUS
<1>2. Cardinality(S) \in Nat /\ Cardinality(S \cup {m}) = Cardinality(S) + 1
  BY <1>1, FS_CardinalityType, FS_AddElement
<1>3. {j \in S \cup {m} : j <= m} = S \cup {m}
  <2>1. \A j \in S \cup {m} : j <= m
    OBVIOUS
  <2> QED BY <2>1, Zenon
<1>4. ASSUME NEW i \in S
      PROVE  Place(S \cup {m}, i) = Place(S, i) /\ Place(S, i) <= Cardinality(S)
  <2>1. {j \in S \cup {m} : j <= i} = {j \in S : j <= i}
    BY <1>4
  <2>2. Cardinality({j \in S : j <= i}) <= Cardinality(S)
    BY FS_Subset
  <2> QED BY <2>1, <2>2 DEF Place
<1> QED BY <1>2, <1>3, <1>4 DEF Place

\* The same event at the end of both sets keeps them matched.
LEMMA MatchesGrow ==
    ASSUME NEW A \in SUBSET Int, IsFiniteSet(A), NEW m \in Int, \A i \in A : i < m,
           NEW B \in SUBSET Int, IsFiniteSet(B), NEW n \in Int, \A k \in B : k < n,
           NEW pieces, NEW longer, NEW book,
           \A i \in A : longer[i] = pieces[i], longer[m].event = book[n],
           Matches(A, pieces, B, book)
    PROVE  Matches(A \cup {m}, longer, B \cup {n}, book)
<1> USE DEF Matches
<1>1. /\ Cardinality(A \cup {m}) = Cardinality(A) + 1
      /\ Place(A \cup {m}, m) = Cardinality(A) + 1
      /\ \A i \in A : Place(A \cup {m}, i) = Place(A, i) /\ Place(A, i) <= Cardinality(A)
  BY PlaceAbove
<1>2. /\ Cardinality(B \cup {n}) = Cardinality(B) + 1
      /\ Place(B \cup {n}, n) = Cardinality(B) + 1
      /\ \A k \in B : Place(B \cup {n}, k) = Place(B, k) /\ Place(B, k) <= Cardinality(B)
  BY PlaceAbove
<1>3. Cardinality(A) \in Nat /\ Cardinality(B) = Cardinality(A)
  BY FS_CardinalityType
<1>4. ASSUME NEW i \in A \cup {m}, NEW k \in B \cup {n},
             Place(A \cup {m}, i) = Place(B \cup {n}, k)
      PROVE  longer[i].event = book[k]
  <2>1. CASE i = m /\ k = n
    BY <2>1
  <2>2. CASE i \in A /\ k \in B
    BY <2>2, <1>1, <1>2, <1>4
  <2>3. ~(i = m /\ k \in B) /\ ~(i \in A /\ k = n)
    BY <1>1, <1>2, <1>3, <1>4
  <2> QED BY <2>1, <2>2, <2>3
<1> QED BY <1>1, <1>2, <1>3, <1>4

\* The sets of the log and of the book are finite sets of places.
LEMMA EsSets ==
    E!StoreTypeOK =>
        /\ log \in Seq(Piece) /\ Len(log) \in Nat /\ base \in 0 .. Len(log)
        /\ applied \in Seq(0 .. MaxEvent) /\ Len(applied) \in Nat
        /\ E!LogEvents \in SUBSET (1 .. Len(log)) /\ E!LogGaps \in SUBSET (1 .. Len(log))
        /\ E!BookEvents \in SUBSET (1 .. Len(applied)) /\ E!BookGaps \in SUBSET (1 .. Len(applied))
        /\ IsFiniteSet(E!LogEvents) /\ IsFiniteSet(E!LogGaps)
        /\ IsFiniteSet(E!BookEvents) /\ IsFiniteSet(E!BookGaps)
        /\ Cardinality(E!LogGaps) \in Nat /\ Cardinality(E!BookGaps) \in Nat
<1> SUFFICES ASSUME E!StoreTypeOK
             PROVE  /\ log \in Seq(Piece) /\ Len(log) \in Nat /\ base \in 0 .. Len(log)
                    /\ applied \in Seq(0 .. MaxEvent) /\ Len(applied) \in Nat
                    /\ E!LogEvents \in SUBSET (1 .. Len(log))
                    /\ E!LogGaps \in SUBSET (1 .. Len(log))
                    /\ E!BookEvents \in SUBSET (1 .. Len(applied))
                    /\ E!BookGaps \in SUBSET (1 .. Len(applied))
                    /\ IsFiniteSet(E!LogEvents) /\ IsFiniteSet(E!LogGaps)
                    /\ IsFiniteSet(E!BookEvents) /\ IsFiniteSet(E!BookGaps)
                    /\ Cardinality(E!LogGaps) \in Nat /\ Cardinality(E!BookGaps) \in Nat
  OBVIOUS
<1>1. /\ log \in Seq(Piece) /\ Len(log) \in Nat /\ base \in 0 .. Len(log)
      /\ applied \in Seq(0 .. MaxEvent) /\ Len(applied) \in Nat
  BY DEF E!StoreTypeOK, Piece
<1>2. E!LogEvents \in SUBSET (1 .. Len(log)) /\ E!LogGaps \in SUBSET (1 .. Len(log))
  BY <1>1 DEF E!LogEvents, E!LogGaps
<1>3. /\ E!BookEvents \in SUBSET (1 .. Len(applied))
      /\ E!BookGaps \in SUBSET (1 .. Len(applied))
  BY <1>1 DEF E!BookEvents, E!BookGaps
<1>4. IsFiniteSet(1 .. Len(log)) /\ IsFiniteSet(1 .. Len(applied))
  BY <1>1, FS_Interval
<1>5. /\ IsFiniteSet(E!LogEvents) /\ IsFiniteSet(E!LogGaps)
      /\ IsFiniteSet(E!BookEvents) /\ IsFiniteSet(E!BookGaps)
  BY <1>2, <1>3, <1>4, FS_Subset
<1> QED BY <1>1, <1>2, <1>3, <1>5, FS_CardinalityType

\* A piece appended to the log is an event, a gap or neither.
LEMMA EsLogGrows ==
    ASSUME E!StoreTypeOK, NEW p \in Piece, log' = Append(log, p), base' = base
    PROVE  /\ E!LogEvents' = IF p.part = "head" /\ p.event # 0
                             THEN E!LogEvents \cup {Len(log) + 1} ELSE E!LogEvents
           /\ E!LogGaps' = IF p.part = "head" /\ p.event = 0
                           THEN E!LogGaps \cup {Len(log) + 1} ELSE E!LogGaps
           /\ \A i \in 1 .. Len(log) : log'[i] = log[i]
           /\ log'[Len(log) + 1] = p
<1>1. log \in Seq(Piece) /\ Len(log) \in Nat /\ base \in 0 .. Len(log)
  BY EsSets
<1>2. /\ Len(log') = Len(log) + 1 /\ log'[Len(log) + 1] = p
      /\ \A i \in 1 .. Len(log) : log'[i] = log[i]
  BY <1>1, AppendProperties
<1>3. base + 1 .. Len(log') = (base + 1 .. Len(log)) \cup {Len(log) + 1}
  BY <1>1, <1>2
<1>4. \A i \in base + 1 .. Len(log) : log'[i] = log[i] /\ i # Len(log) + 1
  BY <1>1, <1>2
<1> QED BY <1>2, <1>3, <1>4 DEF E!LogEvents, E!LogGaps

\* What leaves the log and the book alone, and is not between them.
LEMMA EsReplayFrame ==
    ASSUME EsReplay, UNCHANGED <<log, base, applied, gaps, expected>>, ~apart' => ~apart,
           \/ step' = step
           \/ step.at \notin {"push", "head"} /\ step'.at \notin {"push", "head"}
    PROVE  EsReplay'
<1>1. /\ E!LogEvents' = E!LogEvents /\ E!LogGaps' = E!LogGaps
      /\ E!BookEvents' = E!BookEvents /\ E!BookGaps' = E!BookGaps
  BY DEF E!LogEvents, E!LogGaps, E!BookEvents, E!BookGaps
<1>2. (Pushed <=> Pushed') /\ (Pushed => step' = step)
  BY DEF Pushed
<1>3. Logged' = Logged
  BY <1>1, <1>2 DEF Logged
<1>4. Due' = Due /\ GapWaits' = GapWaits
  BY DEF Due, GapWaits
<1>5. Break' = Break
  BY <1>4 DEF Break
<1> QED BY <1>1, <1>2, <1>3, <1>4, <1>5 DEF EsReplay, Matches, Place

\* A store with an empty book has logged nothing since.
LEMMA EsReplayEmpty ==
    /\ log \in Seq(Piece) /\ base = Len(log) /\ applied = <<>> /\ gaps = 0 /\ step = E!Idle
    => EsReplay
<1> SUFFICES ASSUME log \in Seq(Piece), base = Len(log), applied = <<>>, gaps = 0, step = E!Idle
             PROVE  EsReplay
  OBVIOUS
<1>1. Len(log) \in Nat
  OBVIOUS
<1>2. E!LogEvents = {} /\ E!LogGaps = {}
  BY <1>1 DEF E!LogEvents, E!LogGaps
<1>3. E!BookEvents = {} /\ E!BookGaps = {}
  BY DEF E!BookEvents, E!BookGaps
<1>4. ~Pushed /\ Break = 0 /\ GapWaits = 0
  BY DEF Pushed, Break, GapWaits, E!Idle
<1>5. Logged = {}
  BY <1>3, <1>4 DEF Logged
<1>6. Cardinality({}) = 0
  BY FS_EmptySet
<1> QED BY <1>2, <1>3, <1>4, <1>5, <1>6 DEF EsReplay, Matches

\* set_active() against process_event(): the three switches.
LEMMA EsSwitchStep ==
    ASSUME EsFlags, toggle \in [at : {"idle", "book", "wal"}, value : BOOLEAN],
           EsSwitch, E!StoreNext
    PROVE  EsSwitch'
<1> USE DEF EsSwitch, E!activity, E!Quiescent
<1>1. ASSUME NEW n \in 1 .. MaxEvent, E!Process(n) PROVE EsSwitch'
  <2>1. UNCHANGED <<store_on, book_on, wal_on, toggle>> /\ store_on
    BY <1>1 DEF E!Process
  <2>2. ~apart' => toggle = E!Quiescent
    BY <1>1, Zenon DEF E!Process
  <2>3. toggle = E!Quiescent => book_on /\ wal_on
    BY <2>1
  <2> QED BY <2>1, <2>2, <2>3
<1>2. CASE \/ E!PushEvent \/ E!WriteHeader \/ E!WriteData \/ E!CountPending
           \/ E!AppendSync \/ E!AppendClear
  <2>1. UNCHANGED <<store_on, book_on, wal_on, toggle, apart>> /\ step # E!Idle
    BY <1>2 DEF E!PushEvent, E!WriteHeader, E!WriteData, E!CountPending, E!AppendSync,
       E!AppendClear, E!Idle
  <2> QED BY <2>1
<1>3. CASE E!WriteFails
  <2>1. UNCHANGED <<store_on, book_on, wal_on, toggle>> /\ apart' = TRUE
    BY <1>3 DEF E!WriteFails
  <2> QED BY <2>1
<1>4. CASE E!Sync \/ E!SyncClear
  <2>1. UNCHANGED <<store_on, book_on, wal_on, toggle, apart, step>>
    BY <1>4 DEF E!Sync, E!SyncClear
  <2> QED BY <2>1
<1>5. CASE E!SetActive
  <2>1. /\ UNCHANGED <<book_on, wal_on, step>> /\ store_on' = ~store_on
        /\ toggle' = [at |-> "book", value |-> ~store_on]
    BY <1>5 DEF E!SetActive
  <2>2. ~apart' => step = E!Idle
    BY <1>5, Zenon DEF E!SetActive
  <2>3. toggle'.at = "book" /\ toggle'.value = store_on'
    BY <2>1
  <2> QED BY <2>1, <2>2, <2>3
<1>6. CASE E!SetActiveBook
  <2>1. /\ UNCHANGED <<store_on, wal_on, step, apart>> /\ book_on' = toggle.value
        /\ toggle' = [toggle EXCEPT !.at = "wal"] /\ toggle.at = "book"
    BY <1>6 DEF E!SetActiveBook
  <2>2. toggle'.at = "wal" /\ toggle'.value = toggle.value /\ store_on = toggle.value
    BY <2>1
  <2> QED BY <2>1, <2>2
<1>7. CASE E!SetActiveWal
  <2>1. /\ UNCHANGED <<store_on, book_on, step, apart>> /\ wal_on' = toggle.value
        /\ toggle' = E!Quiescent /\ toggle.at = "wal"
    BY <1>7 DEF E!SetActiveWal
  <2>2. ~apart => step = E!Idle
    BY <2>1
  <2> QED BY <2>1, <2>2
<1>8. CASE E!Reset
  <2>1. UNCHANGED <<store_on, book_on, wal_on, toggle, step>> /\ step = E!Idle
    BY <1>8 DEF E!Reset
  <2> QED BY <2>1
<1>9. CASE E!CrashRestart
  <2>1. /\ store_on' = TRUE /\ book_on' = TRUE /\ wal_on' = TRUE
        /\ step' = E!Idle /\ toggle' = E!Quiescent
    BY <1>9 DEF E!CrashRestart
  <2> QED BY <2>1
<1> QED BY <1>1, <1>2, <1>3, <1>4, <1>5, <1>6, <1>7, <1>8, <1>9 DEF E!StoreNext

\* The numbers of process_event().
LEMMA EsFeedStep ==
    ASSUME EsData, EsFeed, E!StoreNext
    PROVE  EsFeed'
<1> USE DEF EsFeed, Pushed, E!Idle
<1>0. /\ step \in [at : {"idle", "push", "head", "data", "count", "sync", "clear"},
                   event : 0 .. MaxEvent]
      /\ expected \in 0 .. MaxEvent + 1 /\ MaxEvent \in Nat
  BY EsConstants DEF EsData
<1>1. ASSUME NEW n \in 1 .. MaxEvent, E!Process(n) PROVE EsFeed'
  <2>1. /\ expected' = n + 1
        /\ \/ step' = [at |-> "head", event |-> 0]
           \/ step' = [at |-> "push", event |-> n]
    BY <1>1 DEF E!Process
  <2> QED BY <2>1, <1>0
<1>2. CASE E!PushEvent
  <2>1. step.at = "push" /\ step' = [step EXCEPT !.at = "head"] /\ expected' = expected
    BY <1>2 DEF E!PushEvent
  <2> QED BY <2>1, <1>0
<1>3. CASE \/ E!WriteHeader \/ E!WriteData \/ E!WriteFails \/ E!CountPending
           \/ E!AppendSync \/ E!AppendClear
  <2>1. UNCHANGED <<expected, applied>> /\ step.at # "idle" /\ step.at # "push"
    BY <1>3 DEF E!WriteHeader, E!WriteData, E!WriteFails, E!CountPending, E!AppendSync,
       E!AppendClear
  <2>2. step' = E!Idle \/ step'.at \in {"data", "count", "sync", "clear"}
    BY <1>3, <1>0 DEF E!WriteHeader, E!WriteData, E!WriteFails, E!CountPending, E!AppendSync,
       E!AppendClear
  <2> QED BY <2>1, <2>2
<1>4. CASE E!Sync \/ E!SyncClear \/ E!SetActive \/ E!SetActiveBook \/ E!SetActiveWal
  <2>1. UNCHANGED <<expected, applied, step>>
    BY <1>4 DEF E!Sync, E!SyncClear, E!SetActive, E!SetActiveBook, E!SetActiveWal
  <2> QED BY <2>1
<1>5. CASE E!Reset
  <2>1. expected' = 0 /\ applied' = <<>> /\ step' = E!Idle
    BY <1>5 DEF E!Reset
  <2> QED BY <2>1
<1>6. CASE E!CrashRestart
  <2>1. expected' = 0 /\ applied' = <<>> /\ step' = E!Idle
    BY <1>6 DEF E!CrashRestart
  <2> QED BY <2>1
<1> QED BY <1>1, <1>2, <1>3, <1>4, <1>5, <1>6 DEF E!StoreNext

\* process_event(): a gap is counted before it is logged, and the event that
\* shows none is the one due.
LEMMA EsReplayProcess ==
    ASSUME E!StoreTypeOK, EsBook, NEW n \in 1 .. MaxEvent, E!Process(n)
    PROVE  EsReplay'
<1>0. /\ E!StoreTypeOK /\ EsSwitch /\ EsFeed /\ EsReplay /\ MaxEvent \in Nat
      /\ expected \in 0 .. MaxEvent + 1 /\ gaps \in Nat
      /\ Cardinality(E!LogGaps) \in Nat /\ Cardinality(E!BookGaps) \in Nat
  BY EsSets, EsConstants DEF EsBook, E!StoreTypeOK
<1>1. /\ UNCHANGED <<applied, log, base>> /\ step = E!Idle /\ expected' = n + 1
      /\ IF n # expected /\ expected > 0
         THEN gaps' = gaps + 1 /\ step' = [at |-> "head", event |-> 0]
         ELSE gaps' = gaps /\ step' = [at |-> "push", event |-> n]
  BY <1>0 DEF E!Process, E!walState, E!rest
<1>2. ~apart' => ~apart
  BY Zenon DEF E!Process
<1> SUFFICES ASSUME ~apart' PROVE EsReplay'
  BY DEF EsReplay
<1>3. /\ E!LogEvents' = E!LogEvents /\ E!LogGaps' = E!LogGaps
      /\ E!BookEvents' = E!BookEvents /\ E!BookGaps' = E!BookGaps
  BY <1>1 DEF E!LogEvents, E!LogGaps, E!BookEvents, E!BookGaps
<1>4. ~Pushed /\ ~Pushed' /\ GapWaits = 0
  BY <1>1 DEF Pushed, GapWaits, E!Idle
<1>5. Matches(E!LogEvents, log, Logged, applied)'
  BY <1>0, <1>1, <1>2, <1>3, <1>4 DEF EsReplay, Matches, Logged, Place
<1>6. /\ Cardinality(E!LogGaps) = gaps
      /\ Cardinality(E!BookGaps) + Break <= gaps
  BY <1>0, <1>2, <1>4 DEF EsReplay
<1>7. Break \in {0, 1} /\ Break' \in {0, 1}
  BY DEF Break
<1>8. CASE n # expected /\ expected > 0
  <2>1. gaps' = gaps + 1 /\ GapWaits' = 1
    BY <1>1, <1>8 DEF GapWaits
  <2>2. Cardinality(E!LogGaps') + GapWaits' = gaps'
    BY <1>0, <1>3, <1>6, <2>1
  <2>3. Cardinality(E!BookGaps') + Break' <= gaps'
    BY <1>0, <1>3, <1>6, <1>7, <2>1
  <2> QED BY <1>4, <1>5, <2>2, <2>3 DEF EsReplay
<1>9. CASE ~(n # expected /\ expected > 0)
  <2>1. gaps' = gaps /\ GapWaits' = 0 /\ Due' = n
    BY <1>1, <1>9 DEF GapWaits, Due
  <2>2. Break' = Break
    <3>1. CASE expected = 0
      BY <3>1, <1>0, <1>1 DEF EsFeed, Break
    <3>2. CASE n = expected
      BY <3>2, <1>1, <2>1 DEF Break, Due, E!Idle
    <3> QED BY <1>0, <1>9, <3>1, <3>2
  <2> QED BY <1>0, <1>3, <1>4, <1>5, <1>6, <2>1, <2>2 DEF EsReplay
<1> QED BY <1>8, <1>9

\* push_event(): the event goes to the end of the book, after the break it shows.
LEMMA EsReplayPush ==
    ASSUME E!StoreTypeOK, E!StoreTypeOK', EsBook, E!PushEvent
    PROVE  EsReplay'
<1>0. /\ EsSwitch /\ EsFeed /\ EsReplay /\ MaxEvent \in Nat /\ gaps \in Nat
      /\ applied \in Seq(0 .. MaxEvent) /\ Len(applied) \in Nat
      /\ step \in [at : {"idle", "push", "head", "data", "count", "sync", "clear"},
                   event : 0 .. MaxEvent]
      /\ Cardinality(E!LogGaps) \in Nat /\ Cardinality(E!BookGaps) \in Nat
      /\ IsFiniteSet(E!BookGaps) /\ E!BookGaps \in SUBSET (1 .. Len(applied))
      /\ E!BookEvents \in SUBSET (1 .. Len(applied))
  BY EsSets, EsConstants DEF EsBook, E!StoreTypeOK
<1>1. /\ UNCHANGED <<log, base, gaps, expected, apart>> /\ step.at = "push"
      /\ step' = [step EXCEPT !.at = "head"]
  BY DEF E!PushEvent, E!walState, E!rest
<1> SUFFICES ASSUME ~apart PROVE EsReplay'
  BY <1>1 DEF EsReplay
<1> DEFINE e == step.event
           jump == applied # <<>> /\ applied[Len(applied)] + 1 # e
<1>2. e \in 1 .. MaxEvent /\ expected = e + 1
  BY <1>0, <1>1 DEF EsFeed
<1>3. book_on
  BY <1>0, <1>1 DEF EsSwitch, E!Idle
<1>4. applied' = IF jump THEN applied \o <<0, e>> ELSE Append(applied, e)
  BY <1>3 DEF E!PushEvent, E!Last
<1>5. ~Pushed /\ Pushed' /\ GapWaits = 0 /\ GapWaits' = 0 /\ Due = e /\ Due' = e + 1
  BY <1>0, <1>1, <1>2 DEF Pushed, GapWaits, Due
<1>6. E!LogEvents' = E!LogEvents /\ E!LogGaps' = E!LogGaps
  BY <1>1 DEF E!LogEvents, E!LogGaps
<1>7. Break = IF jump THEN 1 ELSE 0
  BY <1>5 DEF Break
<1>8. /\ Matches(E!LogEvents, log, E!BookEvents, applied)
      /\ Cardinality(E!LogGaps) = gaps
      /\ Cardinality(E!BookGaps) + Break <= gaps
  BY <1>0, <1>5 DEF EsReplay, Logged
<1>9. /\ Len(applied') = Len(applied) + (IF jump THEN 2 ELSE 1)
      /\ applied' \in Seq(0 .. MaxEvent)
      /\ applied'[Len(applied')] = e
      /\ jump => applied'[Len(applied) + 1] = 0
      /\ \A k \in 1 .. Len(applied) : applied'[k] = applied[k]
  <2> HIDE DEF e, jump
  <2>1. CASE ~jump
    <3>1. applied' = Append(applied, e)
      BY <1>4, <2>1
    <3> QED BY <1>0, <1>2, <2>1, <3>1, AppendProperties DEF E!StoreTypeOK
  <2>2. CASE jump
    <3>1. applied' = applied \o <<0, e>>
      BY <1>4, <2>2
    <3>2. <<0, e>> \in Seq(0 .. MaxEvent) /\ Len(<<0, e>>) = 2
      BY <1>0, <1>2
    <3>3. /\ applied' \in Seq(0 .. MaxEvent) /\ Len(applied') = Len(applied) + 2
          /\ \A k \in 1 .. Len(applied) : applied'[k] = applied[k]
          /\ applied'[Len(applied) + 1] = 0 /\ applied'[Len(applied) + 2] = e
      BY <1>0, <1>2, <3>1, <3>2
    <3> QED BY <2>2, <3>3
  <2> QED BY <2>1, <2>2
<1>10. Len(applied') \in Nat /\ Len(applied') > Len(applied)
  BY <1>0, <1>9
<1>11. Logged' = E!BookEvents
  <2>1. Logged' = E!BookEvents' \ {Len(applied')}
    BY <1>5 DEF Logged
  <2>2. DOMAIN applied = 1 .. Len(applied) /\ DOMAIN applied' = 1 .. Len(applied')
    BY <1>0, <1>9
  <2>3. ASSUME NEW k \in E!BookEvents PROVE k \in E!BookEvents' /\ k # Len(applied')
    BY <2>2, <2>3, <1>0, <1>9, <1>10 DEF E!BookEvents
  <2>4. ASSUME NEW k \in E!BookEvents', k # Len(applied') PROVE k \in E!BookEvents
    <3>1. k \in 1 .. Len(applied') /\ applied'[k] # 0
      BY <2>2, <2>4 DEF E!BookEvents
    <3>2. k \in 1 .. Len(applied)
      <4> HIDE DEF e, jump
      <4>1. CASE jump
        <5>1. Len(applied') = Len(applied) + 2 /\ applied'[Len(applied) + 1] = 0
          BY <1>9, <4>1
        <5> QED BY <3>1, <2>4, <1>0, <5>1
      <4>2. CASE ~jump
        <5>1. Len(applied') = Len(applied) + 1
          BY <1>9, <4>2
        <5> QED BY <3>1, <2>4, <1>0, <5>1
      <4> QED BY <4>1, <4>2
    <3> QED BY <3>1, <3>2, <2>2, <1>9 DEF E!BookEvents
  <2> QED BY <2>1, <2>3, <2>4
<1>12. Matches(E!LogEvents, log, Logged, applied)'
  <2>1. \A k \in E!BookEvents : applied'[k] = applied[k]
    BY <1>0, <1>9
  <2> QED BY <1>1, <1>6, <1>8, <1>11, <2>1 DEF Matches, Place
<1>13. Break' = 0
  <2>1. applied' # <<>>
    BY <1>10, <1>0
  <2> QED BY <1>5, <1>9, <2>1 DEF Break
<1>14. Cardinality(E!BookGaps') = Cardinality(E!BookGaps) + Break
  <2>1. DOMAIN applied = 1 .. Len(applied) /\ DOMAIN applied' = 1 .. Len(applied')
    BY <1>0, <1>9
  <2>2. CASE jump
    <3>1. E!BookGaps' = E!BookGaps \cup {Len(applied) + 1}
      <4> HIDE DEF jump, e
      <4>1. 1 .. Len(applied') = (1 .. Len(applied)) \cup {Len(applied) + 1, Len(applied) + 2}
        <5>1. Len(applied') = Len(applied) + 2
          BY <1>9, <2>2
        <5> QED BY <1>0, <5>1
      <4>2. applied'[Len(applied) + 2] # 0 /\ applied'[Len(applied) + 1] = 0
        BY <1>2, <1>9, <2>2
      <4> QED BY <1>9, <2>1, <4>1, <4>2 DEF E!BookGaps
    <3>2. Len(applied) + 1 \notin E!BookGaps
      BY <1>0
    <3> QED BY <1>0, <1>7, <2>2, <3>1, <3>2, FS_AddElement
  <2>3. CASE ~jump
    <3>1. E!BookGaps' = E!BookGaps
      <4> HIDE DEF jump, e
      <4>1. 1 .. Len(applied') = (1 .. Len(applied)) \cup {Len(applied) + 1}
        <5>1. Len(applied') = Len(applied) + 1
          BY <1>9, <2>3
        <5> QED BY <1>0, <5>1
      <4>2. applied'[Len(applied) + 1] # 0
        BY <1>2, <1>9, <2>3
      <4> QED BY <1>9, <2>1, <4>1, <4>2 DEF E!BookGaps
    <3> QED BY <1>0, <1>7, <2>3, <3>1
  <2> QED BY <2>2, <2>3
<1>15. step'.event = e /\ Len(applied') > 0
  BY <1>0, <1>1, <1>10
<1> HIDE DEF jump, e
<1>16. Cardinality(E!LogGaps') + GapWaits' = gaps'
  BY <1>0, <1>1, <1>5, <1>6, <1>8
<1>17. Cardinality(E!BookGaps') + Break' <= gaps'
  <2>1. Cardinality(E!BookGaps) + Break \in Int
    BY <1>0, <1>7
  <2> QED BY <1>0, <1>1, <1>8, <1>13, <1>14, <2>1
<1> QED BY <1>9, <1>12, <1>15, <1>16, <1>17 DEF EsReplay

\* append(): the header brings the log level with the book.
LEMMA EsReplayHeader ==
    ASSUME E!StoreTypeOK, EsBook, E!WriteHeader
    PROVE  EsReplay'
<1>0. /\ EsSwitch /\ EsFeed /\ EsReplay /\ MaxEvent \in Nat /\ gaps \in Nat
      /\ log \in Seq(Piece) /\ Len(log) \in Nat /\ Len(applied) \in Nat
      /\ applied \in Seq(0 .. MaxEvent)
      /\ step \in [at : {"idle", "push", "head", "data", "count", "sync", "clear"},
                   event : 0 .. MaxEvent]
      /\ E!LogEvents \in SUBSET (1 .. Len(log)) /\ E!LogGaps \in SUBSET (1 .. Len(log))
      /\ E!BookEvents \in SUBSET (1 .. Len(applied))
      /\ IsFiniteSet(E!LogEvents) /\ IsFiniteSet(E!LogGaps) /\ IsFiniteSet(E!BookEvents)
      /\ Cardinality(E!LogGaps) \in Nat /\ Cardinality(E!BookGaps) \in Nat
  BY EsSets, EsConstants DEF EsBook, E!StoreTypeOK
<1>1. UNCHANGED <<base, applied, gaps, expected, apart>> /\ step.at = "head"
  BY DEF E!WriteHeader, E!rest
<1> SUFFICES ASSUME ~apart PROVE EsReplay'
  BY <1>1 DEF EsReplay
<1>2. wal_on
  BY <1>0, <1>1 DEF EsSwitch, E!Idle
<1> DEFINE p == [part |-> "head", event |-> step.event]
           m == Len(log) + 1
           n == Len(applied)
<1>3. p \in Piece /\ log' = Append(log, p)
  BY <1>0, <1>2 DEF E!WriteHeader, Piece
<1>4. step'.at \in {"count", "data"}
  BY <1>0, <1>2 DEF E!WriteHeader
<1>5. ~Pushed' /\ GapWaits' = 0
  BY <1>4 DEF Pushed, GapWaits
<1>6. E!BookEvents' = E!BookEvents /\ E!BookGaps' = E!BookGaps /\ Logged' = E!BookEvents
  BY <1>1, <1>5 DEF E!BookEvents, E!BookGaps, Logged
<1>7. Break' = Break
  BY <1>1, <1>4 DEF Break, Due
<1>8. /\ E!LogEvents' = IF p.part = "head" /\ p.event # 0
                        THEN E!LogEvents \cup {Len(log) + 1} ELSE E!LogEvents
      /\ E!LogGaps' = IF p.part = "head" /\ p.event = 0
                      THEN E!LogGaps \cup {Len(log) + 1} ELSE E!LogGaps
      /\ \A i \in 1 .. Len(log) : log'[i] = log[i]
      /\ log'[Len(log) + 1] = p
  <2> HIDE DEF p
  <2> QED BY <1>1, <1>3, EsLogGrows
<1>9. /\ Matches(E!LogEvents, log, Logged, applied)
      /\ Cardinality(E!LogGaps) + GapWaits = gaps
      /\ Cardinality(E!BookGaps) + Break <= gaps
  BY <1>0 DEF EsReplay
<1>10. CASE step.event = 0
  <2>1. ~Pushed /\ GapWaits = 1
    BY <1>1, <1>10 DEF Pushed, GapWaits
  <2>2. E!LogEvents' = E!LogEvents /\ E!LogGaps' = E!LogGaps \cup {m}
    BY <1>8, <1>10
  <2>3. Matches(E!LogEvents', log', Logged', applied')
    <3>1. Logged = E!BookEvents /\ \A i \in E!LogEvents : log'[i] = log[i]
      BY <2>1, <1>0, <1>8 DEF Logged
    <3>2. Matches(E!LogEvents, log', E!BookEvents, applied)
      BY <1>9, <3>1 DEF Matches
    <3> QED BY <1>1, <1>6, <2>2, <3>2
  <2>4. Cardinality(E!LogGaps') = Cardinality(E!LogGaps) + 1
    <3>1. m \notin E!LogGaps
      BY <1>0
    <3> QED BY <1>0, <2>2, <3>1, FS_AddElement
  <2> QED BY <1>0, <1>1, <1>5, <1>6, <1>7, <1>9, <2>1, <2>3, <2>4 DEF EsReplay
<1>11. CASE step.event # 0
  <2>1. Pushed /\ GapWaits = 0 /\ Len(applied) > 0 /\ applied[n] = step.event
    BY <1>0, <1>1, <1>11 DEF Pushed, GapWaits, EsReplay
  <2>2. /\ E!LogEvents' = E!LogEvents \cup {m} /\ E!LogGaps' = E!LogGaps
        /\ log'[m].event = applied[n]
    BY <1>8, <1>11, <2>1
  <2>3. n \in E!BookEvents /\ Logged = E!BookEvents \ {n} /\ E!BookEvents = Logged \cup {n}
    <3>1. n \in E!BookEvents
      BY <1>0, <1>11, <2>1 DEF E!BookEvents
    <3>2. Logged = E!BookEvents \ {n}
      BY <2>1 DEF Logged
    <3> QED BY <3>1, <3>2
  <2>4. Matches(E!LogEvents \cup {m}, log', Logged \cup {n}, applied)
    <3>1. /\ E!LogEvents \in SUBSET Int /\ \A i \in E!LogEvents : i < m /\ log'[i] = log[i]
          /\ m \in Int /\ n \in Int
      BY <1>0, <1>8
    <3>2. Logged \in SUBSET Int /\ IsFiniteSet(Logged) /\ \A k \in Logged : k < n
      <4>1. \A k \in Logged : k \in 1 .. n /\ k # n
        BY <1>0, <2>3
      <4>2. IsFiniteSet(Logged)
        BY <1>0, <2>3, FS_Subset
      <4> QED BY <1>0, <4>1, <4>2
    <3> HIDE DEF m, n
    <3> QED BY <1>0, <1>9, <2>2, <3>1, <3>2, MatchesGrow
  <2>5. Matches(E!LogEvents', log', Logged', applied')
    BY <1>1, <1>6, <2>2, <2>3, <2>4
  <2>6. Cardinality(E!LogGaps') + GapWaits' = gaps' /\ Cardinality(E!BookGaps') + Break' <= gaps'
    BY <1>0, <1>1, <1>5, <1>6, <1>7, <1>9, <2>1, <2>2
  <2> QED BY <1>5, <2>5, <2>6 DEF EsReplay
<1> QED BY <1>10, <1>11

\* Every step keeps the log and the book in step.
LEMMA EsBookStep ==
    ASSUME E!StoreTypeOK, E!StoreTypeOK', EsBook, E!StoreNext
    PROVE  EsBook'
<1>0. EsFlags /\ EsData /\ EsSwitch /\ EsFeed /\ EsReplay
  BY EsTypes DEF EsBook
<1>a. EsSwitch' /\ EsFeed'
  <2>1. EsSwitch'
    BY <1>0, EsSwitchStep DEF EsData
  <2>2. EsFeed'
    BY <1>0, EsFeedStep
  <2> QED BY <2>1, <2>2
<1> SUFFICES EsReplay'
  BY <1>a DEF EsBook
<1>1. ASSUME NEW n \in 1 .. MaxEvent, E!Process(n) PROVE EsReplay'
  BY <1>1, EsReplayProcess
<1>2. CASE E!PushEvent
  BY <1>2, EsReplayPush
<1>3. CASE E!WriteHeader
  BY <1>3, EsReplayHeader
<1>4. CASE E!WriteData
  <2> DEFINE p == [part |-> "data", event |-> step.event]
  <2>1. /\ UNCHANGED <<base, applied, gaps, expected, apart>> /\ step.at = "data"
        /\ step'.at = "count" /\ p \in Piece /\ log' = Append(log, p)
    BY <1>0, <1>4 DEF E!WriteData, E!rest, EsData, Piece
  <2>2. E!LogEvents' = E!LogEvents /\ E!LogGaps' = E!LogGaps
          /\ \A i \in 1 .. Len(log) : log'[i] = log[i]
    <3>1. p.part = "data"
      OBVIOUS
    <3> HIDE DEF p
    <3> QED BY <2>1, <3>1, EsLogGrows
  <2>3. \A i \in E!LogEvents : log'[i] = log[i]
    BY <2>2, EsSets
  <2>4. ~Pushed /\ ~Pushed' /\ GapWaits = 0 /\ GapWaits' = 0 /\ Due' = Due
    BY <2>1 DEF Pushed, GapWaits, Due
  <2>5. E!BookEvents' = E!BookEvents /\ E!BookGaps' = E!BookGaps /\ Break' = Break
    BY <2>1, <2>4 DEF E!BookEvents, E!BookGaps, Break
  <2>6. Logged' = Logged
    BY <2>4, <2>5 DEF Logged
  <2> HIDE DEF p
  <2> SUFFICES ASSUME ~apart PROVE EsReplay'
    BY <2>1 DEF EsReplay
  <2>7. Matches(E!LogEvents, log', Logged, applied)
    BY <1>0, <2>3 DEF EsReplay, Matches
  <2>8. Matches(E!LogEvents', log', Logged', applied')
    BY <2>1, <2>2, <2>6, <2>7
  <2> QED BY <1>0, <2>1, <2>2, <2>4, <2>5, <2>8 DEF EsReplay
<1>5. CASE E!WriteFails
  <2>1. apart' = TRUE
    BY <1>5 DEF E!WriteFails
  <2> QED BY <2>1 DEF EsReplay
<1>6. CASE E!CountPending \/ E!AppendSync \/ E!AppendClear
  <2>1. /\ UNCHANGED <<log, base, applied, gaps, expected, apart>>
        /\ step.at \notin {"push", "head"} /\ step'.at \notin {"push", "head"}
    BY <1>0, <1>6 DEF E!CountPending, E!AppendSync, E!AppendClear, E!rest, E!Idle, EsData
  <2> QED BY <1>0, <2>1, EsReplayFrame
<1>7. CASE E!Sync \/ E!SyncClear \/ E!SetActive \/ E!SetActiveBook \/ E!SetActiveWal
  <2>1. UNCHANGED <<log, base, applied, gaps, expected, step>>
    BY <1>7 DEF E!Sync, E!SyncClear, E!SetActive, E!SetActiveBook, E!SetActiveWal, E!rest,
       E!walState
  <2>2. ~apart' => ~apart
    BY <1>7, Zenon DEF E!Sync, E!SyncClear, E!SetActive, E!SetActiveBook, E!SetActiveWal
  <2> QED BY <1>0, <2>1, <2>2, EsReplayFrame
<1>8. CASE E!Reset \/ E!CrashRestart
  <2>1. (base = Len(log))' /\ (applied = <<>>)' /\ (gaps = 0)' /\ (step = E!Idle)'
    BY <1>8 DEF E!Reset, E!CrashRestart, E!walState, E!Idle
  <2>2. (log \in Seq(Piece))'
    BY EsSets, PTL
  <2> QED BY <2>1, <2>2, EsReplayEmpty, PTL
<1> QED BY <1>1, <1>2, <1>3, <1>4, <1>5, <1>6, <1>7, <1>8 DEF E!StoreNext

\* process_event(), sync(), set_active(), reset() and a crash keep what was
\* synced, count what was not, and log what the book is built from.
LEMMA EsInvStep == EsInv /\ E!StoreNext => EsInv'
<1> SUFFICES ASSUME EsInv, E!StoreNext PROVE EsInv'
  OBVIOUS
<1>0. E!StoreTypeOK /\ EsPlaces /\ EsDurable /\ EsRisk /\ EsBook /\ EsFlags /\ EsData
  BY EsTypes DEF EsInv
<1>a. E!StoreTypeOK' /\ EsPlaces'
  <2>1. EsFlags'
    BY <1>0, EsFlagsStep DEF EsData
  <2>2. EsData' /\ EsPlaces'
    BY <1>0, EsDataStep
  <2>3. E!StoreTypeOK'
    BY <2>1, <2>2, EsTypes, PTL
  <2> QED BY <2>2, <2>3
<1>b. /\ log \in Seq(Piece) /\ Len(log) \in Nat /\ counted \in Nat /\ durable \in Nat
      /\ Cardinality(Kept) \in Nat /\ Cardinality(AtRisk) \in Nat
      /\ step \in [at : {"idle", "push", "head", "data", "count", "sync", "clear"},
                   event : 0 .. MaxEvent]
  BY <1>0, EsFinite, EsConstants DEF EsData
<1>c. (Cardinality(Kept) \in Nat)' /\ (Cardinality(AtRisk) \in Nat)'
  BY <1>a, EsFinite, PTL
<1>d. EsBook'
  BY <1>0, <1>a, EsBookStep
<1> SUFFICES EsDurable' /\ EsRisk'
  BY <1>a, <1>d DEF EsInv
<1> USE DEF E!Idle
<1>1. CASE \/ \E n \in 1 .. MaxEvent : E!Process(n)
           \/ E!PushEvent \/ E!SetActive \/ E!SetActiveBook \/ E!SetActiveWal \/ E!Reset
  <2>1. UNCHANGED <<log, synced, durable, wiped, counted>>
    BY <1>1 DEF E!Process, E!PushEvent, E!SetActive, E!SetActiveBook, E!SetActiveWal,
       E!Reset, E!walState
  <2>2. step.at = "count" <=> step'.at = "count"
    BY <1>1, <1>b DEF E!Process, E!PushEvent, E!SetActive, E!SetActiveBook, E!SetActiveWal,
       E!Reset
  <2> QED BY <2>1, <2>2, <1>0, EsSame
<1>2. CASE E!WriteHeader
  <2>1. UNCHANGED <<synced, durable, wiped, counted>> /\ step.at = "head"
    BY <1>2 DEF E!WriteHeader
  <2>2. CASE ~wal_on
    <3>1. log' = log /\ step'.at = "idle"
      BY <1>2, <2>2 DEF E!WriteHeader
    <3> QED BY <1>0, <2>1, <3>1, EsSame
  <2>3. CASE wal_on
    <3> DEFINE p == [part |-> "head", event |-> step.event]
    <3>1. p \in Piece /\ log' = Append(log, p)
      BY <1>2, <1>b, <2>3 DEF E!WriteHeader, Piece
    <3>2. step'.at = IF step.event = 0 THEN "count" ELSE "data"
      BY <1>2, <1>b, <2>3 DEF E!WriteHeader
    <3>3. /\ EsDurable' /\ Cardinality(AtRisk') <= Cardinality(AtRisk) + 1
          /\ p.part = "torn" \/ (p.part = "head" /\ p.event # 0)
                => Cardinality(AtRisk') <= Cardinality(AtRisk)
      <4> HIDE DEF p
      <4> QED BY <1>a, <2>1, <3>1, EsGrowth
    <3>4. EsRisk'
      BY <1>0, <1>b, <1>c, <2>1, <3>2, <3>3 DEF EsRisk
    <3> QED BY <3>3, <3>4
  <2> QED BY <2>2, <2>3
<1>3. CASE E!WriteData
  <2> DEFINE p == [part |-> "data", event |-> step.event]
  <2>1. UNCHANGED <<synced, durable, wiped, counted>> /\ step.at = "data" /\ step'.at = "count"
    BY <1>3, <1>b DEF E!WriteData
  <2>2. p \in Piece /\ log' = Append(log, p)
    BY <1>3, <1>b DEF E!WriteData, Piece
  <2>3. EsDurable' /\ Cardinality(AtRisk') <= Cardinality(AtRisk) + 1
    <3> HIDE DEF p
    <3> QED BY <1>a, <2>1, <2>2, EsGrowth
  <2>4. EsRisk'
    BY <1>0, <1>b, <1>c, <2>1, <2>3 DEF EsRisk
  <2> QED BY <2>3, <2>4
<1>4. CASE E!WriteFails
  <2> DEFINE p == [part |-> "torn", event |-> step.event]
  <2>1. /\ UNCHANGED <<synced, durable, wiped, counted>>
        /\ step.at \in {"data", "head"} /\ step'.at = "idle"
    BY <1>4 DEF E!WriteFails
  <2>2. p \in Piece /\ p.part = "torn" /\ log' \in {log, Append(log, p)}
    BY <1>4, <1>b DEF E!WriteFails, Piece
  <2>3. CASE log' = log
    BY <1>0, <2>1, <2>3, EsSame
  <2>4. CASE log' = Append(log, p)
    <3>1. EsDurable' /\ Cardinality(AtRisk') <= Cardinality(AtRisk)
      <4> HIDE DEF p
      <4> QED BY <1>a, <2>1, <2>2, <2>4, EsGrowth
    <3>2. EsRisk'
      BY <1>0, <1>b, <1>c, <2>1, <3>1 DEF EsRisk
    <3> QED BY <3>1, <3>2
  <2> QED BY <2>2, <2>3, <2>4
<1>5. CASE E!CountPending
  <2>1. /\ UNCHANGED <<log, synced, durable, wiped>> /\ step.at = "count"
        /\ counted' = counted + 1
    BY <1>5 DEF E!CountPending
  <2>2. step'.at # "count"
    BY <1>5, <1>b DEF E!CountPending
  <2>3. EsDurable'
    BY <1>0, <2>1, EsSame
  <2>4. AtRisk' = AtRisk
    BY <2>1 DEF AtRisk, EndOf, E!Readable, E!Bad
  <2> QED BY <1>0, <1>b, <2>1, <2>2, <2>3, <2>4 DEF EsRisk
<1>6. CASE E!AppendSync \/ E!Sync
  <2>1. /\ log' = log /\ synced' = Len(log) /\ counted' = counted
        /\ durable' = durable \/ durable' = Cardinality(E!Readable)
    BY <1>6, EsSync DEF E!AppendSync, E!Sync, E!SyncData
  <2>2. (synced = Len(log))'
    BY <2>1
  <2>3. (AtRisk = {})' /\ (Kept = E!Readable)'
    BY <1>a, <2>2, EsSynced, PTL
  <2>4. E!Readable' = E!Readable
    BY <2>1 DEF E!Readable, E!Bad
  <2>5. Cardinality(Kept) <= Cardinality(E!Readable)
    BY <1>0, EsFinite, FS_Subset DEF Kept
  <2>6. Cardinality(AtRisk') = 0
    BY <2>3, FS_EmptySet
  <2>7. EsDurable'
    BY <1>0, <1>b, <1>c, <2>1, <2>3, <2>4, <2>5 DEF EsDurable
  <2> QED BY <1>b, <2>1, <2>6, <2>7 DEF EsRisk
<1>7. CASE E!AppendClear \/ E!SyncClear
  <2>1. /\ UNCHANGED <<log, synced, durable>> /\ counted' = 0
    BY <1>7 DEF E!AppendClear, E!SyncClear, E!ClearPending
  <2>2. EsDurable'
    BY <1>0, <2>1, EsSame
  <2>3. AtRisk' = AtRisk
    BY <2>1 DEF AtRisk, EndOf, E!Readable, E!Bad
  <2>4. ~wiped' => Cardinality(AtRisk) = 0
    <3>1. ~wiped' => ~(synced < Len(log))
      BY <1>7, Zenon DEF E!AppendClear, E!SyncClear, E!ClearPending
    <3>2. ~wiped' => synced = Len(log)
      BY <3>1, <1>0, <1>b DEF EsData
    <3> QED BY <3>2, <1>0, EsSynced, FS_EmptySet
  <2> QED BY <1>b, <2>1, <2>2, <2>3, <2>4 DEF EsRisk
<1>8. CASE E!CrashRestart
  <2>1. (synced = Len(log))' /\ durable' = durable /\ counted' = 0
    BY <1>8 DEF E!CrashRestart
  <2>2. (AtRisk = {})' /\ (Kept = E!Readable)'
    BY <1>a, <2>1, EsSynced, PTL
  <2>3. Kept \subseteq Kept'
    BY <1>0, <1>8, <2>2, EsCrashKeeps
  <2>4. Cardinality(Kept) <= Cardinality(Kept')
    <3>1. IsFiniteSet(Kept)'
      BY <1>a, EsFinite, PTL
    <3> QED BY <2>3, <3>1, FS_Subset
  <2>5. Cardinality(AtRisk') = 0
    BY <2>2, FS_EmptySet
  <2> QED BY <1>0, <1>b, <1>c, <2>1, <2>4, <2>5 DEF EsDurable, EsRisk
<1> QED BY <1>1, <1>2, <1>3, <1>4, <1>5, <1>6, <1>7, <1>8 DEF E!StoreNext

\* The store as new() makes it.
LEMMA EsInvInit == E!StoreInit => EsInv
<1> SUFFICES ASSUME E!StoreInit PROVE EsInv
  OBVIOUS
<1> USE DEF E!StoreInit, E!Idle, E!Quiescent
<1>1. E!StoreTypeOK
  <2>1. EsFlags
    BY DEF EsFlags
  <2>2. EsData
    BY EsConstants DEF EsData
  <2> QED BY <2>1, <2>2, EsTypes
<1>2. EsPlaces
  BY EsConstants DEF EsPlaces
<1>3. Cardinality(Kept) \in Nat /\ AtRisk = {}
  BY <1>1, EsFinite, EsSynced
<1>4. EsDurable
  BY <1>3 DEF EsDurable
<1>5. EsRisk
  BY <1>3, FS_EmptySet DEF EsRisk
<1>6. EsReplay
  <2>1. log \in Seq(Piece) /\ base = Len(log)
    OBVIOUS
  <2> QED BY <2>1, EsReplayEmpty
<1>7. EsSwitch /\ EsFeed
  BY DEF EsSwitch, EsFeed, Pushed
<1> QED BY <1>1, <1>2, <1>4, <1>5, <1>6, <1>7 DEF EsInv, EsBook

\* What it says of the log and of the book.
LEMMA EsInvGoals ==
    EsInv => E!StoreTypeOK /\ E!SyncedReadable /\ E!LossBound /\ E!ReplayFaithful
<1> SUFFICES ASSUME EsInv PROVE E!SyncedReadable /\ E!LossBound /\ E!ReplayFaithful
  BY DEF EsInv
<1>0. E!StoreTypeOK /\ EsPlaces /\ EsDurable /\ EsRisk /\ EsReplay
  BY DEF EsInv, EsBook
<1>1. /\ IsFiniteSet(E!Readable) /\ Cardinality(E!Readable) \in Nat
      /\ Cardinality(Kept) \in Nat /\ Cardinality(AtRisk) \in Nat
  BY <1>0, EsFinite
<1>2. durable \in Nat /\ counted \in 0 .. SyncInterval
  BY <1>0 DEF E!StoreTypeOK
<1>3. E!SyncedReadable
  <2>1. Cardinality(Kept) <= Cardinality(E!Readable)
    BY <1>1, FS_Subset DEF Kept
  <2>2. Cardinality(E!Readable) >= durable
    BY <1>0, <1>1, <1>2, <2>1 DEF EsDurable
  <2> QED BY <2>2, SameCardinality DEF E!SyncedReadable
<1>4. E!LossBound
  <2> SUFFICES ASSUME step = E!Idle, ~wiped PROVE Cardinality(AtRisk) < SyncInterval
    BY <1>0, EsKept, SameCardinality DEF E!LossBound
  <2>1. step.at = "idle"
    BY DEF E!Idle
  <2> QED BY <1>0, <1>1, <1>2, <2>1, EsConstants DEF EsRisk, EsPlaces
<1>5. E!ReplayFaithful
  <2> SUFFICES ASSUME step = E!Idle, ~apart
               PROVE  /\ Matches(E!LogEvents, log, E!BookEvents, applied)
                      /\ Cardinality(E!BookGaps) <= Cardinality(E!LogGaps)
                      /\ Cardinality(E!LogGaps) = gaps
    BY SameCardinality DEF E!ReplayFaithful, E!Rank, Matches, Place
  <2>1. ~Pushed /\ GapWaits = 0
    BY DEF Pushed, GapWaits, E!Idle
  <2>2. Logged = E!BookEvents /\ Break \in {0, 1}
    BY <2>1 DEF Logged, Break
  <2>3. /\ Cardinality(E!LogGaps) \in Nat /\ Cardinality(E!BookGaps) \in Nat /\ gaps \in Nat
    BY <1>0, EsSets DEF E!StoreTypeOK
  <2>4. /\ Matches(E!LogEvents, log, E!BookEvents, applied)
        /\ Cardinality(E!LogGaps) + 0 = gaps /\ Cardinality(E!BookGaps) + Break <= gaps
    BY <1>0, <2>1, <2>2 DEF EsReplay
  <2> QED BY <2>2, <2>3, <2>4
<1> QED BY <1>3, <1>4, <1>5

-----------------------------------------------------------------------------
(* The write-ahead log implements DurableLog.                               *)

\* An append that makes an entry readable records it; any other is not seen.
LEMMA EsRecords ==
    ASSUME E!StoreTypeOK, E!StoreTypeOK', NEW p \in Piece, log' = Append(log, p),
           synced' = synced
    PROVE  D!Record \/ UNCHANGED <<E!Content, E!Secured>>
<1>1. /\ E!Readable \subseteq E!Readable'
      /\ \A i \in E!Readable : EndOf(i)' = EndOf(i)
      /\ \A i \in E!Readable' : i \notin E!Readable =>
            IF p.part = "data" THEN i = Len(log)
            ELSE i = Len(log) + 1 /\ p.part = "head" /\ p.event = 0
  BY EsAppend
<1>2. /\ log \in Seq(Piece) /\ Len(log) \in Nat /\ synced \in 0 .. Len(log)
      /\ log' \in Seq(Piece) /\ Len(log') = Len(log) + 1
      /\ \A i \in 1 .. Len(log) : log'[i] = log[i]
      /\ E!Readable \in SUBSET (1 .. Len(log))
  <2>1. log \in Seq(Piece) /\ Len(log) \in Nat /\ synced \in 0 .. Len(log)
    BY DEF E!StoreTypeOK, Piece
  <2>2. E!Readable \in SUBSET (1 .. Len(log))
    BY <2>1 DEF E!Readable
  <2> QED BY <2>1, <2>2, AppendProperties
<1>3. \A i \in E!Readable : log'[i] = log[i]
  BY <1>2
<1>4. ASSUME NEW i \in E!Readable', i \notin E!Readable
      PROVE  /\ ~(EndOf(i)' <= synced') /\ \A q \in E!Readable : q < i
             /\ i \in {Len(log), Len(log) + 1}
  <2>1. i \in {Len(log), Len(log) + 1}
    BY <1>1, <1>4
  <2>2. \A q \in E!Readable : q < i
    BY <1>2, <1>4, <2>1
  <2>3. log'[i] \in Piece /\ log'[i].part = "head" /\ ~E!Bad(i)' /\ i \in 1 .. Len(log')
    BY <1>2, <1>4 DEF E!Readable
  <2>4. i = Len(log) => log'[i].event # 0
    <3> SUFFICES ASSUME i = Len(log), log'[i].event = 0 PROVE FALSE
      OBVIOUS
    <3>1. p.part = "data"
      BY <1>1, <1>2, <1>4
    <3>2. E!Bad(i)
      <4>1. log[i] = log'[i] /\ i \in 1 .. Len(log)
        BY <1>2, <2>3
      <4>2. PICK j \in 1 .. i : E!Bad(j)
        BY <1>2, <1>4, <2>3, <4>1 DEF E!Readable
      <4>3. j < i => E!Bad(j)'
        BY <1>2, <4>1, <4>2 DEF E!Bad, Piece
      <4>4. \A k \in 1 .. i : ~E!Bad(k)'
        BY <1>4 DEF E!Readable
      <4> QED BY <1>2, <4>1, <4>2, <4>3, <4>4
    <3>3. log[i] = log'[i]
      BY <1>2, <2>3
    <3> QED BY <1>2, <2>3, <3>2, <3>3 DEF E!Bad, Piece
  <2>5. EndOf(i)' = Len(log) + 1 \/ EndOf(i)' = Len(log) + 2
    <3>1. EndOf(i)' = IF log'[i].event = 0 THEN i + 0 ELSE i + 1
      BY DEF EndOf
    <3>2. CASE log'[i].event = 0
      <4>1. i = Len(log) + 1
        BY <2>1, <2>4, <3>2
      <4> QED BY <1>2, <3>1, <3>2, <4>1
    <3>3. CASE log'[i].event # 0
      <4>1. EndOf(i)' = i + 1
        BY <3>1, <3>3
      <4>2. Len(log) \in Nat
        BY <1>2
      <4> QED BY <2>1, <4>1, <4>2
    <3> QED BY <3>2, <3>3
  <2> QED BY <1>2, <2>1, <2>2, <2>5
<1>5. E!Secured' = E!Secured
  <2>1. (E!Secured = Kept)' /\ E!Secured = Kept
    <3>1. E!Secured = Kept
      BY EsKept
    <3>2. (E!Secured = Kept)'
      BY EsKept, PTL
    <3> QED BY <3>1, <3>2
  <2>2. Kept' = Kept
    BY <1>1, <1>4 DEF Kept
  <2> QED BY <2>1, <2>2
<1>6. CASE E!Readable' = E!Readable
  BY <1>3, <1>5, <1>6 DEF E!Content
<1>7. CASE E!Readable' # E!Readable
  <2>1. PICK i \in E!Readable' : i \notin E!Readable
    BY <1>1, <1>7
  <2>2. E!Readable' = E!Readable \cup {i}
    <3>1. ASSUME NEW k \in E!Readable', k \notin E!Readable PROVE k = i
      BY <1>1, <2>1, <3>1
    <3> QED BY <1>1, <2>1, <3>1
  <2>3. DOMAIN E!Content = E!Readable /\ DOMAIN E!Content' = E!Readable'
    BY DEF E!Content
  <2>4. ASSUME NEW q \in E!Readable PROVE q < i /\ E!Content'[q] = E!Content[q]
    BY <1>1, <1>3, <1>4, <2>1, <2>4 DEF E!Content
  <2> QED BY <1>5, <2>1, <2>2, <2>3, <2>4 DEF D!Record, D!Places
<1> QED BY <1>6, <1>7

\* A crash keeps a beginning of what could be read, all that was synced with it.
LEMMA EsCrashes ==
    ASSUME E!StoreTypeOK, E!StoreTypeOK', E!CrashRestart
    PROVE  D!Crash
<1>0. /\ log \in Seq(Piece) /\ Len(log) \in Nat /\ synced \in 0 .. Len(log)
  BY DEF E!StoreTypeOK, Piece
<1>1. PICK n \in synced .. Len(log) :
        /\ log' \in Seq(Piece) /\ Len(log') \in {n, n + 1}
        /\ \A i \in 1 .. n : log'[i] = log[i]
        /\ Len(log') = n + 1 => log'[n + 1].part = "torn"
  BY EsCrashLog
<1>2. ASSUME NEW i \in E!Readable'
      PROVE  i \in 1 .. n /\ log'[i] = log[i] /\ i \in E!Readable
  <2>1. i \in 1 .. Len(log') /\ log'[i].part = "head" /\ \A j \in 1 .. i : ~E!Bad(j)'
    BY <1>1, <1>2 DEF E!Readable
  <2>2. i \in 1 .. n /\ log'[i] = log[i]
    BY <1>0, <1>1, <2>1
  <2>3. ASSUME NEW j \in 1 .. i, E!Bad(j) PROVE FALSE
    <3>1. j \in 1 .. n /\ log'[j] = log[j] /\ ~E!Bad(j)'
      BY <1>0, <1>1, <2>1, <2>2
    <3>2. j # 1 => log'[j - 1] = log[j - 1]
      BY <1>0, <1>1, <3>1
    <3>3. log[j].part = "head" /\ log[j].event # 0 =>
              j + 1 \in 1 .. n /\ log'[j + 1] = log[j + 1]
      <4> SUFFICES ASSUME log[j].part = "head", log[j].event # 0
                   PROVE  j + 1 \in 1 .. n /\ log'[j + 1] = log[j + 1]
        OBVIOUS
      <4>1. j < Len(log') /\ log'[j + 1].part = "data"
        BY <3>1 DEF E!Bad
      <4> QED BY <1>0, <1>1, <3>1, <4>1
    <3> QED BY <1>0, <1>1, <2>3, <3>1, <3>2, <3>3 DEF E!Bad
  <2> QED BY <1>0, <2>1, <2>2, <2>3 DEF E!Readable
<1>3. ASSUME NEW i \in E!Readable', NEW q \in E!Readable, q < i
      PROVE  q \in E!Readable'
  <2>1. i \in 1 .. n /\ \A j \in 1 .. i : ~E!Bad(j)'
    BY <1>2, <1>3 DEF E!Readable
  <2>2. q \in 1 .. i /\ log[q].part = "head"
    BY <1>0, <1>3, <2>1 DEF E!Readable
  <2>3. q \in DOMAIN log' /\ log'[q].part = "head"
    BY <1>0, <1>1, <2>1, <2>2
  <2> QED BY <1>0, <2>1, <2>2, <2>3 DEF E!Readable
<1>4. E!Secured \subseteq E!Readable'
  BY EsKept, EsCrashKeeps
<1>5. E!Secured' = E!Readable'
  <2>1. (synced = Len(log))'
    BY DEF E!CrashRestart
  <2>2. (Kept = E!Readable)'
    BY <2>1, EsSynced, PTL
  <2>3. (E!Secured = Kept)'
    BY EsKept, PTL
  <2> QED BY <2>2, <2>3
<1>6. DOMAIN E!Content = E!Readable
  BY DEF E!Content
<1>7. E!Content' = [i \in E!Readable' |-> E!Content[i]]
  BY <1>2 DEF E!Content
<1>8. E!Readable' \in SUBSET D!Places
  BY <1>2, <1>6 DEF D!Places
<1>9. \A i \in E!Readable', q \in D!Places : q < i => q \in E!Readable'
  BY <1>3, <1>6 DEF D!Places
<1> QED BY <1>4, <1>5, <1>7, <1>8, <1>9 DEF D!Crash

\* Every step of the store is a step of the durable log, or not seen there.
LEMMA EsLogStep ==
    ASSUME E!StoreTypeOK, E!StoreTypeOK', E!StoreNext \/ UNCHANGED evars
    PROVE  D!LogNext \/ UNCHANGED <<E!Content, E!Secured>>
<1>0. step \in [at : {"idle", "push", "head", "data", "count", "sync", "clear"},
                event : 0 .. MaxEvent]
  BY DEF E!StoreTypeOK
<1>1. CASE UNCHANGED <<log, synced>>
  <2>1. E!Readable' = E!Readable
    BY <1>1 DEF E!Readable, E!Bad
  <2> QED BY <1>1, <2>1 DEF E!Content, E!Secured
<1>2. ASSUME NEW p \in Piece, log' = Append(log, p), synced' = synced
      PROVE  D!LogNext \/ UNCHANGED <<E!Content, E!Secured>>
  BY <1>2, EsRecords DEF D!LogNext
<1>3. CASE E!WriteHeader
  <2>1. synced' = synced
    BY <1>3 DEF E!WriteHeader
  <2>2. CASE wal_on
    <3> DEFINE p == [part |-> "head", event |-> step.event]
    <3>1. p \in Piece /\ log' = Append(log, p)
      BY <1>0, <1>3, <2>2 DEF E!WriteHeader, Piece
    <3> HIDE DEF p
    <3> QED BY <1>2, <2>1, <3>1
  <2>3. CASE ~wal_on
    BY <1>1, <1>3, <2>1, <2>3 DEF E!WriteHeader
  <2> QED BY <2>2, <2>3
<1>4. CASE E!WriteData
  <2> DEFINE p == [part |-> "data", event |-> step.event]
  <2>1. p \in Piece /\ log' = Append(log, p) /\ synced' = synced
    BY <1>0, <1>4 DEF E!WriteData, Piece
  <2> HIDE DEF p
  <2> QED BY <1>2, <2>1
<1>5. CASE E!WriteFails
  <2> DEFINE p == [part |-> "torn", event |-> step.event]
  <2>1. p \in Piece /\ log' \in {log, Append(log, p)} /\ synced' = synced
    BY <1>0, <1>5 DEF E!WriteFails, Piece
  <2> HIDE DEF p
  <2> QED BY <1>1, <1>2, <2>1
<1>6. CASE E!AppendSync \/ E!Sync
  <2>1. log' = log /\ synced' = Len(log)
    BY <1>6 DEF E!AppendSync, E!Sync, E!SyncData
  <2>2. (synced = Len(log))'
    BY <2>1
  <2>3. (Kept = E!Readable)'
    BY <2>2, EsSynced, PTL
  <2>4. (E!Secured = Kept)'
    BY EsKept, PTL
  <2>5. E!Readable' = E!Readable
    BY <2>1 DEF E!Readable, E!Bad
  <2>6. E!Content' = E!Content /\ DOMAIN E!Content = E!Readable
    BY <2>1, <2>5 DEF E!Content
  <2> QED BY <2>3, <2>4, <2>5, <2>6 DEF D!LogNext, D!Secure, D!Places
<1>7. CASE E!CrashRestart
  BY <1>7, EsCrashes DEF D!LogNext
<1>8. CASE \/ \E n \in 1 .. MaxEvent : E!Process(n)
           \/ E!PushEvent \/ E!CountPending \/ E!AppendClear \/ E!SyncClear
           \/ E!SetActive \/ E!SetActiveBook \/ E!SetActiveWal \/ E!Reset
  <2>1. UNCHANGED <<log, synced>>
    BY <1>8 DEF E!Process, E!PushEvent, E!CountPending, E!AppendClear, E!SyncClear,
       E!ClearPending, E!SetActive, E!SetActiveBook, E!SetActiveWal, E!Reset, E!walState
  <2> QED BY <1>1, <2>1
<1>9. CASE UNCHANGED evars
  BY <1>1, <1>9 DEF evars
<1> QED BY <1>3, <1>4, <1>5, <1>6, <1>7, <1>8, <1>9 DEF E!StoreNext

-----------------------------------------------------------------------------
(* The services together: a step is one of the subject's, and the others'   *)
(* variables stay.                                                          *)

ServicesInv == FixInv /\ GsInv /\ LcInv /\ GwInv /\ PoolInv /\ FoInv /\ EsInv

LEMMA ServicesInit == MCInit => ServicesInv
BY FixInvInit, GsInvInit, LcInvInit, GwInvInit, PoolInvInit, FoInvInit, EsInvInit
  DEF MCInit, ServicesInv

\* An invariant reads its own service's variables only.
LEMMA FixFrame == FixInv /\ UNCHANGED xvars => FixInv'
BY DEF xvars, FixInv, X!FixTypeOK, FixPlace, FixLast, X!NoLoss, X!ResendRange

LEMMA GsFrame == GsInv /\ UNCHANGED gvars => GsInv'
BY DEF gvars, GsInv, G!GsTypeOK, GsEarly, GsPending, GsOrder, GsAt, G!Executing, Alone, Under

LEMMA LcFrame == LcInv /\ UNCHANGED lvars => LcInv'
<1> SUFFICES ASSUME LcInv, UNCHANGED lvars PROVE LcInv'
  OBVIOUS
<1> USE DEF lvars, LcInv
<1>1. L!LcTypeOK'
  BY DEF L!LcTypeOK
<1>2. LcKill' /\ LcAuthorised'
  BY DEF LcKill, LcAuthorised
<1>3. LcMonitor'
  BY DEF LcMonitor
<1> QED BY <1>1, <1>2, <1>3

LEMMA GwFrame == GwInv /\ UNCHANGED wvars => GwInv'
BY DEF wvars, GwInv, W!GwTypeOK, GwGhosts, GwRoute, GwClosed, GwPool, W!Stopped

LEMMA PoolFrame == PoolInv /\ UNCHANGED pvars => PoolInv'
<1> SUFFICES ASSUME PoolInv, UNCHANGED pvars PROVE PoolInv'
  OBVIOUS
<1> USE DEF pvars, PoolInv
<1>1. P!PoolTypeOK'
  BY DEF P!PoolTypeOK
<1>2. PoolPlaces' /\ PoolJoined'
  BY DEF PoolPlaces, PoolJoined
<1>3. PoolKept'
  BY DEF PoolKept, P!RunningOf
<1>4. PoolOvertaken'
  BY DEF PoolOvertaken, Past
<1> QED BY <1>1, <1>2, <1>3, <1>4

LEMMA FoFrame == FoInv /\ UNCHANGED fvars => FoInv'
<1> SUFFICES ASSUME FoInv, UNCHANGED fvars PROVE FoInv'
  OBVIOUS
<1> USE DEF fvars, FoInv
<1>1. F!TypeOK'
  BY DEF F!TypeOK
<1>2. FoFiles'
  BY DEF FoFiles, F!At, F!LastCompleteKept, F!HeaderChecksum
<1>3. FoPlaces'
  BY DEF FoPlaces, FoPlace, F!Free
<1>4. FoPair'
  BY DEF FoPair, F!Free, Claims, Shown
<1> QED BY <1>1, <1>2, <1>3, <1>4

LEMMA EsFrame == EsInv /\ UNCHANGED evars => EsInv'
<1> SUFFICES ASSUME EsInv, UNCHANGED evars PROVE EsInv'
  OBVIOUS
<1> USE DEF evars, EsInv
<1>1. E!StoreTypeOK' /\ EsPlaces'
  BY DEF E!StoreTypeOK, EsPlaces
<1>2. EsDurable' /\ EsRisk'
  BY EsSame
<1>3. EsSwitch' /\ EsFeed'
  BY DEF EsBook, EsSwitch, EsFeed, Pushed
<1>4. EsReplay'
  BY EsReplayFrame DEF EsBook
<1> QED BY <1>1, <1>2, <1>3, <1>4 DEF EsBook

LEMMA ServicesStep == ServicesInv /\ [MCNext]_mcvars => ServicesInv'
<1> SUFFICES ASSUME ServicesInv, [MCNext]_mcvars PROVE ServicesInv'
  OBVIOUS
<1>1. FixInv'
  <2>1. (X!FixNext \/ UNCHANGED xvars)
    BY DEF MCNext, mcvars
  <2> QED BY <2>1, FixInvStep, FixFrame DEF ServicesInv
<1>2. GsInv'
  <2>1. (G!GsNext \/ UNCHANGED gvars)
    BY DEF MCNext, mcvars
  <2> QED BY <2>1, GsInvStep, GsFrame DEF ServicesInv
<1>3. LcInv'
  <2>1. (L!LcNext \/ UNCHANGED lvars)
    BY DEF MCNext, mcvars
  <2> QED BY <2>1, LcInvStep, LcFrame DEF ServicesInv
<1>4. GwInv'
  <2>1. (W!GwNext \/ UNCHANGED wvars)
    BY DEF MCNext, mcvars
  <2> QED BY <2>1, GwInvStep, GwFrame DEF ServicesInv
<1>5. PoolInv'
  <2>1. (P!PoolNext \/ UNCHANGED pvars)
    BY DEF MCNext, mcvars
  <2> QED BY <2>1, PoolInvStep, PoolFrame DEF ServicesInv
<1>6. FoInv'
  <2>1. (F!Next \/ UNCHANGED fvars)
    BY DEF MCNext, mcvars
  <2> QED BY <2>1, FoInvStep, FoFrame DEF ServicesInv
<1>7. EsInv'
  <2>1. (E!StoreNext \/ UNCHANGED evars)
    BY DEF MCNext, mcvars
  <2> QED BY <2>1, EsInvStep, EsFrame DEF ServicesInv
<1> QED BY <1>1, <1>2, <1>3, <1>4, <1>5, <1>6, <1>7 DEF ServicesInv

THEOREM ServicesInvariant == MCSpec => []ServicesInv
<1>1. MCInit => ServicesInv
  BY ServicesInit
<1>2. ServicesInv /\ [MCNext]_mcvars => ServicesInv'
  BY ServicesStep
<1> QED BY <1>1, <1>2, PTL DEF MCSpec

\* process_message() against disconnects, resets and resend requests: the
\* expected number of the session never passes an unhandled message, and the
\* range of a pending resend covers the gap.
THEOREM FixSafeHolds == MCSpec => []FixSafe
<1>1. ServicesInv => FixSafe
  BY DEF ServicesInv, FixInv, FixSafe
<1> QED BY <1>1, ServicesInvariant, PTL

\* One executor of the graceful shutdown runs every callback in order, for any
\* number of callers of execute_shutdown().
THEOREM ShutdownSafeHolds == MCSpec => []ShutdownSafe
<1>1. ServicesInv => ShutdownSafe
  BY GsInvGoals DEF ServicesInv, ShutdownSafe
<1> QED BY <1>1, ServicesInvariant, PTL

\* activate_kill_switch() takes a ready system down, nothing goes down
\* unauthorised, and shutdown() leaves no monitor that nobody joins, for any
\* number of callers.
THEOREM LifecycleSafeHolds == MCSpec => []LifecycleSafe
<1>1. ServicesInv => LifecycleSafe
  BY LcInvGoals DEF ServicesInv, LifecycleSafe
<1> QED BY <1>1, ServicesInvariant, PTL

\* The connection pool keeps its limit, an order is at two venues only when an
\* answer was lost, and a stopped gateway submits at most what was decided, for
\* any number of venues, routers and clients.
THEOREM GatewaySafeHolds == MCSpec => []GatewaySafe
<1>1. ServicesInv => GatewaySafe
  BY GwInvGoals DEF ServicesInv, GatewaySafe
<1> QED BY <1>1, ServicesInvariant, PTL

\* A queued task is overtaken at most once per worker, and shutdown() leaves no
\* task running or dropped, for any number of workers, tasks and priorities.
THEOREM PoolSafeHolds == MCSpec => []PoolSafe
<1>1. ServicesInv => PoolSafe
  BY PoolInvGoals DEF ServicesInv, PoolSafe
<1> QED BY <1>1, ServicesInvariant, PTL

\* In a pair that beats on time, FailoverManager never has two instances
\* trading at once, unless a standby was promoted blindly; and the last complete
\* snapshot is kept unless both write at the same time, for any limit on the
\* files and the age of a heartbeat, and any sequence of crashes.
THEOREM FailoverSafeHolds == MCSpec => []FailoverSafe
<1>1. ServicesInv => FailoverSafe
  BY FoInvGoals DEF ServicesInv, FailoverSafe
<1> QED BY <1>1, ServicesInvariant, PTL

\* What the write-ahead log held whole when it was synced can be read after any
\* crash, failed write, restart and further appends; between two events fewer
\* whole entries than the sync interval are at risk, unless another thread's
\* sync() cleared the count over what it did not sync; and, unless a set_active()
\* or a failed write came across process_event(), the log holds the events of
\* the book in their order and every break it saw.  For any interval and any
\* number of events, crashes and failed writes.
THEOREM StoreSafeHolds == MCSpec => []StoreSafe
<1>1. ServicesInv => StoreSafe
  BY EsInvGoals DEF ServicesInv, StoreSafe
<1> QED BY <1>1, ServicesInvariant, PTL

\* The write-ahead log of the store implements DurableLog: whatever process_event(),
\* sync(), failed writes and crashes do, a crash takes away only the latest
\* entries a reader would have got, none that was synced, and no entry changes or
\* appears before another.
THEOREM StoreImplementsDurableLog == MCSpec => DurableLogSpec
<1> USE DEF DurableLogSpec
<1>1. MCInit => D!LogInit
  <2> SUFFICES ASSUME log = <<>> PROVE D!LogInit
    BY DEF MCInit, E!StoreInit
  <2>1. E!Readable = {}
    BY DEF E!Readable
  <2>2. DOMAIN E!Content = {} /\ E!Secured = {}
    BY <2>1 DEF E!Content, E!Secured
  <2> QED BY <2>2 DEF D!LogInit, D!Places
<1>2. ServicesInv /\ ServicesInv' /\ [MCNext]_mcvars => [D!LogNext]_(D!logVars)
  <2> SUFFICES ASSUME ServicesInv, ServicesInv', [MCNext]_mcvars
               PROVE  D!LogNext \/ UNCHANGED D!logVars
    OBVIOUS
  <2>1. E!StoreNext \/ UNCHANGED evars
    BY DEF MCNext, mcvars
  <2>2. E!StoreTypeOK /\ E!StoreTypeOK'
    BY DEF ServicesInv, EsInv
  <2> QED BY <2>1, <2>2, EsLogStep DEF D!logVars
<1> QED BY <1>1, <1>2, ServicesInvariant, PTL DEF MCSpec, D!LogSpec
=============================================================================
