------------------------------ MODULE MCRings ------------------------------
(***************************************************************************)
(* The two rings that carry features and events between threads.  A        *)
(* behaviour uses one of them: the shared-memory ring with any producers   *)
(* and consumers ("shm"), the disruptor with its single producer ("spmc"), *)
(* or the publishers of a disruptor with several producers, which its      *)
(* configuration allows ("mpmc"); the other ring stays as it was created.  *)
(***************************************************************************)
EXTENDS ShmRing

CONSTANTS Usages, SingleProducer, Gated, Size, BufferMask, U64, MaxEvents,
          MaxRaceEvents    \* the bound that replaces MaxEvents in "mpmc"

\* What is assumed of the disruptor's configuration: a ring, a count that can
\* tell none from one, and threads that are all different.
ASSUME DisruptorAssumption ==
    /\ Size \in Nat \ {0} /\ U64 \in Nat /\ U64 > 1 /\ MaxEvents \in Nat
    /\ SingleProducer \in Producers /\ "main" \notin Producers \cup Consumers

VARIABLES usage,
    cursor, next_sequence, pending_count, total_published, running,
    sequencer_running, alerted, event, d_pc, d_seq, d_limit, published

\* The consumer Gated took a number from another one when its barrier was
\* built, with add_dependency(1); the others wait for the cursor alone.
Dependencies == [c \in Consumers |-> IF c = Gated THEN {1} ELSE {}]

D == INSTANCE Disruptor WITH pc <- d_pc, seq <- d_seq, limit <- d_limit

dvars == <<cursor, next_sequence, pending_count, total_published, running,
           sequencer_running, alerted, event, d_pc, d_seq, d_limit, published>>

mcvars == <<vars, usage, dvars>>

MCInit == Init /\ D!Init /\ usage \in Usages

Shm(A) == usage = "shm" /\ A /\ UNCHANGED <<usage, dvars>>
Dis(A) == usage # "shm" /\ A /\ UNCHANGED <<usage, vars>>

MCPush(p) == Shm(Push(p))
MCPop(c) == Shm(Pop(c))
MCPublish(p) ==
    /\ usage = "spmc" => p = SingleProducer
    /\ usage = "mpmc" => published[p] < MaxRaceEvents
    /\ Dis(D!Publish(p))
MCConsume(c) == usage = "spmc" /\ Dis(D!Consume(c))

MCNext ==
    \/ \E p \in Producers : MCPush(p) \/ MCPublish(p)
    \/ \E c \in Consumers : MCPop(c) \/ MCConsume(c)
    \/ Shm(close)
    \/ Dis(D!Own)

\* Threads are scheduled, and a weak CAS that could succeed again and again
\* does not fail for ever.
MCFairness ==
    /\ \A p \in Producers : WF_mcvars(MCPush(p)) /\ SF_mcvars(Shm(PushCas(p)))
    /\ \A c \in Consumers :
          WF_mcvars(MCPop(c)) /\ SF_mcvars(Shm(PopCas(c))) /\ WF_mcvars(MCConsume(c))

MCSpec == MCInit /\ [][MCNext]_mcvars /\ MCFairness

-----------------------------------------------------------------------------
\* The counters of the disruptor stay in their ranges, nobody is beyond the next
\* sequence to be claimed, and no two publishers fill the same sequence, with any
\* number of producers.
DisruptorClaims == D!TypeOK /\ D!ClaimsDistinct

\* With its one producer, a consumer of the disruptor reads whole events of
\* its own sequence up to what the barrier returned, unless it was lapped; and
\* the back-pressure count of Sequencer is exact, so that try_next() never
\* refuses for publications that are over.
DisruptorSingle == usage = "spmc" => D!BatchIntact /\ D!PendingExact

\* With its one producer, every consumer without dependencies catches up with
\* the cursor again and again, or is told to stop.
DisruptorDelivers ==
    []<>(usage = "spmc" => alerted \/ \A c \in Consumers \ {Gated} : d_seq[c] > cursor)
=============================================================================
