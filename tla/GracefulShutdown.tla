-------------------------- MODULE GracefulShutdown --------------------------
(***************************************************************************)
(* The shutdown coordinator of orchestration/graceful_shutdown.rs: phases  *)
(* that run the callbacks which cancel orders, flatten positions, flush    *)
(* the log and persist the state.  Every field is an atomic; one step is   *)
(* one atomic access.  The callbacks are external and return.              *)
(***************************************************************************)
EXTENDS Integers, Sequences

CONSTANTS Executors     \* the threads that may call execute_shutdown()

\* ShutdownPhase.
Running == 0
StopNewOrders == 1
PersistState == 5
Complete == 6

VARIABLES
    stage,              \* phase
    initiated, complete,
    initiator,          \* a thread inside initiate(), before the phase store
    overdue,            \* elapsed_ms > total_timeout_ms
    forcing,            \* a thread inside force_complete(), before the phase store
    exec,               \* the calls of execute_shutdown(): step, and next phase
    ran,                \* ghost: the callbacks run by the only executor so far
    forced              \* ghost: force_complete() was called, or time ran out

gsVars == <<stage, initiated, complete, initiator, overdue, forcing, exec, ran, forced>>

GsTypeOK ==
    /\ stage \in Running .. Complete
    /\ {initiated, complete, initiator, overdue, forcing, forced} \subseteq BOOLEAN
    /\ exec \in [Executors -> [at : {"idle", "loop", "advance", "store", "finish", "end",
                                     "returned"}, next : Running .. Complete]]
    /\ ran \in Seq(2 .. PersistState)

GsInit ==
    /\ stage = Running /\ initiated = FALSE /\ complete = FALSE
    /\ initiator = FALSE /\ overdue = FALSE /\ forcing = FALSE
    /\ exec = [e \in Executors |-> [at |-> "idle", next |-> Running]]
    /\ ran = <<>> /\ forced = FALSE

Executing == {e \in Executors : exec[e].at # "idle"}
To(e, label) == exec' = [exec EXCEPT ![e].at = label]

-----------------------------------------------------------------------------
\* initiate(): the swap, then the first phase.
Initiate ==
    /\ ~initiated
    /\ initiated' = TRUE /\ initiator' = TRUE
    /\ UNCHANGED <<stage, complete, overdue, forcing, exec, ran, forced>>

InitiatePhase ==
    /\ initiator
    /\ stage' = StopNewOrders /\ initiator' = FALSE
    /\ UNCHANGED <<initiated, complete, overdue, forcing, exec, ran, forced>>

\* The total timeout passes.
TimeOut ==
    /\ initiated /\ ~initiator /\ ~overdue
    /\ overdue' = TRUE
    /\ UNCHANGED <<stage, initiated, complete, initiator, forcing, exec, ran, forced>>

\* execute_shutdown() returns at once when nothing was initiated.
Execute(e) ==
    /\ exec[e].at = "idle"
    /\ To(e, IF initiated THEN "loop" ELSE "returned")
    /\ UNCHANGED <<stage, initiated, complete, initiator, overdue, forcing, ran, forced>>

\* The top of the loop: the phase is read and its callback run.
Callback(e) ==
    /\ exec[e].at = "loop"
    /\ To(e, CASE stage \in {Running, Complete} -> "returned"
               [] stage = PersistState -> "finish"
               [] OTHER -> "advance")
    /\ ran' = IF stage \in 2 .. PersistState /\ Executing = {e}
              THEN Append(ran, stage) ELSE ran
    /\ UNCHANGED <<stage, initiated, complete, initiator, overdue, forcing, forced>>

\* advance_phase(): the phase is read again, and the clock.
Advance(e) ==
    /\ exec[e].at = "advance"
    /\ exec' = [exec EXCEPT ![e] =
          CASE overdue \/ stage = PersistState -> [@ EXCEPT !.at = "finish"]
            [] ~overdue /\ stage = Running -> [@ EXCEPT !.at = "loop"]
            [] ~overdue /\ stage = Complete -> [@ EXCEPT !.at = "returned"]
            [] OTHER -> [at |-> "store", next |-> stage + 1]]
    /\ forced' = (forced \/ overdue)
    /\ UNCHANGED <<stage, initiated, complete, initiator, overdue, forcing, ran>>

AdvanceStore(e) ==
    /\ exec[e].at = "store"
    /\ stage' = exec[e].next
    /\ To(e, "loop")
    /\ UNCHANGED <<initiated, complete, initiator, overdue, forcing, ran, forced>>

\* complete, then the last phase: after the last callback, or in force_complete().
Finish(e) ==
    /\ exec[e].at = "finish"
    /\ complete' = TRUE
    /\ To(e, "end")
    /\ UNCHANGED <<stage, initiated, initiator, overdue, forcing, ran, forced>>

\* The call returns without the last phase store (a mutated form).
Bug_NoFinalPhase(e) ==
    /\ exec[e].at = "end"
    /\ To(e, "returned")
    /\ UNCHANGED <<stage, initiated, complete, initiator, overdue, forcing, ran, forced>>

FinishPhase(e) ==
    /\ exec[e].at = "end"
    /\ stage' = Complete
    /\ To(e, "returned")
    /\ UNCHANGED <<initiated, complete, initiator, overdue, forcing, ran, forced>>

\* force_complete() by another thread, once a shutdown is under way.
ForceComplete ==
    /\ initiated /\ ~initiator /\ ~forced
    /\ complete' = TRUE /\ forcing' = TRUE /\ forced' = TRUE
    /\ UNCHANGED <<stage, initiated, initiator, overdue, exec, ran>>

ForcePhase ==
    /\ forcing
    /\ stage' = Complete /\ forcing' = FALSE
    /\ UNCHANGED <<initiated, complete, initiator, overdue, exec, ran, forced>>

GsStep(e) ==
    \/ Callback(e) \/ Advance(e) \/ AdvanceStore(e) \/ Finish(e) \/ FinishPhase(e)

GsNext ==
    \/ Initiate \/ InitiatePhase \/ TimeOut \/ ForceComplete \/ ForcePhase
    \/ \E e \in Executors : Execute(e) \/ GsStep(e)

-----------------------------------------------------------------------------
\* One executor runs the callbacks in the order cancel, flatten, flush, persist,
\* and a shutdown that is complete has run them all, unless it was forced or
\* out of time.  (With two executors a phase can be skipped, because
\* advance_phase() reads the phase again.)
InOrder ==
    (\A e, f \in Executing : e = f) =>
        /\ \A k \in DOMAIN ran : ran[k] = k + 1
        /\ complete /\ ~forced => Len(ran) = 4

\* Once no call is under way any more, a complete shutdown is in the last phase,
\* although an executor may for a while overwrite it with an earlier one.
Settled ==
    complete /\ ~forcing /\ ~initiator /\ (\A e \in Executors : exec[e].at \in {"idle", "returned"})
        => stage = Complete
=============================================================================
