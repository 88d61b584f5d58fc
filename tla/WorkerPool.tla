----------------------------- MODULE WorkerPool -----------------------------
(***************************************************************************)
(* WorkerPool of runtime/executor.rs: one bounded channel per priority and *)
(* worker threads that poll them from the most urgent on.  A task may      *)
(* panic, which ends its worker.  shutdown() takes the pool exclusively    *)
(* (&mut self), so nothing is submitted while it joins the workers.        *)
(***************************************************************************)
EXTENDS Integers, Sequences, FiniteSets

CONSTANTS
    Workers,
    Tasks,
    Priorities,         \* the number of priorities; 0 is Critical
    Capacity            \* queue_capacity

\* What is assumed of the constants.
PoolConstants ==
    /\ IsFiniteSet(Workers) /\ IsFiniteSet(Tasks)
    /\ Priorities \in Nat \ {0} /\ Capacity \in Nat

Levels == 0 .. Priorities - 1
None == "none"

VARIABLES
    queue,              \* the channel of each priority
    worker,             \* each thread's step, the priority it polls and its task
    stop,               \* shutdown
    join,               \* shutdown() was not called, is joining, or has returned
    tasks_submitted,
    fate,               \* each task: "new", "refused", "accepted" or "ended"
    overtaken           \* ghost: less urgent tasks started while a task was queued

poolState == <<queue, worker, stop, join, tasks_submitted, fate, overtaken>>

Queued(t) == \E p \in Levels, k \in 1 .. Capacity : k <= Len(queue[p]) /\ queue[p][k] = t
RunningOf(t) == {w \in Workers : worker[w].at = "run" /\ worker[w].task = t}

PoolTypeOK ==
    /\ queue \in [Levels -> Seq(Tasks)] /\ \A p \in Levels : Len(queue[p]) <= Capacity
    /\ worker \in [Workers -> [at : {"top", "poll", "run", "exited", "dead"},
                               level : Levels, task : Tasks \cup {None}]]
    /\ stop \in BOOLEAN /\ join \in {"no", "joining", "done"}
    /\ fate \in [Tasks -> {"new", "refused", "accepted", "ended"}]
    /\ tasks_submitted = Cardinality({t \in Tasks : fate[t] \in {"accepted", "ended"}})
    /\ overtaken \in [Tasks -> Nat]

PoolInit ==
    /\ queue = [p \in Levels |-> <<>>]
    /\ worker = [w \in Workers |-> [at |-> "top", level |-> 0, task |-> None]]
    /\ stop = FALSE /\ join = "no" /\ tasks_submitted = 0
    /\ fate = [t \in Tasks |-> "new"] /\ overtaken = [t \in Tasks |-> 0]

-----------------------------------------------------------------------------
\* submit(): try_send, and the count.  The pool keeps a receiver of every
\* channel, so that the only refusal is that of a full one.
SubmitTask(t, p) ==
    /\ fate[t] = "new" /\ join # "joining"
    /\ IF Len(queue[p]) < Capacity
       THEN /\ queue' = [queue EXCEPT ![p] = Append(@, t)]
            /\ tasks_submitted' = tasks_submitted + 1
            /\ fate' = [fate EXCEPT ![t] = "accepted"]
       ELSE fate' = [fate EXCEPT ![t] = "refused"] /\ UNCHANGED <<queue, tasks_submitted>>
    /\ UNCHANGED <<worker, stop, join, overtaken>>

\* The head of worker_loop().
LoopTop(w) ==
    /\ worker[w].at = "top"
    /\ worker' = [worker EXCEPT ![w].at = IF stop THEN "exited" ELSE "poll", ![w].level = 0]
    /\ UNCHANGED <<queue, stop, join, tasks_submitted, fate, overtaken>>

\* try_recv() on the channel of one priority; after the last the loop starts
\* again.
Poll(w) ==
    LET p == worker[w].level IN
    /\ worker[w].at = "poll"
    /\ IF queue[p] # <<>>
       THEN /\ worker' = [worker EXCEPT ![w].at = "run", ![w].task = Head(queue[p])]
            /\ queue' = [queue EXCEPT ![p] = Tail(@)]
            /\ overtaken' = [t \in Tasks |->
                  IF \E q \in 0 .. p - 1, k \in 1 .. Capacity : k <= Len(queue[q]) /\ queue[q][k] = t
                  THEN overtaken[t] + 1 ELSE overtaken[t]]
       ELSE /\ worker' = [worker EXCEPT ![w] =
                  IF p = Priorities - 1 THEN [@ EXCEPT !.at = "top", !.level = 0]
                  ELSE [@ EXCEPT !.level = p + 1]]
            /\ UNCHANGED <<queue, overtaken>>
    /\ UNCHANGED <<stop, join, tasks_submitted, fate>>

\* Without the break, a worker goes on to the next priority (a mutated form).
Bug_NoBreak(w) ==
    /\ worker[w].at = "run"
    /\ worker' = [worker EXCEPT ![w] =
          [at |-> "poll", level |-> IF @.level = Priorities - 1 THEN 0 ELSE @.level + 1,
           task |-> None]]
    /\ fate' = [fate EXCEPT ![worker[w].task] = "ended"]
    /\ UNCHANGED <<queue, stop, join, tasks_submitted, overtaken>>

\* The task ends and the loop starts again from the most urgent priority; or it
\* panics, and the thread is gone.
RunTask(w) ==
    /\ worker[w].at = "run"
    /\ \E at \in {"top", "dead"} :
          worker' = [worker EXCEPT ![w] = [at |-> at, level |-> 0, task |-> None]]
    /\ fate' = [fate EXCEPT ![worker[w].task] = "ended"]
    /\ UNCHANGED <<queue, stop, join, tasks_submitted, overtaken>>

ShutdownPool ==
    /\ join = "no"
    /\ stop' = TRUE /\ join' = "joining"
    /\ UNCHANGED <<queue, worker, tasks_submitted, fate, overtaken>>

JoinWorkers ==
    /\ join = "joining"
    /\ \A w \in Workers : worker[w].at \in {"exited", "dead"}
    /\ join' = "done"
    /\ UNCHANGED <<queue, worker, stop, tasks_submitted, fate, overtaken>>

PoolNext ==
    \/ \E t \in Tasks, p \in Levels : SubmitTask(t, p)
    \/ \E w \in Workers : LoopTop(w) \/ Poll(w) \/ RunTask(w)
    \/ ShutdownPool \/ JoinWorkers

-----------------------------------------------------------------------------
\* A queued task is overtaken by at most one less urgent task per worker: those
\* whose poll of its priority had already found nothing.
OvertakeBound == \A t \in Tasks : overtaken[t] <= Cardinality(Workers)

\* Once shutdown() has returned no task runs any more, and every accepted task
\* has ended or is still in its channel: none is taken and dropped.
ShutdownQuiet ==
    join = "done" => \A t \in Tasks : RunningOf(t) = {} /\ (fate[t] = "accepted" => Queued(t))
=============================================================================
