------------------------------ MODULE Gateway ------------------------------
(***************************************************************************)
(* The gateway manager and load balancer of gateway/manager.rs and the     *)
(* connection pool of gateway/mod.rs.  The status of a venue is its        *)
(* routing score, 0 when it is disconnected or unhealthy.  A venue is      *)
(* external: submit_order() may accept, reject, fail, or fail after the    *)
(* venue has accepted (a timeout).  The event channel and the counters of  *)
(* get_stats() are left out.                                               *)
(***************************************************************************)
EXTENDS Integers, FiniteSets, FiniteSetsExt

CONSTANTS
    MaxVenues,          \* MAX_VENUES
    MaxScore,           \* the best routing score
    Policies,           \* a subset of {"Immediate", "StrictPrimary", "RoundRobin"};
                        \* Delayed is treated as Immediate by the code
    Routers,            \* threads that route an order, one each
    Clients,            \* threads that use the connection pool
    PoolLimit           \* max_connections_per_venue * 10

\* What is assumed of the constants.
GatewayConstants ==
    /\ MaxVenues \in Nat \ {0} /\ MaxScore \in Nat \ {0} /\ PoolLimit \in Nat
    /\ IsFiniteSet(Clients)

Venues == 0 .. MaxVenues - 1
None == -1

VARIABLES
    status,             \* venue_statuses
    active_count, rr_index, policy,
    pool_running,       \* ConnectionPool.is_running
    pool_active,        \* ConnectionPool.active_connections
    slot,               \* each client: in try_acquire(), holding a slot, or neither
    crowd,              \* ghost: two clients were in try_acquire() at once
    closed,             \* the venues stop() has disconnected
    route,              \* each router's call: step, attempts allowed and made, venue
    tried,              \* ghost: the venue each order was last submitted to
    copies,             \* ghost: venues that have accepted a router's order
    lost,               \* ghost: acceptances whose answer was lost
    late,               \* ghost: submissions after stop()
    repeated            \* ghost: a fail-over chose the venue that had just failed
                        \* although another one was healthy

gwVars == <<status, active_count, rr_index, policy, pool_running, pool_active, slot,
            crowd, closed, route, tried, copies, lost, late, repeated>>
poolVars == <<pool_running, pool_active, slot, crowd>>
ghosts == <<tried, copies, lost, late, repeated>>

GwTypeOK ==
    /\ status \in [Venues -> 0 .. MaxScore]
    /\ active_count \in 0 .. MaxVenues /\ rr_index \in Venues /\ policy \in Policies
    /\ {pool_running, crowd, repeated} \subseteq BOOLEAN /\ pool_active \in 0 .. Cardinality(Clients)
    /\ slot \in [Clients -> {"out", "add", "in"}]
    /\ closed \subseteq Venues
    /\ route \in [Routers -> [at : {"idle", "decide", "submit", "done"}, limit : {1, 3},
                              attempt : 0 .. 3, venue : Venues \cup {None}]]
    /\ tried \in [Routers -> Venues \cup {None}]
    /\ \A r \in Routers : {copies[r], lost[r], late[r]} \subseteq 0 .. 3

GwInit ==
    /\ status = [v \in Venues |-> 0]
    /\ active_count = 0 /\ rr_index = 0 /\ policy \in Policies
    /\ pool_running = TRUE /\ pool_active = 0 /\ slot = [c \in Clients |-> "out"]
    /\ crowd = FALSE
    /\ closed = {}
    /\ route = [r \in Routers |-> [at |-> "idle", limit |-> 3, attempt |-> 0, venue |-> None]]
    /\ tried = [r \in Routers |-> None]
    /\ copies = [r \in Routers |-> 0] /\ lost = copies /\ late = copies
    /\ repeated = FALSE

Healthy == {v \in Venues : status[v] > 0}
Stopped == closed = Venues

-----------------------------------------------------------------------------
(* The load balancer.                                                       *)

\* The first venue of the greatest score among the healthy ones of S.
Best(S) ==
    LET good == S \cap Healthy
        top == {v \in good : \A w \in good : status[w] <= status[v]}
    IN  IF good = {} THEN None ELSE Min(top)

select_best_venue == IF active_count = 0 THEN None ELSE Best(Venues)

\* The next healthy venue from rr_index on.
select_round_robin ==
    LET steps == {k \in Venues : (rr_index + k) % MaxVenues \in Healthy}
    IN  IF active_count = 0 \/ steps = {} THEN None
        ELSE (rr_index + Min(steps)) % MaxVenues

\* get_failover_venue(failed): the venue passed as failed is left out, except
\* by the round robin.
get_failover_venue(failed) ==
    CASE policy = "StrictPrimary" -> None
      [] policy = "RoundRobin" -> select_round_robin
      [] OTHER -> Best(Venues \ {failed})

-----------------------------------------------------------------------------
(* Connections.                                                             *)

\* connect_all(): refused once the pool was stopped; the statuses of the venues
\* that connect are set, and the active ones counted.
ConnectAll ==
    /\ pool_running /\ closed = {}
    /\ \E up \in SUBSET Venues :
        /\ status' = [v \in Venues |-> IF v \in up THEN 1 ELSE status[v]]
        /\ active_count' = Cardinality({v \in Venues : status'[v] > 0})
    /\ UNCHANGED <<rr_index, policy, poolVars, closed, route, ghosts>>

\* A feed changes a status with update_venue_status(); nothing is counted.
UpdateVenueStatus ==
    /\ closed = {}
    /\ \E v \in Venues, score \in 0 .. MaxScore :
        /\ status[v] # score
        /\ status' = [status EXCEPT ![v] = score]
    /\ UNCHANGED <<active_count, rr_index, policy, poolVars, closed, route, ghosts>>

\* stop(): disconnect_all() venue by venue, then the count and the pool.
StopManager ==
    /\ ~Stopped
    /\ LET v == Min(Venues \ closed) IN
        /\ status' = [status EXCEPT ![v] = 0]
        /\ closed' = closed \cup {v}
    /\ active_count' = IF Stopped' THEN Cardinality({v \in Venues : status'[v] > 0})
                       ELSE active_count
    /\ pool_running' = (pool_running /\ ~Stopped')
    /\ UNCHANGED <<rr_index, policy, pool_active, slot, crowd, route, ghosts>>

\* start() stops the pool.
StartManager ==
    /\ pool_running
    /\ pool_running' = FALSE
    /\ UNCHANGED <<status, active_count, rr_index, policy, pool_active, slot, crowd,
                   closed, route, ghosts>>

\* try_acquire(): the test, then the increment.
PoolTest(c) ==
    /\ slot[c] = "out" /\ pool_running /\ pool_active < PoolLimit
    /\ slot' = [slot EXCEPT ![c] = "add"]
    /\ crowd' = (crowd \/ \E d \in Clients : slot[d] = "add")
    /\ UNCHANGED <<status, active_count, rr_index, policy, pool_running, pool_active,
                   closed, route, ghosts>>

PoolAdd(c) ==
    /\ slot[c] = "add"
    /\ slot' = [slot EXCEPT ![c] = "in"]
    /\ pool_active' = pool_active + 1
    /\ UNCHANGED <<status, active_count, rr_index, policy, pool_running, crowd, closed,
                   route, ghosts>>

PoolRelease(c) ==
    /\ slot[c] = "in"
    /\ slot' = [slot EXCEPT ![c] = "out"]
    /\ pool_active' = pool_active - 1
    /\ UNCHANGED <<status, active_count, rr_index, policy, pool_running, crowd, closed,
                   route, ghosts>>

-----------------------------------------------------------------------------
(* route_order() (one attempt) and route_order_with_failover() (three).     *)

RouteOrder(r) ==
    /\ route[r].at = "idle"
    /\ \E limit \in {1, 3} :
        route' = [route EXCEPT ![r].at = "decide", ![r].limit = limit]
    /\ UNCHANGED <<status, active_count, rr_index, policy, poolVars, closed, ghosts>>

\* The venue of the next attempt.  After a failure the venue given to
\* get_failover_venue() as the failed one is always 0.
Decide(r) ==
    /\ route[r].at = "decide"
    /\ LET first == route[r].attempt = 0
           v == IF first THEN select_best_venue ELSE get_failover_venue(0)
       IN  /\ route' = [route EXCEPT ![r].venue = v,
                                     ![r].at = IF v = None THEN "done" ELSE "submit"]
           /\ rr_index' = IF ~first /\ policy = "RoundRobin" /\ v # None
                          THEN (v + 1) % MaxVenues ELSE rr_index
           /\ repeated' = (repeated \/ (v = tried[r] /\ Healthy \ {v} # {}
                                         /\ ~first /\ policy = "Immediate"))
    /\ UNCHANGED <<status, active_count, policy, poolVars, closed, tried, copies, lost,
                   late>>

\* An accepted order is taken for one to be retried (a mutated form).
Bug_RetryAccepted(r) ==
    /\ route[r].at = "submit"
    /\ copies' = [copies EXCEPT ![r] = @ + 1]
    /\ tried' = [tried EXCEPT ![r] = route[r].venue]
    /\ late' = [late EXCEPT ![r] = IF Stopped THEN @ + 1 ELSE @]
    /\ LET n == route[r].attempt + 1 IN
         route' = [route EXCEPT ![r].attempt = n,
                                ![r].at = IF n >= route[r].limit THEN "done" ELSE "decide"]
    /\ UNCHANGED <<status, active_count, rr_index, policy, poolVars, closed, lost,
                   repeated>>

\* submit_order() and what is made of its answer.
Submit(r) ==
    /\ route[r].at = "submit"
    /\ \E answer \in {"accepted", "refused", "timeout"} :
        LET accepted == answer # "refused"
            n == route[r].attempt + 1
        IN  /\ copies' = [copies EXCEPT ![r] = IF accepted THEN @ + 1 ELSE @]
            /\ lost' = [lost EXCEPT ![r] = IF answer = "timeout" THEN @ + 1 ELSE @]
            /\ route' = [route EXCEPT ![r].attempt = n, ![r].at =
                            IF answer = "accepted" \/ n >= route[r].limit THEN "done"
                            ELSE "decide"]
    /\ tried' = [tried EXCEPT ![r] = route[r].venue]
    /\ late' = [late EXCEPT ![r] = IF Stopped THEN @ + 1 ELSE @]
    /\ UNCHANGED <<status, active_count, rr_index, policy, poolVars, closed, repeated>>

GwNext ==
    \/ ConnectAll \/ UpdateVenueStatus \/ StopManager \/ StartManager
    \/ \E c \in Clients : PoolTest(c) \/ PoolAdd(c) \/ PoolRelease(c)
    \/ \E r \in Routers : RouteOrder(r) \/ Decide(r) \/ Submit(r)

GwSpec == GwInit /\ [][GwNext]_gwVars

-----------------------------------------------------------------------------
\* The pool never holds more connections than its limit, unless two clients
\* were between the test and the increment of try_acquire() at once.
PoolBound == ~crowd => pool_active <= PoolLimit

\* An order is live at two venues only when the answer of one was lost: a
\* rejection or an error before acceptance is retried, an acceptance never.
SingleCopy == \A r \in Routers : copies[r] <= 1 + lost[r]

\* Once stop() has disconnected every venue, a router makes at most the one
\* submission it had decided on.
LateSubmissions == \A r \in Routers : late[r] <= 1

\* Under the policy that moves to the next best venue, an order is not offered
\* again to the venue that has just failed while another one is healthy.
FailoverMoves == ~repeated
=============================================================================
