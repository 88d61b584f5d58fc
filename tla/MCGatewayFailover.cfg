SPECIFICATION GwSpec
CONSTANTS
    MaxVenues = 2
    MaxScore = 2
    Policies = {"Immediate"}
    Routers = {r1}
    Clients = {k1}
    PoolLimit = 1
CHECK_DEADLOCK FALSE
INVARIANT
    FailoverMoves
