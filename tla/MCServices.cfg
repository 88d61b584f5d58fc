SPECIFICATION MCSpec
CONSTANTS
    Instances = {a, b}
    Primary = a
    Usages = {"pair", "free"}
    MaxAge = 2
    MaxSnapshots = 1
    MaxTime = 3
    MaxFiles = 2
    MaxRestarts = 1
    Callers = {c1, c2}
    Executors = {x, y}
    ResetOnDisconnect = {TRUE, FALSE}
    MaxSeq = 4
    MaxOut = 1
    MaxVenues = 2
    MaxScore = 2
    Policies = {"Immediate", "StrictPrimary", "RoundRobin"}
    Routers = {r1}
    Clients = {k1, k2}
    PoolLimit = 1
    Workers = {w1, w2}
    Tasks = {j1, j2, j3, j4}
    Priorities = 3
    Capacity = 2
    MaxEvent = 3
    SyncInterval = 2
    MaxPieces = 5
    MaxFaults = 1
    MaxToggles = 1
CHECK_DEADLOCK FALSE
INVARIANTS
    
    
    
    FixSafe
    
    PoolSafe
    
PROPERTY
    DurableLogSpec
