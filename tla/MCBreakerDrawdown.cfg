SPECIFICATION Spec
CONSTANTS
    Threads = {c1}
    Ops = {"equity"}
    Equities = {10, 4}
    I64_MAX = 100
    max_drawdown_bps = 5000
    max_api_errors = 2
    api_error_window = 1
    rejection_threshold_pct = 50
    cooldown = 3
    Owner = c1
    RaceOps = {}
    MaxRaceCalls = 0
    MaxRaceTime = 1
    MinSample = 2
    MaxTime = 2
    MaxCalls = 3
CHECK_DEADLOCK FALSE
INVARIANTS
    DrawdownTrips
