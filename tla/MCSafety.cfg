SPECIFICATION PartsSpec
CONSTANTS
    Control = {c1, c2}
    Gateways = {g1}
    auto_kill_on_breaker = TRUE
    enable_ui_kill = TRUE
    auto_recovery = TRUE
    ControlOps = {"ui_kill", "panic", "equity", "api_error", "rejection", "reset", "activate", "deactivate", "emergency"}
    Usages = {"serial", "race"}
    MaxCalls = 4
    MaxRaceCalls = 3
    MaxOrders = 2
    Threads = {t1, t2, t3}
    Supervisor = t1
    K_Ops = {"trigger", "reset", "activate", "prepare", "disarm"}
    NoSource = NoSource
    CancelsOrders = TRUE
    Orders = 2
    Cooldown = 2
    K_MaxTime = 6
    K_MaxCalls = 4
    K_MaxRaceCalls = 2
    Callers = {b1, b2}
    Owner = b1
    B_Ops = {"equity", "error", "submission", "rejection", "allowed", "reset", "disable", "enable"}
    RaceOps = {"error", "allowed", "reset", "disable"}
    Equities = {10, 4}
    I64_MAX = 100
    max_drawdown_bps = 5000
    max_api_errors = 2
    api_error_window = 1
    rejection_threshold_pct = 50
    cooldown = 3
    MinSample = 2
    B_MaxTime = 5
    B_MaxCalls = 6
    B_MaxRaceCalls = 4
    MaxRaceTime = 3
CHECK_DEADLOCK FALSE
SYMMETRY Symmetry
INVARIANTS
    
    KillRaceLatched
    BreakerErrors
    LateOrders
    SerialTrippedIsReported

    
    
