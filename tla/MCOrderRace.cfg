SPECIFICATION MCSpec
CONSTANTS
    Threads = {c1, c2}
    Quantity = 4
    Fills = {4}
    Usages = {"race"}
    MaxCalls = 3
    MaxRaceCalls = 3
CHECK_DEADLOCK FALSE
PROPERTIES
    TerminalFinal
