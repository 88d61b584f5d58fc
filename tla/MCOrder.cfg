SPECIFICATION MCSpec
CONSTANTS
    Threads = {c1, c2, c3}
    Quantity = 4
    Fills = {1, 3, 4, 5}
    Usages = {"serial", "race"}
    MaxCalls = 5
    MaxRaceCalls = 4
CHECK_DEADLOCK FALSE
SYMMETRY Symmetry
INVARIANTS
    
    Conserved
    StateShowsFills
PROPERTIES
    SerialLegalPath
