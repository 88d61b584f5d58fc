SPECIFICATION Spec
CONSTANTS
    Threads = {t1, t2, t3}
    MaxRounds = 2
SYMMETRY Symmetry
INVARIANTS
    MutualExclusion
PROPERTIES
    ImplementsCounter
