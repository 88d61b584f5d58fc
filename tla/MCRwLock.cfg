SPECIFICATION MCSpec
CONSTANTS
    Readers = {r1, r2, r3}
    Updaters = {u1}
    TryWriters = {w1, w2}
    WRITER_FLAG = 8
    MaxWrites = 2
    SeqReaders = {s1}
    SeqWriters = {v1, v2}
    MaxTries = 2
    MaxSequence = 5
    Pushers = {p1, p2}
    TickReaders = {t1, t2}
    Capacity = 2
    MaxTicks = 4
SYMMETRY Symmetry
CHECK_DEADLOCK FALSE
INVARIANTS
    Exclusive
    NoTornRead
    UpdateGeneration
    CountsReaders
    WholeRead
    TickReads
