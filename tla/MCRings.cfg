SPECIFICATION MCSpec
CONSTANTS
    Producers = {p1, p2}
    Consumers = {c1, c2}
    Capacity = 2
    MaxPush = 2
    Usages = {"shm", "spmc", "mpmc"}
    SingleProducer = p1
    Gated = c2
    Size = 2
    BufferMask = 1
    U64 = 8
    MaxEvents = 3
    MaxRaceEvents = 2
CHECK_DEADLOCK FALSE
INVARIANTS
    SlotExclusive
    ReadsItsElement
    DisruptorClaims
    DisruptorSingle
PROPERTIES
    QueueSpec
    Drained
    DisruptorDelivers
