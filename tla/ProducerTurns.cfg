SPECIFICATION Spec
CONSTANTS
    o1 = o1
    o2 = o2
    o3 = o3
    p1 = p1
    p2 = p2
    Operations = {o1, o2, o3}
    Producers = {p1, p2}
    ProducerOf <- MCProducerOf
    GlobalPending = 3
    PendingPerCaller = 2
    MaxInFlight = 1
    MaxFence = 5
    MaxRestarts = 0
INVARIANTS
    PassedAtMostOnce
SYMMETRY Symmetry
CHECK_DEADLOCK FALSE
