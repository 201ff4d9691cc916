SPECIFICATION Spec
CONSTANTS
    o1 = o1
    o2 = o2
    o3 = o3
    p1 = p1
    p2 = p2
    Operations = {o1, o2}
    Producers = {p1, p2}
    ProducerOf <- MCOneProducer
    GlobalPending = 2
    PendingPerCaller = 2
    MaxInFlight = 2
    MaxFence = 3
    MaxRestarts = 1
INVARIANTS
    OneExecutor
    ClaimHasTask
PROPERTIES
    StopLeavesNoClaim
SYMMETRY Symmetry
CHECK_DEADLOCK FALSE
