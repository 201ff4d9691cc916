CONSTANTS
    Daemons = {d1, d2}
    Starters = {s1, s2}
    Roots = {ra, rb}
    None = None
SPECIFICATION Spec
INVARIANTS
    OneWriter
    ServingIsReachable
    StopEndsTheOneMeant
SYMMETRY MCSymmetry
CHECK_DEADLOCK FALSE
