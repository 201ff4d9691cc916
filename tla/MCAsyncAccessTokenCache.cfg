SPECIFICATION FairSpec
CONSTANTS
    Callers = {c1, c2, c3}
    NoCaller = NoCaller
    MaxGeneration = 2
INVARIANTS
    TypeOK
    ExchangeIsExclusive
    RefusedIsNeverHeld
    RepeatIsOnceAndNewer
PROPERTIES
    JoinedAreReleased
