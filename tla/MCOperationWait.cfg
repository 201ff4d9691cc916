SPECIFICATION WaitSpec
CONSTANTS
    Waiters = {w1, w2}
    Capacity = 2
    QueueUpdates = 2
    MaxRowRevision = 4
INVARIANTS
    UpdatesAreNews
    EndingSurvivesPressure
PROPERTIES
    QueuedIsTaken
CHECK_DEADLOCK FALSE
