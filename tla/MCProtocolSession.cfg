SPECIFICATION Spec
CONSTANTS
    MaxIdentifier = 3
    MaxLine = 1
    MaxQueuedBytes = 3
    MaxQueuedMessages = 4
    MaxActive = 2
    MaxUnread = 2
    MaxSends = 4
INVARIANTS
    IdentifierNamesOneThing
    RoomIsReserved
    NoFalseDuplicate
    DrainAnswersEverything
PROPERTIES
    InputEndEndsSession
CHECK_DEADLOCK FALSE
