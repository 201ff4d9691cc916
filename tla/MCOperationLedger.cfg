SPECIFICATION Spec
CONSTANTS
    Writers = {w1, w2}
    Facts <- MCFacts
    Results = {"r1", "r2"}
    MaxRevision = 5
    MaxInstant = 2
    ReceiptLimit = 2
INVARIANTS
    RevisionNamesRecord
PROPERTIES
    EndingIsFinal
    ReceiptsAreEarned
    HoldNeedsItsReceipt
CHECK_DEADLOCK FALSE
