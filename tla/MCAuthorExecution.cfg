SPECIFICATION FairSpec
CONSTANTS
    Cap = 8
    MaxCrashes = 2
INVARIANTS SentAtMostOnce NonExecutionIsTrue NoClaimIsLeaked SettledChildAgrees
PROPERTIES SuccessIsNeverRetracted KeepsPromise EveryOperationEnds
CHECK_DEADLOCK FALSE
