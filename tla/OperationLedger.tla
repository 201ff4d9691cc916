--------------------------- MODULE OperationLedger ---------------------------
(***************************************************************************)
(* One operation row of the ledger (slingshot-storage, operation_repository) *)
(* and the writers that race for it: executions over their own connections,  *)
(* the scheduler, and the resume handler.  A writer reads the row, decides,  *)
(* and writes in a later transaction that compares the revision it read.     *)
(*                                                                           *)
(* Each repository call is one IMMEDIATE SQLite transaction, hence one step. *)
(* Scheduler claims are the subject of SchedulerQueue and are left out here, *)
(* as are the texts a fact carries and the artifacts of a result.            *)
(***************************************************************************)
EXTENDS OperationRecord, FiniteSets

CONSTANTS Writers,        \* connections that read and write the row
          Facts,          \* the facts a writer may offer (see OperationRecord)
          Results,        \* complete results a settlement may commit
          MaxRevision,    \* bound: no writer moves the row past this revision
          MaxInstant,     \* bound: instants a settlement may be stamped with
          ReceiptLimit    \* recovery_resume_receipts_per_operation

NoResult == "no result"

\* Every writer counts its attempts from 1 (attempt_count: map_or(1, ..)); only
\* the holds offered for want of capacity carry 0, and they wait on a person.
CountsFromOne(recovery) == recovery.manual \/ recovery.attempt > 0

ASSUME LedgerAssumption ==
    /\ MaxRevision \in Nat /\ MaxInstant \in Nat \ {0} /\ ReceiptLimit \in Nat
    /\ \A f \in Facts : IsFact(f) /\ (f.fact = "recovery" => CountsFromOne(f.value))
    /\ NoResult \notin Results

NothingRead == [lifecycle |-> "none", revision |-> 0]

VARIABLES
    record,    \* the OperationRecord columns
    result,    \* result_disposition and result_inline_bytes
    settledAt, \* settled_at_unix_milliseconds, 0 for NULL
    read,      \* read[w]: the record w last read, or NothingRead
    asked,     \* asked[w]: the category of the resume w has checked, or "none"
    receipts,  \* resume receipts: [revision, category] of each applied source
    now        \* the wall clock of settlements

vars == <<record, result, settledAt, read, asked, receipts, now>>

Receipt(revision, category) == [revision |-> revision, category |-> category]

TypeOK ==
    /\ record \in Record
    /\ result \in Results \cup {NoResult}
    /\ settledAt \in 0..MaxInstant
    /\ read \in [Writers -> Record \cup {NothingRead}]
    /\ asked \in [Writers -> Category \cup {"none"}]
    /\ receipts \subseteq [revision : Nat, category : Category]
    /\ now \in 1..MaxInstant

Init ==
    /\ record = Admitted
    /\ result = NoResult
    /\ settledAt = 0
    /\ read = [w \in Writers |-> NothingRead]
    /\ asked = [w \in Writers |-> "none"]
    /\ receipts = {}
    /\ now = 1

\* OperationRepository::read.
Read(w) ==
    /\ read' = [read EXCEPT ![w] = record]
    /\ asked' = [asked EXCEPT ![w] = "none"]
    /\ UNCHANGED <<record, result, settledAt, receipts, now>>

\* require_revision against the revision this writer read.
RevisionHeld(w) == read[w] # NothingRead /\ read[w].revision = record.revision

\* The settlement instant a fold produces.
Settlement(before, after, instant) ==
    IF IsTerminal(before.lifecycle) THEN settledAt
    ELSE IF IsTerminal(after.lifecycle) THEN instant ELSE 0

\* OperationRepository::apply through mutate: refused folds and stale revisions
\* commit nothing, a fold at the same revision writes nothing.
Apply(w, fact) ==
    /\ RevisionHeld(w)
    /\ LET folded == Fold(record, fact)
       IN  /\ folded # Refused
           /\ folded.revision # record.revision
           /\ folded.revision <= MaxRevision
           /\ record' = folded
           /\ settledAt' = Settlement(record, folded, now)
    /\ UNCHANGED <<result, read, asked, receipts, now>>

\* record_snapshot_success: the one automatic recovery with nothing attempted
\* yet. It is offered on what was read, and not where success is proven already:
\* "Repeated proof cannot reset an existing acquisition schedule".
RecordSnapshotSuccess(w) ==
    /\ RevisionHeld(w)
    /\ ~IsTerminal(read[w].lifecycle) /\ read[w].recovery.evidence # ProvenSuccess
    /\ Apply(w, RecoveryOf(Recovery("result_acquisition", ProvenSuccess, 0, FALSE, now)))

\* settle_success_guarded without a remote child: lifecycle and revision must be
\* the ones observed; the result, the instant and the cleared recovery are
\* written with the lifecycle in one transaction.
SettleSuccess(w, value) ==
    /\ RevisionHeld(w)
    /\ read[w].lifecycle = record.lifecycle
    /\ LET folded == Fold(record, LifecycleFact("succeeded"))
       IN  /\ folded # Refused
           /\ folded.revision <= MaxRevision
           /\ record' = [folded EXCEPT !.recovery = NoRecovery]
    /\ result' = value
    /\ settledAt' = now
    /\ UNCHANGED <<read, asked, receipts, now>>

\* What require_resumable and the transaction both ask of the row.
Resumable(rec, category) ==
    /\ ~IsTerminal(rec.lifecycle)
    /\ rec.recovery # NoRecovery
    /\ rec.recovery.category = category
    /\ rec.recovery.manual

\* operation_recovery::resume up to require_resumable: a held receipt replays
\* before any mutable precondition is looked at, and changes nothing.
AskResume(w, category) ==
    /\ Receipt(record.revision, category) \notin receipts
    /\ Resumable(record, category)
    /\ read' = [read EXCEPT ![w] = record]
    /\ asked' = [asked EXCEPT ![w] = category]
    /\ UNCHANGED <<record, result, settledAt, receipts, now>>

\* Slip: the check made before the write lock is trusted inside it.
CommitResumeUnchecked(w) ==
    /\ asked[w] # "none"
    /\ asked' = [asked EXCEPT ![w] = "none"]
    /\ receipts' = receipts \cup {Receipt(read[w].revision, asked[w])}
    /\ UNCHANGED <<record, result, settledAt, read, now>>

\* record_eligible_resume_receipt: everything checked again under the write
\* lock; activate_resumed_operation then touches only the claim columns.
CommitResume(w) ==
    /\ asked[w] # "none"
    /\ asked' = [asked EXCEPT ![w] = "none"]
    /\ IF /\ Receipt(read[w].revision, asked[w]) \notin receipts
          /\ Resumable(record, asked[w])
          /\ RevisionHeld(w)
          /\ Cardinality(receipts) < ReceiptLimit
       THEN receipts' = receipts \cup {Receipt(read[w].revision, asked[w])}
       ELSE UNCHANGED receipts
    /\ UNCHANGED <<record, result, settledAt, read, now>>

\* Slip: any receipt of this operation releases whatever hold it now has.
ActivateAnyReceipt(receipt) ==
    /\ receipt \in receipts
    /\ ~IsTerminal(record.lifecycle)
    /\ record.recovery # NoRecovery
    /\ record.recovery.manual /\ record.recovery.category = receipt.category
    /\ record.revision < MaxRevision
    /\ record' = Fold(record, RecoveryOf([record.recovery EXCEPT
                        !.manual = FALSE, !.attempt = 0, !.observed = @ + 1]))
    /\ UNCHANGED <<result, settledAt, read, asked, receipts, now>>

\* activate_retained_recovery: consumes a receipt against the exact revision it
\* was applied at, turning the hold into an ordinary retry with a fresh budget.
Activate(receipt) ==
    /\ receipt \in receipts
    /\ record.revision = receipt.revision
    /\ ~IsTerminal(record.lifecycle)
    /\ record.recovery # NoRecovery
    /\ record.recovery.manual /\ record.recovery.category = receipt.category
    /\ record.revision < MaxRevision
    /\ record' = Fold(record, RecoveryOf([record.recovery EXCEPT
                        !.manual = FALSE, !.attempt = 0, !.observed = @ + 1]))
    /\ UNCHANGED <<result, settledAt, read, asked, receipts, now>>

Tick == now < MaxInstant /\ now' = now + 1
        /\ UNCHANGED <<record, result, settledAt, read, asked, receipts>>

Next ==
    \/ \E w \in Writers : Read(w)
    \/ \E w \in Writers, fact \in Facts : Apply(w, fact)
    \/ \E w \in Writers : RecordSnapshotSuccess(w)
    \/ \E w \in Writers, value \in Results : SettleSuccess(w, value)
    \/ \E w \in Writers, category \in Category : AskResume(w, category)
    \/ \E w \in Writers : CommitResume(w)
    \/ \E receipt \in receipts : Activate(receipt)
    \/ Tick

Spec == Init /\ [][Next]_vars

-----------------------------------------------------------------------------
\* The record keeps the shape the domain promises whatever order facts from
\* racing writers arrive in (operation.rs fold, settle_success_guarded).
RecordWellFormed == WellFormed(record)

\* A revision names one record: whoever read revision r read exactly what the
\* row holds while it is still at r, so a compare-and-set on the revision can
\* never fold a decision into a row its writer did not see (require_revision).
RevisionNamesRecord ==
    \A w \in Writers : RevisionHeld(w) => read[w] = record

\* A result is readable exactly when the operation succeeded, with its instant;
\* no reader meets a terminal row awaiting a second write (settle_success).
ResultIffSucceeded ==
    /\ (result # NoResult) <=> (record.lifecycle = "succeeded")
    /\ (settledAt # 0) <=> IsTerminal(record.lifecycle)

\* An ending is final: no writer, however stale, changes the verdict or moves
\* the revision of a terminal row.
EndingIsFinal ==
    [][IsTerminal(record.lifecycle) => record' = record]_record

\* A receipt proves what it says: at the moment it is recorded the row waits,
\* at that very revision, on a person, for that category; and it is never lost,
\* so an exact repeat replays (record_eligible_resume_receipt).
ReceiptsAreEarned ==
    [][/\ receipts \subseteq receipts'
       /\ \A r \in receipts' \ receipts :
            /\ record.revision = r.revision
            /\ Resumable(record, r.category)]_receipts

\* A receipt releases the hold it was recorded for and no later one: a hold
\* restarts as an automatic retry of its category with a fresh budget (attempt
\* 0) only under a receipt of that very revision, whatever a late proof of
\* success or a stale writer brings (activate_retained_recovery).
HoldNeedsItsReceipt ==
    [][(/\ record.recovery # NoRecovery /\ record.recovery.manual
        /\ record'.recovery # NoRecovery /\ ~record'.recovery.manual
        /\ record'.recovery.attempt = 0
        /\ record'.recovery.category = record.recovery.category)
         => Receipt(record.revision, record.recovery.category) \in receipts]_record

\* operation_repository.rs:794 "An operation settles once, so a fold leaving a
\* terminal row terminal keeps the instant it settled at".
SettledInstantIsKept ==
    [][settledAt # 0 => settledAt' = settledAt]_settledAt
=============================================================================
