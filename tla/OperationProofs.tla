--------------------------- MODULE OperationProofs ---------------------------
(***************************************************************************)
(* Proofs about one operation's row and about the connections that wait on  *)
(* it: what an accepted fold does to a record; what holds of the row for    *)
(* any number of writers, any facts and any bounds; and what holds of the   *)
(* queues for any number of waiters and any bound.  The inductive           *)
(* invariants are LedgerInv and WaitInv.                                    *)
(***************************************************************************)
EXTENDS OperationLedger, OperationWait, SequenceTheorems, WellFoundedInduction, TLAPS

-----------------------------------------------------------------------------
(* What an accepted fold does to an operation record.                      *)

\* What an accepted fold is: the record itself, or a record of the same type
\* whose revision is one higher and which replaced no ending.
Advances(rec, folded) ==
    folded = rec \/ (folded.revision = rec.revision + 1 /\ ~IsTerminal(rec.lifecycle))

\* A lifecycle fold yields a record, moves the revision with it and keeps its
\* shape; "failed" is reached only with a failure (OperationRecord::fold_lifecycle).
LEMMA FoldLifecycleFacts ==
  ASSUME NEW rec \in Record, NEW next \in Lifecycle \ {"failed"},
         FoldLifecycle(rec, next) # Refused
  PROVE  /\ FoldLifecycle(rec, next) \in Record
         /\ FoldLifecycle(rec, next).lifecycle = next
         /\ Advances(rec, FoldLifecycle(rec, next))
         /\ (WellFormed(rec) /\ (rec.recovery = NoRecovery \/ ~IsTerminal(next)))
              => WellFormed(FoldLifecycle(rec, next))
<1>1. rec.revision + 1 \in Nat BY DEF Record
<1>2. CASE rec.lifecycle = next BY <1>2 DEF FoldLifecycle, Advances
<1>3. CASE rec.lifecycle # next
  <2> DEFINE new == [rec EXCEPT !.lifecycle = next, !.revision = @ + 1]
  <2>1. /\ FoldLifecycle(rec, next) = new
        /\ ~IsTerminal(rec.lifecycle)
    BY <1>3 DEF FoldLifecycle, MayBecome, IsTerminal
  <2>2. new \in Record BY <1>1 DEF Record
  <2>3. /\ new.lifecycle = next /\ new.revision = rec.revision + 1
        /\ new.recovery = rec.recovery /\ new.failure = rec.failure
    BY DEF Record
  <2>4. WellFormed(rec) => rec.failure = NoFailure
    BY <2>1 DEF WellFormed, IsTerminal
  <2> QED BY <2>1, <2>2, <2>3, <2>4 DEF Advances, WellFormed, IsTerminal
<1> QED BY <1>2, <1>3

\* The same of a progress note (OperationRecord::fold_progress).
LEMMA FoldProgressFacts ==
  ASSUME NEW rec \in Record, NEW detail \in Nat
  PROVE  /\ FoldProgress(rec, detail) \in Record
         /\ Advances(rec, FoldProgress(rec, detail))
         /\ WellFormed(rec) => WellFormed(FoldProgress(rec, detail))
<1>1. rec.revision + 1 \in Nat BY DEF Record
<1> DEFINE new == [rec EXCEPT !.progress = detail, !.revision = @ + 1]
<1>2. new \in Record BY <1>1 DEF Record
<1>3. /\ new.lifecycle = rec.lifecycle /\ new.revision = rec.revision + 1
      /\ new.recovery = rec.recovery /\ new.failure = rec.failure
  BY DEF Record
<1>4. FoldProgress(rec, detail) = rec
        \/ (FoldProgress(rec, detail) = new /\ ~IsTerminal(rec.lifecycle))
  BY DEF FoldProgress
<1> QED BY <1>2, <1>3, <1>4 DEF Advances, WellFormed

\* The same of a recovery, whose evidence must be its category's
\* (OperationRecord::fold_recovery).
LEMMA FoldRecoveryFacts ==
  ASSUME NEW rec \in Record, NEW recovery \in RecoveryFact,
         FoldRecovery(rec, recovery) # Refused
  PROVE  /\ FoldRecovery(rec, recovery) \in Record
         /\ Advances(rec, FoldRecovery(rec, recovery))
         /\ FoldRecovery(rec, recovery).lifecycle = rec.lifecycle
         /\ WellFormed(rec) => WellFormed(FoldRecovery(rec, recovery))
<1>1. rec.revision + 1 \in Nat BY DEF Record
<1> DEFINE new == [rec EXCEPT !.recovery = recovery, !.revision = @ + 1]
<1>2. new \in Record BY <1>1 DEF Record
<1>3. /\ new.lifecycle = rec.lifecycle /\ new.revision = rec.revision + 1
      /\ new.recovery = recovery /\ new.failure = rec.failure
  BY DEF Record
<1>4. /\ ~IsTerminal(rec.lifecycle) /\ Admits(recovery.category, recovery.evidence)
      /\ (FoldRecovery(rec, recovery) = rec \/ FoldRecovery(rec, recovery) = new)
  BY DEF FoldRecovery
<1> QED BY <1>2, <1>3, <1>4 DEF Advances, WellFormed

\* The same of an ending, which clears the recovery it resolves
\* (OperationRecord::fold_terminal).
LEMMA FoldTerminalFacts ==
  ASSUME NEW rec \in Record, NEW failure \in TerminalFailure,
         FoldTerminal(rec, failure) # Refused
  PROVE  /\ FoldTerminal(rec, failure) \in Record
         /\ Advances(rec, FoldTerminal(rec, failure))
         /\ WellFormed(rec) => WellFormed(FoldTerminal(rec, failure))
         /\ FoldTerminal(rec, failure) # rec => FoldTerminal(rec, failure).lifecycle = "failed"
<1>1. rec.revision + 1 \in Nat BY DEF Record
<1> DEFINE new == [rec EXCEPT !.lifecycle = "failed", !.recovery = NoRecovery,
                              !.failure = failure, !.revision = @ + 1]
<1>2. new \in Record BY <1>1 DEF Record, Lifecycle
<1>3. /\ new.lifecycle = "failed" /\ new.revision = rec.revision + 1
      /\ new.recovery = NoRecovery /\ new.failure = failure
  BY DEF Record
<1>4. /\ TerminalPairingIsLegal(failure.kind, failure.disposition)
      /\ \/ FoldTerminal(rec, failure) = rec
         \/ FoldTerminal(rec, failure) = new /\ ~IsTerminal(rec.lifecycle)
  BY DEF FoldTerminal
<1>5. failure # NoFailure BY DEF TerminalFailure, FailureKind, NoFailure
<1> QED BY <1>2, <1>3, <1>4, <1>5 DEF Advances, WellFormed

\* An accepted fact advances the record by exactly one revision or not at all,
\* never past an ending, and keeps the record's shape (OperationRecord::fold).
LEMMA FoldFacts ==
  ASSUME NEW rec \in Record, NEW f, IsFact(f), Fold(rec, f) # Refused
  PROVE  /\ Fold(rec, f) \in Record
         /\ Advances(rec, Fold(rec, f))
         /\ WellFormed(rec) => WellFormed(Fold(rec, f))
         /\ Fold(rec, f).lifecycle = "succeeded" => rec.lifecycle = "succeeded"
<1>1. CASE f.fact = "lifecycle" /\ f.value \in Lifecycle \ {"succeeded", "failed"}
  <2>1. Fold(rec, f) = FoldLifecycle(rec, f.value) BY <1>1 DEF Fold
  <2>2. ~IsTerminal(f.value) BY <1>1 DEF IsTerminal
  <2> QED BY <1>1, <2>1, <2>2, FoldLifecycleFacts
<1>2. CASE f.fact = "progress" /\ f.value \in Nat
  <2>1. Fold(rec, f) = FoldProgress(rec, f.value) BY <1>2 DEF Fold
  <2>2. Fold(rec, f).lifecycle = rec.lifecycle BY <2>1 DEF FoldProgress, Record
  <2> QED BY <1>2, <2>1, <2>2, FoldProgressFacts
<1>3. CASE f.fact = "recovery" /\ f.value \in RecoveryFact
  <2>1. Fold(rec, f) = FoldRecovery(rec, f.value) BY <1>3 DEF Fold
  <2> QED BY <1>3, <2>1, FoldRecoveryFacts
<1>4. CASE f.fact = "terminal" /\ f.value \in TerminalFailure
  <2>1. Fold(rec, f) = FoldTerminal(rec, f.value) BY <1>4 DEF Fold
  <2> QED BY <1>4, <2>1, FoldTerminalFacts
<1> QED BY <1>1, <1>2, <1>3, <1>4 DEF IsFact

-----------------------------------------------------------------------------
(* The ledger row (OperationLedger).                                       *)

\* No writer has read a revision the row has not reached.
ReadsBehind == \A w \in Writers : read[w].revision <= record.revision

LedgerInv ==
    TypeOK /\ RecordWellFormed /\ ResultIffSucceeded /\ ReadsBehind /\ RevisionNamesRecord

\* A step that changes only the record, by an accepted fold, keeps what relates
\* the record to what writers have read.
LEMMA ReadsSurviveAdvance ==
  ASSUME LedgerInv, record' \in Record, Advances(record, record'), UNCHANGED read
  PROVE  ReadsBehind' /\ RevisionNamesRecord'
<1>1. record.revision \in Nat /\ \A w \in Writers : read[w].revision \in Nat
  BY DEF LedgerInv, TypeOK, Record, NothingRead
<1>2. CASE record' = record
  BY <1>2 DEF LedgerInv, ReadsBehind, RevisionNamesRecord, RevisionHeld
<1>3. CASE record'.revision = record.revision + 1
  BY <1>1, <1>3 DEF LedgerInv, ReadsBehind, RevisionNamesRecord, RevisionHeld
<1> QED BY <1>2, <1>3 DEF Advances

\* The bounds a proof step needs.
LEMMA Bounds == MaxInstant \in Nat /\ MaxInstant > 0 /\ NoResult \notin Results
  BY LedgerAssumption

\* The initial row satisfies the invariant (OperationRecord::admitted).
LEMMA LedgerInit == Init => LedgerInv
<1> SUFFICES ASSUME Init PROVE LedgerInv OBVIOUS
<1>1. Admitted \in Record BY DEF Admitted, Record, Lifecycle, NoProgress
<1>2. /\ Admitted.revision = 1 /\ Admitted.lifecycle = "queued"
      /\ Admitted.recovery = NoRecovery /\ Admitted.failure = NoFailure
      /\ NothingRead.revision = 0
  BY DEF Admitted, NothingRead
<1>3. TypeOK
  <2>1. now \in 1..MaxInstant /\ settledAt \in 0..MaxInstant BY Bounds DEF Init
  <2>2. read \in [Writers -> Record \cup {NothingRead}] BY DEF Init
  <2>3. asked \in [Writers -> Category \cup {"none"}] BY DEF Init
  <2> QED BY <1>1, <2>1, <2>2, <2>3 DEF Init, TypeOK
<1>4. RecordWellFormed BY <1>2 DEF Init, RecordWellFormed, WellFormed
<1>5. ResultIffSucceeded BY <1>2 DEF Init, ResultIffSucceeded, IsTerminal
<1>6. ReadsBehind /\ RevisionNamesRecord
  BY <1>2 DEF Init, ReadsBehind, RevisionNamesRecord, RevisionHeld
<1> QED BY <1>3, <1>4, <1>5, <1>6 DEF LedgerInv

\* An applied fact preserves the invariant (OperationRepository::apply).
LEMMA ApplyPreserves ==
  ASSUME LedgerInv, NEW w \in Writers, NEW fact, IsFact(fact), Apply(w, fact)
  PROVE  LedgerInv'
<1>1. IsFact(fact) OBVIOUS
<1>2. record \in Record /\ WellFormed(record) BY DEF LedgerInv, TypeOK, RecordWellFormed
<1>3. record' = Fold(record, fact) /\ record' # Refused /\ record'.revision # record.revision
  BY DEF Apply
<1>4. /\ record' \in Record /\ Advances(record, record') /\ WellFormed(record')
      /\ record'.lifecycle = "succeeded" => record.lifecycle = "succeeded"
  BY <1>1, <1>2, <1>3, FoldFacts
<1>5. ~IsTerminal(record.lifecycle) BY <1>3, <1>4 DEF Advances
<1>6. settledAt' = IF IsTerminal(record'.lifecycle) THEN now ELSE 0
  BY <1>3, <1>5 DEF Apply, Settlement
<1>7. now \in 1..MaxInstant /\ read' = read BY DEF Apply, LedgerInv, TypeOK
<1>8. TypeOK'
  BY <1>4, <1>6, <1>7, Bounds DEF Apply, LedgerInv, TypeOK
<1>9. ResultIffSucceeded'
  BY <1>4, <1>5, <1>6, <1>7 DEF Apply, LedgerInv, ResultIffSucceeded, IsTerminal
<1>10. ReadsBehind' /\ RevisionNamesRecord' BY <1>4, <1>7, ReadsSurviveAdvance
<1> QED BY <1>4, <1>8, <1>9, <1>10 DEF LedgerInv, RecordWellFormed

\* A proof of success is a fact like any other, offered on a row that is not
\* known to have succeeded (record_snapshot_success).
LEMMA SnapshotSuccessIsApplied ==
  ASSUME LedgerInv, NEW w \in Writers, RecordSnapshotSuccess(w)
  PROVE  LET fact == RecoveryOf(Recovery("result_acquisition", ProvenSuccess, 0, FALSE, now))
         IN  IsFact(fact) /\ Apply(w, fact) /\ record.recovery.evidence # ProvenSuccess
<1> DEFINE r == Recovery("result_acquisition", ProvenSuccess, 0, FALSE, now)
<1>1. now \in Nat BY Bounds DEF LedgerInv, TypeOK
<1>2. r \in RecoveryFact
  BY <1>1 DEF Recovery, RecoveryFact, Category, ProvenCategory, Evidence
<1>3. IsFact(RecoveryOf(r)) BY <1>2 DEF IsFact, RecoveryOf
<1>4. read[w] = record BY DEF RecordSnapshotSuccess, LedgerInv, RevisionNamesRecord
<1> QED BY <1>3, <1>4 DEF RecordSnapshotSuccess

\* A settlement preserves the invariant; on a row that already succeeded it
\* leaves the record as it is, because no recovery outlives an ending
\* (settle_success_guarded).
LEMMA SettlePreserves ==
  ASSUME LedgerInv, NEW w \in Writers, NEW value \in Results, SettleSuccess(w, value)
  PROVE  LedgerInv'
<1> DEFINE folded == FoldLifecycle(record, "succeeded")
<1>1. record \in Record /\ WellFormed(record) BY DEF LedgerInv, TypeOK, RecordWellFormed
<1>2. Fold(record, LifecycleFact("succeeded")) = folded BY DEF Fold, LifecycleFact
<1>3. folded # Refused /\ record' = [folded EXCEPT !.recovery = NoRecovery]
  BY <1>2 DEF SettleSuccess
<1>4. folded \in Record /\ folded.lifecycle = "succeeded" /\ Advances(record, folded)
  BY <1>1, <1>3, FoldLifecycleFacts DEF Lifecycle
<1>5. /\ record' \in Record /\ record'.lifecycle = "succeeded"
      /\ record'.recovery = NoRecovery /\ record'.failure = folded.failure
      /\ record'.revision = folded.revision
  BY <1>3, <1>4 DEF Record
<1>6. Advances(record, record') /\ WellFormed(record')
  <2>1. CASE folded = record
    <3>1. record.recovery = NoRecovery BY <1>1, <1>4, <2>1 DEF WellFormed, IsTerminal
    <3>2. record' = record BY <1>1, <1>3, <2>1, <3>1 DEF Record
    <3> QED BY <1>1, <3>2 DEF Advances
  <2>2. CASE folded # record
    <3>1. folded.revision = record.revision + 1 /\ ~IsTerminal(record.lifecycle)
      BY <1>4, <2>2 DEF Advances
    <3>2. folded.failure = record.failure
      BY <1>1, <1>3, <2>2 DEF FoldLifecycle, Record
    <3>3. record.failure = NoFailure BY <1>1, <3>1 DEF WellFormed, IsTerminal
    <3> QED BY <1>5, <3>1, <3>2, <3>3 DEF Advances, WellFormed, IsTerminal
  <2> QED BY <2>1, <2>2
<1>7. now \in 1..MaxInstant BY DEF LedgerInv, TypeOK
<1>8. read' = read BY DEF SettleSuccess
<1>10. TypeOK' BY <1>5, <1>7, Bounds DEF SettleSuccess, LedgerInv, TypeOK
<1>11. ResultIffSucceeded'
  BY <1>5, <1>7, Bounds DEF SettleSuccess, ResultIffSucceeded, IsTerminal
<1>12. ReadsBehind' /\ RevisionNamesRecord' BY <1>5, <1>6, <1>8, ReadsSurviveAdvance
<1> QED BY <1>6, <1>10, <1>11, <1>12 DEF LedgerInv, RecordWellFormed

\* Reading, or checking a resume, records exactly what the row holds.
LEMMA ReadPreserves ==
  ASSUME LedgerInv, NEW w \in Writers, NEW category \in Category \cup {"none"},
         read' = [read EXCEPT ![w] = record], asked' = [asked EXCEPT ![w] = category],
         UNCHANGED <<record, result, settledAt, receipts, now>>
  PROVE  LedgerInv'
<1>1. record.revision \in Nat BY DEF LedgerInv, TypeOK, Record
<1>2. \A v \in Writers : read'[v] = IF v = w THEN record ELSE read[v]
  BY DEF LedgerInv, TypeOK
<1>3. TypeOK' BY DEF LedgerInv, TypeOK
<1>4. ReadsBehind' BY <1>1, <1>2 DEF LedgerInv, ReadsBehind
<1>5. RevisionNamesRecord' BY <1>2 DEF LedgerInv, RevisionNamesRecord, RevisionHeld
<1> QED
  BY <1>3, <1>4, <1>5 DEF LedgerInv, RecordWellFormed, ResultIffSucceeded

\* Activating a receipt is one accepted recovery fold (activate_retained_recovery).
LEMMA ActivatePreserves ==
  ASSUME LedgerInv, NEW receipt \in receipts, Activate(receipt)
  PROVE  LedgerInv' /\ record'.revision = record.revision + 1 /\ ~IsTerminal(record.lifecycle)
<1> DEFINE new == [record.recovery EXCEPT !.manual = FALSE, !.attempt = 0, !.observed = @ + 1]
<1>1. record \in Record /\ WellFormed(record) BY DEF LedgerInv, TypeOK, RecordWellFormed
<1>2. record.recovery \in RecoveryFact BY <1>1 DEF Activate, Record
<1>3. record.recovery.observed + 1 \in Nat BY <1>2 DEF RecoveryFact
<1>4. /\ new \in RecoveryFact /\ new.category = record.recovery.category
      /\ new.evidence = record.recovery.evidence /\ ~new.manual
  BY <1>2, <1>3 DEF RecoveryFact
<1>5. record' = FoldRecovery(record, new) BY DEF Activate, Fold, RecoveryOf
<1>6. ~IsTerminal(record.lifecycle) /\ record.recovery # new
  BY <1>4 DEF Activate
<1>7. Admits(new.category, new.evidence) BY <1>1, <1>4 DEF Activate, WellFormed
<1>8. record' = [record EXCEPT !.recovery = new, !.revision = @ + 1]
  BY <1>5, <1>6, <1>7 DEF FoldRecovery
<1>9. /\ record'.lifecycle = record.lifecycle /\ record'.revision = record.revision + 1
      /\ record'.recovery = new /\ record'.failure = record.failure
  BY <1>1, <1>8 DEF Record
<1>10. record.revision + 1 \in Nat BY <1>1 DEF Record
<1>11. record' \in Record BY <1>1, <1>4, <1>8, <1>10 DEF Record
<1>12. WellFormed(record') BY <1>1, <1>4, <1>6, <1>7, <1>9 DEF WellFormed
<1>13. Advances(record, record') BY <1>6, <1>9 DEF Advances
<1>14. /\ read' = read /\ asked' = asked /\ receipts' = receipts /\ now' = now
       /\ settledAt' = settledAt /\ result' = result
  BY DEF Activate
<1>15. TypeOK' BY <1>11, <1>14 DEF LedgerInv, TypeOK
<1>16. ResultIffSucceeded' BY <1>9, <1>14 DEF LedgerInv, ResultIffSucceeded
<1>17. ReadsBehind' /\ RevisionNamesRecord' BY <1>11, <1>13, <1>14, ReadsSurviveAdvance
<1> QED BY <1>6, <1>9, <1>12, <1>15, <1>16, <1>17 DEF LedgerInv, RecordWellFormed

\* Every step of the ledger preserves the invariant.
LEMMA LedgerStep == LedgerInv /\ [Next]_vars => LedgerInv'
<1> SUFFICES ASSUME LedgerInv, [Next]_vars PROVE LedgerInv' OBVIOUS
<1>1. ASSUME NEW w \in Writers, Read(w) PROVE LedgerInv'
  BY <1>1, ReadPreserves DEF Read
<1>2. ASSUME NEW w \in Writers, NEW fact \in Facts, Apply(w, fact) PROVE LedgerInv'
  BY <1>2, LedgerAssumption, ApplyPreserves
<1>8. ASSUME NEW w \in Writers, RecordSnapshotSuccess(w) PROVE LedgerInv'
  BY <1>8, SnapshotSuccessIsApplied, ApplyPreserves
<1>3. ASSUME NEW w \in Writers, NEW value \in Results, SettleSuccess(w, value) PROVE LedgerInv'
  BY <1>3, SettlePreserves
<1>4. ASSUME NEW w \in Writers, NEW category \in Category, AskResume(w, category)
      PROVE  LedgerInv'
  BY <1>4, ReadPreserves DEF AskResume
<1>5. ASSUME NEW w \in Writers, CommitResume(w) PROVE LedgerInv'
  <2>1. /\ record' = record /\ result' = result /\ settledAt' = settledAt
        /\ read' = read /\ now' = now
    BY <1>5 DEF CommitResume
  <2>2. asked' \in [Writers -> Category \cup {"none"}]
    BY <1>5 DEF CommitResume, LedgerInv, TypeOK
  <2>3. read[w].revision \in Nat /\ asked[w] \in Category
    BY <1>5 DEF CommitResume, LedgerInv, TypeOK, Record, NothingRead
  <2>4. receipts' \subseteq [revision : Nat, category : Category]
    BY <1>5, <2>3 DEF CommitResume, LedgerInv, TypeOK, Receipt
  <2>5. TypeOK' BY <2>1, <2>2, <2>4 DEF LedgerInv, TypeOK
  <2> QED
    BY <2>1, <2>5 DEF LedgerInv, RecordWellFormed, ResultIffSucceeded, ReadsBehind,
                      RevisionNamesRecord, RevisionHeld
<1>6. ASSUME NEW receipt \in receipts, Activate(receipt) PROVE LedgerInv'
  BY <1>6, ActivatePreserves
<1>7. CASE Tick \/ UNCHANGED vars
  <2>1. /\ record' = record /\ result' = result /\ settledAt' = settledAt
        /\ read' = read /\ asked' = asked /\ receipts' = receipts
        /\ now' \in 1..MaxInstant
    BY <1>7, Bounds DEF Tick, vars, LedgerInv, TypeOK
  <2> QED
    BY <2>1 DEF LedgerInv, TypeOK, RecordWellFormed, ResultIffSucceeded, ReadsBehind,
                RevisionNamesRecord, RevisionHeld
<1> QED BY <1>1, <1>2, <1>3, <1>4, <1>5, <1>6, <1>7, <1>8 DEF Next

\* The ledger's variables keep their types.
THEOREM LedgerTypeCorrect == Spec => []TypeOK
<1>1. LedgerInv => TypeOK BY DEF LedgerInv
<1> QED BY <1>1, LedgerInit, LedgerStep, PTL DEF Spec

\* Whatever order racing writers' facts arrive in, the record keeps the shape
\* the domain promises: legal pairings, admitted evidence, no recovery after an
\* ending (OperationRecord::fold).
THEOREM LedgerRecordWellFormed == Spec => []RecordWellFormed
<1>1. LedgerInv => RecordWellFormed BY DEF LedgerInv
<1> QED BY <1>1, LedgerInit, LedgerStep, PTL DEF Spec

\* The revision is a sound compare-and-set token: a writer whose revision still
\* matches has read exactly the record it is about to change (require_revision).
THEOREM LedgerRevisionNamesRecord == Spec => []RevisionNamesRecord
<1>1. LedgerInv => RevisionNamesRecord BY DEF LedgerInv
<1> QED BY <1>1, LedgerInit, LedgerStep, PTL DEF Spec

\* A result is readable exactly when the operation succeeded (settle_success).
THEOREM LedgerResultIffSucceeded == Spec => []ResultIffSucceeded
<1>1. LedgerInv => ResultIffSucceeded BY DEF LedgerInv
<1> QED BY <1>1, LedgerInit, LedgerStep, PTL DEF Spec

\* No writer changes a terminal row's verdict or revision (OperationRecord::fold,
\* settle_success_guarded).
THEOREM LedgerEndingIsFinal == Spec => EndingIsFinal
<1>1. LedgerInv /\ [Next]_vars => [IsTerminal(record.lifecycle) => record' = record]_record
  <2> SUFFICES ASSUME LedgerInv, Next, IsTerminal(record.lifecycle) PROVE record' = record
    BY DEF vars
  <2>1. record \in Record /\ WellFormed(record) BY DEF LedgerInv, TypeOK, RecordWellFormed
  <2>2. ASSUME NEW w \in Writers, NEW fact, IsFact(fact), Apply(w, fact)
        PROVE  record' = record
    <3>1. Advances(record, Fold(record, fact)) BY <2>1, <2>2, FoldFacts DEF Apply
    <3> QED BY <2>2, <3>1 DEF Apply, Advances
  <2>5. ASSUME NEW w \in Writers, RecordSnapshotSuccess(w) PROVE record' = record
    BY <2>2, <2>5, SnapshotSuccessIsApplied
  <2>3. ASSUME NEW w \in Writers, NEW value \in Results, SettleSuccess(w, value)
        PROVE  record' = record
    <3>1. FoldLifecycle(record, "succeeded") # Refused
          /\ record' = [FoldLifecycle(record, "succeeded") EXCEPT !.recovery = NoRecovery]
      BY <2>3 DEF SettleSuccess, Fold, LifecycleFact
    <3>2. FoldLifecycle(record, "succeeded") = record
      BY <2>1, <3>1, FoldLifecycleFacts DEF Advances, Lifecycle
    <3>3. record.recovery = NoRecovery BY <2>1 DEF WellFormed
    <3> QED BY <2>1, <3>1, <3>2, <3>3 DEF Record
  <2>4. ASSUME NEW receipt \in receipts, Activate(receipt) PROVE record' = record
    BY <2>4, ActivatePreserves
  <2> QED
    BY <2>2, <2>3, <2>4, <2>5, LedgerAssumption DEF Next, Read, AskResume, CommitResume, Tick
<1> QED BY <1>1, LedgerInit, LedgerStep, PTL DEF Spec, EndingIsFinal

\* A receipt is recorded only at the revision its hold is at, and never lost
\* (record_eligible_resume_receipt).
THEOREM LedgerReceiptsAreEarned == Spec => ReceiptsAreEarned
<1> DEFINE Earned ==
      /\ receipts \subseteq receipts'
      /\ \A r \in receipts' \ receipts :
           /\ record.revision = r.revision
           /\ Resumable(record, r.category)
<1>1. [Next]_vars => [Earned]_receipts
  <2> SUFFICES ASSUME Next, receipts' # receipts PROVE Earned BY DEF vars
  <2>1. PICK w \in Writers : CommitResume(w)
    BY DEF Next, Read, Apply, RecordSnapshotSuccess, SettleSuccess, AskResume, Activate, Tick
  <2>2. /\ Resumable(record, asked[w]) /\ RevisionHeld(w)
        /\ receipts' = receipts \cup {Receipt(read[w].revision, asked[w])}
    BY <2>1 DEF CommitResume
  <2>3. /\ Receipt(read[w].revision, asked[w]).revision = record.revision
        /\ Receipt(read[w].revision, asked[w]).category = asked[w]
    BY <2>2 DEF Receipt, RevisionHeld
  <2> QED BY <2>2, <2>3
<1> QED BY <1>1, PTL DEF Spec, ReceiptsAreEarned

\* An accepted fact never turns a hold into an automatic retry of the same
\* category with nothing attempted, unless the fact itself says so
\* (OperationRecord::fold).
LEMMA FactReleasesNoHold ==
  ASSUME NEW rec \in Record, NEW fact, IsFact(fact), Fold(rec, fact) # Refused,
         rec.recovery.manual, Fold(rec, fact).recovery # NoRecovery,
         ~Fold(rec, fact).recovery.manual
  PROVE  fact.fact = "recovery" /\ Fold(rec, fact).recovery = fact.value
<1>1. CASE fact.fact = "lifecycle"
  <2>1. Fold(rec, fact) = FoldLifecycle(rec, fact.value) BY <1>1 DEF Fold
  <2>2. Fold(rec, fact).recovery = rec.recovery BY <2>1 DEF FoldLifecycle, Record
  <2> QED BY <2>2
<1>2. CASE fact.fact = "progress"
  <2>1. Fold(rec, fact) = FoldProgress(rec, fact.value) BY <1>2 DEF Fold
  <2>2. Fold(rec, fact).recovery = rec.recovery BY <2>1 DEF FoldProgress, Record
  <2> QED BY <2>2
<1>3. CASE fact.fact = "terminal"
  <2>1. Fold(rec, fact) = FoldTerminal(rec, fact.value) BY <1>3 DEF Fold
  <2>2. Fold(rec, fact).recovery \in {rec.recovery, NoRecovery}
    BY <2>1 DEF FoldTerminal, Record
  <2> QED BY <2>2
<1>4. CASE fact.fact = "recovery"
  <2>1. Fold(rec, fact) = FoldRecovery(rec, fact.value) BY <1>4 DEF Fold
  <2>2. Fold(rec, fact).recovery = fact.value BY <2>1 DEF FoldRecovery, Record
  <2> QED BY <1>4, <2>2
<1> QED BY <1>1, <1>2, <1>3, <1>4 DEF IsFact

\* A hold restarts with a fresh budget only under a receipt of its own revision
\* (activate_retained_recovery).  A proof of success cannot release it, because
\* the revision it is written against names the record it was decided on, and
\* that one was not known to have succeeded (record_snapshot_success).
THEOREM LedgerHoldNeedsItsReceipt == Spec => HoldNeedsItsReceipt
<1> DEFINE Restarts ==
      /\ record.recovery # NoRecovery /\ record.recovery.manual
      /\ record'.recovery # NoRecovery /\ ~record'.recovery.manual
      /\ record'.recovery.attempt = 0
      /\ record'.recovery.category = record.recovery.category
    Released == Receipt(record.revision, record.recovery.category) \in receipts
<1>1. LedgerInv /\ [Next]_vars => [Restarts => Released]_record
  <2> SUFFICES ASSUME LedgerInv, Next, record' # record, Restarts PROVE Released
    BY DEF vars
  <2>1. record \in Record /\ WellFormed(record) BY DEF LedgerInv, TypeOK, RecordWellFormed
  <2>2. ASSUME NEW w \in Writers, NEW fact \in Facts, Apply(w, fact) PROVE Released
    <3>1. IsFact(fact) /\ (fact.fact = "recovery" => CountsFromOne(fact.value))
      BY LedgerAssumption
    <3>2. record' = Fold(record, fact) /\ record' # Refused BY <2>2 DEF Apply
    <3>3. fact.fact = "recovery" /\ record'.recovery = fact.value
      BY <2>1, <3>1, <3>2, FactReleasesNoHold
    <3> QED BY <3>1, <3>3 DEF CountsFromOne
  <2>3. ASSUME NEW w \in Writers, RecordSnapshotSuccess(w) PROVE Released
    <3> DEFINE r == Recovery("result_acquisition", ProvenSuccess, 0, FALSE, now)
    <3>1. IsFact(RecoveryOf(r)) /\ Apply(w, RecoveryOf(r)) /\ record.recovery.evidence # ProvenSuccess
      BY <2>3, SnapshotSuccessIsApplied
    <3>2. record' = Fold(record, RecoveryOf(r)) /\ record' # Refused BY <3>1 DEF Apply
    <3>3. record'.recovery = RecoveryOf(r).value
      BY <2>1, <3>1, <3>2, FactReleasesNoHold
    <3>4. record.recovery.category = "result_acquisition"
      BY <3>3 DEF RecoveryOf, Recovery
    <3>5. Admits(record.recovery.category, record.recovery.evidence)
      BY <2>1 DEF WellFormed
    <3> QED BY <3>1, <3>4, <3>5 DEF Admits, ProvenCategory
  <2>4. ASSUME NEW w \in Writers, NEW value \in Results, SettleSuccess(w, value)
        PROVE  Released
    <3>1. PICK f \in Record : record' = [f EXCEPT !.recovery = NoRecovery]
      <4>1. Fold(record, LifecycleFact("succeeded")) \in Record
        <5>1. Fold(record, LifecycleFact("succeeded")) = FoldLifecycle(record, "succeeded")
          BY DEF Fold, LifecycleFact
        <5>2. FoldLifecycle(record, "succeeded") # Refused BY <2>4, <5>1 DEF SettleSuccess
        <5> QED BY <2>1, <5>1, <5>2, FoldLifecycleFacts DEF Lifecycle
      <4> QED BY <2>4, <4>1 DEF SettleSuccess
    <3>2. record'.recovery = NoRecovery BY <3>1 DEF Record
    <3> QED BY <3>2
  <2>5. ASSUME NEW receipt \in receipts, Activate(receipt) PROVE Released
    <3>1. /\ receipt \in [revision : Nat, category : Category]
          /\ receipt.revision = record.revision /\ receipt.category = record.recovery.category
      BY <2>5 DEF Activate, LedgerInv, TypeOK
    <3>2. receipt = Receipt(record.revision, record.recovery.category) BY <3>1 DEF Receipt
    <3> QED BY <3>2
  <2> QED BY <2>2, <2>3, <2>4, <2>5 DEF Next, Read, AskResume, CommitResume, Tick
<1> QED BY <1>1, LedgerInit, LedgerStep, PTL DEF Spec, HoldNeedsItsReceipt

-----------------------------------------------------------------------------
(* The waiters (OperationWait).                                            *)

(* Revisions go up along a queue, from above what its waiter had seen.     *)
IsNews(s, seen) ==
    /\ \A i \in 1 .. Len(s) : s[i].revision > seen
    /\ \A i, j \in 1 .. Len(s) : i < j => s[i].revision < s[j].revision

(* Nothing in a queue is newer than the row, and what is as new is the row.*)
IsPast(s, update) ==
    \A i \in 1 .. Len(s) : /\ s[i].revision <= update.revision
                           /\ s[i].revision = update.revision => s[i] = update

(* The row comes last in the queue of a waiter that has not seen it.       *)
EndsWith(s, seen, update) ==
    seen < update.revision => s # <<>> /\ s[Len(s)] = update

(* Queues within their bound (maximum_waiter_queue_updates).               *)
Queues == {s \in Seq(Updates) : Len(s) <= QueueUpdates}

(* What holds of a waiter that is attached: its queue is in order and holds *)
(* rows of the past only, and an ending that was published comes last.     *)
WaiterOK(w) ==
    /\ queue[w] \in Queues /\ delivered[w] \in 0 .. row.revision
    /\ IsNews(queue[w], delivered[w]) /\ IsPast(queue[w], row)
    /\ row.kind = "terminal" /\ published = row.revision
          => EndsWith(queue[w], delivered[w], row)

(* The inductive invariant.                                                *)
WaitInv ==
    /\ WaitTypeOK /\ published <= row.revision
    /\ \A w \in Attached : WaiterOK(w)

-----------------------------------------------------------------------------
(* A queue that gives an update up keeps the order of the others.          *)
LEMMA WithoutKeeps ==
    ASSUME NEW s \in Queues, NEW k \in 1 .. Len(s), NEW seen \in Nat, NEW update \in Updates,
           IsNews(s, seen), IsPast(s, update)
    PROVE  /\ Without(s, k) \in Seq(Updates) /\ Len(Without(s, k)) = Len(s) - 1
           /\ IsNews(Without(s, k), seen) /\ IsPast(Without(s, k), update)
           /\ \A i \in 1 .. Len(Without(s, k)) :
                 \E j \in 1 .. Len(s) : Without(s, k)[i] = s[j]
<1> DEFINE a == SubSeq(s, 1, k - 1)
           b == SubSeq(s, k + 1, Len(s))
           t == a \o b
<1>1. s \in Seq(Updates) /\ Len(s) \in Nat /\ k \in Nat /\ \A i \in 1 .. Len(s) : s[i] \in Updates
  BY ElementOfSeq, LenProperties DEF Queues
<1>2. /\ a \in Seq(Updates) /\ Len(a) = k - 1
      /\ \A i \in 1 .. k - 1 : a[i] = s[i]
  <2>1. /\ a \in Seq(Updates)
        /\ Len(a) = IF 1 <= k - 1 THEN (k - 1) - 1 + 1 ELSE 0
        /\ \A i \in 1 .. (k - 1) - 1 + 1 : a[i] = s[1 + i - 1]
    <3>1. 1 \in Int /\ k - 1 \in Int /\ \A i \in 1 .. k - 1 : s[i] \in Updates BY <1>1
    <3> QED BY ONLY <3>1, SubSeqProperties
  <2> QED BY <1>1, <2>1
<1>3. /\ b \in Seq(Updates) /\ Len(b) = Len(s) - k
      /\ \A i \in 1 .. Len(s) - k : b[i] = s[k + i]
  <2>1. /\ b \in Seq(Updates)
        /\ Len(b) = IF k + 1 <= Len(s) THEN Len(s) - (k + 1) + 1 ELSE 0
        /\ \A i \in 1 .. Len(s) - (k + 1) + 1 : b[i] = s[k + 1 + i - 1]
    <3>1. k + 1 \in Int /\ Len(s) \in Int /\ \A i \in k + 1 .. Len(s) : s[i] \in Updates BY <1>1
    <3> QED BY ONLY <3>1, SubSeqProperties
  <2> QED BY <1>1, <2>1
<1>4. /\ t \in Seq(Updates) /\ Len(t) = Len(a) + Len(b)
      /\ \A i \in 1 .. Len(a) + Len(b) : t[i] = IF i <= Len(a) THEN a[i] ELSE b[i - Len(a)]
  <2> HIDE DEF a, b
  <2> QED BY <1>2, <1>3, ConcatProperties
<1>5. Len(t) = Len(s) - 1
  <2> HIDE DEF a, b, t
  <2> QED BY <1>1, <1>2, <1>3, <1>4
<1>6. \A i \in 1 .. Len(t) : t[i] = s[IF i < k THEN i ELSE i + 1]
  <2> HIDE DEF a, b, t
  <2> SUFFICES ASSUME NEW i \in 1 .. Len(t) PROVE t[i] = s[IF i < k THEN i ELSE i + 1]
    OBVIOUS
  <2>1. CASE i < k BY <1>1, <1>2, <1>3, <1>4, <1>5, <2>1
  <2>2. CASE ~(i < k)
    <3>1. i - (k - 1) \in 1 .. Len(s) - k /\ k + (i - (k - 1)) = i + 1 BY <1>1, <1>5, <2>2
    <3>2. t[i] = b[i - (k - 1)] BY <1>1, <1>2, <1>3, <1>4, <1>5, <2>2
    <3> QED BY <1>3, <2>2, <3>1, <3>2
  <2> QED BY <2>1, <2>2
<1>7. Without(s, k) = t BY DEF Without
<1> HIDE DEF a, b, t
<1>8. \A i \in 1 .. Len(t) : (IF i < k THEN i ELSE i + 1) \in 1 .. Len(s)
  BY <1>1, <1>5
<1>9. IsPast(t, update) BY <1>6, <1>8 DEF IsPast
<1>10. \A i \in 1 .. Len(t) : t[i].revision > seen BY <1>6, <1>8 DEF IsNews
<1>11. \A i, j \in 1 .. Len(t) : i < j => t[i].revision < t[j].revision
  <2> SUFFICES ASSUME NEW i \in 1 .. Len(t), NEW j \in 1 .. Len(t), i < j
               PROVE  t[i].revision < t[j].revision
    OBVIOUS
  <2>1. (IF i < k THEN i ELSE i + 1) < (IF j < k THEN j ELSE j + 1) BY <1>1, <1>5
  <2> QED BY <1>6, <1>8, <2>1 DEF IsNews
<1> QED BY <1>4, <1>5, <1>6, <1>7, <1>8, <1>9, <1>10, <1>11 DEF IsNews

(* The oldest update is the first.                                         *)
LEMMA TailIsWithout ==
    ASSUME NEW s \in Seq(Updates), s # <<>>
    PROVE  Tail(s) = Without(s, 1)
<1>1. Tail(s) \in Seq(Updates) /\ Tail(s) = SubSeq(s, 2, Len(s))
  BY HeadTailProperties, TailIsSubSeq
<1>2. SubSeq(s, 1, 1 - 1) = <<>> BY SubSeqEmpty
<1>3. <<>> \o Tail(s) = Tail(s) BY <1>1, ConcatEmptySeq
<1> QED BY <1>1, <1>2, <1>3 DEF Without

(* Where there is a progress note there is an oldest one.                  *)
LEMMA FirstProgressIsThere ==
    ASSUME NEW s \in Seq(Updates), \E i \in 1 .. Len(s) : s[i].kind = "progress"
    PROVE  FirstProgress(s) \in 1 .. Len(s)
<1> DEFINE Notes == {i \in 1 .. Len(s) : s[i].kind = "progress"}
<1>1. Len(s) \in Nat BY LenProperties
<1>2. Notes # {} /\ Notes \subseteq Nat BY <1>1
<1>3. PICK i \in Notes : \A j \in Notes : ~(j < i)
  <2> DEFINE R == OpToRel(<, Nat)
  <2>1. IsWellFoundedOn(R, Nat) BY NatLessThanWellFounded, Zenon
  <2>2. \A i, j \in Nat : j < i => <<j, i>> \in R BY Zenon DEF OpToRel
  <2> HIDE DEF Notes, R
  <2>3. PICK i \in Notes : \A j \in Notes : ~(<<j, i>> \in R) BY <1>2, <2>1, WFMin
  <2> QED BY <1>2, <2>2, <2>3
<1>4. \A j \in 1 .. i - 1 : s[j].kind # "progress" BY <1>1, <1>3
<1> QED BY <1>3, <1>4 DEF FirstProgress

(* An update newer than a queue may follow it.                             *)
LEMMA AppendKeeps ==
    ASSUME NEW s \in Seq(Updates), NEW seen \in Nat, NEW update \in Updates,
           IsNews(s, seen), IsPast(s, update), update.revision > seen,
           \A i \in 1 .. Len(s) : s[i].revision < update.revision
    PROVE  /\ Append(s, update) \in Seq(Updates) /\ Len(Append(s, update)) = Len(s) + 1
           /\ IsNews(Append(s, update), seen) /\ IsPast(Append(s, update), update)
           /\ EndsWith(Append(s, update), seen, update)
<1> DEFINE t == Append(s, update)
<1>1. /\ t \in Seq(Updates) /\ t # <<>> /\ Len(t) = Len(s) + 1 /\ Len(s) \in Nat
      /\ \A i \in 1 .. Len(s) : t[i] = s[i]
      /\ t[Len(s) + 1] = update
  BY AppendProperties, LenProperties
<1> HIDE DEF t
<1>2. \A i \in 1 .. Len(t) : i \in 1 .. Len(s) \/ i = Len(s) + 1 BY <1>1
<1>3. update.revision \in Nat BY DEF Updates
<1>4. IsNews(t, seen) BY <1>1, <1>2, <1>3 DEF IsNews
<1>5. IsPast(t, update) BY <1>1, <1>2, <1>3 DEF IsPast
<1>6. EndsWith(t, seen, update) BY <1>1 DEF EndsWith
<1> QED BY <1>1, <1>4, <1>5, <1>6 DEF t

(* enqueue keeps a queue in order and within its bound, and an ending is   *)
(* its last update, whatever it had to drop.                               *)
LEMMA EnqueuedKeeps ==
    ASSUME BoundAssumption, NEW s \in Queues, NEW seen \in Nat, NEW update \in Updates,
           IsNews(s, seen), IsPast(s, update), seen <= update.revision
    PROVE  LET t == Enqueued(s, seen, update)
           IN  /\ t \in Queues /\ IsNews(t, seen) /\ IsPast(t, update)
               /\ update.kind = "terminal" => EndsWith(t, seen, update)
<1> DEFINE newest == IF s = <<>> THEN seen ELSE s[Len(s)].revision
           t == Enqueued(s, seen, update)
<1> SUFFICES /\ t \in Queues /\ IsNews(t, seen) /\ IsPast(t, update)
             /\ update.kind = "terminal" => EndsWith(t, seen, update)
  OBVIOUS
<1>1. /\ s \in Seq(Updates) /\ Len(s) \in Nat /\ Len(s) <= QueueUpdates
      /\ s # <<>> => Len(s) \in 1 .. Len(s)
      /\ \A i \in 1 .. Len(s) : s[i] \in Updates
  BY EmptySeq, ElementOfSeq, LenProperties DEF Queues
<1>2. QueueUpdates \in Nat \ {0} BY DEF BoundAssumption
<1>3. update.revision \in Nat BY DEF Updates
<1>4. CASE update.revision <= newest
  <2>1. t = s BY <1>4 DEF Enqueued
  <2>2. EndsWith(s, seen, update)
    <3>1. CASE s = <<>> BY <1>3, <1>4, <3>1 DEF EndsWith
    <3>2. CASE s # <<>>
      <4>1. s[Len(s)] = update BY <1>1, <1>3, <1>4, <3>2 DEF IsPast, Updates
      <4> QED BY <3>2, <4>1 DEF EndsWith
    <3> QED BY <3>1, <3>2
  <2> QED BY <2>1, <2>2
<1>5. CASE ~(update.revision <= newest)
  <2>1. \A i \in 1 .. Len(s) : s[i].revision < update.revision
    <3> SUFFICES ASSUME NEW i \in 1 .. Len(s) PROVE s[i].revision < update.revision OBVIOUS
    <3>1. s # <<>> /\ Len(s) \in 1 .. Len(s) BY <1>1
    <3>2. s[i] \in Updates /\ s[Len(s)] \in Updates BY <1>1, <3>1
    <3>3. s[i].revision <= s[Len(s)].revision
      <4>1. CASE i = Len(s) BY <3>2, <4>1 DEF Updates
      <4>2. CASE i < Len(s) BY <3>1, <3>2, <4>2 DEF IsNews, Updates
      <4> QED BY <1>1, <4>1, <4>2
    <3> QED BY <1>3, <1>5, <3>1, <3>2, <3>3 DEF Updates
  <2>2. update.revision > seen
    <3>1. CASE s = <<>> BY <1>3, <1>5, <3>1
    <3>2. CASE s # <<>> BY <1>1, <1>3, <2>1, <3>2 DEF IsNews, Updates
    <3> QED BY <3>1, <3>2
  <2>3. CASE Len(s) < QueueUpdates
    <3>1. t = Append(s, update) BY <1>5, <2>3 DEF Enqueued
    <3>2. Len(s) + 1 <= QueueUpdates BY <1>1, <1>2, <2>3
    <3> HIDE DEF t
    <3> QED BY <1>1, <2>1, <2>2, <3>1, <3>2, AppendKeeps DEF Queues
  <2>4. ASSUME NEW k \in 1 .. Len(s), t = Append(Without(s, k), update)
        PROVE  t \in Queues /\ IsNews(t, seen) /\ IsPast(t, update) /\ EndsWith(t, seen, update)
    <3> DEFINE r == Without(s, k)
    <3>1. /\ r \in Seq(Updates) /\ Len(r) = Len(s) - 1
          /\ IsNews(r, seen) /\ IsPast(r, update)
          /\ \A i \in 1 .. Len(r) : \E j \in 1 .. Len(s) : r[i] = s[j]
      BY WithoutKeeps
    <3>2. \A i \in 1 .. Len(r) : r[i].revision < update.revision BY <2>1, <3>1
    <3>3. t = Append(r, update) BY <2>4
    <3>4. Len(r) + 1 <= QueueUpdates BY <1>1, <1>2, <3>1
    <3> HIDE DEF t, r
    <3> QED BY <2>2, <3>1, <3>2, <3>3, <3>4, AppendKeeps DEF Queues
  <2>5. CASE ~(Len(s) < QueueUpdates) /\ \E i \in 1 .. Len(s) : s[i].kind = "progress"
    <3>1. t = Append(Without(s, FirstProgress(s)), update) BY <1>5, <2>5 DEF Enqueued
    <3>2. FirstProgress(s) \in 1 .. Len(s) BY <1>1, <2>5, FirstProgressIsThere
    <3> HIDE DEF t
    <3> QED BY <2>4, <3>1, <3>2
  <2>6. CASE ~(Len(s) < QueueUpdates) /\ ~\E i \in 1 .. Len(s) : s[i].kind = "progress"
    <3>1. s # <<>> BY <1>1, <1>2, <2>6
    <3>2. CASE update.kind # "progress"
      <4>1. t = Append(Tail(s), update) BY <1>5, <2>6, <3>2 DEF Enqueued
      <4>2. Tail(s) = Without(s, 1) BY <1>1, <3>1, TailIsWithout
      <4>3. 1 \in 1 .. Len(s) BY <1>1, <3>1
      <4> HIDE DEF t
      <4> QED BY <2>4, <4>1, <4>2, <4>3
    <3>3. CASE update.kind = "progress"
      <4>1. t = s BY <1>5, <2>6, <3>3 DEF Enqueued
      <4> QED BY <3>3, <4>1
    <3> QED BY <3>2, <3>3
  <2> HIDE DEF t, newest
  <2> QED BY <2>3, <2>5, <2>6
<1> QED BY <1>4, <1>5

-----------------------------------------------------------------------------
(* The invariant.                                                          *)

(* Nobody waits on a row that was just admitted.                           *)
LEMMA WaitInitHolds == WaitInit => WaitInv
<1> SUFFICES ASSUME WaitInit PROVE WaitInv OBVIOUS
<1>1. Attached = {} BY DEF WaitInit, Attached
<1>2. row \in Updates BY BoundAssumption DEF WaitInit, Updates, Kinds
<1>3. WaitTypeOK
  <2>1. <<>> \in Seq(Updates) /\ Len(<<>>) = 0 BY EmptySeq
  <2>2. 0 \in 0 .. MaxRowRevision BY BoundAssumption
  <2>3. queue \in [Waiters -> Seq(Updates)] /\ \A w \in Waiters : Len(queue[w]) <= QueueUpdates
    BY <2>1, BoundAssumption DEF WaitInit
  <2>4. /\ due \in BOOLEAN /\ unnotified \in BOOLEAN /\ stopping \in BOOLEAN
        /\ pc \in [Waiters -> {"away", "poll", "enabled", "looked", "asleep"}]
        /\ woken \in [Waiters -> BOOLEAN]
    BY DEF WaitInit
  <2>5. published \in 0 .. MaxRowRevision /\ delivered \in [Waiters -> 0 .. MaxRowRevision]
    BY <2>2 DEF WaitInit
  <2> QED BY <1>2, <2>3, <2>4, <2>5 DEF WaitTypeOK
<1>4. published <= row.revision BY DEF WaitInit
<1> QED BY <1>1, <1>3, <1>4 DEF WaitInv

(* A row that moves is newer than every queue, and not yet published.      *)
LEMMA MoveKeeps ==
    ASSUME WaitInv, NEW kind \in Kinds, Move(kind), due' \in BOOLEAN,
           UNCHANGED <<published, unnotified, sleepers, stopping>>
    PROVE  WaitInv'
<1>1. /\ WaitTypeOK /\ published <= row.revision
      /\ \A w \in Attached : WaiterOK(w)
  BY DEF WaitInv
<1>2. row \in Updates /\ row.revision \in Nat BY <1>1 DEF WaitTypeOK, Updates
<1>3. row' \in Updates /\ row'.revision = row.revision + 1
  BY <1>2, BoundAssumption DEF Move, Updates
<1>4. WaitTypeOK' BY <1>1, <1>3 DEF WaitTypeOK, sleepers
<1>5. published' < row'.revision /\ published \in Nat BY <1>1, <1>2, <1>3 DEF WaitTypeOK
<1>6. ASSUME NEW w \in Attached' PROVE WaiterOK(w)'
  <2>1. w \in Attached /\ WaiterOK(w) BY <1>1 DEF Attached, sleepers
  <2>2. queue'[w] = queue[w] /\ delivered'[w] = delivered[w] BY DEF sleepers
  <2>3. \A i \in 1 .. Len(queue[w]) : queue[w][i] \in Updates
    BY <2>1, ElementOfSeq DEF WaiterOK, Queues
  <2>4. IsPast(queue'[w], row') BY <1>2, <1>3, <2>1, <2>2, <2>3 DEF WaiterOK, IsPast, Updates
  <2>5. delivered'[w] \in 0 .. row'.revision BY <1>2, <1>3, <2>1, <2>2 DEF WaiterOK
  <2>6. published' # row'.revision BY <1>2, <1>3, <1>5
  <2> QED BY <2>1, <2>2, <2>4, <2>5, <2>6, Zenon DEF WaiterOK, Queues
<1>7. (published <= row.revision)' BY <1>2, <1>3, <1>5
<1>8. (\A w \in Attached : WaiterOK(w))' BY <1>6, Zenon
<1> QED BY <1>4, <1>7, <1>8 DEF WaitInv

(* What a step that writes no queue, row or publication leaves.            *)
LEMMA QuietKeeps ==
    ASSUME WaitInv, UNCHANGED <<row, published, queue, delivered>>, Attached' = Attached,
           due' \in BOOLEAN, unnotified' \in BOOLEAN, stopping' \in BOOLEAN,
           pc' \in [Waiters -> {"away", "poll", "enabled", "looked", "asleep"}],
           woken' \in [Waiters -> BOOLEAN]
    PROVE  WaitInv'
<1>1. WaitTypeOK' BY DEF WaitInv, WaitTypeOK
<1>2. /\ published <= row.revision
      /\ \A w \in Attached : WaiterOK(w)
  BY DEF WaitInv
<1>3. \A w : WaiterOK(w) => WaiterOK(w)' BY DEF WaiterOK, Queues
<1> QED BY <1>1, <1>2, <1>3 DEF WaitInv

(* publish_settlement tells everybody attached.                            *)
LEMMA PublishKeeps ==
    ASSUME WaitInv, Publish
    PROVE  WaitInv'
<1>1. /\ WaitTypeOK /\ published <= row.revision
      /\ \A w \in Attached : WaiterOK(w)
  BY DEF WaitInv
<1>2. row \in Updates /\ row.revision \in 1 .. MaxRowRevision BY <1>1 DEF WaitTypeOK, Updates
<1>3. CASE ~(Attached # {} /\ row.revision > published)
  <2>1. UNCHANGED <<row, published, queue, delivered, pc, woken, stopping>> /\ due' = FALSE
        /\ unnotified' = TRUE
    BY <1>3 DEF Publish
  <2> QED BY <1>1, <2>1, QuietKeeps DEF Attached, WaitTypeOK
<1>4. CASE Attached # {} /\ row.revision > published
  <2>1. /\ published' = row.revision /\ due' = FALSE /\ unnotified' = TRUE
        /\ queue' = [w \in Waiters |->
                      IF w \in Attached THEN Enqueued(queue[w], delivered[w], row)
                                        ELSE queue[w]]
        /\ UNCHANGED <<row, pc, delivered, woken, stopping>>
    BY <1>4 DEF Publish
  <2>2. Attached' = Attached BY <2>1 DEF Attached
  <2>3. ASSUME NEW w \in Attached
        PROVE  queue'[w] \in Queues /\ WaiterOK(w)'
    <3> DEFINE t == Enqueued(queue[w], delivered[w], row)
    <3>1. /\ queue[w] \in Queues /\ delivered[w] \in Nat /\ delivered[w] <= row.revision
          /\ IsNews(queue[w], delivered[w]) /\ IsPast(queue[w], row)
      BY <1>1, <1>2 DEF WaiterOK
    <3>2. /\ t \in Queues /\ IsNews(t, delivered[w]) /\ IsPast(t, row)
          /\ row.kind = "terminal" => EndsWith(t, delivered[w], row)
      BY <1>2, <3>1, EnqueuedKeeps, BoundAssumption
    <3>3. queue'[w] = t BY <2>1 DEF Attached
    <3>4. WaiterOK(w) BY <1>1
    <3> HIDE DEF t
    <3> QED BY <2>1, <3>2, <3>3, <3>4 DEF WaiterOK, Queues
  <2>4. ASSUME NEW w \in Waiters PROVE queue'[w] \in Queues
    <3>1. CASE w \in Attached BY <2>3, <3>1
    <3>2. CASE w \notin Attached BY <1>1, <2>1, <3>2 DEF WaitTypeOK, Queues
    <3> QED BY <3>1, <3>2
  <2>5. queue' \in [Waiters -> Seq(Updates)] /\ \A w \in Waiters : Len(queue'[w]) <= QueueUpdates
    <3>1. DOMAIN queue' = Waiters /\ queue' = [w \in Waiters |-> queue'[w]] BY <2>1
    <3> QED BY <2>4, <3>1 DEF Queues
  <2>6. published' \in 0 .. MaxRowRevision BY <1>2, <2>1
  <2>7. WaitTypeOK' BY <1>1, <2>1, <2>5, <2>6 DEF WaitTypeOK
  <2>8. (published <= row.revision)' BY <1>2, <2>1
  <2>9. (\A w \in Attached : WaiterOK(w))' BY <2>2, <2>3
  <2> QED BY <2>7, <2>8, <2>9 DEF WaitInv
<1> QED BY <1>3, <1>4

(* A waiter that attaches behind the row is given the row.                 *)
LEMMA AttachKeeps ==
    ASSUME WaitInv, NEW w \in Waiters, NEW seen \in 0 .. MaxRowRevision, Attach(w, seen)
    PROVE  WaitInv'
<1>1. /\ WaitTypeOK /\ published <= row.revision
      /\ \A x \in Attached : WaiterOK(x)
  BY DEF WaitInv
<1>2. row \in Updates /\ row.revision \in 1 .. MaxRowRevision BY <1>1 DEF WaitTypeOK, Updates
<1> DEFINE t == IF row.revision > seen THEN <<row>> ELSE <<>>
<1>3. /\ t \in Seq(Updates) /\ Len(t) <= 1
      /\ \A i \in 1 .. Len(t) : t[i] = row /\ row.revision > seen
      /\ Len(t) \in Nat
      /\ EndsWith(t, seen, row)
  BY <1>2, EmptySeq DEF EndsWith
<1>4. /\ seen <= row.revision
      /\ pc' = [pc EXCEPT ![w] = "poll"] /\ queue' = [queue EXCEPT ![w] = t]
      /\ delivered' = [delivered EXCEPT ![w] = seen]
      /\ published' = IF Attached = {} THEN row.revision ELSE published
      /\ UNCHANGED <<row, due, unnotified, woken, stopping>>
  BY DEF Attach
<1>5. Attached' = Attached \cup {w} BY <1>1, <1>4 DEF Attached, WaitTypeOK
<1>6. t \in Queues BY <1>3, BoundAssumption DEF Queues
<1> HIDE DEF t
<1>7. WaitTypeOK' BY <1>1, <1>2, <1>4, <1>6 DEF WaitTypeOK, Queues
<1>8. (published <= row.revision)' BY <1>1, <1>2, <1>4
<1>9. WaiterOK(w)'
  <2>1. queue'[w] = t /\ delivered'[w] = seen BY <1>1, <1>4 DEF WaitTypeOK
  <2>2. IsNews(t, seen) BY <1>3 DEF IsNews
  <2>3. IsPast(t, row) BY <1>2, <1>3 DEF IsPast
  <2> QED BY <1>2, <1>3, <1>4, <1>6, <2>1, <2>2, <2>3 DEF WaiterOK, Queues
<1>10. ASSUME NEW x \in Attached, x # w PROVE WaiterOK(x)'
  <2>1. queue'[x] = queue[x] /\ delivered'[x] = delivered[x] /\ published' = published
    BY <1>1, <1>4, <1>10 DEF WaitTypeOK, Attached
  <2>2. WaiterOK(x) BY <1>1
  <2> QED BY <1>4, <2>1, <2>2 DEF WaiterOK, Queues
<1>11. (\A x \in Attached : WaiterOK(x))' BY <1>5, <1>9, <1>10
<1> QED BY <1>7, <1>8, <1>11 DEF WaitInv

(* A waiter that leaves takes nothing from the others; with the last one   *)
(* the registry forgets what it published.                                 *)
LEMMA LeaveKeeps ==
    ASSUME WaitInv, NEW w \in Waiters, Leave(w), UNCHANGED <<row, due, unnotified, stopping>>
    PROVE  WaitInv'
<1>1. /\ WaitTypeOK /\ published <= row.revision
      /\ \A x \in Attached : WaiterOK(x)
  BY DEF WaitInv
<1>2. row.revision \in 1 .. MaxRowRevision BY <1>1 DEF WaitTypeOK, Updates
<1>3. Attached' = Attached \ {w} BY <1>1 DEF Attached, Leave, WaitTypeOK
<1>4. WaitTypeOK'
  <2>1. <<>> \in Seq(Updates) /\ Len(<<>>) = 0 BY EmptySeq
  <2> QED BY <1>1, <1>2, <2>1, BoundAssumption DEF WaitTypeOK, Leave
<1>5. (published <= row.revision)' BY <1>1, <1>2 DEF Leave
<1>6. ASSUME NEW x \in Attached, x # w PROVE WaiterOK(x)'
  <2>1. queue'[x] = queue[x] /\ delivered'[x] = delivered[x] /\ published' = published
    BY <1>1, <1>6 DEF WaitTypeOK, Attached, Leave
  <2>2. WaiterOK(x) BY <1>1
  <2> QED BY <2>1, <2>2 DEF WaiterOK, Queues
<1>7. (\A x \in Attached : WaiterOK(x))' BY <1>3, <1>6
<1> QED BY <1>4, <1>5, <1>7 DEF WaitInv

(* A waiter that goes from place to place stays attached.                  *)
LEMMA PollKeeps ==
    ASSUME WaitInv, NEW w \in Waiters, Enable(w) \/ Look(w) \/ Sleep(w) \/ Wake(w)
    PROVE  WaitInv'
<1>1. WaitTypeOK BY DEF WaitInv
<1>2. /\ \E place \in {"poll", "enabled", "looked", "asleep"} : pc' = [pc EXCEPT ![w] = place]
      /\ pc[w] # "away" /\ woken' \in [Waiters -> BOOLEAN]
      /\ UNCHANGED <<row, due, published, unnotified, queue, delivered, stopping>>
  BY <1>1 DEF Enable, Look, Sleep, Wake, WaitTypeOK
<1>3. Attached' = Attached BY <1>1, <1>2 DEF Attached, WaitTypeOK
<1>4. pc' \in [Waiters -> {"away", "poll", "enabled", "looked", "asleep"}] BY <1>1, <1>2 DEF WaitTypeOK
<1> QED BY <1>1, <1>2, <1>3, <1>4, QuietKeeps DEF WaitTypeOK

(* Every step of the writers, the scheduler and the waiters preserves the  *)
(* invariant.                                                              *)
LEMMA WaitStep == WaitInv /\ [WaitNext]_waitVars => WaitInv'
<1> SUFFICES ASSUME WaitInv, [WaitNext]_waitVars PROVE WaitInv' OBVIOUS
<1>0. WaitTypeOK BY DEF WaitInv
<1>1. ASSUME NEW kind \in Kinds, ExecutionWrites(kind) PROVE WaitInv'
  BY <1>1, MoveKeeps DEF ExecutionWrites
<1>2. ASSUME NEW kind \in Kinds, QuietWrite(kind) PROVE WaitInv'
  BY <1>0, <1>2, MoveKeeps DEF QuietWrite, WaitTypeOK
<1>3. CASE Publish BY <1>3, PublishKeeps
<1>4. CASE Notify
  BY <1>0, <1>4, QuietKeeps DEF Notify, WaitTypeOK, Attached
<1>5. CASE Stop BY <1>0, <1>5, QuietKeeps DEF Stop, WaitTypeOK, Attached, sleepers
<1>6. ASSUME NEW w \in Waiters, NEW seen \in 0 .. MaxRowRevision, Attach(w, seen) PROVE WaitInv'
  BY <1>6, AttachKeeps
<1>7. ASSUME NEW w \in Waiters, Poll(w) PROVE WaitInv'
  BY <1>7, PollKeeps, LeaveKeeps DEF Poll, Take, Close
<1>8. ASSUME NEW w \in Waiters, Disconnect(w) PROVE WaitInv' BY <1>8, LeaveKeeps DEF Disconnect
<1>9. CASE UNCHANGED waitVars BY <1>0, <1>9, QuietKeeps DEF waitVars, WaitTypeOK, Attached
<1> QED BY <1>1, <1>2, <1>3, <1>4, <1>5, <1>6, <1>7, <1>8, <1>9 DEF WaitNext

-----------------------------------------------------------------------------
(* The invariant holds of every behaviour.                                 *)
LEMMA WaitInvariant == WaitSpec => []WaitInv
BY WaitInitHolds, WaitStep, PTL DEF WaitSpec

(* Rows, queues and waiters keep their types, and no queue outgrows its    *)
(* bound, for any number of waiters (operation_wait.rs, enqueue).          *)
THEOREM WaitTypeCorrect == WaitSpec => []WaitTypeOK
<1>1. WaitInv => WaitTypeOK BY DEF WaitInv
<1> QED BY <1>1, WaitInvariant, PTL

(* Whatever a waiter says it has seen and however publications crowd, its  *)
(* queue holds only newer revisions, in order (operation_wait.rs, attach   *)
(* and enqueue).                                                           *)
THEOREM WaitUpdatesAreNews == WaitSpec => []UpdatesAreNews
<1>1. WaitInv => UpdatesAreNews BY DEF WaitInv, WaiterOK, UpdatesAreNews, IsNews
<1> QED BY <1>1, WaitInvariant, PTL

(* An ending that was published stays queued for every waiter that has not *)
(* been given it, whatever bound a queue has and whatever it had to drop   *)
(* (operation_wait.rs, enqueue).                                           *)
THEOREM WaitEndingSurvivesPressure == WaitSpec => []EndingSurvivesPressure
<1>1. WaitInv => EndingSurvivesPressure
  BY DEF WaitInv, WaiterOK, EndingSurvivesPressure, EndsWith
<1> QED BY <1>1, WaitInvariant, PTL
=============================================================================
