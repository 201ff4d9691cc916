------------------------ MODULE AuthorExecutionProofs ------------------------
(***************************************************************************)
(* What holds of one execution for every retry budget and every number of   *)
(* crashes.                                                                  *)
(***************************************************************************)
EXTENDS AuthorExecution, TLAPS

-----------------------------------------------------------------------------
\* The command is sent once.  The durable child is what makes it so: it exists
\* before the POST, and an attempt that finds one never reaches the phases that
\* lead to a send.
SentOnceInv ==
    /\ posts = 0 \/ (posts = 1 /\ child # "none" /\ phase \notin {"discovering", "checking"})
    /\ phase = "discovering" => child = "none"
    /\ phase = "checking" => child # "none"

\* Steps of the execution task that neither send nor enter a sending phase.
LEMMA SentOnceStep == SentOnceInv /\ [Next]_vars => SentOnceInv'
<1> SUFFICES ASSUME SentOnceInv, [Next]_vars PROVE SentOnceInv' OBVIOUS
<1> USE DEF SentOnceInv
<1>1. CASE Scheduling
  <2>1. CASE Claim BY <2>1 DEF Claim, author
  <2>2. CASE Unstart BY <2>2 DEF Unstart, author
  <2>3. CASE Start BY <2>3 DEF Start, author
  <2>4. CASE Refuse BY <2>4 DEF Refuse, author
  <2>5. CASE Detach BY <2>5 DEF Detach
  <2>6. CASE Release BY <2>6 DEF Release, author
  <2>7. CASE Settle BY <2>7 DEF Settle, author
  <2>8. CASE Heal BY <2>8 DEF Heal, author, volatile
  <2>9. CASE Resume BY <2>9 DEF Resume, author, volatile
  <2> QED BY <1>1, <2>1, <2>2, <2>3, <2>4, <2>5, <2>6, <2>7, <2>8, <2>9 DEF Scheduling
<1>2. CASE Submission
  <2>1. ASSUME NEW refusal \in {"unanswered", "refused", "preflight"}, CheckRefused(refusal)
        PROVE  SentOnceInv'
    BY <2>1 DEF CheckRefused, Settling, author, durable
  <2>2. CASE InsertChild BY <2>2 DEF InsertChild, author
  <2>3. CASE InsertFails BY <2>3 DEF InsertFails, Settling, author, durable
  <2>4. CASE Send BY <2>4 DEF Send, durable
  <2>5. CASE SendNothing BY <2>5 DEF SendNothing, Settling, author, durable
  <2>6. CASE Deadline BY <2>6 DEF Deadline, Settling, durable
  <2>7. CASE Unusable BY <2>7 DEF Unusable, Settling, durable
  <2>8. CASE Handoff BY <2>8 DEF Handoff, Settling, durable
  <2>9. ASSUME NEW associated \in BOOLEAN, Acknowledge(associated) PROVE SentOnceInv'
    BY <2>9 DEF Acknowledge, Settling, durable
  <2> QED BY <1>2, <2>1, <2>2, <2>3, <2>4, <2>5, <2>6, <2>7, <2>8, <2>9 DEF Submission
<1>3. CASE LookupFails \/ LookupMissing \/ TruthfulLookup
  <2>1. phase' \in {"settling", "proven"} /\ posts' = posts
    BY <1>3 DEF LookupFails, LookupMissing, TruthfulLookup, LookupRetired, LookupActive,
                LookupFailedJob, LookupSucceeded, SettleFrom, Settling, Observed, author
  <2>2. child' \in {child, "failed"}
    BY <1>3 DEF LookupFails, LookupMissing, TruthfulLookup, LookupRetired, LookupActive,
                LookupFailedJob, LookupSucceeded, durable
  <2> QED BY <2>1, <2>2
<1>4. CASE Acquisition
  <2>1. phase' \in {"settling", "acquiring"} /\ posts' = posts
    BY <1>4 DEF Acquisition, ResultRefused, ResultAbsent, Acquire, CapacityPause, Publish,
                ArtifactUnavailable, SettleFrom, Settling, author
  <2>2. child' \in {child, "succeeded"}
    BY <1>4 DEF Acquisition, ResultRefused, ResultAbsent, Acquire, CapacityPause, Publish,
                ArtifactUnavailable, durable
  <2> QED BY <2>1, <2>2
<1>5. CASE Author
  BY <1>5 DEF Author, Deliver, Lose, Finish, Retire, durable, volatile
<1>6. CASE Crash BY <1>6 DEF Crash, durable
<1>7. CASE Restart BY <1>7 DEF Restart, volatile, author
<1>8. CASE UNCHANGED vars BY <1>8 DEF vars, durable, volatile, author
<1> QED BY <1>1, <1>2, <1>3, <1>4, <1>5, <1>6, <1>7, <1>8 DEF Next, Task

\* Across any number of crashes, detachments, refusals and retries, the command
\* leaves the daemon at most once (prepare_initial_submission before
\* send_with_authentication; a retained child is only ever looked up).
THEOREM ExecutionSentAtMostOnce == Spec => []SentAtMostOnce
<1>1. Init => SentOnceInv BY DEF Init, SentOnceInv
<1>2. SentOnceInv => SentAtMostOnce BY DEF SentOnceInv, SentAtMostOnce
<1> QED BY <1>1, <1>2, SentOnceStep, PTL DEF Spec

-----------------------------------------------------------------------------
\* Types, the record's shape and the retry budget.

RowOK(rec) == rec \in Record /\ WellFormed(rec) /\ rec.recovery.attempt < Cap

OutcomeType == [kind : {"none", "success", "terminal", "recovery"},
                failure : TerminalFailure \cup {NoFailure},
                recovery : RecoveryFact \cup {NoRecovery}]

\* An outcome carries what its kind says, and no attempt past the budget.
OutcomeOK(out) ==
    /\ out \in OutcomeType
    /\ out.kind = "terminal" => out.failure \in TerminalFailure
    /\ out.kind = "recovery" => out.recovery \in RecoveryFact
    /\ out.recovery.attempt < Cap

\* The values of every other variable.
RestOK ==
    /\ child \in {"none", "open", "succeeded", "failed"}
    /\ claim \in {"free", "held", "started"}
    /\ resumed \in BOOLEAN /\ up \in BOOLEAN /\ crashes \in 0..MaxCrashes
    /\ phase \in Phase /\ expected \in Nat
    /\ handoff \in Answer \cup {"none"}
    /\ request \in BOOLEAN /\ answer \in Answer \cup {"none"}
    /\ agent \in {"none", "active", "ended", "retired"}
    /\ ending \in SuccessfulEnding \cup FailedEnding \cup {"none"}
    /\ posts \in Nat

\* There is an outcome exactly while one is being settled, and success is
\* settled only of a row that already holds it: the executor learns of it by
\* reading the row back.
OutcomeStands ==
    /\ outcome.kind = "success" => record.lifecycle = "succeeded"
    /\ phase = "settling" => outcome.kind # "none"
    /\ phase # "settling" => outcome = NoOutcome

ExecutionInv == RowOK(record) /\ OutcomeOK(outcome) /\ RestOK /\ OutcomeStands

\* The failures the execution writes are terminal failures with a legal pairing
\* (author_agent_operation_executor, durable_author_lookup).
LEMMA FailuresAreTyped ==
  /\ ResultUnavailable \in TerminalFailure /\ Exhausted \in TerminalFailure
  /\ Rejected \in TerminalFailure /\ Answered \in TerminalFailure
  /\ Failure("recovery_window_expired", FailClosed("remote_outcome_unknown")) \in TerminalFailure
  /\ Failure("remote_state_lost", FailClosed("remote_outcome_unknown")) \in TerminalFailure
  /\ Failure("integrity_failure", FailClosed("remote_outcome_unknown")) \in TerminalFailure
  /\ Failure("retry_policy_exhausted", NonExecution("confirmed_not_executed")) \in TerminalFailure
  /\ Failure("remote_failed", RemoteFailure) \in TerminalFailure
<1>1. ASSUME NEW kind \in FailureKind, NEW disposition \in Disposition
      PROVE  Failure(kind, disposition) \in TerminalFailure
  BY DEF Failure, TerminalFailure
<1>2. \A c \in Certainty : NonExecution(c) \in Disposition /\ FailClosed(c) \in Disposition
  BY DEF Disposition
<1>3. RemoteFailure \in Disposition /\ RemoteSuccess \in Disposition BY DEF Disposition
<1>4. /\ "remote_outcome_unknown" \in Certainty /\ "submission_unknown" \in Certainty
      /\ "confirmed_not_executed" \in Certainty
  BY DEF Certainty
<1> QED
  BY <1>1, <1>2, <1>3, <1>4 DEF ResultUnavailable, Exhausted, Rejected, Answered, FailureKind

\* What an accepted fold is: the record itself, or a record of the same type
\* whose revision is one higher and which replaced no ending.
Advances(rec, folded) ==
    folded = rec \/ (folded.revision = rec.revision + 1 /\ ~IsTerminal(rec.lifecycle))

\* An accepted recovery, whose evidence must be its category's, yields a record
\* of the same shape and moves the revision (OperationRecord::fold_recovery).
LEMMA FoldRecoveryFacts ==
  ASSUME NEW rec \in Record, NEW recovery \in RecoveryFact,
         FoldRecovery(rec, recovery) # Refused
  PROVE  /\ FoldRecovery(rec, recovery) \in Record
         /\ Advances(rec, FoldRecovery(rec, recovery))
         /\ FoldRecovery(rec, recovery).lifecycle = rec.lifecycle
         /\ WellFormed(rec) => WellFormed(FoldRecovery(rec, recovery))
<1>1. rec.revision + 1 \in Nat BY DEF Record
<1> DEFINE new == [rec EXCEPT !.recovery = recovery, !.revision = @ + 1]
<1>2. new \in Record BY <1>1 DEF Record
<1>3. /\ new.lifecycle = rec.lifecycle /\ new.revision = rec.revision + 1
      /\ new.recovery = recovery /\ new.failure = rec.failure
  BY DEF Record
<1>4. /\ ~IsTerminal(rec.lifecycle) /\ Admits(recovery.category, recovery.evidence)
      /\ (FoldRecovery(rec, recovery) = rec \/ FoldRecovery(rec, recovery) = new)
  BY DEF FoldRecovery
<1> QED BY <1>2, <1>3, <1>4 DEF Advances, WellFormed

\* The same of an ending, which clears the recovery it resolves
\* (OperationRecord::fold_terminal).
LEMMA FoldTerminalFacts ==
  ASSUME NEW rec \in Record, NEW failure \in TerminalFailure,
         FoldTerminal(rec, failure) # Refused
  PROVE  /\ FoldTerminal(rec, failure) \in Record
         /\ Advances(rec, FoldTerminal(rec, failure))
         /\ WellFormed(rec) => WellFormed(FoldTerminal(rec, failure))
         /\ FoldTerminal(rec, failure) # rec => FoldTerminal(rec, failure).lifecycle = "failed"
<1>1. rec.revision + 1 \in Nat BY DEF Record
<1> DEFINE new == [rec EXCEPT !.lifecycle = "failed", !.recovery = NoRecovery,
                              !.failure = failure, !.revision = @ + 1]
<1>2. new \in Record BY <1>1 DEF Record, Lifecycle
<1>3. /\ new.lifecycle = "failed" /\ new.revision = rec.revision + 1
      /\ new.recovery = NoRecovery /\ new.failure = failure
  BY DEF Record
<1>4. /\ TerminalPairingIsLegal(failure.kind, failure.disposition)
      /\ \/ FoldTerminal(rec, failure) = rec
         \/ FoldTerminal(rec, failure) = new /\ ~IsTerminal(rec.lifecycle)
  BY DEF FoldTerminal
<1>5. failure # NoFailure BY DEF TerminalFailure, FailureKind, NoFailure
<1> QED BY <1>2, <1>3, <1>4, <1>5 DEF Advances, WellFormed

\* A folded recovery: the row keeps its shape, and its attempt is the row's own
\* or the fact's.
LEMMA WrittenRecovery ==
  ASSUME RowOK(record), NEW r \in RecoveryFact, r.attempt < Cap
  PROVE  RowOK(Written(RecoveryOf(r)))
<1>1. Fold(record, RecoveryOf(r)) = FoldRecovery(record, r) BY DEF Fold, RecoveryOf
<1>2. CASE FoldRecovery(record, r) = Refused BY <1>1, <1>2 DEF Written
<1>3. CASE FoldRecovery(record, r) # Refused
  <2>1. Written(RecoveryOf(r)) = FoldRecovery(record, r) BY <1>1, <1>3 DEF Written
  <2>2. FoldRecovery(record, r).recovery \in {record.recovery, r}
    BY <1>3 DEF FoldRecovery, RowOK, Record
  <2> QED BY <1>3, <2>1, <2>2, FoldRecoveryFacts DEF RowOK
<1> QED BY <1>2, <1>3

\* A folded ending: the row keeps its shape and has no recovery it did not have.
LEMMA WrittenTerminal ==
  ASSUME RowOK(record), NEW f \in TerminalFailure
  PROVE  RowOK(Written(TerminalOf(f)))
<1>1. Fold(record, TerminalOf(f)) = FoldTerminal(record, f) BY DEF Fold, TerminalOf
<1>2. CASE FoldTerminal(record, f) = Refused BY <1>1, <1>2 DEF Written
<1>3. CASE FoldTerminal(record, f) # Refused
  <2>1. Written(TerminalOf(f)) = FoldTerminal(record, f) BY <1>1, <1>3 DEF Written
  <2>2. FoldTerminal(record, f).recovery \in {record.recovery, NoRecovery}
    BY <1>3 DEF FoldTerminal, RowOK, Record
  <2>3. NoRecovery.attempt < Cap BY ExecutionAssumption DEF NoRecovery
  <2> QED BY <1>3, <2>1, <2>2, <2>3, FoldTerminalFacts DEF RowOK
<1> QED BY <1>2, <1>3

\* The parts of a row that attempts are computed from.
LEMMA RowParts ==
  ASSUME RowOK(record)
  PROVE  /\ record.recovery.attempt \in Nat /\ NextAttempt \in Nat /\ Instant \in Nat
         /\ \A e \in Evidence : HeldEvidence(e) \in Evidence
<1>1. record.recovery \in RecoveryFact \cup {NoRecovery} /\ record.revision \in Nat
  BY DEF RowOK, Record
<1>2. record.recovery.attempt \in Nat BY <1>1 DEF RecoveryFact, NoRecovery
<1>3. record.recovery # NoRecovery => record.recovery.evidence \in Evidence
  BY <1>1 DEF RecoveryFact
<1> QED BY <1>1, <1>2, <1>3 DEF NextAttempt, Instant, HeldEvidence

\* One charged attempt keeps the row in shape and inside its budget
\* (record_lookup_recovery, record_missing_lookup, record_detached_attempt).
LEMMA ChargedFacts ==
  ASSUME RowOK(record), NEW evidence \in Evidence
  PROVE  RowOK(Charged(evidence))
<1>1. RowOK(Written(TerminalOf(FailureWhenTheBudgetEnds(evidence))))
  BY WrittenTerminal, FailuresAreTyped DEF FailureWhenTheBudgetEnds
<1> DEFINE r == Recovery(LookupCategory(evidence), evidence, NextAttempt, FALSE, Instant)
<1>2. ASSUME ~(NextAttempt >= Cap) PROVE RowOK(Written(RecoveryOf(r)))
  <2>1. LookupCategory(evidence) \in Category
    BY DEF LookupCategory, Category, ProvenCategory
  <2>2. r \in RecoveryFact /\ r.attempt = NextAttempt
    BY <2>1, RowParts DEF Recovery, RecoveryFact
  <2>3. NextAttempt < Cap BY <1>2, RowParts, ExecutionAssumption
  <2> QED BY <2>2, <2>3, WrittenRecovery
<1> QED BY <1>1, <1>2 DEF Charged

\* A committed success keeps the row in shape (settle_success_guarded).
LEMMA SucceededFacts ==
  ASSUME RowOK(record), ~Terminal
  PROVE  RowOK(SucceededRecord)
<1> DEFINE folded == FoldLifecycle(record, "succeeded")
           new == [record EXCEPT !.lifecycle = "succeeded", !.revision = @ + 1]
           won == [new EXCEPT !.recovery = NoRecovery]
<1>1. Fold(record, LifecycleFact("succeeded")) = folded BY DEF Fold, LifecycleFact
<1>2. record \in Record /\ WellFormed(record) /\ record.revision + 1 \in Nat
  BY DEF RowOK, Record
<1>3. folded = new
  BY DEF FoldLifecycle, MayBecome, IsTerminal, Terminal
<1>4. SucceededRecord = won BY <1>1, <1>3 DEF SucceededRecord
<1>5. new \in Record BY <1>2 DEF Record, Lifecycle
<1>6. won \in Record /\ won.recovery = NoRecovery /\ won.lifecycle = "succeeded"
      /\ won.failure = record.failure
  BY <1>2, <1>5 DEF Record
<1>7. record.failure = NoFailure BY <1>2 DEF WellFormed, Terminal, IsTerminal
<1>8. NoRecovery.attempt < Cap BY ExecutionAssumption DEF NoRecovery
<1> QED BY <1>4, <1>6, <1>7, <1>8 DEF RowOK, WellFormed

\* What a task may offer for settlement is well typed (settlement, waiting,
\* outcome_of_handoff, unchecked).
LEMMA EndedIsOK == ASSUME NEW f \in TerminalFailure PROVE OutcomeOK(Ended(f))
  BY ExecutionAssumption DEF Ended, Outcome, OutcomeOK, OutcomeType, NoRecovery

\* The same of a recovery offered for settlement.
LEMMA WaitingIsOK ==
  ASSUME NEW r \in RecoveryFact, r.attempt < Cap PROVE OutcomeOK(Waiting(r))
  BY DEF Waiting, Outcome, OutcomeOK, OutcomeType

\* The same of a success, and of no outcome at all.
LEMMA CompletedIsOK == OutcomeOK(Completed) /\ OutcomeOK(NoOutcome)
  BY ExecutionAssumption DEF Completed, NoOutcome, Outcome, OutcomeOK, OutcomeType, NoRecovery

\* The same of what settle makes of the row it re-reads.
LEMMA SettlementsFacts ==
  ASSUME NEW rec, RowOK(rec), NEW out \in Settlements(rec)
  PROVE  OutcomeOK(out)
<1>1. rec.revision \in Nat /\ rec.failure \in TerminalFailure \cup {NoFailure}
      /\ rec.recovery \in RecoveryFact \cup {NoRecovery} /\ rec.recovery.attempt < Cap
  BY DEF RowOK, Record
<1>2. StillWaiting(rec) \in RecoveryFact /\ StillWaiting(rec).attempt < Cap
  <2> DEFINE a == Recovery("result_acquisition", ProvenSuccess, 1, FALSE, rec.revision)
             b == Recovery("operation_lookup", "remote_outcome_unknown", 1, FALSE, rec.revision)
  <2>1. a \in RecoveryFact /\ a.attempt = 1
    BY <1>1 DEF Recovery, RecoveryFact, Category, ProvenCategory, Evidence
  <2>2. b \in RecoveryFact /\ b.attempt = 1
    BY <1>1 DEF Recovery, RecoveryFact, Category, Evidence, Certainty
  <2>3. 1 < Cap BY ExecutionAssumption
  <2> QED BY <1>1, <2>1, <2>2, <2>3 DEF StillWaiting
<1>3. rec.failure # NoFailure => OutcomeOK(Ended(rec.failure)) BY <1>1, EndedIsOK
<1>4. OutcomeOK(Waiting(StillWaiting(rec))) BY <1>2, WaitingIsOK
<1> QED BY <1>3, <1>4, CompletedIsOK DEF Settlements

\* Settling from a row in shape offers a well-typed outcome.
LEMMA SettleFromFacts ==
  ASSUME RowOK(record'), SettleFrom(record')
  PROVE  OutcomeOK(outcome') /\ OutcomeStands' /\ phase' = "settling"
<1>1. PICK out \in Settlements(record') : outcome' = out /\ phase' = "settling"
  BY DEF SettleFrom, Settling
<1>2. (out.kind = "success" => record'.lifecycle = "succeeded") /\ out.kind # "none"
  BY DEF Settlements, Ended, Waiting, Completed, Outcome
<1> QED BY <1>1, <1>2, SettlementsFacts DEF OutcomeStands

\* Every step of the scheduler, of a claim's life and of a person's resume keeps
\* types, shape and budget (service/scheduler.rs).
LEMMA SchedulingPreserves == ExecutionInv /\ Scheduling => ExecutionInv'
<1> SUFFICES ASSUME ExecutionInv, Scheduling PROVE ExecutionInv' OBVIOUS
<1> USE DEF ExecutionInv
<1>1. CASE Claim BY <1>1 DEF Claim, RestOK, OutcomeStands, author, process, Phase
<1>2. CASE Unstart BY <1>2 DEF Unstart, RestOK, OutcomeStands, author, process, Phase
<1>3. CASE Start
  <2>1. record.revision \in Nat BY DEF RowOK, Record
  <2> QED BY <1>3, <2>1 DEF Start, RestOK, OutcomeStands, author, process, Phase
<1>4. CASE Refuse BY <1>4 DEF Refuse, RestOK, OutcomeStands, author, process, Phase
<1>5. CASE Detach
  <2>1. RowOK(record')
    BY <1>5, ChargedFacts, RowParts DEF Detach, Evidence, Certainty
  <2>2. outcome' = outcome /\ outcome = NoOutcome /\ phase' = "releasing"
    BY <1>5 DEF Detach, OutcomeStands, Awaiting
  <2>3. RestOK' BY <1>5 DEF Detach, RestOK, process, Phase
  <2> QED BY <2>1, <2>2, <2>3 DEF OutcomeStands, NoOutcome, Outcome
<1>6. CASE Release BY <1>6 DEF Release, RestOK, OutcomeStands, author, process, Phase
<1>7. CASE Settle
  <2> DEFINE folded == Fold(record, OutcomeFact(outcome))
  <2>1. OutcomeOK(outcome') /\ OutcomeStands'
    BY <1>7, CompletedIsOK DEF Settle, OutcomeStands, NoOutcome, Outcome
  <2>2. RestOK' BY <1>7 DEF Settle, RestOK, author, process, Phase
  <2>3. record' = record \/ (folded # Refused /\ record' = folded)
    BY <1>7 DEF Settle
  <2>4. ASSUME folded # Refused PROVE RowOK(folded)
    <3>1. CASE outcome.kind = "terminal"
      <4>1. folded = Written(TerminalOf(outcome.failure))
        BY <2>4, <3>1 DEF OutcomeFact, Written
      <4> QED BY <3>1, <4>1, WrittenTerminal DEF OutcomeOK
    <3>2. CASE outcome.kind = "recovery"
      <4>1. folded = Written(RecoveryOf(outcome.recovery))
        BY <2>4, <3>2 DEF OutcomeFact, Written
      <4> QED BY <3>2, <4>1, WrittenRecovery DEF OutcomeOK
    <3>3. CASE outcome.kind = "success"
      <4>1. folded = FoldLifecycle(record, "succeeded")
        BY <3>3 DEF OutcomeFact, Fold, LifecycleFact
      <4>2. folded = record BY <3>3, <4>1 DEF OutcomeStands, FoldLifecycle
      <4> QED BY <4>2
    <3>4. outcome.kind # "none" BY <1>7 DEF Settle, OutcomeStands
    <3> QED BY <3>1, <3>2, <3>3, <3>4 DEF OutcomeOK, OutcomeType
  <2> QED BY <2>1, <2>2, <2>3, <2>4
<1>8. CASE Heal
  <2>1. RowOK(record')
    BY <1>8, WrittenTerminal, FailuresAreTyped DEF Heal, FailureWhenTheBudgetEnds
  <2>2. RestOK' BY <1>8 DEF Heal, RestOK, volatile, author, process
  <2>3. outcome' = outcome /\ phase' = phase /\ record.lifecycle = "queued"
    BY <1>8 DEF Heal, volatile
  <2> QED BY <2>1, <2>2, <2>3 DEF OutcomeStands
<1>9. CASE Resume BY <1>9 DEF Resume, RestOK, OutcomeStands, volatile, author, process
<1> QED BY <1>1, <1>2, <1>3, <1>4, <1>5, <1>6, <1>7, <1>8, <1>9 DEF Scheduling

\* An ending of the task itself, with the row left alone, keeps the invariant.
LEMMA EndingPreserves ==
  ASSUME ExecutionInv, NEW f \in TerminalFailure, Settling(Ended(f)),
         UNCHANGED record, RestOK'
  PROVE  ExecutionInv'
<1>1. Ended(f).kind = "terminal" BY DEF Ended, Outcome
<1> QED BY <1>1, EndedIsOK DEF ExecutionInv, Settling, OutcomeStands

\* Every step of a submission keeps types, shape and budget
\* (durable_author_submission, author_agent_operation_executor).
LEMMA SubmissionPreserves == ExecutionInv /\ Submission => ExecutionInv'
<1> SUFFICES ASSUME ExecutionInv, Submission PROVE ExecutionInv' OBVIOUS
<1>0. RestOK /\ RowOK(record) BY DEF ExecutionInv
<1>1. ASSUME NEW refusal \in {"unanswered", "refused", "preflight"}, CheckRefused(refusal)
      PROVE  ExecutionInv'
  <2>1. CapabilityFailure(refusal) \in TerminalFailure
    BY FailuresAreTyped DEF CapabilityFailure
  <2>2. RestOK' /\ UNCHANGED record
    BY <1>0, <1>1 DEF CheckRefused, Settling, RestOK, durable, author, process, Phase
  <2> QED BY <1>1, <2>1, <2>2, EndingPreserves DEF CheckRefused
<1>2. CASE InsertChild
  BY <1>2 DEF InsertChild, ExecutionInv, OutcomeStands, RestOK, author, process, Phase
<1>3. CASE InsertFails
  <2>1. RestOK' /\ UNCHANGED record
    BY <1>0, <1>3 DEF InsertFails, Settling, RestOK, durable, author, process, Phase
  <2> QED BY <1>3, <2>1, EndingPreserves, FailuresAreTyped DEF InsertFails
<1>4. CASE Send
  BY <1>4 DEF Send, ExecutionInv, OutcomeStands, RestOK, durable, process, Phase
<1>5. CASE SendNothing
  <2>1. RestOK' /\ UNCHANGED record
    BY <1>0, <1>5 DEF SendNothing, Settling, RestOK, durable, author, process, Phase
  <2> QED BY <1>5, <2>1, EndingPreserves, FailuresAreTyped DEF SendNothing
<1>6. CASE Deadline
  <2> DEFINE r == Recovery("ambiguous_submission", "submission_unknown", 1, FALSE, 0)
  <2>1. r \in RecoveryFact /\ r.attempt = 1
    BY DEF Recovery, RecoveryFact, Category, Evidence, Certainty
  <2>2. 1 < Cap BY ExecutionAssumption
  <2>3. OutcomeOK(Waiting(r)) /\ Waiting(r).kind = "recovery"
    BY <2>1, <2>2, WaitingIsOK DEF Waiting, Outcome
  <2>4. RestOK' BY <1>0, <1>6 DEF Deadline, Settling, RestOK, durable, process, Phase
  <2>5. outcome' = Waiting(r) /\ phase' = "settling" /\ record' = record
    BY <1>6 DEF Deadline, Settling, durable
  <2> QED BY <1>0, <2>3, <2>4, <2>5 DEF ExecutionInv, OutcomeStands
<1>7. \A disposition : HandoffFailure(disposition) \in TerminalFailure
  BY FailuresAreTyped DEF HandoffFailure
<1>8. CASE Unusable
  <2>1. RestOK' /\ UNCHANGED record
    BY <1>0, <1>8 DEF Unusable, Settling, RestOK, durable, process, Phase, Answer
  <2> QED BY <1>7, <1>8, <2>1, EndingPreserves DEF Unusable
<1>9. CASE Handoff
  <2>1. RestOK' /\ UNCHANGED record
    BY <1>0, <1>9 DEF Handoff, Settling, RestOK, durable, process, Phase, Answer
  <2> QED BY <1>7, <1>9, <2>1, EndingPreserves DEF Handoff
<1>10. ASSUME NEW associated \in BOOLEAN, Acknowledge(associated) PROVE ExecutionInv'
  <2>1. record' = record /\ record.revision \in Nat
    BY <1>0, <1>10 DEF Acknowledge, durable, RowOK, Record
  <2>2. RestOK'
    BY <1>0, <1>10, <2>1 DEF Acknowledge, Settling, RestOK, durable, process, Phase, Answer
  <2>3. CASE associated
    <3>1. phase' = "looking" /\ outcome' = outcome /\ phase = "sending"
      BY <1>10, <2>3 DEF Acknowledge
    <3> QED BY <2>1, <2>2, <3>1 DEF ExecutionInv, OutcomeStands
  <2>4. CASE ~associated
    <3>1. Settling(Ended(HandoffFailure("unknown"))) BY <1>10, <2>4 DEF Acknowledge
    <3> QED BY <1>7, <2>1, <2>2, <3>1, EndingPreserves
  <2> QED BY <2>3, <2>4
<1> QED BY <1>1, <1>2, <1>3, <1>4, <1>5, <1>6, <1>8, <1>9, <1>10 DEF Submission

\* A step that writes the row in shape and then settles from it keeps the
\* invariant.
LEMMA WriteThenSettlePreserves ==
  ASSUME ExecutionInv, RowOK(record'), SettleFrom(record'), RestOK'
  PROVE  ExecutionInv'
  BY SettleFromFacts DEF ExecutionInv

\* Every answer to a lookup keeps types, shape and budget
\* (durable_author_lookup and its reconciliation).
LEMMA LookupPreserves ==
  ExecutionInv /\ (LookupFails \/ LookupMissing \/ TruthfulLookup) => ExecutionInv'
<1> SUFFICES ASSUME ExecutionInv, LookupFails \/ LookupMissing \/ TruthfulLookup
             PROVE  ExecutionInv'
  OBVIOUS
<1>0. RestOK /\ RowOK(record) BY DEF ExecutionInv
<1>1. "remote_outcome_unknown" \in Evidence /\ "submission_unknown" \in Evidence
      /\ ProvenSuccess \in Evidence
  BY DEF Evidence, Certainty
<1>2. CASE LookupFails
  <2>1. RowOK(record') BY <1>0, <1>1, <1>2, ChargedFacts, RowParts DEF LookupFails
  <2>2. RestOK'
    BY <1>0, <1>2 DEF LookupFails, Observed, SettleFrom, Settling, RestOK, author, process,
                      Phase
  <2> QED BY <1>2, <2>1, <2>2, WriteThenSettlePreserves DEF LookupFails
<1>3. CASE LookupMissing
  <2>1. RowOK(record') BY <1>0, <1>1, <1>3, ChargedFacts, RowParts DEF LookupMissing
  <2>2. RestOK'
    BY <1>0, <1>3 DEF LookupMissing, Observed, SettleFrom, Settling, RestOK, author, process,
                      Phase
  <2> QED BY <1>3, <2>1, <2>2, WriteThenSettlePreserves DEF LookupMissing
<1>4. CASE LookupRetired
  <2>1. RowOK(record') BY <1>0, <1>4, WrittenTerminal, FailuresAreTyped DEF LookupRetired
  <2>2. RestOK'
    BY <1>0, <1>4 DEF LookupRetired, Observed, SettleFrom, Settling, RestOK, author, process,
                      Phase
  <2> QED BY <1>4, <2>1, <2>2, WriteThenSettlePreserves DEF LookupRetired
<1>5. CASE LookupActive
  <2>1. record' = record BY <1>5 DEF LookupActive, durable
  <2>2. RestOK'
    BY <1>0, <1>5 DEF LookupActive, Observed, SettleFrom, Settling, RestOK, durable, author,
                      process, Phase
  <2>3. SettleFrom(record') BY <1>5, <2>1 DEF LookupActive
  <2> QED BY <1>0, <2>1, <2>2, <2>3, WriteThenSettlePreserves
<1>6. CASE LookupFailedJob
  <2>1. RowOK(record')
    BY <1>0, <1>1, <1>6, WrittenTerminal, FailuresAreTyped, ChargedFacts DEF LookupFailedJob
  <2>2. RestOK'
    BY <1>0, <1>6 DEF LookupFailedJob, Observed, SettleFrom, Settling, RestOK, author,
                      process, Phase
  <2> QED BY <1>6, <2>1, <2>2, WriteThenSettlePreserves DEF LookupFailedJob
<1>7. CASE LookupSucceeded
  <2> DEFINE r == Recovery("result_acquisition", ProvenSuccess, 0, FALSE, Instant)
  <2>1. r \in RecoveryFact /\ r.attempt = 0
    BY <1>0, <1>1, RowParts DEF Recovery, RecoveryFact, Category, ProvenCategory
  <2>2. 0 < Cap BY ExecutionAssumption
  <2>3. RowOK(record') BY <1>0, <1>7, <2>1, <2>2, WrittenRecovery DEF LookupSucceeded
  <2>4. record'.revision \in Nat BY <2>3 DEF RowOK, Record
  <2>5. RestOK'
    BY <1>0, <1>7, <2>4 DEF LookupSucceeded, Observed, RestOK, author, process, Phase
  <2>6. outcome' = outcome /\ outcome = NoOutcome /\ phase' = "proven"
    BY <1>7 DEF LookupSucceeded, Looking, ExecutionInv, OutcomeStands
  <2> QED BY <2>3, <2>5, <2>6 DEF ExecutionInv, OutcomeStands, NoOutcome, Outcome
<1> QED BY <1>2, <1>3, <1>4, <1>5, <1>6, <1>7 DEF TruthfulLookup

\* Every step of result acquisition keeps types, shape and budget
\* (artifact_completion, retained_author_protocol).
LEMMA AcquisitionPreserves == ExecutionInv /\ Acquisition => ExecutionInv'
<1> SUFFICES ASSUME ExecutionInv, Acquisition PROVE ExecutionInv' OBVIOUS
<1>0. RestOK /\ RowOK(record) BY DEF ExecutionInv
<1>1. CASE ResultRefused
  <2>1. record' = record BY <1>1 DEF ResultRefused, durable
  <2>2. RestOK'
    BY <1>0, <1>1 DEF ResultRefused, SettleFrom, Settling, RestOK, durable, author, process,
                      Phase
  <2>3. SettleFrom(record') BY <1>1, <2>1 DEF ResultRefused
  <2> QED BY <1>0, <2>1, <2>2, <2>3, WriteThenSettlePreserves
<1>2. CASE ResultAbsent
  <2>1. RowOK(record')
    BY <1>0, <1>2, ChargedFacts, RowParts DEF ResultAbsent, Evidence, Certainty
  <2>2. RestOK'
    BY <1>0, <1>2 DEF ResultAbsent, SettleFrom, Settling, RestOK, author, process, Phase
  <2> QED BY <1>2, <2>1, <2>2, WriteThenSettlePreserves DEF ResultAbsent
<1>3. CASE Acquire
  BY <1>3 DEF Acquire, ExecutionInv, OutcomeStands, RestOK, durable, author, process, Phase
<1>4. CASE CapacityPause
  <2> DEFINE r == Recovery("persistent_capacity_unavailable", ProvenSuccess, 0, TRUE, Instant)
  <2>1. r \in RecoveryFact /\ r.attempt = 0
    BY <1>0, RowParts DEF Recovery, RecoveryFact, Category, ProvenCategory, Evidence
  <2>2. 0 < Cap BY ExecutionAssumption
  <2>3. RowOK(record') BY <1>0, <1>4, <2>1, <2>2, WrittenRecovery DEF CapacityPause
  <2>4. RestOK'
    BY <1>0, <1>4 DEF CapacityPause, SettleFrom, Settling, RestOK, author, process, Phase
  <2> QED BY <1>4, <2>3, <2>4, WriteThenSettlePreserves DEF CapacityPause
<1>5. CASE Publish
  <2>1. RowOK(record') BY <1>0, <1>5, SucceededFacts DEF Publish, RowHolds
  <2>2. RestOK'
    BY <1>0, <1>5 DEF Publish, SettleFrom, Settling, RestOK, author, process, Phase
  <2> QED BY <1>5, <2>1, <2>2, WriteThenSettlePreserves DEF Publish
<1>6. ASSUME NEW over \in BOOLEAN, ArtifactUnavailable(over) PROVE ExecutionInv'
  <2> DEFINE r == Recovery("result_acquisition", ProvenSuccess, NextAttempt, FALSE, Instant)
  <2>1. r \in RecoveryFact /\ r.attempt = NextAttempt
    BY <1>0, RowParts DEF Recovery, RecoveryFact, Category, ProvenCategory, Evidence
  <2>2. ~(NextAttempt >= Cap) => NextAttempt < Cap BY <1>0, RowParts, ExecutionAssumption
  <2>3. RowOK(record')
    BY <1>0, <1>6, <2>1, <2>2, WrittenRecovery, WrittenTerminal, FailuresAreTyped
       DEF ArtifactUnavailable
  <2>4. RestOK'
    BY <1>0, <1>6 DEF ArtifactUnavailable, SettleFrom, Settling, RestOK, author, process, Phase
  <2> QED BY <1>6, <2>3, <2>4, WriteThenSettlePreserves DEF ArtifactUnavailable
<1> QED BY <1>1, <1>2, <1>3, <1>4, <1>5, <1>6 DEF Acquisition

\* Every step keeps types, shape and budget.
LEMMA ExecutionStep == ExecutionInv /\ [Next]_vars => ExecutionInv'
<1> SUFFICES ASSUME ExecutionInv, [Next]_vars PROVE ExecutionInv' OBVIOUS
<1>1. CASE Scheduling BY <1>1, SchedulingPreserves
<1>2. CASE Task
  BY <1>2, SubmissionPreserves, LookupPreserves, AcquisitionPreserves DEF Task
<1>3. CASE Author
  <2>1. UNCHANGED <<record, outcome, phase>>
    BY <1>3 DEF Author, Deliver, Lose, Finish, Retire, durable, volatile
  <2>2. RestOK'
    BY <1>3 DEF Author, Deliver, Lose, Finish, Retire, ExecutionInv, RestOK, durable, volatile,
                process, Answer
  <2> QED BY <2>1, <2>2 DEF ExecutionInv, OutcomeStands
<1>4. CASE Crash
  <2>0. crashes' \in 0..MaxCrashes BY <1>4, ExecutionAssumption DEF Crash, ExecutionInv, RestOK
  <2>1. RestOK'
    BY <1>4, <2>0 DEF Crash, ExecutionInv, RestOK, durable, Phase
  <2>2. record' = record /\ outcome' = NoOutcome /\ phase' = "idle" BY <1>4 DEF Crash, durable
  <2> QED BY <2>1, <2>2, CompletedIsOK DEF ExecutionInv, OutcomeStands, NoOutcome, Outcome
<1>5. CASE Restart
  BY <1>5 DEF Restart, ExecutionInv, OutcomeStands, RestOK, volatile, author
<1>6. CASE UNCHANGED vars
  BY <1>6 DEF vars, durable, volatile, author, process, ExecutionInv, OutcomeStands, RestOK
<1> QED BY <1>1, <1>2, <1>3, <1>4, <1>5, <1>6 DEF Next

\* The admitted row satisfies the invariant.
LEMMA ExecutionInit == Init => ExecutionInv
<1> SUFFICES ASSUME Init PROVE ExecutionInv OBVIOUS
<1>1. Admitted \in Record BY DEF Admitted, Record, Lifecycle, NoProgress
<1>2. Admitted.lifecycle = "queued" /\ Admitted.recovery = NoRecovery /\ Admitted.failure = NoFailure
  BY DEF Admitted
<1>3. NoRecovery.attempt < Cap BY ExecutionAssumption DEF NoRecovery
<1>4. RowOK(record) BY <1>1, <1>2, <1>3 DEF Init, RowOK, WellFormed
<1>5. RestOK
  <2>1. crashes \in 0..MaxCrashes BY ExecutionAssumption DEF Init
  <2> QED BY <2>1 DEF Init, RestOK, Phase
<1> QED BY <1>4, <1>5, CompletedIsOK DEF Init, ExecutionInv, OutcomeStands, NoOutcome, Outcome

\* Every variable keeps its type, the durable record and the outcome a task is
\* about to settle included.
THEOREM ExecutionTypeCorrect == Spec => []TypeOK
<1>1. ExecutionInv => TypeOK
  BY DEF ExecutionInv, RowOK, OutcomeOK, OutcomeType, RestOK, TypeOK
<1> QED BY <1>1, ExecutionInit, ExecutionStep, PTL DEF Spec

\* The automatic budget is never overrun, whatever mixture of lookups, timeouts,
\* missing artifacts, crashes and resets charges it (automatic_attempt_cap).
THEOREM ExecutionAttemptsWithinBudget == Spec => []AttemptsWithinBudget
<1>1. ExecutionInv => AttemptsWithinBudget BY DEF ExecutionInv, RowOK, AttemptsWithinBudget
<1> QED BY <1>1, ExecutionInit, ExecutionStep, PTL DEF Spec

-----------------------------------------------------------------------------
\* A row that says its command did not run is right.

\* The request, the author's job and the answer, in the order they can happen.
WireInv ==
    /\ posts = 0 => agent = "none" /\ ~request /\ answer = "none"
    /\ request => agent = "none" /\ answer = "none"
    /\ answer \in {"not_executed", "window_expired", "conflict"} => agent = "none"
    /\ ending # "none" => agent \in {"ended", "retired"}

\* The network and the author keep that order, and no step of the daemon but
\* Send touches it, which happens before there is anything to disturb.
LEMMA WireStep == SentOnceInv /\ WireInv /\ [Next]_vars => WireInv'
<1> SUFFICES ASSUME SentOnceInv, WireInv, [Next]_vars PROVE WireInv' OBVIOUS
<1> USE DEF WireInv
<1>1. CASE Scheduling
  BY <1>1 DEF Scheduling, Claim, Unstart, Start, Refuse, Detach, Release, Settle, Heal,
              Resume, author
<1>2. CASE Send BY <1>2 DEF Send, SentOnceInv
<1>3. CASE Submission /\ ~Send
  <2>1. UNCHANGED <<request, agent, ending, posts>> /\ answer' \in {answer, "none"}
    BY <1>3 DEF Submission, CheckRefused, InsertChild, InsertFails, SendNothing, Deadline,
                Unusable,
                Handoff, Acknowledge, author
  <2> QED BY <2>1
<1>4. CASE LookupFails \/ LookupMissing \/ TruthfulLookup
  <2>1. UNCHANGED author
    BY <1>4 DEF LookupFails, LookupMissing, TruthfulLookup, LookupRetired, LookupActive,
                LookupFailedJob, LookupSucceeded, Observed
  <2> QED BY <2>1 DEF author
<1>5. CASE Acquisition
  <2>1. UNCHANGED author
    BY <1>5 DEF Acquisition, ResultRefused, ResultAbsent, Acquire, CapacityPause, Publish,
                ArtifactUnavailable
  <2> QED BY <2>1 DEF author
<1>6. ASSUME NEW reply \in Answer \ {"unknown"}, NEW accepted \in BOOLEAN, Deliver(reply, accepted)
      PROVE  WireInv'
  BY <1>6 DEF Deliver
<1>7. CASE Lose BY <1>7 DEF Lose
<1>8. ASSUME NEW how \in SuccessfulEnding \cup FailedEnding, Finish(how) PROVE WireInv'
  BY <1>8 DEF Finish
<1>9. CASE Retire BY <1>9 DEF Retire
<1>10. CASE Crash BY <1>10 DEF Crash
<1>11. CASE Restart BY <1>11 DEF Restart, author
<1>12. CASE UNCHANGED vars BY <1>12 DEF vars, author
<1> QED BY <1>1, <1>2, <1>3, <1>4, <1>5, <1>6, <1>7, <1>8, <1>9, <1>10, <1>11, <1>12
           DEF Next, Task, Author

\* What a failure that claims non-execution claims of the author.
Justified(failure) ==
    failure.disposition.effect = "non_execution" =>
        (agent = "none" /\ ~request) \/ ending = "no_effect"

TruthInv == Justified(record.failure) /\ Justified(outcome.failure)

\* The failures that claim nothing of the kind.
LEMMA OtherEffects ==
  /\ NoFailure.disposition.effect # "non_execution"
  /\ ResultUnavailable.disposition.effect # "non_execution"
  /\ Exhausted.disposition.effect # "non_execution"
  /\ Answered.disposition.effect # "non_execution"
  /\ \A kind, c : Failure(kind, FailClosed(c)).disposition.effect # "non_execution"
  /\ Failure("remote_failed", RemoteFailure).disposition.effect # "non_execution"
  BY DEF NoFailure, ResultUnavailable, Exhausted, Answered, Failure, FailClosed, RemoteFailure,
         RemoteSuccess

\* The failure a write leaves in the row is the one it had or the one written.
LEMMA WrittenFailure ==
  ASSUME record \in Record
  PROVE  /\ \A r \in RecoveryFact : Written(RecoveryOf(r)).failure = record.failure
         /\ \A f \in TerminalFailure : Written(TerminalOf(f)).failure \in {record.failure, f}
<1>1. ASSUME NEW r \in RecoveryFact PROVE Written(RecoveryOf(r)).failure = record.failure
  <2>1. Fold(record, RecoveryOf(r)) = FoldRecovery(record, r) BY DEF Fold, RecoveryOf
  <2>2. FoldRecovery(record, r) # Refused => FoldRecovery(record, r).failure = record.failure
    BY DEF FoldRecovery, Record
  <2> QED BY <2>1, <2>2 DEF Written
<1>2. ASSUME NEW f \in TerminalFailure PROVE Written(TerminalOf(f)).failure \in {record.failure, f}
  <2>1. Fold(record, TerminalOf(f)) = FoldTerminal(record, f) BY DEF Fold, TerminalOf
  <2>2. FoldTerminal(record, f) # Refused => FoldTerminal(record, f).failure \in {record.failure, f}
    BY DEF FoldTerminal, Record
  <2> QED BY <2>1, <2>2 DEF Written
<1> QED BY <1>1, <1>2

\* A charged attempt claims nothing about non-execution that the row did not.
LEMMA ChargedFailure ==
  ASSUME RowOK(record), NEW evidence \in Evidence
  PROVE  \/ Charged(evidence).failure = record.failure
         \/ Charged(evidence).failure.disposition.effect # "non_execution"
<1>1. record \in Record BY DEF RowOK
<1> DEFINE r == Recovery(LookupCategory(evidence), evidence, NextAttempt, FALSE, Instant)
<1>2. r \in RecoveryFact
  <2>1. LookupCategory(evidence) \in Category
    BY DEF LookupCategory, Category, ProvenCategory
  <2> QED BY <2>1, RowParts DEF Recovery, RecoveryFact
<1>3. FailureWhenTheBudgetEnds(evidence) \in {ResultUnavailable, Exhausted}
  BY DEF FailureWhenTheBudgetEnds
<1>4. Written(RecoveryOf(r)).failure = record.failure BY <1>1, <1>2, WrittenFailure
<1>5. Written(TerminalOf(FailureWhenTheBudgetEnds(evidence))).failure
        \in {record.failure, ResultUnavailable, Exhausted}
  BY <1>1, <1>3, WrittenFailure, FailuresAreTyped
<1> QED BY <1>4, <1>5, OtherEffects DEF Charged

\* Settling from a row whose failure is true offers a true one.
LEMMA SettleFromTrue ==
  ASSUME SettleFrom(record'), Justified(record.failure)'
  PROVE  TruthInv'
<1>1. PICK out \in Settlements(record') : outcome' = out
  BY DEF SettleFrom, Settling
<1>2. out.failure \in {record'.failure, NoFailure}
  BY DEF Settlements, Ended, Waiting, Completed, Outcome
<1> QED BY <1>1, <1>2, OtherEffects DEF TruthInv, Justified

\* A step that keeps row, outcome and author keeps what is claimed of them.
LEMMA TruthUntouched ==
  ASSUME TruthInv, record'.failure = record.failure, outcome' = outcome \/ outcome' = NoOutcome,
         UNCHANGED <<agent, request, ending>>
  PROVE  TruthInv'
<1>1. NoOutcome.failure = NoFailure BY DEF NoOutcome, Outcome
<1> QED BY <1>1, OtherEffects DEF TruthInv, Justified

\* A lookup that writes the row and settles from it claims nothing false: only a
\* job the author reports to have had no effect is said not to have run.
LEMMA LookupTruth ==
  ASSUME ExecutionInv, TruthInv, LookupFails \/ LookupMissing \/ TruthfulLookup
  PROVE  TruthInv'
<1>0. RowOK(record) /\ record \in Record BY DEF ExecutionInv, RowOK
<1>1. UNCHANGED <<agent, request, ending>>
  BY DEF LookupFails, LookupMissing, TruthfulLookup, LookupRetired, LookupActive,
         LookupFailedJob, LookupSucceeded, Observed, author
<1>2. ASSUME \/ record'.failure = record.failure
             \/ record'.failure.disposition.effect # "non_execution"
      PROVE  Justified(record.failure)'
  BY <1>1, <1>2 DEF TruthInv, Justified
<1>3. "remote_outcome_unknown" \in Evidence /\ "submission_unknown" \in Evidence
      /\ ProvenSuccess \in Evidence
  BY DEF Evidence, Certainty
<1>4. CASE LookupFails
  <2>1. Justified(record.failure)'
    BY <1>0, <1>2, <1>3, <1>4, ChargedFailure, RowParts DEF LookupFails
  <2> QED BY <1>4, <2>1, SettleFromTrue DEF LookupFails
<1>5. CASE LookupMissing
  <2>1. Justified(record.failure)'
    BY <1>0, <1>2, <1>3, <1>5, ChargedFailure, RowParts DEF LookupMissing
  <2> QED BY <1>5, <2>1, SettleFromTrue DEF LookupMissing
<1>6. CASE LookupRetired
  <2> DEFINE lost == Failure("recovery_window_expired", FailClosed("remote_outcome_unknown"))
  <2>1. \/ record' = Written(TerminalOf(ResultUnavailable))
        \/ record' = Written(TerminalOf(lost))
    BY <1>6 DEF LookupRetired
  <2>2. record'.failure \in {record.failure, ResultUnavailable, lost}
    BY <1>0, <2>1, WrittenFailure, FailuresAreTyped
  <2>3. Justified(record.failure)' BY <1>2, <2>2, OtherEffects
  <2> QED BY <1>6, <2>3, SettleFromTrue DEF LookupRetired
<1>7. CASE LookupActive
  <2>1. record' = record BY <1>7 DEF LookupActive, durable
  <2>2. SettleFrom(record') BY <1>7, <2>1 DEF LookupActive
  <2> QED BY <1>2, <2>1, <2>2, SettleFromTrue
<1>8. CASE LookupFailedJob
  <2>1. Justified(record.failure)'
    <3>1. CASE record' = Charged(ProvenSuccess) \/ record' = Charged("remote_outcome_unknown")
      BY <1>0, <1>2, <1>3, <3>1, ChargedFailure
    <3>2. CASE record' = Written(TerminalOf(Rejected)) /\ ending = "no_effect"
      BY <1>1, <3>2 DEF Justified
    <3>3. CASE record' = Written(TerminalOf(Failure("remote_failed", RemoteFailure)))
      <4>1. record'.failure \in {record.failure, Failure("remote_failed", RemoteFailure)}
        BY <1>0, <3>3, WrittenFailure, FailuresAreTyped
      <4> QED BY <1>2, <4>1, OtherEffects
    <3> QED BY <1>8, <3>1, <3>2, <3>3 DEF LookupFailedJob
  <2> QED BY <1>8, <2>1, SettleFromTrue DEF LookupFailedJob
<1>9. CASE LookupSucceeded
  <2> DEFINE r == Recovery("result_acquisition", ProvenSuccess, 0, FALSE, Instant)
  <2>1. r \in RecoveryFact
    BY <1>0, <1>3, RowParts DEF Recovery, RecoveryFact, Category, ProvenCategory
  <2>2. record'.failure = record.failure /\ outcome' = outcome
    BY <1>0, <1>9, <2>1, WrittenFailure DEF LookupSucceeded
  <2> QED BY <1>1, <2>2, TruthUntouched
<1> QED BY <1>4, <1>5, <1>6, <1>7, <1>8, <1>9 DEF TruthfulLookup

\* Result acquisition never claims non-execution.
LEMMA AcquisitionTruth ==
  ASSUME ExecutionInv, TruthInv, Acquisition
  PROVE  TruthInv'
<1>0. RowOK(record) /\ record \in Record BY DEF ExecutionInv, RowOK
<1>1. UNCHANGED <<agent, request, ending>>
  BY DEF Acquisition, ResultRefused, ResultAbsent, Acquire, CapacityPause, Publish,
         ArtifactUnavailable, author
<1>2. ASSUME \/ record'.failure = record.failure
             \/ record'.failure.disposition.effect # "non_execution"
      PROVE  Justified(record.failure)'
  BY <1>1, <1>2 DEF TruthInv, Justified
<1>3. CASE ResultRefused
  <2>1. record' = record BY <1>3 DEF ResultRefused, durable
  <2>2. SettleFrom(record') BY <1>3, <2>1 DEF ResultRefused
  <2> QED BY <1>2, <2>1, <2>2, SettleFromTrue
<1>4. CASE ResultAbsent
  <2>1. Justified(record.failure)'
    BY <1>0, <1>2, <1>4, ChargedFailure, RowParts DEF ResultAbsent, Evidence, Certainty
  <2> QED BY <1>4, <2>1, SettleFromTrue DEF ResultAbsent
<1>5. CASE Acquire BY <1>1, <1>5, TruthUntouched DEF Acquire, durable
<1>6. CASE CapacityPause
  <2> DEFINE r == Recovery("persistent_capacity_unavailable", ProvenSuccess, 0, TRUE, Instant)
  <2>1. r \in RecoveryFact
    BY <1>0, RowParts DEF Recovery, RecoveryFact, Category, ProvenCategory, Evidence
  <2>2. Justified(record.failure)' BY <1>0, <1>2, <1>6, <2>1, WrittenFailure DEF CapacityPause
  <2> QED BY <1>6, <2>2, SettleFromTrue DEF CapacityPause
<1>7. CASE Publish
  <2>1. RowOK(record') /\ record'.lifecycle = "succeeded"
    <3> DEFINE new == [record EXCEPT !.lifecycle = "succeeded", !.revision = @ + 1]
               won == [new EXCEPT !.recovery = NoRecovery]
    <3>1. ~Terminal /\ record' = SucceededRecord BY <1>7 DEF Publish, RowHolds
    <3>2. Fold(record, LifecycleFact("succeeded")) = new
      BY <3>1 DEF Fold, LifecycleFact, FoldLifecycle, MayBecome, IsTerminal, Terminal
    <3>3. won.lifecycle = "succeeded" BY <1>0 DEF Record
    <3> QED BY <1>0, <3>1, <3>2, <3>3, SucceededFacts DEF SucceededRecord
  <2>2. record'.failure = NoFailure BY <2>1 DEF RowOK, WellFormed
  <2>3. Justified(record.failure)' BY <1>2, <2>2, OtherEffects
  <2> QED BY <1>7, <2>3, SettleFromTrue DEF Publish
<1>8. ASSUME NEW over \in BOOLEAN, ArtifactUnavailable(over) PROVE TruthInv'
  <2> DEFINE r == Recovery("result_acquisition", ProvenSuccess, NextAttempt, FALSE, Instant)
  <2>1. r \in RecoveryFact
    BY <1>0, RowParts DEF Recovery, RecoveryFact, Category, ProvenCategory, Evidence
  <2>2. record' = Written(TerminalOf(ResultUnavailable)) \/ record' = Written(RecoveryOf(r))
    BY <1>8 DEF ArtifactUnavailable
  <2>3. record'.failure \in {record.failure, ResultUnavailable}
    BY <1>0, <2>1, <2>2, WrittenFailure, FailuresAreTyped
  <2>4. Justified(record.failure)' BY <1>2, <2>3, OtherEffects
  <2> QED BY <1>8, <2>4, SettleFromTrue DEF ArtifactUnavailable
<1> QED BY <1>3, <1>4, <1>5, <1>6, <1>7, <1>8 DEF Acquisition

\* An ending offered by the task itself, with row and author left alone, is true
\* when what it claims is.
LEMMA EndingTrue ==
  ASSUME TruthInv, NEW f, Settling(Ended(f)), UNCHANGED <<record, agent, request, ending>>,
         Justified(f)
  PROVE  TruthInv'
<1>1. outcome' = Ended(f) /\ Ended(f).failure = f BY DEF Settling, Ended, Outcome
<1> QED BY <1>1 DEF TruthInv, Justified

\* What the scheduler writes claims nothing the row or the outcome did not.
LEMMA SchedulingTruth ==
  ASSUME ExecutionInv, TruthInv, Scheduling
  PROVE  TruthInv'
<1>0. RowOK(record) /\ record \in Record /\ OutcomeOK(outcome) BY DEF ExecutionInv, RowOK
<1>1. UNCHANGED <<agent, request, ending>>
  BY DEF Scheduling, Claim, Unstart, Start, Refuse, Detach, Release, Settle, Heal, Resume,
         author
<1>2. CASE Claim \/ Unstart \/ Start \/ Refuse \/ Release \/ Resume
  <2>1. record' = record /\ outcome' = outcome
    BY <1>2 DEF Claim, Unstart, Start, Refuse, Release, Resume, volatile
  <2> QED BY <1>1, <2>1, TruthUntouched
<1>3. CASE Detach
  <2>1. outcome' = outcome BY <1>3 DEF Detach
  <2>2. \/ record'.failure = record.failure
        \/ record'.failure.disposition.effect # "non_execution"
    BY <1>0, <1>3, ChargedFailure, RowParts DEF Detach, Evidence, Certainty
  <2> QED BY <1>1, <2>1, <2>2 DEF TruthInv, Justified
<1>4. CASE Settle
  <2> DEFINE folded == Fold(record, OutcomeFact(outcome))
  <2>1. outcome' = NoOutcome BY <1>4 DEF Settle
  <2>2. record' = record \/ (folded # Refused /\ record' = folded) BY <1>4 DEF Settle
  <2>3. ASSUME folded # Refused PROVE folded.failure \in {record.failure, outcome.failure}
    <3>1. CASE outcome.kind = "terminal"
      <4>1. folded = Written(TerminalOf(outcome.failure))
        BY <2>3, <3>1 DEF OutcomeFact, Written
      <4> QED BY <1>0, <3>1, <4>1, WrittenFailure DEF OutcomeOK
    <3>2. CASE outcome.kind = "recovery"
      <4>1. folded = Written(RecoveryOf(outcome.recovery))
        BY <2>3, <3>2 DEF OutcomeFact, Written
      <4> QED BY <1>0, <3>2, <4>1, WrittenFailure DEF OutcomeOK
    <3>3. CASE outcome.kind = "success"
      <4>1. folded = FoldLifecycle(record, "succeeded")
        BY <3>3 DEF OutcomeFact, Fold, LifecycleFact
      <4>2. folded = record BY <3>3, <4>1 DEF ExecutionInv, OutcomeStands, FoldLifecycle
      <4> QED BY <4>2
    <3>4. outcome.kind # "none" BY <1>4 DEF Settle, ExecutionInv, OutcomeStands
    <3> QED BY <1>0, <3>1, <3>2, <3>3, <3>4 DEF OutcomeOK, OutcomeType
  <2>4. record'.failure \in {record.failure, outcome.failure} BY <2>2, <2>3
  <2>5. NoOutcome.failure = NoFailure BY DEF NoOutcome, Outcome
  <2> QED BY <1>1, <2>1, <2>4, <2>5, OtherEffects DEF TruthInv, Justified
<1>5. CASE Heal
  <2>1. outcome' = outcome BY <1>5 DEF Heal, volatile
  <2>2. record'.failure \in {record.failure, ResultUnavailable, Exhausted}
    BY <1>0, <1>5, WrittenFailure, FailuresAreTyped DEF Heal, FailureWhenTheBudgetEnds
  <2> QED BY <1>1, <2>1, <2>2, OtherEffects DEF TruthInv, Justified
<1> QED BY <1>2, <1>3, <1>4, <1>5 DEF Scheduling

\* A submission says its command did not run only before it was sent, or when
\* the author said so.
LEMMA SubmissionTruth ==
  ASSUME ExecutionInv, SentOnceInv, WireInv, TruthInv, Submission
  PROVE  TruthInv'
<1>1. ASSUME phase \in {"discovering", "checking"} PROVE agent = "none" /\ ~request
  BY <1>1 DEF SentOnceInv, WireInv
<1>2. ASSUME NEW refusal \in {"unanswered", "refused", "preflight"}, CheckRefused(refusal)
      PROVE  TruthInv'
  <2>1. Settling(Ended(CapabilityFailure(refusal))) /\ UNCHANGED <<record, agent, request, ending>>
        /\ phase \in {"discovering", "checking"}
    BY <1>2 DEF CheckRefused, durable, author
  <2>2. Justified(CapabilityFailure(refusal)) BY <1>1, <2>1 DEF Justified
  <2> QED BY <2>1, <2>2, EndingTrue
<1>3. CASE InsertChild
  BY <1>3, TruthUntouched DEF InsertChild, author
<1>4. CASE InsertFails
  <2>1. Settling(Ended(Answered)) /\ UNCHANGED <<record, agent, request, ending>>
    BY <1>4 DEF InsertFails, durable, author
  <2>2. Justified(Answered) BY OtherEffects DEF Justified
  <2> QED BY <2>1, <2>2, EndingTrue
<1>5. CASE Send
  <2>1. record' = record /\ outcome' = outcome /\ ~Terminal /\ phase = "checking"
    BY <1>5 DEF Send, durable, RowHolds
  <2>2. record.failure = NoFailure
    BY <2>1 DEF ExecutionInv, RowOK, WellFormed, Terminal, IsTerminal
  <2>3. outcome.failure = NoFailure
    BY <2>1 DEF ExecutionInv, OutcomeStands, NoOutcome, Outcome
  <2> QED BY <2>1, <2>2, <2>3, OtherEffects DEF TruthInv, Justified
<1>6. CASE SendNothing
  <2>1. Settling(Ended(Rejected)) /\ UNCHANGED <<record, agent, request, ending>>
        /\ phase \in {"discovering", "checking"}
    BY <1>6 DEF SendNothing, durable, author
  <2>2. Justified(Rejected) BY <1>1, <2>1 DEF Justified
  <2> QED BY <2>1, <2>2, EndingTrue
<1>7. CASE Deadline
  <2> DEFINE r == Recovery("ambiguous_submission", "submission_unknown", 1, FALSE, 0)
  <2>1. outcome' = Waiting(r) /\ UNCHANGED <<record, agent, request, ending>>
    BY <1>7 DEF Deadline, Settling, durable
  <2>2. Waiting(r).failure = NoFailure BY DEF Waiting, Outcome
  <2> QED BY <2>1, <2>2, OtherEffects DEF TruthInv, Justified
<1>8. HandoffFailure("unknown") = Answered BY DEF HandoffFailure
<1>9. CASE Unusable
  <2>1. Settling(Ended(Answered)) /\ UNCHANGED <<record, agent, request, ending>>
    BY <1>8, <1>9 DEF Unusable, durable
  <2>2. Justified(Answered) BY OtherEffects DEF Justified
  <2> QED BY <2>1, <2>2, EndingTrue
<1>10. CASE Handoff
  <2>1. Settling(Ended(HandoffFailure(answer))) /\ UNCHANGED <<record, agent, request, ending>>
    BY <1>10 DEF Handoff, durable
  <2>2. answer = "not_executed" => agent = "none" /\ ~request BY DEF WireInv
  <2>3. answer # "not_executed" =>
          HandoffFailure(answer).disposition.effect # "non_execution"
    BY OtherEffects DEF HandoffFailure
  <2>4. Justified(HandoffFailure(answer)) BY <2>2, <2>3 DEF Justified
  <2> QED BY <2>1, <2>4, EndingTrue
<1>11. ASSUME NEW associated \in BOOLEAN, Acknowledge(associated) PROVE TruthInv'
  <2>1. UNCHANGED <<record, agent, request, ending>> BY <1>11 DEF Acknowledge, durable
  <2>2. CASE associated
    <3>1. outcome' = outcome BY <1>11, <2>2 DEF Acknowledge
    <3> QED BY <2>1, <3>1, TruthUntouched
  <2>3. CASE ~associated
    <3>1. Settling(Ended(Answered)) BY <1>8, <1>11, <2>3 DEF Acknowledge
    <3>2. Justified(Answered) BY OtherEffects DEF Justified
    <3> QED BY <2>1, <3>1, <3>2, EndingTrue
  <2> QED BY <2>2, <2>3
<1> QED BY <1>2, <1>3, <1>4, <1>5, <1>6, <1>7, <1>9, <1>10, <1>11 DEF Submission

\* The author cannot make a claim of non-execution false: there is nothing on
\* the wire to deliver and no job to finish.
LEMMA AuthorTruth ==
  ASSUME WireInv, TruthInv, Author
  PROVE  TruthInv'
<1>1. record' = record /\ outcome' = outcome
  BY DEF Author, Deliver, Lose, Finish, Retire, durable, volatile
<1>2. ASSUME \/ agent = "none" /\ ~request
             \/ ending = "no_effect"
      PROVE  (\/ agent = "none" /\ ~request
              \/ ending = "no_effect")'
  <2>1. ~request /\ agent # "active" BY <1>2 DEF WireInv
  <2>2. Retire BY <2>1 DEF Author, Deliver, Lose, Finish
  <2> QED BY <1>2, <2>2 DEF Retire
<1> QED BY <1>1, <1>2 DEF TruthInv, Justified

\* Every step keeps every claim of non-execution true.
LEMMA TruthStep ==
  ExecutionInv /\ SentOnceInv /\ WireInv /\ TruthInv /\ [Next]_vars => TruthInv'
<1> SUFFICES ASSUME ExecutionInv, SentOnceInv, WireInv, TruthInv, [Next]_vars PROVE TruthInv'
  OBVIOUS
<1>1. CASE Crash BY <1>1, TruthUntouched DEF Crash, durable
<1>2. CASE Restart
  <2>1. record' = record /\ outcome' = outcome /\ UNCHANGED <<agent, request, ending>>
    BY <1>2 DEF Restart, volatile, author
  <2> QED BY <2>1, TruthUntouched
<1>3. CASE UNCHANGED vars
  <2>1. record' = record /\ outcome' = outcome /\ UNCHANGED <<agent, request, ending>>
    BY <1>3 DEF vars, durable, volatile, author
  <2> QED BY <2>1, TruthUntouched
<1> QED BY <1>1, <1>2, <1>3, SchedulingTruth, SubmissionTruth, LookupTruth, AcquisitionTruth,
           AuthorTruth DEF Next, Task

\* A row that says its command did not run is right and stays right, whatever
\* is delayed, lost, retried or crashed (unchecked, outcome_of_handoff and
\* classify_failure are the code that may say so).
THEOREM ExecutionNonExecutionIsTrue == Spec => []NonExecutionIsTrue
<1> DEFINE Inv == ExecutionInv /\ SentOnceInv /\ WireInv /\ TruthInv
<1>1. Init => Inv
  <2>1. Init => SentOnceInv BY DEF Init, SentOnceInv
  <2>2. Init => WireInv BY DEF Init, WireInv
  <2>3. Init => record.failure = NoFailure /\ outcome.failure = NoFailure
    BY DEF Init, Admitted, NoOutcome, Outcome
  <2>4. Init => TruthInv BY <2>3, OtherEffects DEF TruthInv, Justified
  <2> QED BY <2>1, <2>2, <2>4, ExecutionInit
<1>2. Inv /\ [Next]_vars => Inv'
  BY ExecutionStep, SentOnceStep, WireStep, TruthStep
<1>3. Inv => NonExecutionIsTrue BY DEF TruthInv, Justified, NonExecutionIsTrue
<1> QED BY <1>1, <1>2, <1>3, PTL DEF Spec

-----------------------------------------------------------------------------
\* The execution keeps its promise.

\* The verdict of a row, VerdictOf as a function of the row.
VerdictIn(rec) ==
    CASE rec.lifecycle = "succeeded" -> "succeeded"
      [] rec.lifecycle = "failed" ->
            CASE rec.failure.disposition.effect = "non_execution"  -> "not_executed"
              [] rec.failure.disposition.effect = "remote_failure" -> "failed"
              [] rec.failure.disposition.effect = "remote_success" -> "unavailable"
              [] OTHER -> "unknown"
      [] OTHER -> IF rec.recovery.evidence = ProvenSuccess THEN "proven" ELSE "pending"

\* What each phase of the task relies on.  Nothing is proven before there is a
\* child to look up, everything is in acquisition; a row under execution is not
\* held for a person, so nobody ends it meanwhile; and an outcome agrees with
\* the row it will be folded into about what is proven.
PromiseInv ==
    /\ child = "none" => ~ProvenHeld
    /\ phase \in {"discovering", "checking", "sending"} => ~ProvenHeld
    /\ phase \in Awaiting => ~record.recovery.manual
    /\ phase \in {"proven", "acquiring"} => ProvenHeld
    /\ (phase = "settling" /\ outcome.kind = "terminal" /\ outcome.failure # record.failure) =>
          /\ ~ProvenHeld /\ ~record.recovery.manual
          /\ outcome.failure.disposition.effect \in {"non_execution", "indeterminate"}
    /\ (phase = "settling" /\ outcome.kind = "recovery" /\ ~Terminal) =>
          ((outcome.recovery.evidence = ProvenSuccess) <=> ProvenHeld)

\* The verdict by the row's lifecycle, evidence and failure.
LEMMA VerdictCases ==
  ASSUME NEW rec
  PROVE  /\ rec.lifecycle = "succeeded" => VerdictIn(rec) = "succeeded"
         /\ ~IsTerminal(rec.lifecycle) =>
              VerdictIn(rec) = IF rec.recovery.evidence = ProvenSuccess THEN "proven" ELSE "pending"
         /\ rec.lifecycle = "failed" =>
              LET e == rec.failure.disposition.effect IN
              /\ e = "non_execution" => VerdictIn(rec) = "not_executed"
              /\ e = "remote_failure" => VerdictIn(rec) = "failed"
              /\ e = "remote_success" => VerdictIn(rec) = "unavailable"
              /\ e \notin {"non_execution", "remote_failure", "remote_success"} =>
                   VerdictIn(rec) = "unknown"
<1>1. rec.lifecycle = "succeeded" => VerdictIn(rec) = "succeeded" BY DEF VerdictIn
<1>2. ~IsTerminal(rec.lifecycle) =>
        VerdictIn(rec) = IF rec.recovery.evidence = ProvenSuccess THEN "proven" ELSE "pending"
  BY DEF VerdictIn, IsTerminal
<1>3. ASSUME rec.lifecycle = "failed"
      PROVE  LET e == rec.failure.disposition.effect IN
              /\ e = "non_execution" => VerdictIn(rec) = "not_executed"
              /\ e = "remote_failure" => VerdictIn(rec) = "failed"
              /\ e = "remote_success" => VerdictIn(rec) = "unavailable"
              /\ e \notin {"non_execution", "remote_failure", "remote_success"} =>
                   VerdictIn(rec) = "unknown"
  <2> DEFINE e == rec.failure.disposition.effect
             V == CASE e = "non_execution"  -> "not_executed"
                    [] e = "remote_failure" -> "failed"
                    [] e = "remote_success" -> "unavailable"
                    [] OTHER -> "unknown"
  <2>1. VerdictIn(rec) = V BY <1>3 DEF VerdictIn
  <2> HIDE DEF e
  <2> QED BY <2>1 DEF e
<1> QED BY <1>1, <1>2, <1>3

\* The verdict that the refinement reads is the row's.
LEMMA VerdictOfRow == VerdictOf = VerdictIn(record) /\ VerdictOf' = VerdictIn(record')
<1>1. VerdictOf = VerdictIn(record) BY DEF VerdictOf, VerdictIn, ProvenHeld
<1>2. VerdictOf' = VerdictIn(record') BY DEF VerdictOf, VerdictIn, ProvenHeld
<1> QED BY <1>1, <1>2

\* A recovery written to a row that has not ended is the recovery it then has.
LEMMA RecoveryWritten ==
  ASSUME RowOK(record), ~Terminal, NEW r \in RecoveryFact, Admits(r.category, r.evidence)
  PROVE  LET w == Written(RecoveryOf(r)) IN
         /\ w.recovery = r /\ w.lifecycle = record.lifecycle
         /\ VerdictIn(w) = IF r.evidence = ProvenSuccess THEN "proven" ELSE "pending"
<1> DEFINE w == Written(RecoveryOf(r))
           new == [record EXCEPT !.recovery = r, !.revision = @ + 1]
<1>1. record \in Record /\ ~IsTerminal(record.lifecycle) BY DEF RowOK, Terminal
<1>2. Fold(record, RecoveryOf(r)) = FoldRecovery(record, r) BY DEF Fold, RecoveryOf
<1>3. new.recovery = r /\ new.lifecycle = record.lifecycle BY <1>1 DEF Record
<1>4. new # Refused
  <2>1. "lifecycle" \notin DOMAIN Refused BY DEF Refused
  <2>2. "lifecycle" \in DOMAIN new BY <1>1 DEF Record
  <2> QED BY <2>1, <2>2
<1>5. (w = record /\ record.recovery = r) \/ w = new
  <2>1. FoldRecovery(record, r) = IF record.recovery = r THEN record ELSE new
    BY <1>1 DEF FoldRecovery
  <2>2. w = IF FoldRecovery(record, r) = Refused THEN record ELSE FoldRecovery(record, r)
    BY <1>2 DEF Written
  <2> HIDE DEF w, new
  <2> QED BY <1>4, <2>1, <2>2
<1>6. w.recovery = r /\ w.lifecycle = record.lifecycle BY <1>3, <1>5
<1> HIDE DEF w
<1> QED BY <1>1, <1>6, VerdictCases DEF w

\* An ending written to a row that has not ended is the ending it then has.
LEMMA TerminalWritten ==
  ASSUME RowOK(record), ~Terminal, NEW f \in TerminalFailure,
         TerminalPairingIsLegal(f.kind, f.disposition)
  PROVE  LET w == Written(TerminalOf(f)) IN w.lifecycle = "failed" /\ w.failure = f
<1> DEFINE new == [record EXCEPT !.lifecycle = "failed", !.recovery = NoRecovery,
                                 !.failure = f, !.revision = @ + 1]
<1>1. record \in Record /\ ~IsTerminal(record.lifecycle) /\ record.failure = NoFailure
  BY DEF RowOK, Terminal, WellFormed, IsTerminal
<1>2. f # NoFailure BY DEF TerminalFailure, FailureKind, NoFailure
<1>3. Fold(record, TerminalOf(f)) = FoldTerminal(record, f) BY DEF Fold, TerminalOf
<1>4. FoldTerminal(record, f) = new BY <1>1, <1>2 DEF FoldTerminal
<1>5. new.lifecycle = "failed" /\ new.failure = f BY <1>1 DEF Record
<1>6. new # Refused
  <2>1. "lifecycle" \notin DOMAIN Refused BY DEF Refused
  <2>2. "lifecycle" \in DOMAIN new BY <1>1 DEF Record
  <2> QED BY <2>1, <2>2
<1>7. Written(TerminalOf(f)) = new BY <1>3, <1>4, <1>6 DEF Written
<1> QED BY <1>5, <1>7

\* What a row write concludes.  The promise allows it when the verdict stays or
\* is justified by what became of the command.
RowKeeps(rec) ==
    \/ VerdictIn(rec) = VerdictIn(record)
    \/ Promise!Justified(VerdictIn(rec))

PromiseStep == [Promise!Next]_(Promise!vars)

\* A step that leaves the author alone and writes a justified verdict.
LEMMA RowStep ==
  ASSUME UNCHANGED <<request, agent, ending, posts>>, RowKeeps(record')
  PROVE  PromiseStep
<1>1. (posts > 0)' = (posts > 0) /\ RanOf' = RanOf BY DEF RanOf
<1>2. VerdictOf = VerdictIn(record) /\ VerdictOf' = VerdictIn(record') BY VerdictOfRow
<1>3. CASE VerdictIn(record') = VerdictIn(record)
  BY <1>1, <1>2, <1>3 DEF PromiseStep, Promise!vars
<1>4. CASE Promise!Justified(VerdictIn(record'))
  <2>1. VerdictOf' \in Promise!Verdict BY <1>2, <1>4 DEF Promise!Justified, Promise!Verdict
  <2>2. Promise!Conclude BY <1>1, <1>2, <1>4, <2>1 DEF Promise!Conclude
  <2> QED BY <2>2 DEF PromiseStep, Promise!Next
<1> QED BY <1>3, <1>4 DEF RowKeeps

\* The failures the execution writes may be written.
LEMMA FailuresAreLegal ==
  \A f \in {ResultUnavailable, Exhausted, Rejected, Answered,
            Failure("recovery_window_expired", FailClosed("remote_outcome_unknown")),
            Failure("remote_failed", RemoteFailure)} :
      f \in TerminalFailure /\ TerminalPairingIsLegal(f.kind, f.disposition)
<1>1. ASSUME NEW kind, NEW disposition, IsConsistent(disposition),
             disposition.effect \in AllowedEffects(kind)
      PROVE  LET f == Failure(kind, disposition)
             IN  TerminalPairingIsLegal(f.kind, f.disposition)
  BY <1>1 DEF Failure, TerminalPairingIsLegal
<1>2. /\ IsConsistent(RemoteSuccess) /\ IsConsistent(RemoteFailure)
      /\ IsConsistent(NonExecution("confirmed_not_executed"))
      /\ IsConsistent(FailClosed("remote_outcome_unknown"))
      /\ IsConsistent(FailClosed("submission_unknown"))
  BY DEF IsConsistent, RemoteSuccess, RemoteFailure, NonExecution, FailClosed, Unresolved
<1>3. /\ RemoteSuccess.effect = "remote_success" /\ RemoteFailure.effect = "remote_failure"
      /\ \A c : NonExecution(c).effect = "non_execution" /\ FailClosed(c).effect = "indeterminate"
  BY DEF RemoteSuccess, RemoteFailure, NonExecution, FailClosed
<1>4. /\ "remote_success" \in AllowedEffects("result_unavailable")
      /\ "indeterminate" \in AllowedEffects("retry_policy_exhausted")
      /\ "non_execution" \in AllowedEffects("rejected")
      /\ "indeterminate" \in AllowedEffects("recovery_window_expired")
      /\ "remote_failure" \in AllowedEffects("remote_failed")
  BY DEF AllowedEffects
<1> QED
  BY <1>1, <1>2, <1>3, <1>4, FailuresAreTyped DEF ResultUnavailable, Exhausted, Rejected,
                                                  Answered

\* What they say of the command.
LEMMA FailureEffects ==
  /\ ResultUnavailable.disposition.effect = "remote_success"
  /\ Exhausted.disposition.effect = "indeterminate"
  /\ Answered.disposition.effect = "indeterminate"
  /\ Rejected.disposition.effect = "non_execution"
  /\ Failure("remote_failed", RemoteFailure).disposition.effect = "remote_failure"
  /\ \A kind, c : Failure(kind, FailClosed(c)).disposition.effect = "indeterminate"
  BY DEF ResultUnavailable, Exhausted, Answered, Rejected, Failure, RemoteSuccess,
         RemoteFailure,
         FailClosed, NonExecution

\* A lost result, an unknown outcome: the two endings of a spent budget.
LEMMA LossConcludes ==
  ASSUME RowOK(record), ~Terminal, NEW f,
         \/ f = ResultUnavailable /\ ProvenHeld
         \/ /\ ~ProvenHeld
            /\ f \in {Exhausted, Answered,
                      Failure("recovery_window_expired", FailClosed("remote_outcome_unknown"))}
  PROVE  RowKeeps(Written(TerminalOf(f)))
<1> DEFINE w == Written(TerminalOf(f))
<1>1. w.lifecycle = "failed" /\ w.failure = f BY TerminalWritten, FailuresAreLegal
<1> HIDE DEF w
<1>2. VerdictIn(w) = IF ProvenHeld THEN "unavailable" ELSE "unknown"
  BY <1>1, VerdictCases, FailureEffects
<1>3. VerdictOf = IF ProvenHeld THEN "proven" ELSE "pending"
  BY VerdictOfRow, VerdictCases DEF Terminal, ProvenHeld
<1>4. Promise!Justified(VerdictIn(w)) BY <1>2, <1>3 DEF Promise!Justified
<1> QED BY <1>4 DEF w, RowKeeps

\* A recovery that knows as much as the row concludes nothing.
LEMMA RecoveryConcludes ==
  ASSUME RowOK(record), ~Terminal, NEW r \in RecoveryFact, Admits(r.category, r.evidence),
         (r.evidence = ProvenSuccess) <=> ProvenHeld
  PROVE  RowKeeps(Written(RecoveryOf(r)))
<1>1. VerdictIn(Written(RecoveryOf(r))) = IF ProvenHeld THEN "proven" ELSE "pending"
  BY RecoveryWritten
<1>2. VerdictIn(record) = IF ProvenHeld THEN "proven" ELSE "pending"
  BY VerdictCases DEF Terminal, ProvenHeld
<1> QED BY <1>1, <1>2 DEF RowKeeps

\* A charged attempt keeps what is proven, or ends with the loss of it.
LEMMA ChargedConcludes ==
  ASSUME RowOK(record), ~Terminal, NEW evidence \in Evidence,
         (evidence = ProvenSuccess) <=> ProvenHeld
  PROVE  RowKeeps(Charged(evidence))
<1> DEFINE r == Recovery(LookupCategory(evidence), evidence, NextAttempt, FALSE, Instant)
<1>1. r \in RecoveryFact /\ r.evidence = evidence /\ Admits(r.category, r.evidence)
  <2>1. LookupCategory(evidence) \in Category BY DEF LookupCategory, Category, ProvenCategory
  <2>2. r \in RecoveryFact /\ r.evidence = evidence /\ r.category = LookupCategory(evidence)
    BY <2>1, RowParts DEF Recovery, RecoveryFact
  <2>3. Admits(LookupCategory(evidence), evidence) BY DEF Admits, LookupCategory, ProvenCategory
  <2> QED BY <2>2, <2>3
<1>2. RowKeeps(Written(RecoveryOf(r)))
  <2> HIDE DEF r
  <2> QED BY <1>1, RecoveryConcludes
<1>3. RowKeeps(Written(TerminalOf(FailureWhenTheBudgetEnds(evidence))))
  BY LossConcludes DEF FailureWhenTheBudgetEnds
<1>4. RowKeeps(record) BY DEF RowKeeps
<1> QED BY <1>2, <1>3, <1>4 DEF Charged

\* What an attempt is charged with is what the row has proven.
LEMMA HeldIsProven ==
  ASSUME RowOK(record)
  PROVE  \A e \in Unresolved : /\ HeldEvidence(e) \in Evidence
                               /\ (HeldEvidence(e) = ProvenSuccess) <=> ProvenHeld
<1>1. NoRecovery.evidence # ProvenSuccess BY DEF NoRecovery, ProvenSuccess
<1>2. \A e \in Unresolved : e # ProvenSuccess /\ e \in Evidence
  BY DEF Unresolved, ProvenSuccess, Evidence, Certainty
<1> QED BY <1>1, <1>2, RowParts DEF HeldEvidence, ProvenHeld

\* Outcomes agree with the row.  An ended row has no recovery to hold evidence.
LEMMA EndedHoldsNothing ==
  ASSUME NEW rec, RowOK(rec), IsTerminal(rec.lifecycle)
  PROVE  rec.recovery = NoRecovery /\ rec.recovery.evidence # ProvenSuccess /\ ~rec.recovery.manual
<1>1. rec.recovery = NoRecovery BY DEF RowOK, WellFormed
<1> QED BY <1>1 DEF NoRecovery, ProvenSuccess

\* A charged attempt proves nothing.
LEMMA ChargedProvesNothing ==
  ASSUME RowOK(record), ~Terminal, ~ProvenHeld, NEW evidence \in Evidence, evidence # ProvenSuccess
  PROVE  Charged(evidence).recovery.evidence # ProvenSuccess
<1> DEFINE r == Recovery(LookupCategory(evidence), evidence, NextAttempt, FALSE, Instant)
           f == FailureWhenTheBudgetEnds(evidence)
<1>1. Written(RecoveryOf(r)).recovery.evidence # ProvenSuccess
  <2>1. LookupCategory(evidence) \in Category BY DEF LookupCategory, Category, ProvenCategory
  <2>2. r \in RecoveryFact /\ r.evidence = evidence /\ r.category = LookupCategory(evidence)
    BY <2>1, RowParts DEF Recovery, RecoveryFact
  <2>3. Admits(LookupCategory(evidence), evidence) BY DEF Admits, LookupCategory, ProvenCategory
  <2> HIDE DEF r
  <2>4. Written(RecoveryOf(r)).recovery = r BY <2>2, <2>3, RecoveryWritten
  <2> QED BY <2>2, <2>4
<1>2. Written(TerminalOf(f)).recovery.evidence # ProvenSuccess
  <2>1. f = Exhausted BY DEF FailureWhenTheBudgetEnds
  <2> HIDE DEF f
  <2>2. f \in TerminalFailure /\ TerminalPairingIsLegal(f.kind, f.disposition)
    BY <2>1, FailuresAreLegal
  <2>3. RowOK(Written(TerminalOf(f))) BY <2>2, WrittenTerminal
  <2>4. Written(TerminalOf(f)).lifecycle = "failed" BY <2>2, TerminalWritten
  <2> QED BY <2>3, <2>4, EndedHoldsNothing DEF IsTerminal
<1> HIDE DEF r, f
<1> QED BY <1>1, <1>2 DEF Charged, r, f, ProvenHeld

\* Settling from the row agrees with it.
LEMMA SettleFromAgrees ==
  ASSUME RowOK(record'), SettleFrom(record'), child' # "none"
  PROVE  PromiseInv'
<1>1. PICK out \in Settlements(record') : phase' = "settling" /\ outcome' = out
  BY DEF SettleFrom, Settling
<1>2. CASE out.kind = "terminal"
  <2>1. out.failure = record'.failure
    BY <1>2 DEF Settlements, Ended, Waiting, Completed, Outcome
  <2> QED BY <1>1, <1>2, <2>1 DEF PromiseInv, Awaiting
<1>3. CASE out.kind = "recovery"
  <2>1. out = Waiting(StillWaiting(record'))
    BY <1>3 DEF Settlements, Ended, Waiting, Completed, Outcome
  <2>2. out.recovery = StillWaiting(record') BY <2>1 DEF Waiting, Outcome
  <2>3. ~Terminal' => (out.recovery.evidence = ProvenSuccess <=> ProvenHeld')
    <3>1. CASE record'.recovery # NoRecovery BY <2>2, <3>1 DEF StillWaiting, ProvenHeld
    <3>2. CASE record'.recovery = NoRecovery /\ ~Terminal'
      <4>1. record'.lifecycle # "succeeded" BY <3>2 DEF Terminal, IsTerminal
      <4>2. out.recovery = Recovery("operation_lookup", "remote_outcome_unknown", 1, FALSE,
                                    record'.revision)
        BY <2>2, <3>2, <4>1 DEF StillWaiting
      <4>3. out.recovery.evidence # ProvenSuccess BY <4>2 DEF Recovery, ProvenSuccess
      <4>4. ~ProvenHeld' BY <3>2 DEF ProvenHeld, NoRecovery, ProvenSuccess
      <4> QED BY <4>3, <4>4
    <3> QED BY <3>1, <3>2
  <2> QED BY <1>1, <1>3, <2>3 DEF PromiseInv, Awaiting
<1>4. CASE out.kind = "success" BY <1>1, <1>4 DEF PromiseInv, Awaiting
<1>5. out.kind \in {"terminal", "recovery", "success"}
  BY DEF Settlements, Ended, Waiting, Completed, Outcome
<1> QED BY <1>2, <1>3, <1>4, <1>5

\* A submission that ends agrees with its row, of which nothing is proven.
LEMMA SubmissionAgrees ==
  ASSUME PromiseInv, phase \in {"discovering", "checking", "sending"}, NEW f, Settling(Ended(f)),
         f.disposition.effect \in {"non_execution", "indeterminate"},
         UNCHANGED <<record, child>>
  PROVE  PromiseInv'
<1>1. outcome' = Ended(f) /\ Ended(f).kind = "terminal" /\ Ended(f).failure = f
      /\ phase' = "settling"
  BY DEF Settling, Ended, Outcome
<1>2. ~ProvenHeld /\ ~record.recovery.manual BY DEF PromiseInv, Awaiting, Phase
<1>3. ~ProvenHeld' /\ record' = record BY <1>2 DEF ProvenHeld
<1> QED BY <1>1, <1>2, <1>3 DEF PromiseInv, Awaiting

\* The scheduler's steps keep outcomes and rows in agreement.
LEMMA SchedulingAgrees ==
  ASSUME ExecutionInv, ExecutionInv', PromiseInv, Scheduling
  PROVE  PromiseInv'
<1>0. RowOK(record) /\ RowOK(record') /\ OutcomeOK(outcome) BY DEF ExecutionInv
<1>1. CASE Claim
  <2>1. record' = record /\ child' = child /\ phase' = "claimed" /\ ~record.recovery.manual
    BY <1>1 DEF Claim, Eligible
  <2> QED BY <2>1 DEF PromiseInv, Awaiting, ProvenHeld
<1>2. CASE Unstart \/ Refuse \/ Release
  <2>1. record' = record /\ child' = child /\ phase' \in {"idle", "releasing"}
    BY <1>2 DEF Unstart, Refuse, Release
  <2> QED BY <2>1 DEF PromiseInv, Awaiting, ProvenHeld
<1>3. CASE Start
  <2>1. /\ record' = record /\ child' = child /\ phase = "claimed"
        /\ phase' = IF child = "none" THEN "discovering" ELSE "looking"
    BY <1>3 DEF Start
  <2>2. ~record.recovery.manual BY <2>1 DEF PromiseInv, Awaiting, Phase
  <2> QED BY <2>1, <2>2 DEF PromiseInv, ProvenHeld
<1>4. CASE Detach
  <2>1. child' = child /\ phase' = "releasing"
        /\ record' = IF Terminal THEN record ELSE Charged(HeldEvidence("remote_outcome_unknown"))
    BY <1>4 DEF Detach
  <2>2. ~ProvenHeld => record'.recovery.evidence # ProvenSuccess
    <3>1. CASE Terminal BY <2>1, <3>1 DEF ProvenHeld
    <3>2. CASE ~Terminal
      BY <1>0, <2>1, <3>2, HeldIsProven, ChargedProvesNothing DEF Unresolved
    <3> QED BY <3>1, <3>2
  <2> QED BY <2>1, <2>2 DEF PromiseInv, Awaiting, ProvenHeld
<1>5. CASE Settle
  <2> DEFINE folded == Fold(record, OutcomeFact(outcome))
  <2>1. /\ child' = child /\ phase' \in {"idle", "releasing"} /\ phase = "settling"
        /\ record' = record \/ (folded # Refused /\ record' = folded)
    BY <1>5 DEF Settle
  <2>2. ASSUME ~ProvenHeld, folded # Refused PROVE folded.recovery.evidence # ProvenSuccess
    <3>1. CASE outcome.kind = "terminal"
      <4>1. folded = FoldTerminal(record, outcome.failure)
        BY <3>1 DEF OutcomeFact, Fold, TerminalOf
      <4>2. folded.recovery \in {record.recovery, NoRecovery}
        BY <1>0, <2>2, <4>1 DEF FoldTerminal, RowOK, Record
      <4> QED BY <2>2, <4>2 DEF ProvenHeld, NoRecovery, ProvenSuccess
    <3>2. CASE outcome.kind = "recovery"
      <4>1. folded = FoldRecovery(record, outcome.recovery)
        BY <3>2 DEF OutcomeFact, Fold, RecoveryOf
      <4>2. ~Terminal /\ folded.recovery \in {record.recovery, outcome.recovery}
        BY <1>0, <2>2, <4>1 DEF FoldRecovery, RowOK, Record, Terminal
      <4>3. outcome.recovery.evidence # ProvenSuccess BY <2>1, <2>2, <3>2, <4>2 DEF PromiseInv
      <4> QED BY <2>2, <4>2, <4>3 DEF ProvenHeld
    <3>3. CASE outcome.kind = "success"
      <4>1. folded = FoldLifecycle(record, "succeeded")
        BY <3>3 DEF OutcomeFact, Fold, LifecycleFact
      <4>2. folded = record BY <3>3, <4>1 DEF ExecutionInv, OutcomeStands, FoldLifecycle
      <4> QED BY <2>2, <4>2 DEF ProvenHeld
    <3>4. outcome.kind # "none" BY <2>1 DEF ExecutionInv, OutcomeStands
    <3> QED BY <1>0, <3>1, <3>2, <3>3, <3>4 DEF OutcomeOK, OutcomeType
  <2> HIDE DEF folded
  <2>3. ~ProvenHeld => ~ProvenHeld' BY <2>1, <2>2 DEF ProvenHeld
  <2> QED BY <2>1, <2>3 DEF PromiseInv, Awaiting
<1>6. CASE Heal
  <2> DEFINE f == FailureWhenTheBudgetEnds(record.recovery.evidence)
  <2>1. /\ child' = child /\ phase' = phase /\ outcome' = outcome
        /\ ~Terminal /\ record.recovery.manual /\ record' = Written(TerminalOf(f))
    BY <1>6 DEF Heal, volatile, Terminal, IsTerminal
  <2>2. f \in {ResultUnavailable, Exhausted} BY DEF FailureWhenTheBudgetEnds
  <2>3. record'.lifecycle = "failed" BY <1>0, <2>1, <2>2, TerminalWritten, FailuresAreLegal
  <2>4. ~ProvenHeld' /\ Terminal'
    BY <1>0, <2>3, EndedHoldsNothing DEF ProvenHeld, Terminal, IsTerminal
  <2>5. phase \notin Awaiting BY <2>1 DEF PromiseInv
  <2>6. ~(phase = "settling" /\ outcome.kind = "terminal")
    <3>1. record.failure = NoFailure BY <1>0, <2>1 DEF RowOK, WellFormed, Terminal, IsTerminal
    <3>2. outcome.kind = "terminal" => outcome.failure \in TerminalFailure BY <1>0 DEF OutcomeOK
    <3>3. NoFailure \notin TerminalFailure BY DEF NoFailure, TerminalFailure, FailureKind
    <3> QED BY <2>1, <3>1, <3>2, <3>3 DEF PromiseInv
  <2> QED BY <2>1, <2>4, <2>5, <2>6 DEF PromiseInv, Awaiting, Phase
<1>7. CASE Resume
  <2>1. record' = record /\ child' = child /\ phase' = phase /\ outcome' = outcome
    BY <1>7 DEF Resume, volatile
  <2> QED BY <2>1 DEF PromiseInv, ProvenHeld, Terminal
<1> QED BY <1>1, <1>2, <1>3, <1>4, <1>5, <1>6, <1>7 DEF Scheduling

\* A submission, whichever way it ends, agrees with its row.
LEMMA SubmissionsAgree ==
  ASSUME ExecutionInv, PromiseInv, Submission
  PROVE  PromiseInv'
<1>1. ASSUME NEW refusal \in {"unanswered", "refused", "preflight"}, CheckRefused(refusal)
      PROVE  PromiseInv'
  <2> DEFINE f == CapabilityFailure(refusal)
  <2>1. /\ Settling(Ended(f)) /\ UNCHANGED <<record, child>>
        /\ phase \in {"discovering", "checking", "sending"}
    BY <1>1 DEF CheckRefused, durable
  <2>2. f \in {Failure("retry_policy_exhausted", NonExecution("confirmed_not_executed")),
               Rejected, Answered}
    BY DEF CapabilityFailure
  <2>3. f.disposition.effect \in {"non_execution", "indeterminate"}
    BY <2>2, FailureEffects DEF Failure, NonExecution
  <2> HIDE DEF f
  <2> QED BY <2>1, <2>3, SubmissionAgrees
<1>2. CASE InsertChild
  <2>1. record' = record /\ child' = "open" /\ phase = "discovering" /\ phase' = "checking"
    BY <1>2 DEF InsertChild
  <2> QED BY <2>1 DEF PromiseInv, ProvenHeld, Awaiting, Phase
<1>3. CASE InsertFails
  BY <1>3, FailureEffects, SubmissionAgrees DEF InsertFails, durable
<1>4. CASE Send
  <2>1. record' = record /\ child' = child /\ phase = "checking" /\ phase' = "sending"
    BY <1>4 DEF Send, durable
  <2> QED BY <2>1 DEF PromiseInv, ProvenHeld, Awaiting, Phase
<1>5. CASE SendNothing
  BY <1>5, FailureEffects, SubmissionAgrees DEF SendNothing, durable
<1>6. CASE Deadline
  <2> DEFINE r == Recovery("ambiguous_submission", "submission_unknown", 1, FALSE, 0)
  <2>1. /\ outcome' = Waiting(r) /\ record' = record /\ child' = child
        /\ phase = "sending" /\ phase' = "settling"
    BY <1>6 DEF Deadline, Settling, durable
  <2>2. Waiting(r).kind = "recovery" /\ Waiting(r).recovery.evidence # ProvenSuccess
    BY DEF Waiting, Outcome, Recovery, ProvenSuccess
  <2>3. ~ProvenHeld' BY <2>1 DEF PromiseInv, ProvenHeld
  <2> QED BY <2>1, <2>2, <2>3 DEF PromiseInv, Awaiting
<1>7. \A d : HandoffFailure(d).disposition.effect \in {"non_execution", "indeterminate"}
  BY FailureEffects DEF HandoffFailure
<1>8. CASE Unusable BY <1>7, <1>8, SubmissionAgrees DEF Unusable, durable
<1>9. CASE Handoff BY <1>7, <1>9, SubmissionAgrees DEF Handoff, durable
<1>10. ASSUME NEW associated \in BOOLEAN, Acknowledge(associated) PROVE PromiseInv'
  <2>1. CASE associated
    <3>1. record' = record /\ child' = child /\ phase = "sending" /\ phase' = "looking"
      BY <1>10, <2>1 DEF Acknowledge, durable
    <3> QED BY <3>1 DEF PromiseInv, ProvenHeld, Awaiting, Phase
  <2>2. CASE ~associated BY <1>7, <1>10, <2>2, SubmissionAgrees DEF Acknowledge, durable
  <2> QED BY <2>1, <2>2
<1> QED BY <1>1, <1>2, <1>3, <1>4, <1>5, <1>6, <1>8, <1>9, <1>10 DEF Submission

\* The recovery that records proven success is legal, and not a hold.
LEMMA ProvenRecovery ==
  ASSUME RowOK(record), NEW n \in Nat, NEW m \in BOOLEAN,
         NEW c \in {"result_acquisition", "persistent_capacity_unavailable"}
  PROVE  LET r == Recovery(c, ProvenSuccess, n, m, Instant)
         IN  /\ r \in RecoveryFact /\ r.evidence = ProvenSuccess /\ r.manual = m
             /\ Admits(r.category, r.evidence)
<1> DEFINE r == Recovery(c, ProvenSuccess, n, m, Instant)
<1>1. c \in Category /\ c \in ProvenCategory /\ ProvenSuccess \in Evidence
  BY DEF Category, ProvenCategory, Evidence
<1>2. r \in RecoveryFact /\ r.evidence = ProvenSuccess /\ r.manual = m /\ r.category = c
  BY <1>1, RowParts DEF Recovery, RecoveryFact
<1> QED BY <1>1, <1>2 DEF Admits

\* Lookup and acquisition settle from the row they leave, or go on with success
\* in it.
LEMMA TasksAgree ==
  ASSUME ExecutionInv, ExecutionInv', PromiseInv,
         LookupFails \/ LookupMissing \/ TruthfulLookup \/ Acquisition
  PROVE  PromiseInv'
<1>0. RowOK(record) /\ RowOK(record') BY DEF ExecutionInv
<1>1. CASE LookupSucceeded
  <2> DEFINE r == Recovery("result_acquisition", ProvenSuccess, 0, FALSE, Instant)
  <2>1. /\ child' = child /\ child = "open" /\ phase = "looking" /\ phase' = "proven" /\ ~Terminal
        /\ record' = IF ProvenHeld THEN record ELSE Written(RecoveryOf(r))
    BY <1>1 DEF LookupSucceeded, Looking, RowHolds
  <2>2. /\ r \in RecoveryFact /\ r.evidence = ProvenSuccess /\ ~r.manual
        /\ Admits(r.category, r.evidence)
    BY <1>0, ProvenRecovery
  <2>3. ~record.recovery.manual BY <2>1 DEF PromiseInv, Awaiting, Phase
  <2> HIDE DEF r
  <2>4. record'.recovery.evidence = ProvenSuccess /\ ~record'.recovery.manual
    BY <1>0, <2>1, <2>2, <2>3, RecoveryWritten DEF ProvenHeld
  <2> QED BY <2>1, <2>4 DEF PromiseInv, ProvenHeld
<1>2. CASE Acquire
  <2>1. record' = record /\ child' = child /\ phase = "proven" /\ phase' = "acquiring"
    BY <1>2 DEF Acquire, durable
  <2> QED BY <2>1 DEF PromiseInv, ProvenHeld, Awaiting, Phase
<1>3. CASE LookupFails \/ LookupMissing \/ LookupRetired \/ LookupFailedJob
  <2>1. child' # "none" /\ SettleFrom(record')
    BY <1>3 DEF LookupFails, LookupMissing, LookupRetired, LookupFailedJob, Looking
  <2> QED BY <1>0, <2>1, SettleFromAgrees
<1>4. CASE LookupActive
  <2>1. child' # "none" /\ SettleFrom(record') BY <1>4 DEF LookupActive, Looking, durable
  <2> QED BY <1>0, <2>1, SettleFromAgrees
<1>5. CASE ResultRefused
  <2>1. child' = child /\ SettleFrom(record') /\ phase \in {"proven", "acquiring"}
    BY <1>5 DEF ResultRefused, durable
  <2> QED BY <1>0, <2>1, SettleFromAgrees DEF PromiseInv
<1>6. CASE ResultAbsent \/ CapacityPause \/ Publish \/ \E over \in BOOLEAN : ArtifactUnavailable(over)
  <2>1. child' \in {child, "succeeded"} /\ SettleFrom(record') /\ phase \in {"proven", "acquiring"}
    BY <1>6 DEF ResultAbsent, CapacityPause, Publish, ArtifactUnavailable
  <2> QED BY <1>0, <2>1, SettleFromAgrees DEF PromiseInv
<1> QED BY <1>1, <1>2, <1>3, <1>4, <1>5, <1>6 DEF TruthfulLookup, Acquisition

\* Every step keeps outcomes and rows in agreement.
LEMMA PromiseInvStep ==
  ExecutionInv /\ PromiseInv /\ [Next]_vars => PromiseInv'
<1> SUFFICES ASSUME ExecutionInv, PromiseInv, [Next]_vars PROVE PromiseInv' OBVIOUS
<1>1. ExecutionInv' BY ExecutionStep
<1>2. CASE Author
  <2>1. record' = record /\ child' = child /\ phase' = phase /\ outcome' = outcome
    BY <1>2 DEF Author, Deliver, Lose, Finish, Retire, durable, volatile
  <2> QED BY <2>1 DEF PromiseInv, ProvenHeld, Terminal
<1>3. CASE Crash
  <2>1. record' = record /\ child' = child /\ phase' = "idle" BY <1>3 DEF Crash, durable
  <2> QED BY <2>1 DEF PromiseInv, ProvenHeld, Awaiting
<1>4. CASE Restart \/ UNCHANGED vars
  <2>1. record' = record /\ child' = child /\ phase' = phase /\ outcome' = outcome
    BY <1>4 DEF Restart, vars, durable, volatile
  <2> QED BY <2>1 DEF PromiseInv, ProvenHeld, Terminal
<1> QED BY <1>1, <1>2, <1>3, <1>4, SchedulingAgrees, SubmissionsAgree, TasksAgree DEF Next, Task

\* The scheduler concludes what the promise lets it conclude.
LEMMA SchedulingKeepsPromise ==
  ASSUME ExecutionInv, WireInv, TruthInv, PromiseInv, Scheduling
  PROVE  PromiseStep
<1>0. RowOK(record) /\ OutcomeOK(outcome) /\ RestOK BY DEF ExecutionInv
<1>1. UNCHANGED <<request, agent, ending, posts>>
  BY DEF Scheduling, Claim, Unstart, Start, Refuse, Detach, Release, Settle, Heal, Resume,
         author
<1>2. SUFFICES RowKeeps(record') BY <1>1, RowStep
<1>3. RowKeeps(record) BY DEF RowKeeps
<1>4. CASE Claim \/ Unstart \/ Start \/ Refuse \/ Release \/ Resume
  BY <1>3, <1>4 DEF Claim, Unstart, Start, Refuse, Release, Resume
<1>5. CASE Detach
  BY <1>0, <1>3, <1>5, HeldIsProven, ChargedConcludes DEF Detach, Unresolved
<1>6. CASE Heal
  <2>1. ~Terminal /\ record' = Written(TerminalOf(FailureWhenTheBudgetEnds(record.recovery.evidence)))
    BY <1>6 DEF Heal, Terminal, IsTerminal
  <2> QED BY <1>0, <2>1, LossConcludes DEF FailureWhenTheBudgetEnds, ProvenHeld
<1>7. CASE Settle
  <2> DEFINE folded == Fold(record, OutcomeFact(outcome))
  <2>1. phase = "settling" /\ (record' = record \/ (folded # Refused /\ record' = folded))
    BY <1>7 DEF Settle
  <2>2. SUFFICES ASSUME folded # Refused PROVE RowKeeps(folded) BY <1>3, <2>1
  <2>3. CASE outcome.kind = "success"
    <3>1. folded = FoldLifecycle(record, "succeeded")
      BY <2>3 DEF OutcomeFact, Fold, LifecycleFact
    <3>2. folded = record BY <2>3, <3>1 DEF ExecutionInv, OutcomeStands, FoldLifecycle
    <3> QED BY <1>3, <3>2
  <2>4. CASE outcome.kind = "recovery"
    <3>1. folded = FoldRecovery(record, outcome.recovery) /\ folded = Written(RecoveryOf(outcome.recovery))
      BY <2>2, <2>4 DEF OutcomeFact, Fold, RecoveryOf, Written
    <3>2. ~Terminal /\ Admits(outcome.recovery.category, outcome.recovery.evidence)
      BY <2>2, <3>1 DEF FoldRecovery, Terminal
    <3>3. (outcome.recovery.evidence = ProvenSuccess) <=> ProvenHeld
      BY <2>1, <2>4, <3>2 DEF PromiseInv
    <3>4. outcome.recovery \in RecoveryFact BY <1>0, <2>4 DEF OutcomeOK
    <3> HIDE DEF folded
    <3> QED BY <1>0, <3>1, <3>2, <3>3, <3>4, RecoveryConcludes
  <2>5. CASE outcome.kind = "terminal"
    <3> DEFINE f == outcome.failure
    <3>1. folded = FoldTerminal(record, f) /\ folded = Written(TerminalOf(f))
      BY <2>2, <2>5 DEF OutcomeFact, Fold, TerminalOf, Written
    <3>2. CASE record.failure = f
      <4>1. folded = record BY <2>2, <3>1, <3>2 DEF FoldTerminal
      <4> QED BY <1>3, <4>1
    <3>3. CASE record.failure # f
      <4>1. ~Terminal /\ TerminalPairingIsLegal(f.kind, f.disposition)
        BY <2>2, <3>1, <3>3 DEF FoldTerminal, Terminal
      <4>2. f \in TerminalFailure BY <1>0, <2>5 DEF OutcomeOK
      <4>3. ~ProvenHeld /\ f.disposition.effect \in {"non_execution", "indeterminate"}
        BY <2>1, <2>5, <3>3 DEF PromiseInv
      <4> HIDE DEF f
      <4>4. folded.lifecycle = "failed" /\ folded.failure = f
        BY <1>0, <3>1, <4>1, <4>2, TerminalWritten
      <4> HIDE DEF folded
      <4>5. VerdictOf = "pending"
        BY <4>1, <4>3, VerdictOfRow, VerdictCases DEF Terminal, ProvenHeld
      <4>6. CASE f.disposition.effect = "indeterminate"
        <5>1. VerdictIn(folded) = "unknown" BY <4>4, <4>6, VerdictCases
        <5> QED BY <4>5, <5>1 DEF RowKeeps, Promise!Justified
      <4>7. CASE f.disposition.effect = "non_execution"
        <5>1. VerdictIn(folded) = "not_executed" BY <4>4, <4>7, VerdictCases
        <5>2. (agent = "none" /\ ~request) \/ ending = "no_effect"
          BY <4>7 DEF TruthInv, Justified, f
        <5>3. CASE agent = "none" /\ ~request
          <6>1. RanOf = IF posts > 0 THEN "never" ELSE "no"
            BY <5>3 DEF RanOf, WireInv, SuccessfulEnding
          <6>2. Promise!WillNotRun BY <6>1 DEF Promise!WillNotRun
          <6> QED BY <4>5, <5>1, <6>2 DEF RowKeeps, Promise!Justified
        <5>4. CASE ending = "no_effect"
          <6>1. RanOf = "no_effect" BY <5>4 DEF RanOf, WireInv, SuccessfulEnding
          <6>2. Promise!WillNotRun BY <6>1 DEF Promise!WillNotRun
          <6> QED BY <4>5, <5>1, <6>2 DEF RowKeeps, Promise!Justified
        <5> QED BY <5>2, <5>3, <5>4
      <4> QED BY <4>3, <4>6, <4>7
    <3> QED BY <3>2, <3>3
  <2>6. outcome.kind # "none" BY <2>1 DEF ExecutionInv, OutcomeStands
  <2> QED BY <1>0, <2>3, <2>4, <2>5, <2>6 DEF OutcomeOK, OutcomeType
<1> QED BY <1>4, <1>5, <1>6, <1>7 DEF Scheduling

\* A lookup concludes only what the author's job shows.
LEMMA LookupKeepsPromise ==
  ASSUME ExecutionInv, WireInv, PromiseInv, LookupFails \/ LookupMissing \/ TruthfulLookup
  PROVE  PromiseStep
<1>0. RowOK(record) /\ ~Terminal
  BY DEF ExecutionInv, LookupFails, LookupMissing, TruthfulLookup, LookupRetired, LookupActive,
         LookupFailedJob, LookupSucceeded, Looking, RowHolds
<1>1. UNCHANGED <<request, agent, ending, posts>>
  BY DEF LookupFails, LookupMissing, TruthfulLookup, LookupRetired, LookupActive,
         LookupFailedJob, LookupSucceeded, Observed, author
<1>2. SUFFICES RowKeeps(record') BY <1>1, RowStep
<1>3. RowKeeps(record) BY DEF RowKeeps
<1>4. VerdictOf = IF ProvenHeld THEN "proven" ELSE "pending"
  BY <1>0, VerdictOfRow, VerdictCases DEF Terminal, ProvenHeld
<1>5. CASE LookupFails
  BY <1>0, <1>5, HeldIsProven, ChargedConcludes DEF LookupFails, Unresolved
<1>6. CASE LookupMissing
  BY <1>0, <1>3, <1>6, HeldIsProven, ChargedConcludes DEF LookupMissing, Unresolved
<1>7. CASE LookupRetired BY <1>0, <1>7, LossConcludes DEF LookupRetired
<1>8. CASE LookupActive BY <1>3, <1>8 DEF LookupActive, durable
<1>9. CASE LookupFailedJob
  <2>1. agent = "ended" /\ ending \in FailedEnding BY <1>9 DEF LookupFailedJob
  <2>2. RanOf = IF ending = "no_effect" THEN "no_effect" ELSE "failed"
    BY <2>1 DEF RanOf, FailedEnding, SuccessfulEnding
  <2>3. CASE ProvenHeld /\ record' = Charged(ProvenSuccess)
    BY <1>0, <2>3, ChargedConcludes DEF Evidence
  <2>4. CASE ~ProvenHeld /\ ending = "no_effect" /\ record' = Written(TerminalOf(Rejected))
    <3>1. record'.lifecycle = "failed" /\ record'.failure = Rejected
      BY <1>0, <2>4, TerminalWritten, FailuresAreLegal
    <3>2. VerdictIn(record') = "not_executed" BY <3>1, VerdictCases, FailureEffects
    <3> QED BY <1>4, <2>2, <2>4, <3>2 DEF RowKeeps, Promise!Justified, Promise!WillNotRun
  <2>5. CASE /\ ~ProvenHeld /\ ending = "partial"
             /\ record' = Written(TerminalOf(Failure("remote_failed", RemoteFailure)))
    <3>1. record'.lifecycle = "failed" /\ record'.failure = Failure("remote_failed", RemoteFailure)
      BY <1>0, <2>5, TerminalWritten, FailuresAreLegal
    <3>2. VerdictIn(record') = "failed" BY <3>1, VerdictCases, FailureEffects
    <3> QED BY <1>4, <2>2, <2>5, <3>2 DEF RowKeeps, Promise!Justified
  <2>6. CASE ~ProvenHeld /\ record' = Charged("remote_outcome_unknown")
    BY <1>0, <2>6, ChargedConcludes DEF Evidence, Certainty, ProvenSuccess
  <2> QED BY <1>9, <2>3, <2>4, <2>5, <2>6 DEF LookupFailedJob
<1>10. CASE LookupSucceeded
  <2> DEFINE r == Recovery("result_acquisition", ProvenSuccess, 0, FALSE, Instant)
  <2>1. /\ agent = "ended" /\ ending \in SuccessfulEnding
        /\ record' = IF ProvenHeld THEN record ELSE Written(RecoveryOf(r))
    BY <1>10 DEF LookupSucceeded
  <2>2. RanOf = "done" BY <2>1 DEF RanOf, SuccessfulEnding
  <2>3. r \in RecoveryFact /\ r.evidence = ProvenSuccess /\ Admits(r.category, r.evidence)
    BY <1>0, ProvenRecovery
  <2> HIDE DEF r
  <2>4. VerdictIn(Written(RecoveryOf(r))) = "proven" BY <1>0, <2>3, RecoveryWritten
  <2> QED BY <1>3, <1>4, <2>1, <2>2, <2>4 DEF RowKeeps, Promise!Justified
<1> QED BY <1>5, <1>6, <1>7, <1>8, <1>9, <1>10 DEF TruthfulLookup

\* Result acquisition starts from proven success and ends in it or in its loss.
LEMMA AcquisitionKeepsPromise ==
  ASSUME ExecutionInv, PromiseInv, Acquisition
  PROVE  PromiseStep
<1>0. RowOK(record) BY DEF ExecutionInv
<1>1. UNCHANGED <<request, agent, ending, posts>>
  BY DEF Acquisition, ResultRefused, ResultAbsent, Acquire, CapacityPause, Publish,
         ArtifactUnavailable, author
<1>2. SUFFICES RowKeeps(record') BY <1>1, RowStep
<1>3. ProvenHeld /\ ~Terminal
  <2>1. phase \in {"proven", "acquiring"}
    BY DEF Acquisition, ResultRefused, ResultAbsent, Acquire, CapacityPause, Publish,
           ArtifactUnavailable
  <2>2. ProvenHeld BY <2>1 DEF PromiseInv
  <2> QED BY <1>0, <2>2, EndedHoldsNothing DEF ProvenHeld, Terminal
<1>4. CASE ResultRefused \/ Acquire BY <1>4 DEF ResultRefused, Acquire, durable, RowKeeps
<1>5. CASE ResultAbsent
  BY <1>0, <1>3, <1>5, HeldIsProven, ChargedConcludes DEF ResultAbsent, Unresolved
<1>6. CASE CapacityPause
  <2> DEFINE r == Recovery("persistent_capacity_unavailable", ProvenSuccess, 0, TRUE, Instant)
  <2>1. r \in RecoveryFact /\ r.evidence = ProvenSuccess /\ Admits(r.category, r.evidence)
    BY <1>0, ProvenRecovery
  <2>2. record' = Written(RecoveryOf(r)) BY <1>6 DEF CapacityPause
  <2> HIDE DEF r
  <2> QED BY <1>0, <1>3, <2>1, <2>2, RecoveryConcludes
<1>7. CASE Publish
  <2> DEFINE new == [record EXCEPT !.lifecycle = "succeeded", !.revision = @ + 1]
             won == [new EXCEPT !.recovery = NoRecovery]
  <2>1. Fold(record, LifecycleFact("succeeded")) = new
    BY <1>3 DEF Fold, LifecycleFact, FoldLifecycle, MayBecome, IsTerminal, Terminal
  <2>2. record' = won BY <1>7, <2>1 DEF Publish, SucceededRecord
  <2>3. won.lifecycle = "succeeded" BY <1>0 DEF RowOK, Record
  <2>4. VerdictIn(record') = "succeeded" BY <2>2, <2>3, VerdictCases
  <2>5. VerdictOf = "proven" BY <1>3, VerdictOfRow, VerdictCases DEF Terminal, ProvenHeld
  <2> QED BY <2>4, <2>5 DEF RowKeeps, Promise!Justified
<1>8. ASSUME NEW over \in BOOLEAN, ArtifactUnavailable(over) PROVE RowKeeps(record')
  <2> DEFINE r == Recovery("result_acquisition", ProvenSuccess, NextAttempt, FALSE, Instant)
  <2>1. r \in RecoveryFact /\ r.evidence = ProvenSuccess /\ Admits(r.category, r.evidence)
    BY <1>0, RowParts, ProvenRecovery
  <2>2. record' = Written(TerminalOf(ResultUnavailable)) \/ record' = Written(RecoveryOf(r))
    BY <1>8 DEF ArtifactUnavailable
  <2> HIDE DEF r
  <2> QED BY <1>0, <1>3, <2>1, <2>2, RecoveryConcludes, LossConcludes
<1> QED BY <1>4, <1>5, <1>6, <1>7, <1>8 DEF Acquisition

\* The one send is the promise's, and the rest of a submission is nothing to it.
LEMMA SubmissionKeepsPromise ==
  ASSUME ExecutionInv, SentOnceInv, WireInv, PromiseInv, Submission
  PROVE  PromiseStep
<1>1. CASE Send
  <2>1. /\ record' = record /\ agent' = agent /\ ending' = ending /\ request' = TRUE
        /\ posts' = posts + 1 /\ phase = "checking" /\ ~Terminal
    BY <1>1 DEF Send, durable, RowHolds
  <2>2. posts = 0 /\ agent = "none" /\ ending = "none" /\ ~ProvenHeld
    BY <2>1 DEF SentOnceInv, WireInv, PromiseInv
  <2>3. ~(posts > 0) /\ (posts > 0)' BY <2>1, <2>2
  <2>4. RanOf = "no" BY <2>2, <2>3 DEF RanOf, SuccessfulEnding
  <2>5. RanOf' = "no" BY <2>1, <2>2 DEF RanOf, SuccessfulEnding
  <2>6. VerdictOf = "pending" /\ VerdictOf' = VerdictOf
    BY <2>1, <2>2, VerdictOfRow, VerdictCases DEF Terminal, ProvenHeld
  <2>7. Promise!Send BY <2>3, <2>4, <2>5, <2>6 DEF Promise!Send
  <2> QED BY <2>7 DEF PromiseStep, Promise!Next
<1>2. CASE ~Send
  <2>1. UNCHANGED <<record, request, agent, ending, posts>>
    BY <1>2 DEF Submission, CheckRefused, InsertChild, InsertFails, SendNothing, Deadline,
                Unusable,
                Handoff, Acknowledge, author, durable
  <2> QED BY <2>1, RowStep DEF RowKeeps
<1> QED BY <1>1, <1>2

\* The network and the author do what the promise says they may.
LEMMA AuthorKeepsPromise ==
  ASSUME RestOK, WireInv, Author
  PROVE  PromiseStep
<1>1. VerdictOf' = VerdictOf /\ (posts > 0)' = (posts > 0)
  BY VerdictOfRow DEF Author, Deliver, Lose, Finish, Retire, durable
<1>2. ASSUME request, request' = FALSE, ending' = ending, posts' = posts, agent' \in {"none", "active"}
      PROVE  Promise!Arrive
  <2>1. agent = "none" /\ ending = "none" /\ posts > 0 BY <1>2 DEF WireInv, RestOK
  <2>2. RanOf = "no" BY <1>2, <2>1 DEF RanOf, SuccessfulEnding
  <2>3. RanOf' \in {"running", "never"} BY <1>2, <2>1 DEF RanOf, SuccessfulEnding
  <2> QED BY <1>1, <2>1, <2>2, <2>3 DEF Promise!Arrive
<1>3. ASSUME NEW reply \in Answer \ {"unknown"}, NEW accepted \in BOOLEAN, Deliver(reply, accepted)
      PROVE  Promise!Arrive
  BY <1>2, <1>3 DEF Deliver, WireInv
<1>4. ASSUME Lose PROVE Promise!Arrive BY <1>2, <1>4 DEF Lose, WireInv
<1>5. ASSUME NEW how \in SuccessfulEnding \cup FailedEnding, Finish(how) PROVE Promise!Finish
  <2>1. agent = "active" /\ agent' = "ended" /\ ending' = how /\ ending = "none"
    BY <1>5 DEF Finish, WireInv
  <2>2. RanOf = "running" BY <2>1 DEF RanOf, SuccessfulEnding
  <2>3. RanOf' \in {"done", "failed", "no_effect"}
    BY <2>1 DEF RanOf, SuccessfulEnding, FailedEnding
  <2> QED BY <1>1, <2>2, <2>3 DEF Promise!Finish
<1>6. CASE Retire
  <2>1. /\ agent = "ended" /\ agent' = "retired"
        /\ ending' = ending /\ request' = request /\ posts' = posts
    BY <1>6 DEF Retire
  <2>2. RanOf' = RanOf BY <2>1 DEF RanOf
  <2> QED BY <1>1, <2>2 DEF PromiseStep, Promise!vars
<1> QED BY <1>3, <1>4, <1>5, <1>6 DEF Author, PromiseStep, Promise!Next

KeepInv == ExecutionInv /\ SentOnceInv /\ WireInv /\ TruthInv /\ PromiseInv

\* Every step of the execution is a step of the promise, or none.
LEMMA EveryStepKeepsPromise ==
  ASSUME KeepInv, [Next]_vars
  PROVE  PromiseStep
<1> USE DEF KeepInv
<1>1. CASE Crash \/ Restart \/ UNCHANGED vars
  <2>1. UNCHANGED <<record, request, agent, ending, posts>>
    BY <1>1 DEF Crash, Restart, vars, durable, author
  <2> QED BY <2>1, RowStep DEF RowKeeps
<1>2. RestOK BY DEF ExecutionInv
<1> QED BY <1>1, <1>2, SchedulingKeepsPromise, SubmissionKeepsPromise, LookupKeepsPromise,
           AcquisitionKeepsPromise, AuthorKeepsPromise DEF Next, Task

\* The invariant the refinement rests on.
LEMMA KeepInvariant == Spec => []KeepInv
<1>1. Init => KeepInv
  <2> SUFFICES ASSUME Init PROVE KeepInv OBVIOUS
  <2>1. SentOnceInv BY DEF Init, SentOnceInv
  <2>2. WireInv BY DEF Init, WireInv
  <2>3. record.failure = NoFailure /\ outcome.failure = NoFailure /\ record.recovery = NoRecovery
    BY DEF Init, Admitted, NoOutcome, Outcome
  <2>4. TruthInv BY <2>3, OtherEffects DEF TruthInv, Justified
  <2>5. PromiseInv BY <2>3 DEF Init, PromiseInv, ProvenHeld, NoRecovery, ProvenSuccess, Awaiting
  <2> QED BY <2>1, <2>2, <2>4, <2>5, ExecutionInit DEF KeepInv
<1>2. KeepInv /\ [Next]_vars => KeepInv'
  BY ExecutionStep, SentOnceStep, WireStep, TruthStep, PromiseInvStep DEF KeepInv
<1> QED BY <1>1, <1>2, PTL DEF Spec

\* The execution implements OperationPromise, for every retry budget and every
\* number of crashes: each crash, timeout, retry, late answer and settlement is
\* a step the promise allows or changes nothing it speaks of.
THEOREM ExecutionKeepsPromise == Spec => KeepsPromise
<1>1. Init => Promise!Init
  <2> SUFFICES ASSUME Init PROVE Promise!Init OBVIOUS
  <2>1. ~(posts > 0) BY DEF Init
  <2>2. RanOf = "no" BY DEF Init, RanOf, SuccessfulEnding
  <2>3. VerdictOf = "pending"
    BY VerdictOfRow, VerdictCases
       DEF Init, Admitted, IsTerminal, NoRecovery, ProvenSuccess
  <2> QED BY <2>1, <2>2, <2>3 DEF Promise!Init
<1>2. KeepInv /\ [Next]_vars => [Promise!Next]_(Promise!vars)
  BY EveryStepKeepsPromise DEF PromiseStep
<1> QED BY <1>1, <1>2, KeepInvariant, PTL DEF Spec, KeepsPromise, Promise!Spec

\* Proven success is a verdict of its own.
LEMMA ProvenVerdict ==
  ASSUME NEW rec, RowOK(rec)
  PROVE  Proven(rec) <=> VerdictIn(rec) \in {"proven", "succeeded", "unavailable"}
<1>1. CASE rec.lifecycle = "succeeded" BY <1>1, VerdictCases DEF Proven
<1>2. CASE ~IsTerminal(rec.lifecycle)
  <2>1. rec.failure = NoFailure BY <1>2 DEF RowOK, WellFormed, IsTerminal
  <2>2. rec.failure.disposition # RemoteSuccess BY <2>1 DEF NoFailure, RemoteSuccess
  <2> QED BY <1>2, <2>2, VerdictCases DEF Proven, IsTerminal
<1>3. CASE rec.lifecycle = "failed"
  <2>1. rec.failure \in TerminalFailure BY <1>3 DEF RowOK, WellFormed, Record
  <2>2. rec.failure.disposition = RemoteSuccess <=>
          rec.failure.disposition.effect = "remote_success"
    BY <2>1 DEF TerminalFailure, Disposition, NonExecution, FailClosed, RemoteFailure,
                RemoteSuccess
  <2>3. rec.recovery.evidence # ProvenSuccess BY <1>3, EndedHoldsNothing DEF IsTerminal
  <2> QED BY <1>3, <2>2, <2>3, VerdictCases DEF Proven
<1> QED BY <1>1, <1>2, <1>3 DEF IsTerminal

\* Proven remote success is never taken back, only lost: the promise has no step
\* that does (record_snapshot_success, failure_when_the_budget_ends).
THEOREM ExecutionSuccessIsNeverRetracted == Spec => SuccessIsNeverRetracted
<1>1. ASSUME KeepInv, KeepInv', [Next]_vars, Proven(record) PROVE Proven(record')
  <2>1. RowOK(record) /\ RowOK(record') BY <1>1 DEF KeepInv, ExecutionInv
  <2>2. VerdictOf \in {"proven", "succeeded", "unavailable"}
    BY <1>1, <2>1, ProvenVerdict, VerdictOfRow
  <2>3. PromiseStep BY <1>1, EveryStepKeepsPromise
  <2>4. VerdictOf' \in {"proven", "succeeded", "unavailable"}
    BY <2>2, <2>3 DEF PromiseStep, Promise!Next, Promise!vars, Promise!Send, Promise!Arrive,
                      Promise!Finish, Promise!Conclude, Promise!Justified
  <2> QED BY <2>1, <2>4, ProvenVerdict, VerdictOfRow
<1>2. KeepInv /\ KeepInv' /\ [Next]_vars => [Proven(record) => Proven(record')]_record
  BY <1>1
<1> QED BY <1>2, KeepInvariant, PTL DEF Spec, SuccessIsNeverRetracted

-----------------------------------------------------------------------------
\* Row, child and claim.

\* The repository's writes never make a row succeed.
LEMMA WrittenLifecycle ==
  ASSUME RowOK(record)
  PROVE  /\ \A r \in RecoveryFact : Written(RecoveryOf(r)).lifecycle = record.lifecycle
         /\ \A f \in TerminalFailure : Written(TerminalOf(f)).lifecycle \in {record.lifecycle, "failed"}
         /\ \A e \in Evidence : Charged(e).lifecycle \in {record.lifecycle, "failed"}
<1>1. ASSUME NEW r \in RecoveryFact PROVE Written(RecoveryOf(r)).lifecycle = record.lifecycle
  <2>1. Fold(record, RecoveryOf(r)) = FoldRecovery(record, r) BY DEF Fold, RecoveryOf
  <2>2. FoldRecovery(record, r) # Refused => FoldRecovery(record, r).lifecycle = record.lifecycle
    BY DEF FoldRecovery, RowOK, Record
  <2> QED BY <2>1, <2>2 DEF Written
<1>2. ASSUME NEW f \in TerminalFailure
      PROVE  Written(TerminalOf(f)).lifecycle \in {record.lifecycle, "failed"}
  <2>1. Fold(record, TerminalOf(f)) = FoldTerminal(record, f) BY DEF Fold, TerminalOf
  <2>2. FoldTerminal(record, f) # Refused =>
          FoldTerminal(record, f).lifecycle \in {record.lifecycle, "failed"}
    BY DEF FoldTerminal, RowOK, Record
  <2> QED BY <2>1, <2>2 DEF Written
<1>3. ASSUME NEW e \in Evidence PROVE Charged(e).lifecycle \in {record.lifecycle, "failed"}
  <2> DEFINE r == Recovery(LookupCategory(e), e, NextAttempt, FALSE, Instant)
             f == FailureWhenTheBudgetEnds(e)
  <2>1. r \in RecoveryFact
    <3>1. LookupCategory(e) \in Category BY DEF LookupCategory, Category, ProvenCategory
    <3> QED BY <3>1, RowParts DEF Recovery, RecoveryFact
  <2>2. f \in TerminalFailure BY FailuresAreTyped DEF FailureWhenTheBudgetEnds
  <2>3. Charged(e) \in {record, Written(TerminalOf(f)), Written(RecoveryOf(r))} BY DEF Charged
  <2> HIDE DEF r, f
  <2> QED BY <1>1, <1>2, <2>1, <2>2, <2>3
<1> QED BY <1>1, <1>2, <1>3

\* What a step other than a publication may do to the row: leave it, or move one
\* that has not ended, to anything but success.
LEMMA RowMoves ==
  ASSUME ExecutionInv, [Next]_vars, ~Publish
  PROVE  record' = record \/ (~Terminal /\ record'.lifecycle # "succeeded")
<1>0. RowOK(record) /\ OutcomeOK(outcome) BY DEF ExecutionInv
<1>1. ~Terminal => record.lifecycle # "succeeded" BY DEF Terminal, IsTerminal
<1>2. "remote_outcome_unknown" \in Evidence /\ "submission_unknown" \in Evidence
      /\ ProvenSuccess \in Evidence
  BY DEF Evidence, Certainty
<1>3. ASSUME ~Terminal, NEW e \in Evidence, record' = Charged(e)
      PROVE  record'.lifecycle # "succeeded"
  BY <1>0, <1>1, <1>3, WrittenLifecycle
<1>4. CASE Detach
  <2>1. HeldEvidence("remote_outcome_unknown") \in Evidence BY <1>0, <1>2, RowParts
  <2> QED BY <1>3, <1>4, <2>1 DEF Detach
<1>5. CASE Settle
  <2> DEFINE folded == Fold(record, OutcomeFact(outcome))
  <2>1. record' = record \/ (folded # Refused /\ record' = folded) BY <1>5 DEF Settle
  <2>2. SUFFICES ASSUME folded # Refused, folded # record
                 PROVE  ~Terminal /\ folded.lifecycle # "succeeded"
    BY <2>1
  <2>3. CASE outcome.kind = "terminal"
    <3>1. folded = FoldTerminal(record, outcome.failure)
      BY <2>3 DEF OutcomeFact, Fold, TerminalOf
    <3>2. ~Terminal BY <2>2, <3>1 DEF FoldTerminal, Terminal
    <3>3. folded.lifecycle = "failed" BY <1>0, <2>2, <3>1 DEF FoldTerminal, RowOK, Record
    <3> QED BY <3>2, <3>3
  <2>4. CASE outcome.kind = "recovery"
    <3>1. folded = FoldRecovery(record, outcome.recovery)
      BY <2>4 DEF OutcomeFact, Fold, RecoveryOf
    <3>2. ~Terminal BY <2>2, <3>1 DEF FoldRecovery, Terminal
    <3>3. folded.lifecycle = record.lifecycle
      BY <1>0, <2>2, <3>1 DEF FoldRecovery, RowOK, Record
    <3> QED BY <1>1, <3>2, <3>3
  <2>5. CASE outcome.kind = "success"
    <3>1. folded = FoldLifecycle(record, "succeeded")
      BY <2>5 DEF OutcomeFact, Fold, LifecycleFact
    <3>2. folded = record BY <2>5, <3>1 DEF ExecutionInv, OutcomeStands, FoldLifecycle
    <3> QED BY <2>2, <3>2
  <2>6. outcome.kind # "none" BY <1>5 DEF Settle, ExecutionInv, OutcomeStands
  <2> QED BY <1>0, <2>3, <2>4, <2>5, <2>6 DEF OutcomeOK, OutcomeType
<1>6. CASE Heal
  <2>1. ~Terminal /\ record' = Written(TerminalOf(FailureWhenTheBudgetEnds(record.recovery.evidence)))
    BY <1>6 DEF Heal, Terminal, IsTerminal
  <2>2. FailureWhenTheBudgetEnds(record.recovery.evidence) \in TerminalFailure
    BY FailuresAreTyped DEF FailureWhenTheBudgetEnds
  <2> QED BY <1>0, <1>1, <2>1, <2>2, WrittenLifecycle
<1>7. CASE LookupFails \/ LookupMissing \/ LookupFailedJob
  <2>1. ~Terminal BY <1>7 DEF LookupFails, LookupMissing, LookupFailedJob, Looking, RowHolds
  <2>2. \/ record' = record
        \/ \E e \in Evidence : record' = Charged(e)
        \/ \E f \in TerminalFailure : record' = Written(TerminalOf(f))
    <3>1. \A e \in {"remote_outcome_unknown", "submission_unknown"} : HeldEvidence(e) \in Evidence
      BY <1>0, <1>2, RowParts
    <3> QED BY <1>2, <1>7, <3>1, FailuresAreTyped DEF LookupFails, LookupMissing,
                                                      LookupFailedJob
  <2> QED BY <1>0, <1>1, <1>3, <2>1, <2>2, WrittenLifecycle
<1>8. CASE LookupRetired
  <2>1. ~Terminal /\ \E f \in TerminalFailure : record' = Written(TerminalOf(f))
    BY <1>8, FailuresAreTyped DEF LookupRetired, Looking, RowHolds
  <2> QED BY <1>0, <1>1, <2>1, WrittenLifecycle
<1>9. CASE LookupSucceeded \/ CapacityPause
  <2>1. ~Terminal /\ (record' = record \/ \E r \in RecoveryFact : record' = Written(RecoveryOf(r)))
    BY <1>0, <1>9, ProvenRecovery DEF LookupSucceeded, CapacityPause, Looking, RowHolds
  <2> QED BY <1>0, <1>1, <2>1, WrittenLifecycle
<1>10. CASE ResultAbsent
  <2>1. HeldEvidence("remote_outcome_unknown") \in Evidence BY <1>0, <1>2, RowParts
  <2> QED BY <1>3, <1>10, <2>1 DEF ResultAbsent, RowHolds
<1>11. ASSUME NEW over \in BOOLEAN, ArtifactUnavailable(over)
       PROVE  ~Terminal /\ record'.lifecycle # "succeeded"
  <2> DEFINE r == Recovery("result_acquisition", ProvenSuccess, NextAttempt, FALSE, Instant)
  <2>1. r \in RecoveryFact BY <1>0, RowParts, ProvenRecovery
  <2>2. /\ ~Terminal
        /\ record' = Written(TerminalOf(ResultUnavailable)) \/ record' = Written(RecoveryOf(r))
    BY <1>11 DEF ArtifactUnavailable, RowHolds
  <2> HIDE DEF r
  <2> QED BY <1>0, <1>1, <2>1, <2>2, WrittenLifecycle, FailuresAreTyped
<1>12. CASE \/ Claim \/ Unstart \/ Start \/ Refuse \/ Release \/ Resume \/ Submission
            \/ LookupActive \/ ResultRefused \/ Acquire
            \/ Author \/ Crash \/ Restart \/ UNCHANGED vars
  BY <1>12 DEF Claim, Unstart, Start, Refuse, Release, Resume, Submission, CheckRefused,
               InsertChild,
               InsertFails, Send, SendNothing, Deadline, Unusable, Handoff, Acknowledge, LookupActive,
               ResultRefused, Acquire, Author, Deliver, Lose, Finish, Retire, Crash, Restart, vars, durable
<1> QED BY <1>4, <1>5, <1>6, <1>7, <1>8, <1>9, <1>10, <1>11, <1>12
           DEF Next, Scheduling, Task, TruthfulLookup, Acquisition

\* What a publication leaves in the row.
LEMMA PublishedRow ==
  ASSUME RowOK(record), Publish
  PROVE  record'.lifecycle = "succeeded" /\ record'.failure = NoFailure
<1> DEFINE new == [record EXCEPT !.lifecycle = "succeeded", !.revision = @ + 1]
           won == [new EXCEPT !.recovery = NoRecovery]
<1>1. ~Terminal /\ record' = SucceededRecord BY DEF Publish, RowHolds
<1>2. Fold(record, LifecycleFact("succeeded")) = new
  BY <1>1 DEF Fold, LifecycleFact, FoldLifecycle, MayBecome, IsTerminal, Terminal
<1>3. won.lifecycle = "succeeded" /\ won.failure = record.failure BY DEF RowOK, Record
<1>4. record.failure = NoFailure BY <1>1 DEF RowOK, WellFormed, Terminal, IsTerminal
<1> QED BY <1>1, <1>2, <1>3, <1>4 DEF SucceededRecord

\* A charged attempt never reports a failure of the author's job.
LEMMA ChargedReports ==
  ASSUME RowOK(record), NEW e \in Evidence
  PROVE  Charged(e).failure \in {record.failure, ResultUnavailable, Exhausted}
<1>1. record \in Record BY DEF RowOK
<1> DEFINE r == Recovery(LookupCategory(e), e, NextAttempt, FALSE, Instant)
           f == FailureWhenTheBudgetEnds(e)
<1>2. r \in RecoveryFact
  <2>1. LookupCategory(e) \in Category BY DEF LookupCategory, Category, ProvenCategory
  <2> QED BY <2>1, RowParts DEF Recovery, RecoveryFact
<1>3. f \in {ResultUnavailable, Exhausted} BY DEF FailureWhenTheBudgetEnds
<1>4. Charged(e) \in {record, Written(TerminalOf(f)), Written(RecoveryOf(r))} BY DEF Charged
<1> HIDE DEF r, f
<1> QED BY <1>1, <1>2, <1>3, <1>4, WrittenFailure, FailuresAreTyped

\* Only the lookup of a job that failed writes a remote failure into a row, and
\* it closes the child with it.
LEMMA RemoteFailureMoves ==
  ASSUME KeepInv, [Next]_vars, ~LookupFailedJob,
         record'.failure.disposition = RemoteFailure
  PROVE  record.failure.disposition = RemoteFailure
<1> DEFINE Window == Failure("recovery_window_expired", FailClosed("remote_outcome_unknown"))
<1>0. RowOK(record) /\ record \in Record /\ OutcomeOK(outcome) BY DEF KeepInv, ExecutionInv, RowOK
<1>1. \A f \in {NoFailure, ResultUnavailable, Exhausted, Window} : f.disposition # RemoteFailure
  BY DEF NoFailure, ResultUnavailable, Exhausted, Failure, FailClosed, RemoteFailure,
         RemoteSuccess
<1>2. SUFFICES record'.failure \in {record.failure, NoFailure, ResultUnavailable, Exhausted, Window}
  <2> HIDE DEF Window
  <2> QED BY <1>1
<1>3. Window \in TerminalFailure BY FailuresAreTyped
<1> HIDE DEF Window
<1>4. /\ "remote_outcome_unknown" \in Evidence /\ "submission_unknown" \in Evidence
      /\ \A e \in {"remote_outcome_unknown", "submission_unknown"} : HeldEvidence(e) \in Evidence
  BY <1>0, RowParts DEF Evidence, Certainty
<1>5. CASE Detach \/ LookupFails \/ LookupMissing \/ ResultAbsent
  BY <1>0, <1>4, <1>5, ChargedReports DEF Detach, LookupFails, LookupMissing, ResultAbsent
<1>6. CASE Settle
  <2> DEFINE folded == Fold(record, OutcomeFact(outcome))
  <2>1. record' = record \/ (folded # Refused /\ record' = folded) BY <1>6 DEF Settle
  <2>2. SUFFICES ASSUME folded # Refused, record' = folded
                 PROVE  folded.failure = record.failure
    BY <2>1
  <2>3. CASE outcome.kind = "terminal"
    <3>1. folded = Written(TerminalOf(outcome.failure))
      BY <2>2, <2>3 DEF OutcomeFact, Written
    <3>2. folded.failure \in {record.failure, outcome.failure}
      BY <1>0, <2>3, <3>1, WrittenFailure DEF OutcomeOK
    <3>3. outcome.failure # record.failure =>
            outcome.failure.disposition.effect \in {"non_execution", "indeterminate"}
      BY <1>6, <2>3 DEF KeepInv, PromiseInv, Settle
    <3>4. outcome.failure # record.failure => outcome.failure.disposition # RemoteFailure
      BY <3>3 DEF RemoteFailure
    <3> HIDE DEF folded
    <3> QED BY <2>2, <3>2, <3>4
  <2>4. CASE outcome.kind = "recovery"
    <3>1. folded = Written(RecoveryOf(outcome.recovery))
      BY <2>2, <2>4 DEF OutcomeFact, Written
    <3> QED BY <1>0, <2>4, <3>1, WrittenFailure DEF OutcomeOK
  <2>5. CASE outcome.kind = "success"
    <3>1. folded = FoldLifecycle(record, "succeeded")
      BY <2>5 DEF OutcomeFact, Fold, LifecycleFact
    <3>2. folded = record
      BY <2>5, <3>1 DEF KeepInv, ExecutionInv, OutcomeStands, FoldLifecycle
    <3> QED BY <3>2
  <2>6. outcome.kind # "none" BY <1>6 DEF Settle, KeepInv, ExecutionInv, OutcomeStands
  <2> QED BY <1>0, <2>3, <2>4, <2>5, <2>6 DEF OutcomeOK, OutcomeType
<1>7. CASE Heal
  BY <1>0, <1>7, WrittenFailure, FailuresAreTyped DEF Heal, FailureWhenTheBudgetEnds
<1>8. CASE LookupRetired
  <2>1. record' = Written(TerminalOf(ResultUnavailable)) \/ record' = Written(TerminalOf(Window))
    BY <1>8 DEF LookupRetired, Window
  <2> QED BY <1>0, <1>3, <2>1, WrittenFailure, FailuresAreTyped
<1>9. CASE LookupSucceeded \/ CapacityPause
  <2>1. record' = record \/ \E r \in RecoveryFact : record' = Written(RecoveryOf(r))
    BY <1>0, <1>9, ProvenRecovery DEF LookupSucceeded, CapacityPause
  <2> QED BY <1>0, <2>1, WrittenFailure
<1>10. ASSUME NEW over \in BOOLEAN, ArtifactUnavailable(over)
       PROVE  record'.failure \in {record.failure, ResultUnavailable}
  <2> DEFINE r == Recovery("result_acquisition", ProvenSuccess, NextAttempt, FALSE, Instant)
  <2>1. r \in RecoveryFact BY <1>0, RowParts, ProvenRecovery
  <2>2. record' = Written(TerminalOf(ResultUnavailable)) \/ record' = Written(RecoveryOf(r))
    BY <1>10 DEF ArtifactUnavailable
  <2> HIDE DEF r
  <2> QED BY <1>0, <2>1, <2>2, WrittenFailure, FailuresAreTyped
<1>11. CASE Publish
  <2>1. record'.failure = NoFailure BY <1>0, <1>11, PublishedRow
  <2> QED BY <2>1
<1>12. CASE \/ Claim \/ Unstart \/ Start \/ Refuse \/ Release \/ Resume \/ Submission
            \/ LookupActive \/ ResultRefused \/ Acquire
            \/ Author \/ Crash \/ Restart \/ UNCHANGED vars
  BY <1>12 DEF Claim, Unstart, Start, Refuse, Release, Resume, Submission, CheckRefused,
               InsertChild,
               InsertFails, Send, SendNothing, Deadline, Unusable, Handoff, Acknowledge, LookupActive,
               ResultRefused, Acquire, Author, Deliver, Lose, Finish, Retire, Crash, Restart, vars, durable
<1> QED BY <1>5, <1>6, <1>7, <1>8, <1>9, <1>10, <1>11, <1>12
           DEF Next, Scheduling, Task, TruthfulLookup, Acquisition

\* What a step does to the child, and to the row with it.
LEMMA ChildMoves ==
  ASSUME ExecutionInv, SentOnceInv, [Next]_vars
  PROVE  \/ child' = child /\ ~Publish
         \/ child = "none" /\ child' = "open" /\ record' = record
         \/ /\ child = "open" /\ child' = "failed" /\ record'.lifecycle = "failed"
            /\ ending' = ending
            /\ \/ ending = "no_effect" /\ record'.failure = Rejected
               \/ ending = "partial" /\ record'.failure = Failure("remote_failed", RemoteFailure)
         \/ /\ child' = "succeeded" /\ record'.lifecycle = "succeeded"
            /\ record'.failure = NoFailure /\ Publish
<1>0. RowOK(record) BY DEF ExecutionInv
<1>1. CASE Publish BY <1>0, <1>1, PublishedRow DEF Publish
<1>2. CASE InsertChild BY <1>2 DEF InsertChild, SentOnceInv, Publish
<1>3. CASE LookupFailedJob /\ child' # child
  <2>1. /\ ~Terminal /\ child = "open" /\ child' = "failed" /\ ending' = ending
        /\ \/ ending = "no_effect" /\ record' = Written(TerminalOf(Rejected))
           \/ /\ ending = "partial"
              /\ record' = Written(TerminalOf(Failure("remote_failed", RemoteFailure)))
    BY <1>3 DEF LookupFailedJob, Looking, RowHolds, Observed, author
  <2>2. /\ Written(TerminalOf(Rejected)).lifecycle = "failed"
        /\ Written(TerminalOf(Rejected)).failure = Rejected
        /\ LET f == Failure("remote_failed", RemoteFailure)
           IN  Written(TerminalOf(f)).lifecycle = "failed" /\ Written(TerminalOf(f)).failure = f
    BY <1>0, <2>1, TerminalWritten, FailuresAreLegal
  <2> QED BY <2>1, <2>2
<1>4. ASSUME ~Publish, ~InsertChild, ~LookupFailedJob PROVE child' = child
  BY <1>4 DEF Next, Scheduling, Task, Claim, Unstart, Start, Refuse, Detach, Release, Settle,
              Heal,
              Resume, Submission, CheckRefused, InsertFails, Send, SendNothing, Deadline, Unusable,
              Handoff, Acknowledge, LookupFails, LookupMissing, TruthfulLookup, LookupRetired,
              LookupActive, LookupSucceeded, Acquisition, ResultRefused, ResultAbsent, Acquire,
              CapacityPause, ArtifactUnavailable, Author, Deliver, Lose, Finish, Retire, Crash,
              Restart, vars, durable
<1> QED BY <1>1, <1>2, <1>3, <1>4

\* A job's ending is final, and only a job that ended with an artifact is under
\* acquisition.
LEMMA EndingStays ==
  ASSUME WireInv, [Next]_vars
  PROVE  /\ ending # "none" => ending' = ending
         /\ phase' = "acquiring" => phase = "acquiring" \/ ending = "artifact"
<1>1. ending' = ending \/ \E how \in SuccessfulEnding \cup FailedEnding : Finish(how)
  BY DEF Next, Scheduling, Task, Claim, Unstart, Start, Refuse, Detach, Release, Settle,
         Heal, Resume, Submission, CheckRefused, InsertChild, InsertFails, Send, SendNothing,
         Deadline, Unusable, Handoff, Acknowledge, LookupFails, LookupMissing, TruthfulLookup,
         LookupRetired, LookupActive, LookupFailedJob, LookupSucceeded, Observed, Acquisition,
         ResultRefused, ResultAbsent, Acquire, CapacityPause, Publish, ArtifactUnavailable,
         Author, Deliver, Lose, Retire, Crash, Restart, vars, author
<1>2. ending # "none" => ending' = ending
  BY <1>1 DEF WireInv, Finish
<1>3. phase' = "acquiring" => phase = "acquiring" \/ Acquire
  BY DEF Next, Scheduling, Task, Claim, Unstart, Start, Refuse, Detach, Release, Settle,
         Heal, Resume, Submission, CheckRefused, InsertChild, InsertFails, Send, SendNothing,
         Deadline, Unusable, Handoff, Acknowledge, LookupFails, LookupMissing, TruthfulLookup,
         LookupRetired, LookupActive, LookupFailedJob, LookupSucceeded, SettleFrom, Settling,
         Acquisition, ResultRefused, ResultAbsent, CapacityPause, Publish, ArtifactUnavailable,
         Author, Deliver, Lose, Finish, Retire, Crash, Restart, vars, volatile
<1> QED BY <1>2, <1>3 DEF Acquire

\* The agreement, with what a publication relies on.
ChildInv == SettledChildAgrees /\ (phase = "acquiring" => ending = "artifact")

\* Every step keeps it: one case for each way a child can move.
LEMMA ChildStep == KeepInv /\ ChildInv /\ [Next]_vars => ChildInv'
<1> SUFFICES ASSUME KeepInv, ChildInv, [Next]_vars PROVE ChildInv' OBVIOUS
<1>0. ExecutionInv /\ SentOnceInv /\ WireInv BY DEF KeepInv
<1>1. (phase = "acquiring" => ending = "artifact")'
  BY <1>0, EndingStays DEF ChildInv
<1>2. ending # "none" => ending' = ending BY <1>0, EndingStays
<1>3. NoFailure.disposition # RemoteFailure /\ NoFailure # Rejected
      /\ Rejected.disposition # RemoteFailure
      /\ Failure("remote_failed", RemoteFailure).disposition = RemoteFailure
  BY DEF NoFailure, Rejected, Failure, NonExecution, RemoteFailure
<1>4. CASE child' = child /\ ~Publish
  <2>1. record' = record \/ (~Terminal /\ record'.lifecycle # "succeeded")
    BY <1>0, <1>4, RowMoves
  <2>2. CASE record' = record BY <1>1, <1>2, <1>4, <2>2 DEF ChildInv, SettledChildAgrees
  <2>3. CASE ~Terminal /\ record'.lifecycle # "succeeded"
    <3>1. record.lifecycle # "succeeded" /\ record.failure = NoFailure
      BY <1>0, <2>3 DEF Terminal, IsTerminal, ExecutionInv, RowOK, WellFormed
    <3>2. child # "succeeded" /\ child # "failed"
      BY <1>3, <3>1 DEF ChildInv, SettledChildAgrees
    <3>3. record'.failure.disposition # RemoteFailure
      <4>1. CASE LookupFailedJob
        <5>1. record' = Charged(ProvenSuccess) \/ record' = Charged("remote_outcome_unknown")
          BY <1>4, <3>2, <4>1 DEF LookupFailedJob
        <5>2. ProvenSuccess \in Evidence /\ "remote_outcome_unknown" \in Evidence
          BY DEF Evidence, Certainty
        <5>3. record'.failure \in {NoFailure, ResultUnavailable, Exhausted}
          BY <1>0, <3>1, <5>1, <5>2, ChargedReports DEF ExecutionInv
        <5> QED BY <1>3, <5>3 DEF ResultUnavailable, Exhausted, Failure, FailClosed,
                                  RemoteSuccess, RemoteFailure
      <4>2. CASE ~LookupFailedJob BY <1>3, <3>1, <4>2, RemoteFailureMoves
      <4> QED BY <4>1, <4>2
    <3> QED BY <1>1, <1>4, <2>3, <3>2, <3>3 DEF ChildInv, SettledChildAgrees
  <2> QED BY <2>1, <2>2, <2>3
<1>5. CASE child = "none" /\ child' = "open" /\ record' = record
  BY <1>1, <1>5 DEF ChildInv, SettledChildAgrees
<1>6. CASE /\ child' = "failed" /\ record'.lifecycle = "failed" /\ ending' = ending
           /\ \/ ending = "no_effect" /\ record'.failure = Rejected
              \/ ending = "partial" /\ record'.failure = Failure("remote_failed", RemoteFailure)
  BY <1>1, <1>3, <1>6 DEF ChildInv, SettledChildAgrees
<1>7. CASE /\ child' = "succeeded" /\ record'.lifecycle = "succeeded"
           /\ record'.failure = NoFailure /\ Publish
  <2>1. ending \in {"inline", "artifact"} /\ ending' = ending
    BY <1>7 DEF Publish, ChildInv, author
  <2> QED BY <1>1, <1>3, <1>7, <2>1 DEF ChildInv, SettledChildAgrees
<1> QED BY <1>0, <1>4, <1>5, <1>6, <1>7, ChildMoves

\* A child is closed only with its row and as the author's job ended, for every
\* retry budget and number of crashes; a success or a remote failure in a row
\* always has its child closed (settle_success_for_publications,
\* reconcile_failed_snapshot).
THEOREM ExecutionSettledChildAgrees == Spec => []SettledChildAgrees
<1>1. Init => ChildInv
  BY DEF Init, Admitted, ChildInv, SettledChildAgrees, NoFailure, RemoteFailure
<1>2. ChildInv => SettledChildAgrees BY DEF ChildInv
<1> QED BY <1>1, <1>2, ChildStep, KeepInvariant, PTL DEF Spec

\* No claim outlives its execution: with no task alive, a row that is neither
\* ended nor held can be claimed again (run_one, recover_abandoned_claims).
THEOREM ExecutionNoClaimIsLeaked == Spec => []NoClaimIsLeaked
<1>1. Init => NoClaimIsLeaked BY DEF Init, NoClaimIsLeaked
<1>2. ASSUME ExecutionInv, NoClaimIsLeaked, [Next]_vars PROVE NoClaimIsLeaked'
  <2>1. CASE phase' \notin {"idle", phase} \/ ~up' BY <2>1 DEF NoClaimIsLeaked
  <2>2. CASE Unstart \/ Heal \/ Resume BY <2>2 DEF Unstart, Heal, Resume, NoClaimIsLeaked
  <2>3. CASE Release BY <2>3 DEF Release, NoClaimIsLeaked
  <2>4. CASE Settle
    <3> DEFINE folded == Fold(record, OutcomeFact(outcome))
    <3>1. \/ phase' = "releasing"
          \/ record' = folded /\ (claim' = "free" \/ outcome.kind = "success" \/ folded.recovery.manual)
      BY <2>4 DEF Settle
    <3>2. ASSUME outcome.kind = "success" PROVE folded = record /\ Terminal
      <4>1. folded = FoldLifecycle(record, "succeeded")
        BY <3>2 DEF OutcomeFact, Fold, LifecycleFact
      <4> QED
        BY <1>2, <3>2, <4>1 DEF ExecutionInv, OutcomeStands, FoldLifecycle, Terminal, IsTerminal
    <3> HIDE DEF folded
    <3> QED BY <3>1, <3>2 DEF NoClaimIsLeaked, Terminal
  <2>5. CASE Restart BY <2>5 DEF Restart, NoClaimIsLeaked, Terminal
  <2>6. CASE Author \/ UNCHANGED vars
    BY <1>2, <2>6 DEF Author, Deliver, Lose, Finish, Retire, vars, durable, volatile, process,
                      NoClaimIsLeaked, Terminal
  <2>7. CASE Claim \/ Start \/ Refuse \/ Detach \/ Task \/ Crash
    <3>1. phase' \notin {"idle", phase} \/ ~up'
      BY <2>7 DEF Claim, Start, Refuse, Detach, Awaiting, Phase, Crash, Task, Submission,
                  CheckRefused, InsertChild, InsertFails, Send, SendNothing, Deadline, Unusable,
                  Handoff, Acknowledge, LookupFails, LookupMissing, TruthfulLookup, LookupRetired,
                  LookupActive, LookupFailedJob, LookupSucceeded, Acquisition, ResultRefused,
                  ResultAbsent, Acquire, CapacityPause, Publish, ArtifactUnavailable, SettleFrom,
                  Settling, Looking
    <3> QED BY <2>1, <3>1
  <2> QED BY <1>2, <2>2, <2>3, <2>4, <2>5, <2>6, <2>7 DEF Next, Scheduling
<1>3. ExecutionInv /\ NoClaimIsLeaked /\ [Next]_vars => NoClaimIsLeaked' BY <1>2
<1> QED BY <1>1, <1>3, ExecutionInit, ExecutionStep, PTL DEF Spec

=============================================================================
