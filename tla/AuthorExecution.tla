--------------------------- MODULE AuthorExecution ---------------------------
(***************************************************************************)
(* One admitted operation executed on the remote author, from claim to       *)
(* ending: the scheduler's run_one, the retained author protocol with its    *)
(* outbox child, lookup reconciliation and result acquisition, the automatic *)
(* retry budget, the healing of paused rows, manual resume, and a daemon     *)
(* that may crash between any two transactions.  The author is a process of  *)
(* its own behind a network that may delay or lose the one request.          *)
(*                                                                           *)
(* A step is the code between two awaits, or one transaction where several   *)
(* follow each other, because a crash may fall between them.  Retry delays   *)
(* are abstracted: a row may be claimed again at any time.  That at most one *)
(* execution of a row is alive is the subject of SchedulerQueue.             *)
(***************************************************************************)
EXTENDS OperationRecord

CONSTANTS Cap,         \* automatic_attempt_cap
          MaxCrashes   \* bound: crashes of the daemon in one behaviour

ASSUME ExecutionAssumption == Cap \in Nat /\ Cap > 1 /\ MaxCrashes \in Nat

VARIABLES
    record,    \* the durable operation record
    child,     \* the durable outbox child: none, open, succeeded or failed
    claim,     \* claim columns: free, held (fence), started (fence and checkpoint)
    resumed,   \* a resume receipt is recorded and the row not claimed since
    up,        \* the daemon process runs
    crashes,
    phase,     \* where the execution task is; lost in a crash
    expected,  \* the row revision the task read
    outcome,   \* the executor outcome run_one is about to settle
    handoff,   \* the last answer to the POST, until a lookup is made
    request,   \* the POST is on the wire
    answer,    \* the author's answer to it, on the wire
    agent,     \* the author's job: none, active, ended, retired
    ending,    \* how the job ended
    posts      \* how many times the command was sent

durable == <<record, child, claim, resumed>>
volatile == <<phase, expected, outcome, handoff>>
author == <<request, answer, agent, ending, posts>>
process == <<up, crashes>>
vars == <<durable, volatile, author, process>>

Phase == {"idle", "claimed", "discovering", "checking", "sending", "looking",
          "proven", "acquiring", "settling", "releasing"}

\* Phases in which run_one awaits the execution and may still detach it.
Awaiting == Phase \ {"idle", "settling", "releasing"}

\* Answers to the POST, by the HandoffDisposition they become.
Answer == {"accepted", "not_executed", "window_expired", "conflict", "retry_after", "unknown"}

\* How a job ends: with a result the envelope carries, one behind an artifact,
\* no result, one this build refuses; or failed, by what it proves of effects.
SuccessfulEnding == {"inline", "artifact", "bare", "unusable"}
FailedEnding == {"no_effect", "partial", "ambiguous"}

Outcome(kind, failure, recovery) ==
    [kind |-> kind, failure |-> failure, recovery |-> recovery]
NoOutcome == Outcome("none", NoFailure, NoRecovery)
Ended(failure) == Outcome("terminal", failure, NoRecovery)
Waiting(recovery) == Outcome("recovery", NoFailure, recovery)
Completed == Outcome("success", NoFailure, NoRecovery)

TypeOK ==
    /\ record \in Record
    /\ child \in {"none", "open", "succeeded", "failed"}
    /\ claim \in {"free", "held", "started"}
    /\ resumed \in BOOLEAN /\ up \in BOOLEAN /\ crashes \in 0..MaxCrashes
    /\ phase \in Phase /\ expected \in Nat
    /\ outcome \in [kind : {"none", "success", "terminal", "recovery"},
                    failure : TerminalFailure \cup {NoFailure},
                    recovery : RecoveryFact \cup {NoRecovery}]
    /\ handoff \in Answer \cup {"none"}
    /\ request \in BOOLEAN /\ answer \in Answer \cup {"none"}
    /\ agent \in {"none", "active", "ended", "retired"}
    /\ ending \in SuccessfulEnding \cup FailedEnding \cup {"none"}
    /\ posts \in Nat

Init ==
    /\ record = Admitted /\ child = "none" /\ claim = "free" /\ resumed = FALSE
    /\ up = TRUE /\ crashes = 0
    /\ phase = "idle" /\ expected = 0 /\ outcome = NoOutcome /\ handoff = "none"
    /\ request = FALSE /\ answer = "none" /\ agent = "none" /\ ending = "none" /\ posts = 0

-----------------------------------------------------------------------------
\* The facts the execution writes.

Terminal == IsTerminal(record.lifecycle)

\* What a repository write leaves in the row: a refused fold changes nothing.
Written(fact) == LET folded == Fold(record, fact)
                 IN  IF folded = Refused THEN record ELSE folded

\* automatic_recovery_paused.
Paused(fact) == fact.manual /\ (fact.category = "persistent_capacity_unavailable" \/ fact.attempt >= Cap)

\* One more than the held attempt; 1 when nothing is held (NoRecovery has 0).
NextAttempt == record.recovery.attempt + 1

HeldEvidence(default) ==
    IF record.recovery = NoRecovery THEN default ELSE record.recovery.evidence

ProvenHeld == record.recovery.evidence = ProvenSuccess

LookupCategory(evidence) ==
    IF evidence = ProvenSuccess THEN "result_acquisition" ELSE "operation_lookup"

\* Every write is measured at a fresh instant; the revision stands for it.
Instant == record.revision

ResultUnavailable == Failure("result_unavailable", RemoteSuccess)
Exhausted == Failure("retry_policy_exhausted", FailClosed("remote_outcome_unknown"))

\* Slip: one ending for every spent budget, whatever was already proven.
FailureExhaustedAlways(evidence) == Exhausted

\* failure_when_the_budget_ends, and the ending of heal_paused_queue.
FailureWhenTheBudgetEnds(evidence) ==
    IF evidence = ProvenSuccess THEN ResultUnavailable ELSE Exhausted

\* One attempt charged against the automatic budget: the common shape of
\* record_lookup_recovery, record_missing_lookup and record_detached_attempt.
Charged(evidence) ==
    IF Paused(record.recovery) THEN record
    ELSE IF NextAttempt >= Cap THEN Written(TerminalOf(FailureWhenTheBudgetEnds(evidence)))
    ELSE Written(RecoveryOf(Recovery(LookupCategory(evidence), evidence, NextAttempt, FALSE, Instant)))

\* The row is the one the task read and not ended: require_local,
\* require_local_revision and the revision guard of every unfenced write.
RowHolds == expected = record.revision /\ ~Terminal

\* RetainedAuthorProtocol::waiting.
StillWaiting(rec) ==
    IF rec.recovery # NoRecovery THEN rec.recovery
    ELSE IF rec.lifecycle = "succeeded"
         THEN Recovery("result_acquisition", ProvenSuccess, 1, FALSE, rec.revision)
         ELSE Recovery("operation_lookup", "remote_outcome_unknown", 1, FALSE, rec.revision)

\* settlement, then publish: a success whose local artifacts do not verify is
\* offered as a recovery, which the ended row will refuse.
Settlements(rec) ==
    IF rec.failure # NoFailure THEN {Ended(rec.failure)}
    ELSE IF rec.lifecycle = "succeeded" THEN {Completed, Waiting(StillWaiting(rec))}
    ELSE {Waiting(StillWaiting(rec))}

\* The task has its outcome; run_one settles it next.
Settling(out) == phase' = "settling" /\ outcome' = out

\* The rest of settle: re-read the row, whatever the lookup did to it.
SettleFrom(rec) == \E out \in Settlements(rec) : Settling(out)

Rejected == Failure("rejected", NonExecution("confirmed_not_executed"))

\* The ending of every answer the queue must move on from.
Answered == Failure("retry_policy_exhausted", FailClosed("submission_unknown"))

-----------------------------------------------------------------------------
\* Scheduling.

\* The candidate query: queued, unclaimed and not waiting on a person.
Eligible == record.lifecycle = "queued" /\ claim = "free" /\ ~record.recovery.manual

Claim ==
    /\ up /\ phase = "idle" /\ Eligible
    /\ claim' = "held" /\ phase' = "claimed" /\ resumed' = FALSE
    /\ UNCHANGED <<record, child, expected, outcome, handoff, author, process>>

\* prepare and schedule_invocation: the claimed row cannot be turned into a
\* submission, or its connections do not open.
Unstart ==
    /\ up /\ phase = "claimed"
    /\ claim' = "free" /\ phase' = "idle"
    /\ UNCHANGED <<record, child, resumed, expected, outcome, handoff, author, process>>

\* execute_retained_with_claim up to the first await: the checkpoint is set, and
\* a retained child sends the attempt to lookup instead of submission.
StartResending ==
    /\ up /\ phase = "claimed" /\ claim = "held"
    /\ claim' = "started" /\ expected' = record.revision
    /\ phase' = IF agent = "none" THEN "discovering" ELSE "looking"
    /\ UNCHANGED <<record, child, resumed, outcome, handoff, author, process>>

Start ==
    /\ up /\ phase = "claimed" /\ claim = "held"
    /\ claim' = "started" /\ expected' = record.revision
    /\ phase' = IF child = "none" THEN "discovering" ELSE "looking"
    /\ UNCHANGED <<record, child, resumed, outcome, handoff, author, process>>

\* A binding that no longer fits refuses the execution after its checkpoint.
Refuse ==
    /\ up /\ phase = "claimed" /\ claim = "held"
    /\ claim' = "started" /\ phase' = "releasing"
    /\ UNCHANGED <<record, child, resumed, expected, outcome, handoff, author, process>>

\* Slip: a local timeout forgets what was already proven.
DetachForgetful ==
    /\ up /\ phase \in Awaiting
    /\ record' = IF Terminal THEN record ELSE Charged("remote_outcome_unknown")
    /\ phase' = "releasing" /\ answer' = "none"
    /\ UNCHANGED <<child, claim, resumed, expected, outcome, handoff, request,
                   agent, ending, posts, process>>

\* run_one without an outcome, on timeout or shutdown: the attempt is charged,
\* then the claim released.
Detach ==
    /\ up /\ phase \in Awaiting
    /\ record' = IF Terminal THEN record ELSE Charged(HeldEvidence("remote_outcome_unknown"))
    /\ phase' = "releasing" /\ answer' = "none"
    /\ UNCHANGED <<child, claim, resumed, expected, outcome, handoff, request,
                   agent, ending, posts, process>>

\* release_claim_unless_paused.
Release ==
    /\ up /\ phase = "releasing"
    /\ claim' = IF record.recovery.manual THEN claim ELSE "free"
    /\ phase' = "idle"
    /\ UNCHANGED <<record, child, resumed, expected, outcome, handoff, author, process>>

\* What settle_with_scheduler_fence writes for an outcome.
OutcomeFact(out) ==
    CASE out.kind = "terminal" -> TerminalOf(out.failure)
      [] out.kind = "recovery" -> RecoveryOf(out.recovery)
      [] OTHER                 -> LifecycleFact("succeeded")

\* Slip: a fact that changes nothing leaves its claim behind.
SettleKeepingClaim ==
    /\ up /\ phase = "settling"
    /\ LET folded == Fold(record, OutcomeFact(outcome))
       IN  IF claim = "started" /\ folded # Refused
           THEN /\ record' = folded
                /\ claim' = IF outcome.kind = "success" \/ folded.recovery.manual \/ folded = record
                            THEN claim ELSE "free"
                /\ phase' = "idle"
           ELSE phase' = "releasing" /\ UNCHANGED <<record, claim>>
    /\ outcome' = NoOutcome
    /\ UNCHANGED <<child, resumed, expected, handoff, author, process>>

\* run_one with an outcome: one fenced transaction that also releases the claim
\* unless the row now waits on a person; a refusal releases it next.
Settle ==
    /\ up /\ phase = "settling"
    /\ LET folded == Fold(record, OutcomeFact(outcome))
       IN  IF claim = "started" /\ folded # Refused
           THEN /\ record' = folded
                /\ claim' = IF outcome.kind = "success" \/ folded.recovery.manual
                            THEN claim ELSE "free"
                /\ phase' = "idle"
           ELSE phase' = "releasing" /\ UNCHANGED <<record, claim>>
    /\ outcome' = NoOutcome
    /\ UNCHANGED <<child, resumed, expected, handoff, author, process>>

\* heal_paused_queue: every queued row that waits on a person is ended.
Heal ==
    /\ up /\ record.lifecycle = "queued" /\ record.recovery.manual
    /\ record' = Written(TerminalOf(FailureWhenTheBudgetEnds(record.recovery.evidence)))
    /\ claim' = "free"
    /\ UNCHANGED <<child, resumed, volatile, author, process>>

\* record_eligible_resume_receipt with activate_resumed_operation: a receipt,
\* and the claim columns cleared.
Resume ==
    /\ up /\ ~resumed /\ ~Terminal /\ record.recovery.manual
    /\ resumed' = TRUE /\ claim' = "free"
    /\ UNCHANGED <<record, child, volatile, author, process>>

Crash ==
    /\ up /\ crashes < MaxCrashes
    /\ up' = FALSE /\ crashes' = crashes + 1
    /\ phase' = "idle" /\ outcome' = NoOutcome /\ answer' = "none"
    /\ UNCHANGED <<durable, expected, handoff, request, agent, ending, posts>>

\* Slip: startup keeps the claims of executions that died with the process.
RestartUnswept ==
    /\ ~up /\ up' = TRUE
    /\ UNCHANGED <<durable, crashes, volatile, author>>

\* recover_abandoned_claims at startup.
Restart ==
    /\ ~up /\ up' = TRUE
    /\ claim' = IF Terminal \/ record.recovery.manual THEN claim ELSE "free"
    /\ UNCHANGED <<record, child, resumed, crashes, volatile, author>>

-----------------------------------------------------------------------------
\* Submission.

\* unchecked: the capability check failed, before or after the child is kept.
CapabilityFailure(refusal) ==
    CASE refusal = "unanswered" ->
             Failure("retry_policy_exhausted", NonExecution("confirmed_not_executed"))
      [] refusal = "refused"    -> Rejected
      [] refusal = "preflight"  -> Answered

CheckRefused(refusal) ==
    /\ up /\ phase \in {"discovering", "checking"}
    /\ Settling(Ended(CapabilityFailure(refusal)))
    /\ UNCHANGED <<durable, expected, handoff, author, process>>

\* prepare_initial_submission: the child is durable before anything is sent.
InsertChild ==
    /\ up /\ phase = "discovering" /\ RowHolds
    /\ child' = "open" /\ phase' = "checking"
    /\ UNCHANGED <<record, claim, resumed, expected, outcome, handoff, author, process>>

\* The outbox refuses the child, so the permit is never granted.
InsertFails ==
    /\ up /\ phase = "discovering"
    /\ Settling(Ended(Answered))
    /\ UNCHANGED <<durable, expected, handoff, author, process>>

\* send_with_authentication after its own capability check, guarded by
\* require_local.
Send ==
    /\ up /\ phase = "checking" /\ RowHolds
    /\ request' = TRUE /\ posts' = posts + 1 /\ phase' = "sending"
    /\ UNCHANGED <<durable, expected, outcome, handoff, answer, agent, ending, process>>

\* The connection fails before a byte is written: ConfirmedNotExecuted.
SendNothing ==
    /\ up /\ phase = "checking"
    /\ Settling(Ended(Rejected))
    /\ UNCHANGED <<durable, expected, handoff, author, process>>

\* host_did_not_respond: the one handoff that stays outstanding.
Deadline ==
    /\ up /\ phase = "sending"
    /\ Settling(Waiting(Recovery("ambiguous_submission", "submission_unknown", 1, FALSE, 0)))
    /\ answer' = "none"
    /\ UNCHANGED <<durable, expected, handoff, request, agent, ending, posts, process>>

\* outcome_of_handoff for the answers that settle on their own.
HandoffFailure(disposition) ==
    CASE disposition = "not_executed"   -> Rejected
      [] disposition = "window_expired" -> Failure("remote_state_lost", FailClosed("remote_outcome_unknown"))
      [] disposition = "conflict"       -> Failure("integrity_failure", FailClosed("remote_outcome_unknown"))
      [] OTHER                          -> Answered

\* An answer the client cannot use (UnknownCause other than a deadline), or the
\* connection breaks after the request was written.
Unusable ==
    /\ up /\ phase = "sending"
    /\ handoff' = "unknown" /\ answer' = "none"
    /\ Settling(Ended(HandoffFailure("unknown")))
    /\ UNCHANGED <<durable, expected, request, agent, ending, posts, process>>

Handoff ==
    /\ up /\ phase = "sending" /\ answer \in Answer \ {"accepted"}
    /\ handoff' = answer /\ answer' = "none"
    /\ Settling(Ended(HandoffFailure(answer)))
    /\ UNCHANGED <<durable, expected, request, agent, ending, posts, process>>

\* acknowledge: the accepted job is associated with its child before lookup; a
\* refused association leaves the submission unknown.
Acknowledge(associated) ==
    /\ up /\ phase = "sending" /\ answer = "accepted"
    /\ answer' = "none" /\ handoff' = IF associated THEN "none" ELSE "unknown"
    /\ IF associated
       THEN phase' = "looking" /\ expected' = record.revision /\ UNCHANGED outcome
       ELSE Settling(Ended(HandoffFailure("unknown"))) /\ UNCHANGED expected
    /\ UNCHANGED <<durable, request, agent, ending, posts, process>>

-----------------------------------------------------------------------------
\* Lookup reconciliation: one read of the author, one or two transactions.

Looking == up /\ phase = "looking" /\ RowHolds /\ child = "open"

Observed == handoff' = "none" /\ UNCHANGED <<author, process>>

\* record_lookup_failure.
LookupFails ==
    /\ Looking /\ Observed
    /\ record' = Charged(HeldEvidence("remote_outcome_unknown"))
    /\ SettleFrom(record')
    /\ UNCHANGED <<child, claim, resumed, expected>>

\* Slip: a job nobody has heard of is taken not to have run.
LookupMissingConcludes ==
    /\ Looking /\ Observed
    /\ record' = IF ProvenHeld THEN record
                 ELSE IF NextAttempt >= Cap THEN Written(TerminalOf(Rejected))
                 ELSE Charged(HeldEvidence("submission_unknown"))
    /\ SettleFrom(record')
    /\ UNCHANGED <<child, claim, resumed, expected>>

\* record_missing_lookup: the agent has never heard of it, or will not say.
\* Against proven success the answer is refused and charges nothing.
LookupMissing ==
    /\ Looking /\ Observed
    /\ record' = IF ProvenHeld THEN record ELSE Charged(HeldEvidence("submission_unknown"))
    /\ SettleFrom(record')
    /\ UNCHANGED <<child, claim, resumed, expected>>

\* record_retired_lookup.
LookupRetired ==
    /\ Looking /\ agent = "retired" /\ Observed
    /\ record' = Written(TerminalOf(
           IF ProvenHeld THEN ResultUnavailable
           ELSE Failure("recovery_window_expired", FailClosed("remote_outcome_unknown"))))
    /\ SettleFrom(record')
    /\ UNCHANGED <<child, claim, resumed, expected>>

\* reconcile_active_snapshot: only the child's observation moves.
LookupActive ==
    /\ Looking /\ agent = "active" /\ Observed
    /\ SettleFrom(record)
    /\ UNCHANGED <<durable, expected>>

\* reconcile_failed_snapshot: typed failures settle row and child together; an
\* ambiguous one is charged as an unknown outcome, and one that contradicts
\* proven success as a failed exchange.
LookupFailedJob ==
    /\ Looking /\ agent = "ended" /\ ending \in FailedEnding /\ Observed
    /\ \/ ProvenHeld /\ record' = Charged(ProvenSuccess) /\ UNCHANGED child
       \/ /\ ~ProvenHeld /\ ending = "no_effect" /\ child' = "failed"
          /\ record' = Written(TerminalOf(Rejected))
       \/ /\ ~ProvenHeld /\ ending = "partial" /\ child' = "failed"
          /\ record' = Written(TerminalOf(Failure("remote_failed", RemoteFailure)))
       \/ /\ ~ProvenHeld /\ ending = "ambiguous" /\ UNCHANGED child
          /\ record' = Charged("remote_outcome_unknown")
    /\ SettleFrom(record')
    /\ UNCHANGED <<claim, resumed, expected>>

\* record_snapshot_success: success is durable before its result is looked at.
LookupSucceeded ==
    /\ Looking /\ agent = "ended" /\ ending \in SuccessfulEnding /\ Observed
    /\ record' = IF ProvenHeld THEN record
                 ELSE Written(RecoveryOf(Recovery("result_acquisition", ProvenSuccess, 0, FALSE, Instant)))
    /\ expected' = record'.revision
    /\ phase' = "proven"
    /\ UNCHANGED <<child, claim, resumed, outcome>>

-----------------------------------------------------------------------------
\* Result acquisition, entered with proven success in the row.

\* A result this build refuses, or local storage that fails: nothing is written
\* and nothing is charged.
ResultRefused ==
    /\ up /\ \/ phase = "proven" /\ ending \in {"unusable", "inline"}
             \/ phase = "acquiring"
    /\ SettleFrom(record)
    /\ UNCHANGED <<durable, expected, handoff, author, process>>

\* The ending without its result.
ResultAbsent ==
    /\ up /\ phase = "proven" /\ RowHolds /\ ending = "bare"
    /\ record' = Charged(HeldEvidence("remote_outcome_unknown"))
    /\ SettleFrom(record')
    /\ UNCHANGED <<child, claim, resumed, expected, handoff, author, process>>

\* stage_remote_artifact begins.
Acquire ==
    /\ up /\ phase = "proven" /\ ending = "artifact"
    /\ phase' = "acquiring"
    /\ UNCHANGED <<durable, expected, outcome, handoff, author, process>>

\* A capacity refusal pauses for a person, with the budget reset.
CapacityPause ==
    /\ up /\ RowHolds
    /\ \/ phase = "proven" /\ ending \in {"inline", "artifact"}
       \/ phase = "acquiring"
    /\ record' = Written(RecoveryOf(
           Recovery("persistent_capacity_unavailable", ProvenSuccess, 0, TRUE, Instant)))
    /\ SettleFrom(record')
    /\ UNCHANGED <<child, claim, resumed, expected, handoff, author, process>>

\* The author has no such artifact: a terminal loss once retention or grace is
\* over or the budget spent, another attempt otherwise.
ArtifactUnavailable(over) ==
    /\ up /\ phase = "acquiring" /\ RowHolds
    /\ record' = IF over \/ NextAttempt >= Cap THEN Written(TerminalOf(ResultUnavailable))
                 ELSE Written(RecoveryOf(
                          Recovery("result_acquisition", ProvenSuccess, NextAttempt, FALSE, Instant)))
    /\ SettleFrom(record')
    /\ UNCHANGED <<child, claim, resumed, expected, handoff, author, process>>

\* What settle_success_guarded leaves: success, and no recovery beside it.
SucceededRecord ==
    LET folded == Fold(record, LifecycleFact("succeeded"))
    IN  [folded EXCEPT !.recovery = NoRecovery]

\* Slip: the row is settled in a transaction that leaves the child open.
PublishRowOnly ==
    /\ up /\ RowHolds
    /\ \/ phase = "proven" /\ ending = "inline"
       \/ phase = "acquiring"
    /\ record' = SucceededRecord
    /\ SettleFrom(record')
    /\ UNCHANGED <<child, claim, resumed, expected, handoff, author, process>>

\* settle_success_for_publications or publish_inline: row, result and child in
\* one transaction.
Publish ==
    /\ up /\ RowHolds
    /\ \/ phase = "proven" /\ ending = "inline"
       \/ phase = "acquiring"
    /\ record' = SucceededRecord
    /\ child' = "succeeded"
    /\ SettleFrom(record')
    /\ UNCHANGED <<claim, resumed, expected, handoff, author, process>>

-----------------------------------------------------------------------------
\* The author and the network, external to the daemon.

\* The request arrives.  A retryable status proves nothing about its effect, and
\* an answer finds its task only while that task still waits for it.
Deliver(reply, accepted) ==
    /\ request /\ request' = FALSE
    /\ reply = "accepted" => accepted
    /\ reply \in {"not_executed", "window_expired", "conflict"} => ~accepted
    /\ agent' = IF accepted THEN "active" ELSE agent
    /\ answer' = IF up /\ phase = "sending" THEN reply ELSE answer
    /\ UNCHANGED <<durable, volatile, ending, posts, process>>

Lose ==
    /\ request /\ request' = FALSE
    /\ UNCHANGED <<durable, volatile, answer, agent, ending, posts, process>>

Finish(how) ==
    /\ agent = "active" /\ agent' = "ended" /\ ending' = how
    /\ UNCHANGED <<durable, volatile, request, answer, posts, process>>

\* The author's retention of an ended job runs out.
Retire ==
    /\ agent = "ended" /\ agent' = "retired"
    /\ UNCHANGED <<durable, volatile, request, answer, ending, posts, process>>

-----------------------------------------------------------------------------
Submission ==
    \/ \E refusal \in {"unanswered", "refused", "preflight"} : CheckRefused(refusal)
    \/ InsertChild \/ InsertFails \/ Send \/ SendNothing
    \/ Deadline \/ Unusable \/ Handoff
    \/ \E associated \in BOOLEAN : Acknowledge(associated)

\* The lookup answered as the author's job stands.
TruthfulLookup ==
    \/ agent = "none" /\ LookupMissing
    \/ LookupRetired \/ LookupActive \/ LookupFailedJob \/ LookupSucceeded

Acquisition ==
    \/ ResultRefused \/ ResultAbsent \/ Acquire \/ CapacityPause \/ Publish
    \/ \E over \in BOOLEAN : ArtifactUnavailable(over)

Task == Submission \/ LookupFails \/ LookupMissing \/ TruthfulLookup \/ Acquisition

Scheduling == Claim \/ Unstart \/ Start \/ Refuse \/ Detach \/ Release \/ Settle \/ Heal \/ Resume

Author ==
    \/ \E reply \in Answer \ {"unknown"}, accepted \in BOOLEAN : Deliver(reply, accepted)
    \/ Lose
    \/ \E how \in SuccessfulEnding \cup FailedEnding : Finish(how)
    \/ Retire

Next == Scheduling \/ Task \/ Author \/ Crash \/ Restart

Spec == Init /\ [][Next]_vars

(***************************************************************************)
(* The daemon is restarted, its loop keeps claiming and healing, a started   *)
(* task runs on (the attempt budget detaches one that does not), and an      *)
(* execution is not refused or a lookup misanswered every time.  The author  *)
(* finishes what it accepted and retires what it finished, as its retention  *)
(* contract says; the network delivers or loses.                             *)
(***************************************************************************)
Fairness ==
    /\ WF_vars(Restart) /\ WF_vars(Claim) /\ WF_vars(Heal)
    /\ SF_vars(Start) /\ WF_vars(Task \/ Detach) /\ WF_vars(Release) /\ WF_vars(Settle)
    /\ SF_vars(TruthfulLookup)
    /\ WF_vars(\E how \in SuccessfulEnding \cup FailedEnding : Finish(how)) /\ WF_vars(Retire)

FairSpec == Spec /\ Fairness

-----------------------------------------------------------------------------
\* Across crashes, detachments and retries the command is sent at most once: the
\* child committed before the POST turns every later attempt into a lookup
\* (prepare_initial_submission, submit_initial_with_authentication).
SentAtMostOnce == posts <= 1

\* A row that says its command did not run is right, and stays right: nothing
\* is on the wire and the author has not, and will not have, effects of it.
NonExecutionIsTrue ==
    record.failure.disposition.effect = "non_execution" =>
        \/ agent = "none" /\ ~request
        \/ ending = "no_effect"

\* Proven remote success is never taken back, only lost: a later fact keeps the
\* evidence, and the row ends in success or in an unavailable result.
Proven(rec) == \/ rec.recovery.evidence = ProvenSuccess
               \/ rec.lifecycle = "succeeded"
               \/ rec.failure.disposition = RemoteSuccess
SuccessIsNeverRetracted == [][Proven(record) => Proven(record')]_record

\* The automatic budget is never overrun: a row still being retried has
\* attempts left (automatic_attempt_cap, Charged, ArtifactUnavailable).
AttemptsWithinBudget == record.recovery.attempt < Cap

\* No claim outlives its execution: with no task alive, a row that is neither
\* ended nor waiting on a person can be claimed again (run_one, mutate).
NoClaimIsLeaked ==
    (up /\ phase = "idle") => (Terminal \/ record.recovery.manual \/ claim = "free")

\* A child is closed only with its row and as the author's job ended: job, child
\* and row tell the same for good, and no row reports success or a remote failure
\* over a child still open (settle_success_for_publications,
\* reconcile_failed_snapshot).  A row that ends without the author's word (a spent
\* budget, an unusable or a refusing answer, a lost job) leaves its child open.
SettledChildAgrees ==
    /\ (child = "succeeded") <=> (record.lifecycle = "succeeded")
    /\ child = "succeeded" => ending \in {"inline", "artifact"}
    /\ child = "failed" =>
           \/ ending = "no_effect" /\ record.failure = Rejected
           \/ ending = "partial" /\ record.failure.disposition = RemoteFailure
    /\ record.failure.disposition = RemoteFailure => child = "failed"

\* Every admitted operation is eventually ended, however often the daemon is
\* detached, refused or (boundedly) crashed.
EveryOperationEnds == <>Terminal

-----------------------------------------------------------------------------
\* The abstract promise this execution keeps.

RanOf ==
    CASE agent = "none" -> IF posts > 0 /\ ~request THEN "never" ELSE "no"
      [] agent = "active" -> "running"
      [] ending \in SuccessfulEnding -> "done"
      [] ending = "no_effect" -> "no_effect"
      [] OTHER -> "failed"

VerdictOf ==
    CASE record.lifecycle = "succeeded" -> "succeeded"
      [] record.lifecycle = "failed" ->
            CASE record.failure.disposition.effect = "non_execution"  -> "not_executed"
              [] record.failure.disposition.effect = "remote_failure" -> "failed"
              [] record.failure.disposition.effect = "remote_success" -> "unavailable"
              [] OTHER -> "unknown"
      [] OTHER -> IF ProvenHeld THEN "proven" ELSE "pending"

Promise == INSTANCE OperationPromise
               WITH sent <- posts > 0, ran <- RanOf, verdict <- VerdictOf

\* The execution implements the promise: every crash, retry and race of it is a
\* step the promise allows, or no step at all.
KeepsPromise == Promise!Spec

-----------------------------------------------------------------------------
\* Statements of the repository that the code does not keep.

\* scheduler.rs:146 "Cancellation and expiry are the second case; neither is an
\* ending."
DetachIsNotAnEnding ==
    [][(phase \in Awaiting /\ phase' = "releasing") => record'.lifecycle = record.lifecycle]_vars

\* docs/DAEMON.md: "a manual recovery hold requires an explicit resume".
HoldWaitsForResume ==
    [][record.recovery.manual => resumed]_record

\* docs/DAEMON.md: "Resuming makes a durable row eligible for the scheduler again".
ResumedRowIsEligible == (resumed /\ ~Terminal) => Eligible

\* remote_submission.rs:244 says an unknown or retryable handoff "must be settled
\* by asking the agent".
UnsettledHandoffIsLookedUp ==
    handoff \in {"unknown", "retry_after"} => ~Terminal
=============================================================================
