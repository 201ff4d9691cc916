--------------------------- MODULE OperationRecord ---------------------------
(***************************************************************************)
(* The operation record of slingshot-domain/src/operation.rs: the closed    *)
(* vocabularies of lifecycle, evidence and terminal failure, and the fold   *)
(* that turns one recorded fact into the next record, or refuses it.        *)
(*                                                                          *)
(* Bounded texts (detail, metadata, progress) carry no decision and are     *)
(* left out, except that a progress note is compared with the last one.     *)
(* A fold the code refuses is the value Refused; a fold that changes        *)
(* nothing returns the record it was given, revision included.              *)
(***************************************************************************)
EXTENDS Integers

Lifecycle == {"queued", "submitting", "accepted", "running", "succeeded", "failed"}

IsTerminal(state) == state \in {"succeeded", "failed"}

\* OperationLifecycleState::may_become: forward only, one state at a time.
MayBecome(state, next) ==
    \/ ~IsTerminal(state) /\ IsTerminal(next)
    \/ <<state, next>> \in { <<"queued", "submitting">>,
                             <<"submitting", "accepted">>,
                             <<"accepted", "running">> }

Certainty == {"confirmed_not_executed", "submission_unknown", "remote_outcome_unknown"}

Unresolved == {"submission_unknown", "remote_outcome_unknown"}

\* RecoveryExecutionEvidence: a certainty, or proven success with none.
ProvenSuccess == "authoritative_remote_success"
Evidence == Certainty \cup {ProvenSuccess}

ProvenCategory == {"result_acquisition", "artifact_transfer", "persistent_capacity_unavailable"}

Category == ProvenCategory \cup
    {"ambiguous_submission", "event_reconnection", "operation_lookup", "job_snapshot_recovery"}

\* RecoveryCategory::admits.
Admits(category, evidence) == (category \in ProvenCategory) <=> (evidence = ProvenSuccess)

FailureKind == {"rejected", "remote_failed", "result_unavailable", "recovery_window_expired",
                "remote_state_lost", "integrity_failure", "retry_policy_exhausted"}

\* TerminalFailureDisposition: the two shapes with a certainty field carry one
\* of Certainty, the two without carry NoCertainty.
NoCertainty == "none"

NonExecution(certainty)  == [effect |-> "non_execution", certainty |-> certainty]
FailClosed(certainty)    == [effect |-> "indeterminate", certainty |-> certainty]
RemoteFailure == [effect |-> "remote_failure", certainty |-> NoCertainty]
RemoteSuccess == [effect |-> "remote_success", certainty |-> NoCertainty]

Disposition ==
    { NonExecution(c) : c \in Certainty } \cup { FailClosed(c) : c \in Certainty }
        \cup {RemoteFailure, RemoteSuccess}

\* TerminalFailureDisposition::is_consistent.
IsConsistent(disposition) ==
    /\ disposition.effect = "non_execution" => disposition.certainty = "confirmed_not_executed"
    /\ disposition.effect = "indeterminate" => disposition.certainty \in Unresolved

\* The effects terminal_pairing_is_legal lets each kind assert.
AllowedEffects(kind) ==
    CASE kind = "rejected"               -> {"non_execution"}
      [] kind = "remote_failed"          -> {"remote_failure"}
      [] kind = "result_unavailable"     -> {"remote_success"}
      [] kind = "retry_policy_exhausted" -> {"non_execution", "indeterminate"}
      [] OTHER                           -> {"indeterminate"}

TerminalPairingIsLegal(kind, disposition) ==
    IsConsistent(disposition) /\ disposition.effect \in AllowedEffects(kind)

Failure(kind, disposition) == [kind |-> kind, disposition |-> disposition]
TerminalFailure == [kind : FailureKind, disposition : Disposition]

\* One outstanding recovery. "observed" is the instant it was measured at:
\* two recoveries that agree on everything else still differ in it.
Recovery(category, evidence, attempt, manual, observed) ==
    [category |-> category, evidence |-> evidence, attempt |-> attempt,
     manual |-> manual, observed |-> observed]

RecoveryFact == [category : Category, evidence : Evidence, attempt : Nat,
                 manual : BOOLEAN, observed : Nat]

NoRecovery == [category |-> "none", evidence |-> "none", attempt |-> 0,
               manual |-> FALSE, observed |-> 0]
NoFailure  == [kind |-> "none", disposition |-> [effect |-> "none", certainty |-> NoCertainty]]
NoProgress == 0   \* a progress note is only ever compared: a number stands for it

Record == [lifecycle : Lifecycle, revision : Nat,
           recovery : RecoveryFact \cup {NoRecovery},
           failure : TerminalFailure \cup {NoFailure},
           progress : Nat]

\* OperationRecord::admitted.
Admitted == [lifecycle |-> "queued", revision |-> 1, recovery |-> NoRecovery,
             failure |-> NoFailure, progress |-> NoProgress]

Refused == [refused |-> TRUE]

\* One fact: its constructor name and the value it carries.
LifecycleFact(state)  == [fact |-> "lifecycle", value |-> state]
ProgressFact(detail)  == [fact |-> "progress",  value |-> detail]
RecoveryOf(recovery)  == [fact |-> "recovery",  value |-> recovery]
TerminalOf(failure)   == [fact |-> "terminal",  value |-> failure]

\* The facts apply is offered.  Success is not one of them: it is settled with
\* its result, never applied as a bare lifecycle state.
IsFact(f) ==
    \/ f.fact = "lifecycle" /\ f.value \in Lifecycle \ {"succeeded", "failed"}
    \/ f.fact = "progress"  /\ f.value \in Nat
    \/ f.fact = "recovery"  /\ f.value \in RecoveryFact
    \/ f.fact = "terminal"  /\ f.value \in TerminalFailure

FoldLifecycle(record, next) ==
    IF record.lifecycle = next THEN record
    ELSE IF MayBecome(record.lifecycle, next)
         THEN [record EXCEPT !.lifecycle = next, !.revision = @ + 1]
         ELSE Refused

FoldProgress(record, detail) ==
    IF IsTerminal(record.lifecycle) \/ record.progress = detail THEN record
    ELSE [record EXCEPT !.progress = detail, !.revision = @ + 1]

\* Slip: a recovery is replaced without taking the revision with it.
FoldRecoverySilently(record, recovery) ==
    IF IsTerminal(record.lifecycle) \/ ~Admits(recovery.category, recovery.evidence)
    THEN Refused
    ELSE [record EXCEPT !.recovery = recovery,
                        !.revision = IF record.recovery = NoRecovery THEN @ + 1 ELSE @]

FoldRecovery(record, recovery) ==
    IF IsTerminal(record.lifecycle) \/ ~Admits(recovery.category, recovery.evidence)
    THEN Refused
    ELSE IF record.recovery = recovery THEN record
         ELSE [record EXCEPT !.recovery = recovery, !.revision = @ + 1]

\* Slip: a late failure overrides whatever ending the row already has.
FoldTerminalAlways(record, failure) ==
    IF ~TerminalPairingIsLegal(failure.kind, failure.disposition) THEN Refused
    ELSE [record EXCEPT !.lifecycle = "failed", !.recovery = NoRecovery,
                        !.failure = failure, !.revision = @ + 1]

FoldTerminal(record, failure) ==
    IF ~TerminalPairingIsLegal(failure.kind, failure.disposition) THEN Refused
    ELSE IF record.failure = failure THEN record
    ELSE IF record.failure # NoFailure \/ IsTerminal(record.lifecycle) THEN Refused
    ELSE [record EXCEPT !.lifecycle = "failed", !.recovery = NoRecovery,
                        !.failure = failure, !.revision = @ + 1]

\* OperationRecord::fold.
Fold(record, fact) ==
    CASE fact.fact = "lifecycle" -> FoldLifecycle(record, fact.value)
      [] fact.fact = "progress"  -> FoldProgress(record, fact.value)
      [] fact.fact = "recovery"  -> FoldRecovery(record, fact.value)
      [] fact.fact = "terminal"  -> FoldTerminal(record, fact.value)

(***************************************************************************)
(* Shape of a record the ledger may hold: an ending is a failure exactly    *)
(* when the lifecycle says so, no recovery outlives an ending, a recovery   *)
(* carries the evidence its category admits and a failure a legal pairing.  *)
(***************************************************************************)
WellFormed(record) ==
    /\ (record.lifecycle = "failed") <=> (record.failure # NoFailure)
    /\ record.failure # NoFailure =>
          TerminalPairingIsLegal(record.failure.kind, record.failure.disposition)
    /\ record.recovery # NoRecovery =>
          /\ ~IsTerminal(record.lifecycle)
          /\ Admits(record.recovery.category, record.recovery.evidence)
=============================================================================
