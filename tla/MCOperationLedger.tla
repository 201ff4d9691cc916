-------------------------- MODULE MCOperationLedger --------------------------
(* A small instance of OperationLedger: two writers and the facts the daemon  *)
(* really offers, with one illegal pairing and one inadmissible evidence.     *)
EXTENDS OperationLedger

MCFacts ==
    { LifecycleFact("submitting"), LifecycleFact("accepted"), ProgressFact(1),
      RecoveryOf(Recovery("operation_lookup", "remote_outcome_unknown", 1, FALSE, 1)),
      RecoveryOf(Recovery("persistent_capacity_unavailable", ProvenSuccess, 1, TRUE, 1)),
      RecoveryOf(Recovery("persistent_capacity_unavailable", ProvenSuccess, 2, TRUE, 2)),
      RecoveryOf(Recovery("result_acquisition", ProvenSuccess, 2, TRUE, 1)),
      RecoveryOf(Recovery("operation_lookup", ProvenSuccess, 1, FALSE, 1)),
      TerminalOf(Failure("retry_policy_exhausted", FailClosed("submission_unknown"))),
      TerminalOf(Failure("result_unavailable", RemoteSuccess)),
      TerminalOf(Failure("recovery_window_expired", RemoteSuccess)) }
=============================================================================
