-------------------------- MODULE MCOperationWait --------------------------
(* Two waiters on one operation, with queues short enough to overflow. *)
EXTENDS OperationWait
=============================================================================
