------------------------- MODULE MCAgentSubscription -------------------------
(* AgentSubscription with two jobs whose events interleave on one stream   *)
(* that crosses a power of ten.  Jobs are interchangeable and only safety  *)
(* is checked.                                                             *)
EXTENDS AgentSubscription, TLC

MCSymmetry == Permutations(Jobs)
=============================================================================
