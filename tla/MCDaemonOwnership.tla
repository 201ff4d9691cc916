-------------------------- MODULE MCDaemonOwnership --------------------------
(* DaemonOwnership with two daemon processes and two starting clients    *)
(* under two runtime roots that share one state root.  Processes and roots *)
(* are interchangeable and only safety is checked.                         *)
EXTENDS DaemonOwnership, TLC

MCSymmetry == Permutations(Daemons) \cup Permutations(Starters)
                \cup Permutations(Roots)
=============================================================================
