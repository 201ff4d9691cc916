------------------------ MODULE MCTargetInstallation ------------------------
(* TargetInstallation with three targets that start, die and are started   *)
(* again in any order; targets are interchangeable and only safety is      *)
(* checked.                                                                *)
EXTENDS TargetInstallation, TLC

MCSymmetry == Permutations(Targets)
=============================================================================
