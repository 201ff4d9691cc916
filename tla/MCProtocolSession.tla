------------------------- MODULE MCProtocolSession -------------------------
(***************************************************************************)
(* An instance of ProtocolSession for TLC: one worker, so that a second      *)
(* call is refused; room for three lines, so that intake meets pressure; and  *)
(* two active requests, so that a third is refused.                           *)
(***************************************************************************)
EXTENDS ProtocolSession
=============================================================================
