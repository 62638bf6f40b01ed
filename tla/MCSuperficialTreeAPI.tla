-------------------------- MODULE MCSuperficialTreeAPI --------------------------
(* Model for TLC: one empty value and two hashes, four slots. *)
EXTENDS SuperficialTreeAPI

MCHash == 0..2
=============================================================================
