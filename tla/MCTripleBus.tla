---------------------------- MODULE MCTripleBus -----------------------------
(* TripleBus for TLC: an LLC and two L1s. *)
EXTENDS TripleBus
=============================================================================
