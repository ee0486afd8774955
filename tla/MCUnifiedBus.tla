---------------------------- MODULE MCUnifiedBus ----------------------------
(* UnifiedBus for TLC: an LLC and two L1s. *)
EXTENDS UnifiedBus
=============================================================================
