---------------------------- MODULE MCMemoryPath -----------------------------
(* MemoryPath for TLC. *)
EXTENDS MemoryPath
=============================================================================
