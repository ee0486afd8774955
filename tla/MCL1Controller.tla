--------------------------- MODULE MCL1Controller ---------------------------
(* L1Controller for TLC: the lines of a set are interchangeable. *)
EXTENDS L1Controller, TLC

Symmetry == Permutations(Lines)
=============================================================================
