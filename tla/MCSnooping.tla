----------------------------- MODULE MCSnooping -----------------------------
(* Snooping for TLC. *)
EXTENDS Snooping

\* The MSHRs of one L1 fill up once, or those of no agent.
FirstL1Full == [a \in 1 .. NCores + 1 |-> IF a = 1 THEN 1 ELSE 0]
NoneFull == [a \in 1 .. NCores + 1 |-> 0]
=============================================================================
