---------------------------- MODULE MCGem5Bridge -----------------------------
(* Gem5Bridge for TLC: accesses that overlap in part, and a device access. *)
EXTENDS Gem5Bridge

Access(op, bytes) == [op |-> op, bytes |-> bytes]
SomeShapes ==
  {Access("read", {1}), Access("write", {1}), Access("write", {1, 2}), Access("device", {3})}
=============================================================================
