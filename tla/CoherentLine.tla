---------------------------- MODULE CoherentLine ----------------------------
(***************************************************************************)
(* What a coherence protocol promises about one cache line, whatever its   *)
(* messages: a core may use the line while it has permission, permission   *)
(* to write excludes every other core, and permission is gained only as    *)
(* the answer to a request the core has made.                              *)
(***************************************************************************)
CONSTANT Core

VARIABLES
  perm,   \* what each core may do with its copy: "none", "read" or "write"
  want    \* the cores whose request is not answered yet

absVars == <<perm, want>>

Perms == {"none", "read", "write"}

\* c may hold permission p beside what the others hold.
Allowed(c, p) ==
  /\ p = "write" => \A d \in Core \ {c} : perm[d] = "none"
  /\ p = "read"  => \A d \in Core \ {c} : perm[d] # "write"

Weaker(p, q) == p = "none" \/ p = q \/ (p = "read" /\ q = "write")

AbsInit == perm = [c \in Core |-> "none"] /\ want = {}

\* A core asks; the copy it wants to upgrade may be out of use until the answer.
Ask(c) ==
  /\ c \notin want /\ want' = want \cup {c}
  /\ \E p \in Perms : Weaker(p, perm[c]) /\ perm' = [perm EXCEPT ![c] = p]

\* Its request is answered, with a permission that is right at that moment, or with
\* none when the copy was recalled before the answer came.
Serve(c) ==
  /\ c \in want
  /\ want' = want \ {c}
  /\ \E p \in Perms : Allowed(c, p) /\ perm' = [perm EXCEPT ![c] = p]

\* The copy is recalled, downgraded or evicted.
Lose(c) ==
  /\ \E p \in Perms : Weaker(p, perm[c]) /\ perm' = [perm EXCEPT ![c] = p]
  /\ UNCHANGED want

AbsNext == \E c \in Core : Ask(c) \/ Serve(c) \/ Lose(c)
AbsSpec == AbsInit /\ [][AbsNext]_absVars

\* Single writer or many readers.
SingleWriter == \A c \in Core : Allowed(c, perm[c])
=============================================================================
