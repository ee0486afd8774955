------------------------------ MODULE Arbiters ------------------------------
(***************************************************************************)
(* The bus arbiters of src/src/Arbiters.  An arbiter looks at the transmit *)
(* buffers of every interface (bufs, a function from interface position to *)
(* a sequence of messages that carry an owner and a cycle) and removes at  *)
(* most one message.                                                       *)
(*                                                                         *)
(* A decision is a record: grant is {} or {<<buffer, position>>}, and idx  *)
(* is candidate_index after the call.  Candidate number k (from 0) is the  *)
(* agent cand[k + 1].                                                      *)
(***************************************************************************)
EXTENDS Integers, Sequences

Kinds == {"FCFS", "RR", "TDM"}

\* Mutant of findMessage: the last message of the owner instead of the first.
findLastMessage(buf, owner) ==
  {k \in DOMAIN buf : /\ buf[k].owner = owner
                      /\ \A l \in (k + 1) .. Len(buf) : buf[l].owner # owner}

\* First position of a message of the given owner in one buffer: {} or {k}.
findMessage(buf, owner) ==
  {k \in DOMAIN buf : /\ buf[k].owner = owner
                      /\ \A l \in 1 .. (k - 1) : buf[l].owner # owner}

\* Among <<buffer, position>> pairs, the one with the least cycle stamp; the
\* scan is in buffer order with a strict comparison, so the first one wins ties.
Oldest(bufs, pairs) ==
  {p \in pairs : \A q \in pairs :
     \/ bufs[p[1]][p[2]].cycle < bufs[q[1]][q[2]].cycle
     \/ bufs[p[1]][p[2]].cycle = bufs[q[1]][q[2]].cycle /\ p[1] <= q[1]}

electOldestOwned(bufs, owner) ==
  Oldest(bufs, UNION {{<<i, k>> : k \in findMessage(bufs[i], owner)} : i \in DOMAIN bufs})

FCFSElect(bufs, idx) ==
  [grant |-> Oldest(bufs, {<<i, 1>> : i \in {j \in DOMAIN bufs : bufs[j] # <<>>}}),
   idx   |-> idx]

\* Mutant of Advance: the turn never passes on.
TurnKept(idx, d, n) == idx

\* The candidate reached from idx after d advances of candidate_index.
Advance(idx, d, n) == (idx + d) % n

\* Up to n candidates are tried, the index advancing before each try.
RRElect(bufs, cand, idx) ==
  LET n        == Len(cand)
      Owned(d) == electOldestOwned(bufs, cand[Advance(idx, d, n) + 1])
      tries    == {d \in 1 .. n : Owned(d) # {} /\ \A e \in 1 .. (d - 1) : Owned(e) = {}}
      made     == IF tries = {} THEN n ELSE CHOOSE d \in tries : TRUE
  IN  [grant |-> UNION {Owned(d) : d \in tries}, idx |-> Advance(idx, made, n)]

\* Only a call on a period boundary elects; it always advances the index.
TDMElect(bufs, cand, idx, aligned) ==
  LET next == Advance(idx, 1, Len(cand))
  IN  IF aligned THEN [grant |-> electOldestOwned(bufs, cand[next + 1]), idx |-> next]
                 ELSE [grant |-> {}, idx |-> idx]

elect(kind, bufs, cand, idx, aligned) ==
  IF kind = "FCFS" THEN FCFSElect(bufs, idx)
  ELSE IF kind = "RR" THEN RRElect(bufs, cand, idx)
  ELSE TDMElect(bufs, cand, idx, aligned)
=============================================================================
