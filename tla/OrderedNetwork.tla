--------------------------- MODULE OrderedNetwork ----------------------------
(***************************************************************************)
(* What an interconnect promises the controllers on it, whatever its links *)
(* and switches: a message is taken by each of its destinations, once, and *)
(* the messages of one flow in the order in which they were sent.          *)
(***************************************************************************)
EXTENDS Integers, Sequences, Functions

CONSTANT Msg  \* the messages, each with its sender, destinations, class and owner

VARIABLES
  perOwner,  \* whether the order is promised for each owner apart, fixed
  sent,      \* the messages sent
  got        \* for every destination, the numbers of the messages it took, in order

netVars == <<perOwner, sent, got>>

\* The messages whose order is kept.
SameFlow(m, o) ==
  /\ m.from = o.from /\ m.class = o.class
  /\ perOwner => m.owner = o.owner

\* The messages for a that a has not taken.
Outstanding(a) == {n \in DOMAIN sent : a \in Range(sent[n].tos)} \ Range(got[a])

NetInit ==
  /\ perOwner \in BOOLEAN
  /\ sent = <<>>
  /\ \A a \in DOMAIN got : got[a] = <<>>

\* Somebody sends.
Post ==
  /\ \E m \in Msg : sent' = Append(sent, m)
  /\ UNCHANGED <<perOwner, got>>

\* a takes the oldest message of a flow.
Receive(a) ==
  \E n \in Outstanding(a) :
    /\ \A o \in Outstanding(a) : SameFlow(sent[n], sent[o]) => n <= o
    /\ got' = [got EXCEPT ![a] = Append(@, n)]
    /\ UNCHANGED <<perOwner, sent>>

NetNext == Post \/ \E a \in DOMAIN got : Receive(a)
NetSpec == NetInit /\ [][NetNext]_netVars

\* Nothing is taken twice, and what is taken of one flow is taken in order.
InOrder ==
  \A a \in DOMAIN got : \A i, j \in DOMAIN got[a] :
    i < j /\ SameFlow(sent[got[a][i]], sent[got[a][j]]) => got[a][i] < got[a][j]
=============================================================================
