-------------------------------- MODULE Mesh ---------------------------------
(***************************************************************************)
(* The mesh and the network on chip: half-duplex links between pairs of    *)
(* interfaces, one for requests and one for data, and switches that        *)
(* forward what is not for them.                                           *)
(*                                                                         *)
(* One cycle: the links elect or deliver, one after the other (odd edge),  *)
(* the switches forward (even edge), and the controllers behind the other  *)
(* interfaces, which have clocks of their own, take some of what has       *)
(* arrived and send.  Cycle stamps are numbered by the cycles in which     *)
(* something was sent, which keeps their order.                            *)
(***************************************************************************)
EXTENDS Arbiters, FiniteSets, Functions

CONSTANTS
  Nets,       \* topologies to check: see Topology
  Latency,    \* m_request_latency and m_data_latency, by class
  MaxMsgs     \* bound: messages sent in a behaviour

Classes == {"request", "data"}

\* ids: component_ids then switch_ids; row: connection_matrix; a Mesh has no switch; links: one
\* per connected pair and class, in the order of the rows; max: buffers_max_size; traffic: bound,
\* what the controllers may send.
Topology == [ids : Seq(Nat), switches : SUBSET Nat, row : Seq(SUBSET Nat),
             links : Seq(Nat \X Nat \X Classes), arbiter : {"FCFS", "RR"}, max : Nat,
             traffic : SUBSET [from : Nat, tos : Seq(Nat), class : Classes, owner : Nat]]

Ids(t) == DOMAIN t.row
Ends(t) == Ids(t) \ t.switches
Pairs(t) == {p \in Ids(t) \X Ids(t) : p[2] \in t.row[p[1]]}

\* initializeLinks: the map of the topology is sorted, so id_a is the lower id.
Links(t) == {l \in Ids(t) \X Ids(t) \X Classes : l[1] < l[2] /\ l[2] \in t.row[l[1]]}

\* NoCInterface: a neighbour is reached directly, what a neighbouring switch reaches through
\* it.
Through(t, a, to) == {s \in t.row[a] \cap t.switches : to \in t.row[s] /\ to # a}
Route(t, a, to) == IF to \in t.row[a] THEN {to} ELSE Through(t, a, to)

\* A link of latency 1 would be ready again in its cycle of delivery.  pushMessage compares
\* buffers_max_size with the number of neighbours, and sends nothing when that is not below it.
\* Links end at a switch at most once, and switches have the higher ids (NoC.csv): see DeliverTo.
\* No interface has a second way to one of its neighbours, nor to another destination.
ASSUME MeshAssumption ==
  /\ \A c \in Classes : Latency[c] \in Nat /\ Latency[c] >= 2
  /\ MaxMsgs \in Nat
  /\ \A t \in Nets :
       /\ t \in Topology
       /\ IsInjective(t.ids) /\ Range(t.ids) = Ids(t)
       /\ IsInjective(t.links) /\ Range(t.links) = Links(t)
       /\ \A a \in Ids(t) : /\ t.row[a] \subseteq Ids(t) /\ Cardinality(t.row[a]) < t.max
                            /\ \A b \in t.row[a] : a \in t.row[b] /\ a # b
       /\ t.switches \subseteq Ids(t)
       /\ \A s \in t.switches : \A a \in t.row[s] :
            a \notin t.switches /\ a < s /\ t.row[a] \cap t.row[s] = {}
       /\ \A m \in t.traffic :
            /\ m.from \in Ends(t) /\ m.tos # <<>> /\ IsInjective(m.tos)
            /\ \A i \in DOMAIN m.tos : /\ m.tos[i] \in Ends(t) \ {m.from}
                                       /\ \E b \in Ids(t) : Route(t, m.from, m.tos[i]) = {b}

VARIABLES
  net,    \* the topology, fixed
  tx,     \* transmit buffers: tx[<<a, b>>][class], from a towards b
  rx,     \* receive buffers: rx[a][class]
  sel,    \* m_buffer_selector of every interface
  link,   \* links: the message on it, cycles until its delivery, the arbiter's index
  at,     \* where the cycle is
  turn,   \* the next link to step
  stamp,  \* cycle stamp of what is sent now
  sent,   \* history: messages sent
  got,    \* history: copies taken, by interface
  fault   \* once the program has exited, the destination that is unknown or full; else empty

vars == <<net, tx, rx, sel, link, at, turn, stamp, sent, got, fault>>

Idle == [msg |-> <<>>, left |-> 0, idx |-> 0]

Init ==
  /\ net \in Nets
  /\ tx = [p \in Pairs(net) |-> [c \in Classes |-> <<>>]]
  /\ rx = [a \in Ids(net) |-> [c \in Classes |-> <<>>]]
  /\ sel = [a \in Ids(net) |-> "none"]
  /\ link = [l \in Links(net) |-> Idle]
  /\ at = "nodes" /\ turn = 1 /\ stamp = 1 /\ sent = <<>>
  /\ got = [a \in Ids(net) |-> <<>>]
  /\ fault = {}

-----------------------------------------------------------------------------
(* Interfaces.                                                              *)

\* The positions in tos of what a sends towards b, and the k-th of them.
Towards(a, b, tos) == {i \in DOMAIN tos : b \in Route(net, a, tos[i])}
Nth(I, k) == CHOOSE i \in I : Cardinality({j \in I : j <= i}) = k

\* pushMessage, noc_pushMessage: a copy for every destination, into the buffer towards it; a
\* destination without a route gets none.
Push(buf, a, msg, tos) ==
  [p \in DOMAIN buf |->
     IF p[1] = a
     THEN LET I == Towards(a, p[2], tos)
          IN  [buf[p] EXCEPT ![msg.class] =
                 @ \o [k \in 1 .. Cardinality(I) |-> [msg EXCEPT !.to = tos[Nth(I, k)]]]]
     ELSE buf[p]]

\* peekMessage: the classes alternate while both have messages.
peekMessage(r, s) ==
  LET first(x) == IF r.request # <<>> /\ x # "request" THEN "request"
                  ELSE IF r.data # <<>> /\ x # "data" THEN "data" ELSE "none"
  IN  IF first(s) # "none" THEN first(s) ELSE first("none")

Peeked(a) == peekMessage(rx[a], sel[a])
Unread(S) == {a \in S : Peeked(a) # "none"}
First(a, S) == a \in S /\ \A b \in S : a <= b

\* peekMessage and popFrontMessage.
Pop(a) ==
  /\ rx' = [rx EXCEPT ![a][Peeked(a)] = Tail(@)]
  /\ sel' = [sel EXCEPT ![a] = Peeked(a)]

\* A controller sends a message to one or more others; owner is the core whose request it
\* serves.
Send(m) ==
  /\ at = "nodes" /\ Len(sent) < MaxMsgs
  /\ tx' = Push(tx, m.from, [n |-> Len(sent) + 1, from |-> m.from, to |-> m.from, class |-> m.class,
                            owner |-> m.owner, cycle |-> stamp], m.tos)
  /\ sent' = Append(sent, m)
  /\ UNCHANGED <<net, rx, sel, link, at, turn, stamp, got, fault>>

\* The next cycle begins.
NextCycle ==
  /\ at = "nodes"
  /\ stamp' = IF \E p \in DOMAIN tx, c \in Classes :
                   \E k \in DOMAIN tx[p][c] : tx[p][c][k].cycle = stamp
              THEN stamp + 1 ELSE stamp
  /\ at' = "links" /\ turn' = 1
  /\ UNCHANGED <<net, tx, rx, sel, link, sent, got, fault>>

\* A controller takes the message it peeks at, ...
Take ==
  /\ at = "nodes"
  /\ \E a \in Ends(net) :
       /\ Peeked(a) # "none"
       /\ Pop(a) /\ got' = [got EXCEPT ![a] = Append(@, Head(rx[a][Peeked(a)]))]
  /\ UNCHANGED <<net, tx, link, at, turn, stamp, sent, fault>>

\* ... or leaves it: only a demand, for which its processing queue has no room.  An empty
\* interface forgets which class it served last.
Leave ==
  /\ at = "nodes"
  /\ \E a \in Ends(net) :
       /\ Peeked(a) # "data"
       /\ sel' = [sel EXCEPT ![a] = Peeked(a)]
  /\ UNCHANGED <<net, tx, rx, link, at, turn, stamp, sent, got, fault>>

-----------------------------------------------------------------------------
(* The network.                                                             *)

\* A Mesh delivers to the destination; a NoC to the end of the link that did not send the
\* message first, whichever end put it on the link.
DeliverTo(t, l, msg) ==
  IF t.switches = {} THEN msg.to ELSE IF msg.from = l[1] THEN l[2] ELSE l[1]

\* The two ends of a link that transmit, in the order of the interfaces, and their buffers.
Precedes(t, a, b) == \E i, j \in DOMAIN t.ids : i < j /\ t.ids[i] = a /\ t.ids[j] = b
Enders(t, l) ==
  IF Precedes(t, l[1], l[2]) THEN <<<<l[1], l[2]>>, <<l[2], l[1]>>>> ELSE <<<<l[2], l[1]>>, <<l[1], l[2]>>>>
LinkBuffers(l) == [i \in 1 .. 2 |-> tx[Enders(net, l)[i]][l[3]]]

Candidates == LET Elects(x) == x \notin net.switches IN SelectSeq(net.ids, Elects)

\* Mutant of utilize: the link is busy for one cycle less.
UtilizeShort(c) == Latency[c] - 2

\* utilize: cycles from the election to the delivery.
utilize(c) == Latency[c] - 1

Elected(l) == elect(net.arbiter, LinkBuffers(l), Candidates, link[l].idx, TRUE)

\* Mutant of Without: the front message is erased, whichever was elected.
WithoutFirst(s, k) == Tail(s)

\* erase: what an election leaves of a buffer.
Without(s, k) == [j \in 1 .. (Len(s) - 1) |-> IF j < k THEN s[j] ELSE s[j + 1]]

\* isReady: a ready link elects a message, of either end, and is busy until it is delivered; ...
Idles(l) ==
  /\ link[l].left <= 0 /\ Elected(l).grant = {}
  /\ link' = [link EXCEPT ![l].idx = Elected(l).idx]
  /\ UNCHANGED <<tx, rx, fault>>

Starts(l) ==
  /\ link[l].left <= 0
  /\ \E g \in Elected(l).grant :
       LET p == Enders(net, l)[g[1]]
       IN  /\ tx' = [tx EXCEPT ![p][l[3]] = Without(@, g[2])]
           /\ link' = [link EXCEPT ![l] = [msg |-> <<tx[p][l[3]][g[2]]>>, left |-> utilize(l[3]),
                                          idx |-> Elected(l).idx]]
  /\ UNCHANGED <<rx, fault>>

Busy(l) ==
  /\ link[l].left > 1
  /\ link' = [link EXCEPT ![l].left = @ - 1]
  /\ UNCHANGED <<tx, rx, fault>>

\* ... send and pushMessage2RX: a link on its last cycle of use delivers, ...
Accepts(a, c) == a \in Ids(net) /\ Len(rx[a][c]) < net.max

Delivers(l) ==
  /\ link[l].left = 1
  /\ LET m == link[l].msg[1]
         a == DeliverTo(net, l, m)
     IN  Accepts(a, m.class) /\ rx' = [rx EXCEPT ![a][m.class] = Append(@, m)]
  /\ link' = [link EXCEPT ![l].left = 0, ![l].msg = <<>>]
  /\ UNCHANGED <<tx, fault>>

\* ... but an interface that does not exist, or whose buffer is full, ends the program.
Exits(l) ==
  /\ link[l].left = 1
  /\ LET m == link[l].msg[1]
         a == DeliverTo(net, l, m)
     IN  ~Accepts(a, m.class) /\ fault' = {a}
  /\ UNCHANGED <<tx, rx, link>>

\* The links, one after the other.
step ==
  /\ at = "links" /\ fault = {} /\ turn <= Len(net.links)
  /\ LET l == net.links[turn] IN Idles(l) \/ Starts(l) \/ Busy(l) \/ Delivers(l) \/ Exits(l)
  /\ turn' = turn + 1
  /\ UNCHANGED <<net, sel, at, stamp, sent, got>>

LinksDone ==
  /\ at = "links" /\ fault = {} /\ turn > Len(net.links)
  /\ at' = "switches"
  /\ UNCHANGED <<net, tx, rx, sel, link, turn, stamp, sent, got, fault>>

\* A switch moves a message from its receive buffer to the transmit buffer of its route, ...
forward ==
  /\ at = "switches"
  /\ \E s \in net.switches :
       /\ First(s, Unread(net.switches))
       /\ Pop(s)
       /\ LET m == Head(rx[s][Peeked(s)]) IN tx' = Push(tx, s, m, <<m.to>>)
  /\ UNCHANGED <<net, link, at, turn, stamp, sent, got, fault>>

\* ... until it has none left.
SwitchesDone ==
  /\ at = "switches" /\ Unread(net.switches) = {}
  /\ sel' = [a \in Ids(net) |-> IF a \in net.switches THEN "none" ELSE sel[a]]
  /\ at' = "nodes"
  /\ UNCHANGED <<net, tx, rx, link, turn, stamp, sent, got, fault>>

Clocked == NextCycle \/ step \/ LinksDone \/ forward \/ SwitchesDone

Next == (\E m \in net.traffic : Send(m)) \/ Take \/ Leave \/ Clocked

Spec == Init /\ [][Next]_vars

\* The clock runs the interconnect for ever, and the controllers, whose queues drain: what waits
\* at an interface again and again is taken.
FairSpec == Spec /\ WF_vars(Clocked) /\ SF_vars(Take)

-----------------------------------------------------------------------------
(* Properties.                                                              *)

\* Where the copies in flight are.
Places ==
  UNION ({{<<tx[p][c][k], "tx", p, k>> : k \in DOMAIN tx[p][c]} : p \in DOMAIN tx, c \in Classes}
         \cup {{<<link[l].msg[k], "link", l, k>> : k \in DOMAIN link[l].msg} : l \in DOMAIN link}
         \cup {{<<rx[a][c][k], "rx", a, k>> : k \in DOMAIN rx[a][c]} : a \in Ids(net), c \in Classes})
Copies(a) == {n \in DOMAIN sent : a \in Range(sent[n].tos)}
Taken(a) == {got[a][k].n : k \in DOMAIN got[a]}

\* The network neither loses nor duplicates a copy: what was sent to an interface and not
\* taken is in flight, once, on buffers, links and switches together.  No message ends the
\* program but at the full buffer of a controller that takes too little: a switch is emptied as
\* fast as its links fill it.
CopiesConserved ==
  LET owed == {o \in (DOMAIN sent) \X Ids(net) : o[1] \in Copies(o[2]) \ Taken(o[2])}
  IN  /\ fault \subseteq Ends(net)
      /\ \A a \in Ids(net) : Len(got[a]) = Cardinality(Taken(a)) /\ Taken(a) \subseteq Copies(a)
      /\ {<<x[1].n, x[1].to>> : x \in Places} = owed /\ Cardinality(Places) = Cardinality(owed)

\* What one interface sends to another arrives in order within a class, through a switch too:
\* under FCFS for all messages, under RR for those of one owner.  The directory protocol
\* relies on it.
PairOrder ==
  \A a \in Ids(net) : \A i, j \in DOMAIN got[a] :
    LET x == got[a][i] y == got[a][j] IN
    /\ i < j /\ x.from = y.from /\ x.class = y.class
    /\ net.arbiter = "FCFS" \/ x.owner = y.owner
    => x.n < y.n

\* The interconnect is an ordered network: whatever is taken is the oldest message of its flow,
\* sent to the taker and not taken before.
numbers == [a \in DOMAIN got |-> [k \in DOMAIN got[a] |-> got[a][k].n]]
perOwner == net.arbiter = "RR"
Net == INSTANCE OrderedNetwork WITH got <- numbers, Msg <- UNION {t.traffic : t \in Nets}
Implements == Net!NetSpec

\* Every message is taken in the end, unless a full buffer ends the program.
Delivered == []<>(Places = {} \/ fault # {})
=============================================================================
