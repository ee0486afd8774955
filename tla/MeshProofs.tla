----------------------------- MODULE MeshProofs ------------------------------
(***************************************************************************)
(* The mesh, for every topology that MeshAssumption admits and every       *)
(* latency and number of messages: it loses and duplicates nothing,        *)
(* overflows no buffer of a switch, keeps the order of every flow, and     *)
(* implements an ordered network.                                          *)
(*                                                                         *)
(* The argument.  Every queue of the model is a spot: a transmit buffer, a *)
(* link, a receive buffer, or what a controller took.  A copy's spot       *)
(* determines how far it has come, its level: a route has one interface to *)
(* a side, so the copies of a flow at one level are at one spot.  Every    *)
(* step that moves a copy moves it one level up, from a spot where it is   *)
(* the first of its flow, to the end of another; so what is in front was   *)
(* sent before (Ordered), and what was sent is somewhere (Covered).  That  *)
(* no switch overflows needs the alternation of links and switches: a      *)
(* receive buffer of a switch holds no more than one message for every     *)
(* link stepped since it was emptied (Room).                               *)
(*                                                                         *)
(* The last two parts are about the promises of the abstract               *)
(* specifications: OrderedNetwork, which the mesh implements, and          *)
(* CoherentLine, which the directory protocol over it does.                *)
(***************************************************************************)
EXTENDS Mesh, CoherentLine, BufferLemmas

\* A copy of a message, as pushMessage makes one for each destination.
Copy == [n : Nat, from : Nat, to : Nat, class : Classes, owner : Nat, cycle : Int]

\* Everywhere a copy can be: a transmit buffer, a link, a receive buffer, or taken.
Spots(t) ==
  ({"tx"} \X Pairs(t) \X Classes) \cup {<<"link", l, l[3]>> : l \in Links(t)}
  \cup ({"rx"} \X Ids(t) \X Classes) \cup ({"got"} \X Ids(t) \X {"all"})

\* The copies there, in their order.
QueuesOf(t, x, l, r, g) ==
  [s \in Spots(t) |->
     CASE s[1] = "tx"   -> x[s[2]][s[3]]
       [] s[1] = "link" -> l[s[2]].msg
       [] s[1] = "rx"   -> r[s[2]][s[3]]
       [] s[1] = "got"  -> g[s[2]]]
Queues == QueuesOf(net, tx, link, rx, got)

\* m goes from a to b, neighbours: from its sender, or from the switch on its way.
Hop(t, m, a, b) ==
  \/ a = m.from /\ b \in Route(t, m.from, m.to)
  \/ a \in t.switches \cap Route(t, m.from, m.to) /\ b = m.to

\* m may be at s.
May(t, s, m) ==
  CASE s[1] = "tx"   -> Hop(t, m, s[2][1], s[2][2]) /\ s[3] = m.class
    [] s[1] = "link" -> /\ Hop(t, m, s[2][1], s[2][2]) \/ Hop(t, m, s[2][2], s[2][1])
                        /\ s[3] = m.class
    [] s[1] = "rx"   -> s[2] \in {m.to} \cup (t.switches \cap Route(t, m.from, m.to)) /\ s[3] = m.class
    [] s[1] = "got"  -> s[2] = m.to

\* How far m has come at s.
Level(s, m) ==
  CASE s[1] = "tx"   -> IF s[2][2] = m.to THEN 4 ELSE 1
    [] s[1] = "link" -> IF m.to \in {s[2][1], s[2][2]} THEN 5 ELSE 2
    [] s[1] = "rx"   -> IF s[2] = m.to THEN 6 ELSE 3
    [] s[1] = "got"  -> 7

\* A copy carries what was sent.
Sound(t, h, m) ==
  /\ m.n \in DOMAIN h /\ m.to \in Range(h[m.n].tos)
  /\ m.from = h[m.n].from /\ m.class = h[m.n].class /\ m.owner = h[m.n].owner

\* Two copies of a flow: their order is kept.
Together(t, x, y) ==
  /\ x.from = y.from /\ x.to = y.to /\ x.class = y.class
  /\ t.arbiter = "FCFS" \/ x.owner = y.owner

\* Every copy carries what was sent and is on its way.
Placed(t, h, Q) ==
  /\ Q \in [Spots(t) -> Seq(Copy)]
  /\ \A s \in Spots(t) : \A i \in DOMAIN Q[s] : Sound(t, h, Q[s][i]) /\ May(t, s, Q[s][i])

\* The i-th copy at s is ahead of the j-th at u.
InFront(Q, s, i, u, j) ==
  \/ Level(s, Q[s][i]) > Level(u, Q[u][j])
  \/ s = u /\ i < j

\* Of a flow, what is ahead was sent before.
Ordered(t, Q) ==
  \A s, u \in Spots(t) : \A i \in DOMAIN Q[s], j \in DOMAIN Q[u] :
    Together(t, Q[s][i], Q[u][j]) /\ InFront(Q, s, i, u, j) => Q[s][i].n < Q[u][j].n

\* Nothing is lost: for every message sent there is a copy for each destination.
Covered(t, h, Q) ==
  \A n \in DOMAIN h : \A a \in Range(h[n].tos) :
    \E s \in Spots(t) : \E i \in DOMAIN Q[s] : Q[s][i].n = n /\ Q[s][i].to = a

\* The links stepped this cycle that can deliver a message of class c to a.
Fed(t, a, c, k) == {j \in 1 .. (k - 1) : t.links[j][3] = c /\ a \in {t.links[j][1], t.links[j][2]}}

\* What the variables hold; a link is busy exactly while a message is on it.
Shape ==
  /\ net \in Nets /\ sent \in Seq(net.traffic)
  /\ tx \in [Pairs(net) -> [Classes -> Seq(Copy)]]
  /\ rx \in [Ids(net) -> [Classes -> Seq(Copy)]]
  /\ got \in [Ids(net) -> Seq(Copy)]
  /\ DOMAIN link = Links(net)
  /\ \A l \in Links(net) :
       /\ DOMAIN link[l] = {"msg", "left", "idx"}
       /\ link[l].msg \in Seq(Copy) /\ Len(link[l].msg) <= 1
       /\ link[l].left \in Nat /\ (link[l].left = 0 <=> link[l].msg = <<>>)
  /\ at \in {"nodes", "links", "switches"}
  /\ turn \in 1 .. (Len(net.links) + 1) /\ stamp \in Int

\* The receive buffers of the switches are empty when the cycle begins, hold at most one message
\* for every link stepped since, and are emptied: none overflows.
Room ==
  /\ at = "nodes" => \A a \in net.switches, c \in Classes : rx[a][c] = <<>>
  /\ at = "links" => \A a \in net.switches, c \in Classes :
                       Len(rx[a][c]) <= Cardinality(Fed(net, a, c, turn))
  /\ fault \in SUBSET Ends(net)

\* Every copy where it may be, the flows in order, and no copy lost.
FlowInv == Placed(net, sent, Queues) /\ Ordered(net, Queues) /\ Covered(net, sent, Queues)

\* The inductive invariant.
MeshInv == Shape /\ Room /\ FlowInv
-----------------------------------------------------------------------------
(* Routes and places.                                                       *)

\* The parts of a topology.
LEMMA TopologyParts ==
  ASSUME NEW t \in Nets
  PROVE  /\ t.ids \in Seq(Nat) /\ t.switches \in SUBSET Nat /\ t.row \in Seq(SUBSET Nat)
         /\ t.links \in Seq(Nat \X Nat \X Classes) /\ t.arbiter \in {"FCFS", "RR"} /\ t.max \in Nat
         /\ t.traffic \in SUBSET [from : Nat, tos : Seq(Nat), class : Classes, owner : Nat]
         /\ Ids(t) \in SUBSET Nat
<1>1. t \in Topology
  BY MeshAssumption
<1> QED  BY <1>1, LenProperties DEF Topology, Ids

\* Neighbours are neighbours of one another, and others.
LEMMA Neighbours ==
  ASSUME NEW t \in Nets, NEW a \in Ids(t), NEW b \in t.row[a]
  PROVE  b \in Ids(t) /\ a \in t.row[b] /\ a # b
BY MeshAssumption DEF Ids

\* A switch has no switch beside it, and the greater id.
LEMMA SwitchEnds ==
  ASSUME NEW t \in Nets, NEW s \in t.switches
  PROVE  s \in Ids(t) /\ \A a \in t.row[s] : a \notin t.switches /\ a < s
BY MeshAssumption

\* A message is sent to others than its sender, and has one way to each.
LEMMA TrafficRoute ==
  ASSUME NEW t \in Nets, NEW m \in t.traffic
  PROVE  /\ m.from \in Ends(t) /\ IsInjective(m.tos) /\ m.tos \in Seq(Nat)
         /\ m.class \in Classes /\ m.owner \in Nat /\ m.from \in Nat
         /\ \A to \in Range(m.tos) : /\ to \in Ends(t) /\ to # m.from
                                     /\ \E b \in Ids(t) : Route(t, m.from, to) = {b}
<1>1. m \in [from : Nat, tos : Seq(Nat), class : Classes, owner : Nat]
  BY TopologyParts
<1>2. \A to \in Range(m.tos) : \E i \in DOMAIN m.tos : to = m.tos[i]
  BY DEF Range
<1>3. /\ m.from \in Ends(t) /\ IsInjective(m.tos)
      /\ \A i \in DOMAIN m.tos : /\ m.tos[i] \in Ends(t) \ {m.from}
                                 /\ \E b \in Ids(t) : Route(t, m.from, m.tos[i]) = {b}
  BY MeshAssumption, Zenon
<1>4. ASSUME NEW to \in Range(m.tos)
      PROVE  to \in Ends(t) /\ to # m.from /\ \E b \in Ids(t) : Route(t, m.from, to) = {b}
  BY <1>2, <1>3, <1>4
<1>5. m.tos \in Seq(Nat) /\ m.class \in Classes /\ m.owner \in Nat /\ m.from \in Nat
  BY <1>1
<1> QED  BY <1>3, <1>4, <1>5

\* The way of a copy: to a neighbour, or through one switch.
Ways(t, m) ==
  /\ m.from \in Ids(t) \ t.switches /\ m.to \in Ids(t) \ t.switches /\ m.from # m.to
  /\ \E b \in Ids(t) : Route(t, m.from, m.to) = {b}

\* A copy of what was sent goes from a controller to another, by one route.
LEMMA SoundWays ==
  ASSUME NEW t \in Nets, NEW h \in Seq(t.traffic), NEW m, Sound(t, h, m)
  PROVE  Ways(t, m)
<1>1. h[m.n] \in t.traffic
  BY ElementOfSeq, LenProperties DEF Sound
<1> DEFINE q == h[m.n]
<1>2. /\ q.from \in Ends(t)
      /\ \A to \in Range(q.tos) : /\ to \in Ends(t) /\ to # q.from
                                  /\ \E b \in Ids(t) : Route(t, q.from, to) = {b}
  BY <1>1, TrafficRoute
<1>3. m.from = q.from /\ m.to \in Range(q.tos)
  BY DEF Sound
<1> HIDE DEF q
<1> QED  BY <1>2, <1>3 DEF Ways, Ends

\* A hop joins neighbours, starts elsewhere than at the destination, and ends there or at a
\* switch on the way.
LEMMA HopEnds ==
  ASSUME NEW t \in Nets, NEW m, Ways(t, m), NEW a, NEW b, Hop(t, m, a, b)
  PROVE  /\ a \in Ids(t) /\ b \in t.row[a] /\ b \in Ids(t) /\ a \in t.row[b] /\ a # b /\ a # m.to
         /\ b = m.to \/ b \in t.switches \cap Route(t, m.from, m.to)
         /\ b = m.to \/ a = m.from
<1>1. m.from \in Ids(t) /\ m.to \in Ids(t) /\ m.from # m.to /\ m.to \notin t.switches
  BY DEF Ways
<1>2. CASE a = m.from /\ b \in Route(t, m.from, m.to)
  <2>1. b \in t.row[a] /\ (b = m.to \/ b \in t.switches)
    BY <1>2 DEF Route, Through
  <2> QED  BY <1>1, <1>2, <2>1, Neighbours
<1>3. CASE a \in t.switches \cap Route(t, m.from, m.to) /\ b = m.to
  <2>1. a \in t.switches /\ m.to \in t.row[a]
    BY <1>1, <1>3 DEF Route, Through
  <2>2. a \in Ids(t)
    BY <2>1, SwitchEnds
  <2> QED  BY <1>1, <1>3, <2>1, <2>2, Neighbours
<1> QED  BY <1>2, <1>3 DEF Hop

\* The hops of two copies with one way: those to the destination start at one place, those to
\* a switch are the same.
LEMMA HopOne ==
  ASSUME NEW t \in Nets, NEW x, NEW y, Ways(t, x), x.from = y.from, x.to = y.to,
         NEW a, NEW b, NEW c, NEW d, Hop(t, x, a, b), Hop(t, y, c, d), b = x.to <=> d = x.to
  PROVE  a = c /\ b = d
<1>1. Ways(t, y) /\ x.from \notin t.switches /\ x.to \notin t.switches
  BY DEF Ways
<1>2. PICK v : Route(t, x.from, x.to) = {v}
  BY DEF Ways
<1>3. \A e, f \in Route(t, x.from, x.to) : e = f
  BY <1>2
<1>4. CASE b = x.to
  <2>1. CASE b \in Route(t, x.from, x.to)
    <3>1. Route(t, x.from, x.to) \cap t.switches = {}
      BY <1>1, <1>3, <1>4, <2>1
    <3> QED  BY <1>4, <3>1 DEF Hop
  <2>2. CASE b \notin Route(t, x.from, x.to)
    BY <1>3, <1>4, <2>2 DEF Hop
  <2> QED  BY <2>1, <2>2
<1>5. CASE b # x.to
  BY <1>3, <1>5 DEF Hop
<1> QED  BY <1>4, <1>5

\* The four kinds of spots, what they hold and how far along they are.
LEMMA SpotKinds ==
  ASSUME NEW t, NEW s \in Spots(t)
  PROVE  /\ s = <<s[1], s[2], s[3]>> /\ s[1] \in {"tx", "link", "rx", "got"}
         /\ s[1] = "tx" => s[2] \in Pairs(t) /\ s[3] \in Classes
         /\ s[1] = "link" => s[2] \in Links(t) /\ s[3] = s[2][3]
         /\ s[1] = "rx" => s[2] \in Ids(t) /\ s[3] \in Classes
         /\ s[1] = "got" => s[2] \in Ids(t) /\ s[3] = "all"
<1>1. CASE s \in {"tx"} \X Pairs(t) \X Classes
  BY <1>1
<1>2. CASE s \in {<<"link", l, l[3]>> : l \in Links(t)}
  BY <1>2
<1>3. CASE s \in {"rx"} \X Ids(t) \X Classes
  BY <1>3
<1>4. CASE s \in {"got"} \X Ids(t) \X {"all"}
  BY <1>4
<1> QED  BY <1>1, <1>2, <1>3, <1>4 DEF Spots

\* Levels and places by the kind of the spot: transmit buffers, ...
LEMMA SpotTx ==
  ASSUME NEW t, NEW s, NEW m, s[1] = "tx"
  PROVE  /\ Level(s, m) \in {1, 4} /\ (Level(s, m) = 4 <=> s[2][2] = m.to)
         /\ May(t, s, m) <=> Hop(t, m, s[2][1], s[2][2]) /\ s[3] = m.class
BY DEF Level, May

\* ... links, ...
LEMMA SpotLink ==
  ASSUME NEW t, NEW s, NEW m, s[1] = "link"
  PROVE  /\ Level(s, m) \in {2, 5} /\ (Level(s, m) = 5 <=> m.to \in {s[2][1], s[2][2]})
         /\ May(t, s, m) <=> /\ Hop(t, m, s[2][1], s[2][2]) \/ Hop(t, m, s[2][2], s[2][1])
                             /\ s[3] = m.class
BY DEF Level, May

\* ... receive buffers, ...
LEMMA SpotRx ==
  ASSUME NEW t, NEW s, NEW m, s[1] = "rx"
  PROVE  /\ Level(s, m) \in {3, 6} /\ (Level(s, m) = 6 <=> s[2] = m.to)
         /\ May(t, s, m) <=> /\ s[2] = m.to \/ s[2] \in t.switches \cap Route(t, m.from, m.to)
                             /\ s[3] = m.class
BY DEF Level, May

\* ... and what was taken.
LEMMA SpotGot ==
  ASSUME NEW t, NEW s, NEW m, s[1] = "got"
  PROVE  Level(s, m) = 7 /\ (May(t, s, m) <=> s[2] = m.to)
BY DEF Level, May

\* Levels are numbers, and depend on the destination only.
LEMMA LevelNumber ==
  ASSUME NEW t, NEW s \in Spots(t), NEW x, NEW y, x.to = y.to
  PROVE  Level(s, x) \in 1 .. 7 /\ Level(s, x) = Level(s, y)
<1>1. CASE s[1] = "tx"
  BY <1>1, SpotTx
<1>2. CASE s[1] = "link"
  BY <1>2, SpotLink
<1>3. CASE s[1] = "rx"
  BY <1>3, SpotRx
<1>4. CASE s[1] = "got"
  BY <1>4, SpotGot
<1> QED  BY <1>1, <1>2, <1>3, <1>4, SpotKinds

\* The level tells the kind of spot.
LEMMA LevelKind ==
  ASSUME NEW t, NEW s \in Spots(t), NEW x
  PROVE  /\ s[1] = "tx" <=> Level(s, x) \in {1, 4}
         /\ s[1] = "link" <=> Level(s, x) \in {2, 5}
         /\ s[1] = "rx" <=> Level(s, x) \in {3, 6}
         /\ s[1] = "got" <=> Level(s, x) = 7
<1>1. CASE s[1] = "tx"
  BY <1>1, SpotTx
<1>2. CASE s[1] = "link"
  BY <1>2, SpotLink
<1>3. CASE s[1] = "rx"
  BY <1>3, SpotRx
<1>4. CASE s[1] = "got"
  BY <1>4, SpotGot
<1> QED  BY <1>1, <1>2, <1>3, <1>4, SpotKinds

\* A link is determined by its ends and its class.
LEMMA LinkEnds ==
  ASSUME NEW t \in Nets, NEW l \in Links(t)
  PROVE  /\ l = <<l[1], l[2], l[3]>> /\ l[1] \in Ids(t) /\ l[2] \in Ids(t) /\ l[3] \in Classes
         /\ l[1] < l[2] /\ l[2] \in t.row[l[1]] /\ l[1] \in t.row[l[2]]
         /\ <<l[1], l[2]>> \in Pairs(t) /\ <<l[2], l[1]>> \in Pairs(t)
<1>1. /\ l = <<l[1], l[2], l[3]>> /\ l[1] \in Ids(t) /\ l[2] \in Ids(t) /\ l[3] \in Classes
      /\ l[1] < l[2] /\ l[2] \in t.row[l[1]]
  BY DEF Links
<1>2. l[1] \in t.row[l[2]]
  BY <1>1, Neighbours
<1> QED  BY <1>1, <1>2 DEF Pairs

\* Two interfaces share one link of a class.
LEMMA LinkOne ==
  ASSUME NEW t \in Nets, NEW l \in Links(t), NEW k \in Links(t), l[3] = k[3],
         {l[1], l[2]} = {k[1], k[2]}
  PROVE  l = k
<1>1. /\ l = <<l[1], l[2], l[3]>> /\ l[1] \in Nat /\ l[2] \in Nat /\ l[1] < l[2]
      /\ k = <<k[1], k[2], k[3]>> /\ k[1] \in Nat /\ k[2] \in Nat /\ k[1] < k[2]
  BY LinkEnds, TopologyParts
<1>2. l[1] = k[1] /\ l[2] = k[2]
  BY <1>1
<1> QED  BY <1>1, <1>2

\* The copy on a link goes from one of its ends to the other, and the level says whether that
\* is its destination.
LEMMA OnLink ==
  ASSUME NEW t \in Nets, NEW s \in Spots(t), s[1] = "link", NEW m, Ways(t, m), May(t, s, m)
  PROVE  \E a, b \in Ids(t) : /\ {a, b} = {s[2][1], s[2][2]} /\ Hop(t, m, a, b) /\ s[3] = m.class
                              /\ Level(s, m) \in {2, 5} /\ (Level(s, m) = 5 <=> b = m.to)
<1> DEFINE l == s[2]
<1>1. (Hop(t, m, l[1], l[2]) \/ Hop(t, m, l[2], l[1])) /\ s[3] = m.class
  BY SpotLink
<1>2. l[1] \in Ids(t) /\ l[2] \in Ids(t)
  <2>1. l \in Links(t)
    BY SpotKinds
  <2> QED  BY <2>1, LinkEnds
<1>3. Level(s, m) \in {2, 5} /\ (Level(s, m) = 5 <=> m.to \in {l[1], l[2]})
  BY SpotLink
<1> HIDE DEF l
<1>4. PICK a, b \in Ids(t) : {a, b} = {l[1], l[2]} /\ Hop(t, m, a, b)
  BY <1>1, <1>2
<1>5. a # m.to
  BY <1>4, HopEnds
<1>6. m.to \in {l[1], l[2]} <=> b = m.to
  BY <1>4, <1>5
<1>7. Level(s, m) \in {2, 5} /\ (Level(s, m) = 5 <=> b = m.to)
  BY <1>3, <1>6
<1> QED  BY <1>1, <1>4, <1>7 DEF l

\* Copies of one flow that have come as far as one another are in the same place.
LEMMA SpotOne ==
  ASSUME NEW t \in Nets, NEW s \in Spots(t), NEW u \in Spots(t), NEW x, NEW y,
         Ways(t, x), Together(t, x, y), May(t, s, x), May(t, u, y), Level(s, x) = Level(u, y)
  PROVE  s = u
<1>0. /\ x.from = y.from /\ x.to = y.to /\ x.class = y.class /\ Ways(t, y)
      /\ x.to \notin t.switches
      /\ \A e, f \in Route(t, x.from, x.to) : e = f
  BY DEF Together, Ways
<1>1. /\ s[1] = u[1] /\ s[1] \in {"tx", "link", "rx", "got"}
      /\ s = <<s[1], s[2], s[3]>> /\ u = <<u[1], u[2], u[3]>>
  <2>1. s[1] \in {"tx", "link", "rx", "got"} /\ u[1] \in {"tx", "link", "rx", "got"}
    BY SpotKinds
  <2>2. s[1] = u[1]
    BY <2>1, LevelKind
  <2> QED  BY <2>1, <2>2, SpotKinds
<1>2. CASE s[1] = "tx"
  <2>1. s[2] \in Pairs(t) /\ u[2] \in Pairs(t)
    BY <1>1, <1>2, SpotKinds
  <2>2. Hop(t, x, s[2][1], s[2][2]) /\ s[3] = x.class /\ Hop(t, y, u[2][1], u[2][2]) /\ u[3] = y.class
    BY <1>1, <1>2, SpotTx
  <2>3. s[2][2] = x.to <=> u[2][2] = x.to
    <3>1. (Level(s, x) = 4 <=> s[2][2] = x.to) /\ (Level(u, y) = 4 <=> u[2][2] = y.to)
      BY <1>1, <1>2, SpotTx
    <3> QED  BY <1>0, <3>1
  <2>4. s[2][1] = u[2][1] /\ s[2][2] = u[2][2]
    BY <1>0, <2>2, <2>3, HopOne
  <2>5. s[2] = u[2]
    <3>1. \A p, q \in Pairs(t) : p[1] = q[1] /\ p[2] = q[2] => p = q
      BY DEF Pairs
    <3> QED  BY <2>1, <2>4, <3>1
  <2> QED  BY <1>0, <1>1, <2>2, <2>5
<1>3. CASE s[1] = "link"
  <2>1. s[2] \in Links(t) /\ u[2] \in Links(t) /\ s[3] = s[2][3] /\ u[3] = u[2][3]
    BY <1>1, <1>3, SpotKinds
  <2>2. PICK a, b \in Ids(t) : /\ {a, b} = {s[2][1], s[2][2]} /\ Hop(t, x, a, b) /\ s[3] = x.class
                               /\ (Level(s, x) = 5 <=> b = x.to)
    BY <1>3, OnLink
  <2>3. PICK e, f \in Ids(t) : /\ {e, f} = {u[2][1], u[2][2]} /\ Hop(t, y, e, f) /\ u[3] = y.class
                               /\ (Level(u, y) = 5 <=> f = y.to)
    BY <1>0, <1>1, <1>3, OnLink
  <2>4. b = x.to <=> f = x.to
    BY <1>0, <2>2, <2>3
  <2>5. a = e /\ b = f
    BY <1>0, <2>2, <2>3, <2>4, HopOne
  <2>6. {s[2][1], s[2][2]} = {u[2][1], u[2][2]} /\ s[2][3] = u[2][3]
    BY <1>0, <2>1, <2>2, <2>3, <2>5
  <2>7. s[2] = u[2]
    BY <2>1, <2>6, LinkOne
  <2> QED  BY <1>1, <2>1, <2>7
<1>4. CASE s[1] = "rx"
  <2>1. /\ s[2] = x.to \/ s[2] \in t.switches \cap Route(t, x.from, x.to)
        /\ u[2] = y.to \/ u[2] \in t.switches \cap Route(t, y.from, y.to)
        /\ s[3] = x.class /\ u[3] = y.class /\ (s[2] = x.to <=> u[2] = y.to)
    BY <1>1, <1>4, SpotRx
  <2>2. s[2] = u[2] /\ s[3] = u[3]
    BY <1>0, <2>1
  <2> QED  BY <1>1, <2>2
<1>5. CASE s[1] = "got"
  <2>1. s[2] = x.to /\ u[2] = y.to /\ s[3] = "all" /\ u[3] = "all"
    BY <1>1, <1>5, SpotGot, SpotKinds
  <2> QED  BY <1>0, <1>1, <2>1
<1> QED  BY <1>1, <1>2, <1>3, <1>4, <1>5

-----------------------------------------------------------------------------
(* Moving a copy on, and adding copies.                                     *)

\* A buffer without its k-th message.
LEMMA CutParts ==
  ASSUME NEW T, NEW s \in Seq(T), NEW k \in DOMAIN s
  PROVE  /\ Len(s) \in Nat /\ DOMAIN s = 1 .. Len(s)
         /\ Cut(s, k) \in Seq(T) /\ DOMAIN Cut(s, k) = 1 .. (Len(s) - 1)
         /\ \A i \in 1 .. (Len(s) - 1) : Cut(s, k)[i] = IF i < k THEN s[i] ELSE s[i + 1]
<1>1. Cut(s, k) \in Seq(T) /\ Len(Cut(s, k)) = Len(s) - 1
  BY CountCut
<1>2. DOMAIN Cut(s, k) = 1 .. (Len(s) - 1)
      /\ \A i \in 1 .. (Len(s) - 1) : Cut(s, k)[i] = IF i < k THEN s[i] ELSE s[i + 1]
  BY DEF Cut
<1> QED  BY <1>1, <1>2, LenProperties

\* Two places with a copy of the same message for the same destination are one place.
LEMMA KeyOne ==
  ASSUME NEW t \in Nets, NEW h \in Seq(t.traffic), NEW Q, Placed(t, h, Q), Ordered(t, Q),
         NEW s \in Spots(t), NEW i \in DOMAIN Q[s], NEW u \in Spots(t), NEW j \in DOMAIN Q[u],
         Q[s][i].n = Q[u][j].n, Q[s][i].to = Q[u][j].to
  PROVE  s = u /\ i = j
<1> DEFINE x == Q[s][i]
           y == Q[u][j]
<1>1. Sound(t, h, x) /\ Sound(t, h, y) /\ May(t, s, x) /\ May(t, u, y)
  BY DEF Placed
<1>2. Ways(t, x)
  BY <1>1, SoundWays
<1>3. Q[s] \in Seq(Copy) /\ Q[u] \in Seq(Copy)
  BY DEF Placed
<1>4. x \in Copy /\ y \in Copy /\ i \in Nat /\ j \in Nat
  BY <1>3, ElementOfSeq, LenProperties
<1>5. x.n \in Nat /\ x.n = y.n /\ x.to = y.to
  BY <1>4 DEF Copy
<1> HIDE DEF x, y
<1>6. Together(t, x, y) /\ Together(t, y, x)
  BY <1>1, <1>5 DEF Sound, Together
<1>7. Level(s, x) \in 1 .. 7 /\ Level(u, y) \in 1 .. 7
  BY LevelNumber
<1>8. /\ Level(s, x) > Level(u, y) \/ (s = u /\ i < j) => x.n < y.n
      /\ Level(u, y) > Level(s, x) \/ (u = s /\ j < i) => y.n < x.n
  BY <1>6 DEF Ordered, InFront, x, y
<1>9. Level(s, x) = Level(u, y)
  BY <1>5, <1>7, <1>8
<1>10. s = u
  BY <1>1, <1>2, <1>6, <1>9, SpotOne
<1> QED  BY <1>4, <1>5, <1>8, <1>10

\* R is Q with the k-th copy at s moved on to u.
MovedOn(t, Q, R, s, k, u) ==
  R = [v \in Spots(t) |-> IF v = s THEN Cut(Q[s], k) ELSE IF v = u THEN Append(Q[u], Q[s][k]) ELSE Q[v]]

\* It is the first of its flow there, and goes one level up to where it may be.
Moves(t, Q, R, s, k, u) ==
  /\ s \in Spots(t) /\ u \in Spots(t) /\ s # u /\ k \in DOMAIN Q[s]
  /\ May(t, u, Q[s][k]) /\ Level(u, Q[s][k]) = Level(s, Q[s][k]) + 1
  /\ \A j \in DOMAIN Q[s] : j < k => ~Together(t, Q[s][j], Q[s][k])
  /\ MovedOn(t, Q, R, s, k, u)

\* Where the i-th copy at v was before the move.
OriginAt(Q, s, k, u, v, i) == IF v = u /\ i = Len(Q[u]) + 1 THEN s ELSE v
OriginNo(Q, s, k, u, v, i) ==
  IF v = u /\ i = Len(Q[u]) + 1 THEN k ELSE IF v = s /\ i >= k THEN i + 1 ELSE i

\* Every copy was somewhere before the move.
LEMMA MoveOrigin ==
  ASSUME NEW t, NEW Q \in [Spots(t) -> Seq(Copy)], NEW R, NEW s, NEW k, NEW u, Moves(t, Q, R, s, k, u)
  PROVE  /\ R \in [Spots(t) -> Seq(Copy)]
         /\ \A v \in Spots(t) : \A i \in DOMAIN R[v] :
              /\ OriginAt(Q, s, k, u, v, i) \in Spots(t)
              /\ OriginNo(Q, s, k, u, v, i) \in DOMAIN Q[OriginAt(Q, s, k, u, v, i)]
              /\ R[v][i] = Q[OriginAt(Q, s, k, u, v, i)][OriginNo(Q, s, k, u, v, i)]
              /\ i \in Nat
<1>1. /\ s \in Spots(t) /\ u \in Spots(t) /\ s # u /\ k \in DOMAIN Q[s]
      /\ R = [v \in Spots(t) |-> IF v = s THEN Cut(Q[s], k)
                                 ELSE IF v = u THEN Append(Q[u], Q[s][k]) ELSE Q[v]]
  BY DEF Moves, MovedOn
<1>2. /\ \A v \in Spots(t) : Q[v] \in Seq(Copy) /\ Len(Q[v]) \in Nat /\ DOMAIN Q[v] = 1 .. Len(Q[v])
      /\ Q[s][k] \in Copy
  BY <1>1, LenProperties, ElementOfSeq
<1>3. /\ Cut(Q[s], k) \in Seq(Copy) /\ DOMAIN Cut(Q[s], k) = 1 .. (Len(Q[s]) - 1)
      /\ \A i \in 1 .. (Len(Q[s]) - 1) : Cut(Q[s], k)[i] = IF i < k THEN Q[s][i] ELSE Q[s][i + 1]
  BY <1>1, <1>2, CutParts
<1>4. /\ Append(Q[u], Q[s][k]) \in Seq(Copy) /\ DOMAIN Append(Q[u], Q[s][k]) = 1 .. (Len(Q[u]) + 1)
      /\ Append(Q[u], Q[s][k])[Len(Q[u]) + 1] = Q[s][k]
      /\ \A i \in 1 .. Len(Q[u]) : Append(Q[u], Q[s][k])[i] = Q[u][i]
  BY <1>1, <1>2, AppendProperties, LenProperties
<1>5. R \in [Spots(t) -> Seq(Copy)]
  BY <1>1, <1>2, <1>3, <1>4
<1>6. ASSUME NEW v \in Spots(t), NEW i \in DOMAIN R[v]
      PROVE  /\ OriginAt(Q, s, k, u, v, i) \in Spots(t)
             /\ OriginNo(Q, s, k, u, v, i) \in DOMAIN Q[OriginAt(Q, s, k, u, v, i)]
             /\ R[v][i] = Q[OriginAt(Q, s, k, u, v, i)][OriginNo(Q, s, k, u, v, i)]
             /\ i \in Nat
  <2>1. CASE v = s
    <3>1. R[v] = Cut(Q[s], k) /\ i \in 1 .. (Len(Q[s]) - 1)
      BY <1>1, <1>3, <1>6, <2>1
    <3>2. /\ OriginAt(Q, s, k, u, v, i) = s
          /\ OriginNo(Q, s, k, u, v, i) = IF i >= k THEN i + 1 ELSE i
      BY <1>1, <2>1 DEF OriginAt, OriginNo
    <3>3. k \in 1 .. Len(Q[s]) /\ Len(Q[s]) \in Nat
      BY <1>1, <1>2
    <3>4. i < k <=> ~(i >= k)
      BY <3>1, <3>3
    <3>5. R[v][i] = Q[s][OriginNo(Q, s, k, u, v, i)]
      BY <1>3, <3>1, <3>2, <3>4
    <3>6. OriginNo(Q, s, k, u, v, i) \in 1 .. Len(Q[s])
      BY <3>1, <3>2, <3>3
    <3> QED  BY <1>1, <1>2, <3>1, <3>2, <3>5, <3>6
  <2>2. CASE v = u
    <3>1. R[v] = Append(Q[u], Q[s][k]) /\ i \in 1 .. (Len(Q[u]) + 1)
      BY <1>1, <1>4, <1>6, <2>2
    <3>2. CASE i = Len(Q[u]) + 1
      BY <1>1, <1>2, <1>4, <2>2, <3>1, <3>2 DEF OriginAt, OriginNo
    <3>3. CASE i # Len(Q[u]) + 1
      <4>1. i \in 1 .. Len(Q[u])
        BY <1>1, <1>2, <3>1, <3>3
      <4> QED  BY <1>1, <1>2, <1>4, <2>2, <3>1, <3>3, <4>1 DEF OriginAt, OriginNo
    <3> QED  BY <3>2, <3>3
  <2>3. CASE v # s /\ v # u
    <3>1. R[v] = Q[v] /\ i \in 1 .. Len(Q[v]) /\ Len(Q[v]) \in Nat
      BY <1>1, <1>2, <1>6, <2>3
    <3> QED  BY <1>2, <2>3, <3>1 DEF OriginAt, OriginNo
  <2> QED  BY <2>1, <2>2, <2>3
<1> QED  BY <1>5, <1>6

\* A copy that moves on, before it no copy of its flow, leaves every copy where it may be, the
\* flows in order, and no copy behind.
LEMMA MoveKeeps ==
  ASSUME NEW t \in Nets, NEW h \in Seq(t.traffic), NEW Q, NEW R, NEW s, NEW k, NEW u,
         Placed(t, h, Q), Ordered(t, Q), Covered(t, h, Q), Moves(t, Q, R, s, k, u)
  PROVE  Placed(t, h, R) /\ Ordered(t, R) /\ Covered(t, h, R)
<1> DEFINE at0(v, i) == OriginAt(Q, s, k, u, v, i)
           no0(v, i) == OriginNo(Q, s, k, u, v, i)
           m == Q[s][k]
<1>0. Q \in [Spots(t) -> Seq(Copy)]
  BY DEF Placed
<1>1. /\ R \in [Spots(t) -> Seq(Copy)]
      /\ \A v \in Spots(t) : \A i \in DOMAIN R[v] :
           /\ at0(v, i) \in Spots(t) /\ no0(v, i) \in DOMAIN Q[at0(v, i)]
           /\ R[v][i] = Q[at0(v, i)][no0(v, i)] /\ i \in Nat
  BY <1>0, MoveOrigin
<1>2. /\ s \in Spots(t) /\ u \in Spots(t) /\ s # u /\ k \in DOMAIN Q[s]
      /\ May(t, u, m) /\ Level(u, m) = Level(s, m) + 1
      /\ \A j \in DOMAIN Q[s] : j < k => ~Together(t, Q[s][j], m)
      /\ R = [v \in Spots(t) |-> IF v = s THEN Cut(Q[s], k)
                                 ELSE IF v = u THEN Append(Q[u], m) ELSE Q[v]]
  BY DEF Moves, MovedOn
<1>3. /\ \A v \in Spots(t) : Q[v] \in Seq(Copy) /\ Len(Q[v]) \in Nat /\ DOMAIN Q[v] = 1 .. Len(Q[v])
      /\ k \in Nat
  BY <1>0, <1>2, LenProperties
<1>4. \A v \in Spots(t) : \A i \in DOMAIN Q[v] : Sound(t, h, Q[v][i]) /\ May(t, v, Q[v][i])
  BY DEF Placed
<1>5. \A v, w \in Spots(t) : \A i \in DOMAIN Q[v], j \in DOMAIN Q[w] :
        Together(t, Q[v][i], Q[w][j]) /\ InFront(Q, v, i, w, j) => Q[v][i].n < Q[w][j].n
  BY DEF Ordered
<1>6. \A v \in Spots(t) : \A x, y : x.to = y.to => Level(v, x) \in 1 .. 7 /\ Level(v, x) = Level(v, y)
  BY LevelNumber
\* The copy that moved is the last one at u; the others are where they were.
<1>7. ASSUME NEW v \in Spots(t), NEW i \in DOMAIN R[v]
      PROVE  \/ v = u /\ i = Len(Q[u]) + 1 /\ at0(v, i) = s /\ no0(v, i) = k
             \/ /\ ~(v = u /\ i = Len(Q[u]) + 1) /\ at0(v, i) = v
                /\ no0(v, i) = IF v = s /\ i >= k THEN i + 1 ELSE i
                /\ v = s => no0(v, i) # k
  BY <1>1, <1>3 DEF OriginAt, OriginNo
<1>8. DOMAIN R[u] = 1 .. (Len(Q[u]) + 1) /\ R[u][Len(Q[u]) + 1] = m
  BY <1>2, <1>3, <1>4, AppendProperties, LenProperties, ElementOfSeq
<1> HIDE DEF at0, no0
<1>10. Placed(t, h, R)
  <2> SUFFICES ASSUME NEW v \in Spots(t), NEW i \in DOMAIN R[v]
               PROVE  Sound(t, h, R[v][i]) /\ May(t, v, R[v][i])
    BY <1>1 DEF Placed
  <2>1. Sound(t, h, R[v][i])
    BY <1>1, <1>4
  <2>2. CASE v = u /\ i = Len(Q[u]) + 1
    BY <1>2, <1>8, <2>1, <2>2
  <2>3. CASE ~(v = u /\ i = Len(Q[u]) + 1)
    <3>1. at0(v, i) = v
      BY <1>7, <2>3
    <3> QED  BY <1>1, <1>4, <2>1, <3>1
  <2> QED  BY <2>2, <2>3
<1>11. Ordered(t, R)
  <2> SUFFICES ASSUME NEW v \in Spots(t), NEW w \in Spots(t), NEW i \in DOMAIN R[v], NEW j \in DOMAIN R[w],
                      Together(t, R[v][i], R[w][j]), InFront(R, v, i, w, j)
               PROVE  R[v][i].n < R[w][j].n
    BY DEF Ordered
  <2> DEFINE x == R[v][i]
             y == R[w][j]
             vo == at0(v, i)
             io == no0(v, i)
             wo == at0(w, j)
             jo == no0(w, j)
  <2>1. /\ vo \in Spots(t) /\ io \in DOMAIN Q[vo] /\ x = Q[vo][io] /\ i \in Nat /\ io \in Nat
        /\ wo \in Spots(t) /\ jo \in DOMAIN Q[wo] /\ y = Q[wo][jo] /\ j \in Nat /\ jo \in Nat
    BY <1>1, <1>3
  <2>2. Level(v, x) > Level(w, y) \/ (v = w /\ i < j)
    BY DEF InFront
  <2>3. Together(t, x, y) /\ x.to = y.to
    BY DEF Together
  <2>4. SUFFICES Level(vo, x) > Level(wo, y) \/ (vo = wo /\ io < jo)
    BY <1>5, <2>1, <2>3 DEF InFront
  <2>5. \/ v = u /\ i = Len(Q[u]) + 1 /\ vo = s /\ io = k
        \/ /\ ~(v = u /\ i = Len(Q[u]) + 1) /\ vo = v
           /\ io = IF v = s /\ i >= k THEN i + 1 ELSE i
           /\ v = s => io # k
    BY <1>7
  <2>6. \/ w = u /\ j = Len(Q[u]) + 1 /\ wo = s /\ jo = k
        \/ /\ ~(w = u /\ j = Len(Q[u]) + 1) /\ wo = w
           /\ jo = IF w = s /\ j >= k THEN j + 1 ELSE j
           /\ w = s => jo # k
    BY <1>7
  <2>7. /\ Level(v, x) \in 1 .. 7 /\ Level(w, y) \in 1 .. 7 /\ Level(s, x) \in 1 .. 7
        /\ Level(s, x) = Level(s, y) /\ Level(u, x) = Level(u, y) /\ Level(v, x) = Level(v, y)
    BY <1>2, <1>6, <2>3
  <2> HIDE DEF x, y, vo, io, wo, jo
  <2>8. CASE vo = v /\ wo = w /\ ~(v = u /\ i = Len(Q[u]) + 1) /\ ~(w = u /\ j = Len(Q[u]) + 1)
    BY <1>3, <2>1, <2>2, <2>5, <2>6, <2>8
  <2>9. CASE v = u /\ i = Len(Q[u]) + 1 /\ ~(w = u /\ j = Len(Q[u]) + 1)
    <3>1. vo = s /\ io = k /\ x = m /\ wo = w /\ (w = s => jo # k)
      BY <2>1, <2>5, <2>6, <2>9
    <3>2. j \in 1 .. Len(Q[u]) + 1 \/ w # u
      BY <1>8 DEF y
    <3>3. Level(v, x) > Level(w, y)
      BY <1>2, <1>3, <2>1, <2>2, <2>9, <3>2
    <3>4. Level(u, x) = Level(s, x) + 1
      BY <1>2, <3>1
    <3>5. CASE Level(w, y) = Level(s, x)
      <4>1. Sound(t, h, x) /\ May(t, s, x) /\ May(t, w, y)
        BY <1>2, <1>4, <2>1, <3>1
      <4>2. s = w
        BY <1>2, <2>3, <3>5, <4>1, SoundWays, SpotOne
      <4>3. Together(t, y, x)
        BY <2>3 DEF Together
      <4>4. ~(jo < k)
        BY <1>2, <2>1, <3>1, <4>2, <4>3
      <4> QED  BY <1>3, <2>1, <3>1, <4>2, <4>4
    <3>6. CASE Level(w, y) # Level(s, x)
      BY <2>7, <2>9, <3>1, <3>3, <3>4, <3>6
    <3> QED  BY <3>5, <3>6
  <2>10. CASE ~(v = u /\ i = Len(Q[u]) + 1) /\ w = u /\ j = Len(Q[u]) + 1
    <3>1. vo = v /\ wo = s /\ jo = k /\ y = m
      BY <2>1, <2>5, <2>6, <2>10
    <3>2. Level(u, y) = Level(s, y) + 1
      BY <1>2, <3>1
    <3> QED  BY <2>2, <2>7, <2>10, <3>1, <3>2
  <2>11. CASE v = u /\ i = Len(Q[u]) + 1 /\ w = u /\ j = Len(Q[u]) + 1
    BY <2>1, <2>2, <2>7, <2>11
  <2> QED  BY <2>5, <2>6, <2>8, <2>9, <2>10, <2>11
<1>12. Covered(t, h, R)
  <2> SUFFICES ASSUME NEW n \in DOMAIN h, NEW a \in Range(h[n].tos)
               PROVE  \E v \in Spots(t) : \E i \in DOMAIN R[v] : R[v][i].n = n /\ R[v][i].to = a
    BY DEF Covered
  <2>1. PICK w \in Spots(t) : \E j \in DOMAIN Q[w] : Q[w][j].n = n /\ Q[w][j].to = a
    BY DEF Covered
  <2>2. PICK j \in DOMAIN Q[w] : Q[w][j].n = n /\ Q[w][j].to = a
    BY <2>1
  <2>3. CASE w = s /\ j = k
    BY <1>2, <1>3, <1>8, <2>2, <2>3
  <2>4. CASE w = s /\ j # k
    <3>1. /\ DOMAIN R[s] = 1 .. (Len(Q[s]) - 1)
          /\ \A i \in 1 .. (Len(Q[s]) - 1) : R[s][i] = IF i < k THEN Q[s][i] ELSE Q[s][i + 1]
      BY <1>2, <1>3, CutParts
    <3>2. j \in 1 .. Len(Q[s]) /\ k \in 1 .. Len(Q[s]) /\ Len(Q[s]) \in Nat
      BY <1>2, <1>3, <2>4
    <3>3. CASE j < k
      <4>1. j \in 1 .. (Len(Q[s]) - 1) /\ R[s][j] = Q[s][j]
        BY <3>1, <3>2, <3>3
      <4> QED  BY <1>2, <2>2, <2>4, <3>1, <4>1
    <3>4. CASE j > k
      <4>1. j - 1 \in 1 .. (Len(Q[s]) - 1) /\ ~(j - 1 < k) /\ (j - 1) + 1 = j
        BY <3>2, <3>4
      <4>2. R[s][j - 1] = Q[s][j]
        BY <3>1, <4>1
      <4> QED  BY <1>2, <2>2, <2>4, <3>1, <4>1, <4>2
    <3> QED  BY <2>4, <3>2, <3>3, <3>4
  <2>5. CASE w = u
    <3>1. j \in 1 .. Len(Q[u]) /\ Len(Q[u]) \in Nat
      BY <1>2, <1>3, <2>5
    <3>2. j \in DOMAIN R[u] /\ R[u][j] = Q[u][j]
      BY <1>2, <1>3, <1>8, <3>1, AppendProperties
    <3> QED  BY <1>2, <2>2, <2>5, <3>2
  <2>6. CASE w # s /\ w # u
    <3>1. R[w] = Q[w]
      BY <1>2, <2>6
    <3> QED  BY <2>2, <3>1
  <2> QED  BY <2>3, <2>4, <2>5, <2>6
<1> QED  BY <1>10, <1>11, <1>12

\* Two buffers in line: where the messages come from, and where they are.
LEMMA ConcatParts ==
  ASSUME NEW T, NEW s \in Seq(T), NEW u \in Seq(T)
  PROVE  /\ Len(s) \in Nat /\ s \o u \in Seq(T)
         /\ \A i \in DOMAIN (s \o u) :
              /\ i \in Nat
              /\ \/ i <= Len(s) /\ i \in DOMAIN s /\ (s \o u)[i] = s[i]
                 \/ i > Len(s) /\ i - Len(s) \in DOMAIN u /\ (s \o u)[i] = u[i - Len(s)]
         /\ \A i \in DOMAIN s : i \in DOMAIN (s \o u) /\ (s \o u)[i] = s[i]
         /\ \A i \in DOMAIN u : Len(s) + i \in DOMAIN (s \o u) /\ (s \o u)[Len(s) + i] = u[i]
<1>1. /\ Len(s) \in Nat /\ DOMAIN s = 1 .. Len(s) /\ Len(u) \in Nat /\ DOMAIN u = 1 .. Len(u)
      /\ s \o u \in Seq(T) /\ DOMAIN (s \o u) = 1 .. (Len(s) + Len(u))
      /\ \A i \in 1 .. Len(s) : (s \o u)[i] = s[i]
      /\ \A i \in 1 .. Len(u) : (s \o u)[Len(s) + i] = u[i]
  BY LenProperties, ConcatProperties
<1>2. ASSUME NEW i \in 1 .. (Len(s) + Len(u)), i > Len(s)
      PROVE  i - Len(s) \in DOMAIN u /\ (s \o u)[i] = u[i - Len(s)] /\ i \in Nat
  <2>1. i - Len(s) \in 1 .. Len(u) /\ Len(s) + (i - Len(s)) = i
    BY <1>1, <1>2
  <2>2. (s \o u)[Len(s) + (i - Len(s))] = u[i - Len(s)]
    BY <1>1, <2>1
  <2> QED  BY <1>1, <2>1, <2>2
<1>3. \A i \in DOMAIN u : Len(s) + i \in 1 .. (Len(s) + Len(u))
  BY <1>1
<1>4. ASSUME NEW i \in 1 .. (Len(s) + Len(u))
      PROVE  /\ i \in Nat
             /\ \/ i <= Len(s) /\ i \in DOMAIN s /\ (s \o u)[i] = s[i]
                \/ i > Len(s) /\ i - Len(s) \in DOMAIN u /\ (s \o u)[i] = u[i - Len(s)]
  BY <1>1, <1>2
<1>5. \A i \in DOMAIN s : i \in DOMAIN (s \o u)
  BY <1>1
<1> QED  BY <1>1, <1>3, <1>4, <1>5

\* R is Q with the copies E of a new message m added behind, at its sender.
Adds(t, h, Q, R, E, m) ==
  /\ m \in t.traffic
  /\ E \in [Spots(t) -> Seq(Copy)] /\ R = [v \in Spots(t) |-> Q[v] \o E[v]]
  /\ \A v \in Spots(t) : \A i \in DOMAIN E[v] :
       /\ E[v][i].n = Len(h) + 1 /\ E[v][i].from = m.from /\ E[v][i].class = m.class
       /\ E[v][i].owner = m.owner /\ E[v][i].to \in Range(m.tos)
       /\ v[1] = "tx" /\ v[2][1] = m.from /\ May(t, v, E[v][i])
       /\ \A j \in DOMAIN E[v] : E[v][i].to = E[v][j].to => i = j
  /\ \A a \in Range(m.tos) : \E v \in Spots(t) : \E i \in DOMAIN E[v] : E[v][i].to = a

\* What is at its sender is behind all of its flow.
LEMMA SenderLast ==
  ASSUME NEW t \in Nets, NEW v \in Spots(t), NEW w \in Spots(t), NEW x, NEW y, Ways(t, x),
         Together(t, x, y), May(t, v, x), May(t, w, y), v[1] = "tx", v[2][1] = x.from
  PROVE  Level(v, x) <= Level(w, y)
<1>0. /\ x.from = y.from /\ x.to = y.to /\ Ways(t, y) /\ x.from \notin t.switches
      /\ \A e, f \in Route(t, x.from, x.to) : e = f
  BY DEF Together, Ways
<1>1. Level(v, x) \in {1, 4} /\ Level(w, y) \in 1 .. 7
  BY LevelNumber, SpotTx
<1>2. ASSUME Level(v, x) = 4, Level(w, y) \in {1, 2, 3}
      PROVE  FALSE
  <2>1. v[2][2] = x.to /\ Hop(t, x, v[2][1], v[2][2])
    BY <1>2, SpotTx
  <2>2. x.to \in Route(t, x.from, x.to)
    BY <1>0, <2>1 DEF Hop
  <2>3. SUFFICES \E b : b # y.to /\ b \in Route(t, y.from, y.to)
    BY <1>0, <2>2
  <2>4. CASE w[1] = "tx"
    <3>1. w[2][2] # y.to /\ Hop(t, y, w[2][1], w[2][2])
      BY <1>2, <2>4, SpotTx
    <3> QED  BY <3>1 DEF Hop
  <2>5. CASE w[1] = "link"
    <3>1. PICK a, b \in Ids(t) : Hop(t, y, a, b) /\ (Level(w, y) = 5 <=> b = y.to)
      BY <1>0, <2>5, OnLink
    <3> QED  BY <1>2, <3>1 DEF Hop
  <2>6. CASE w[1] = "rx"
    BY <1>2, <2>6, SpotRx
  <2>7. CASE w[1] = "got"
    BY <1>2, <2>7, SpotGot
  <2> QED  BY <2>4, <2>5, <2>6, <2>7, SpotKinds
<1> QED  BY <1>1, <1>2

\* Copies of a new message, put where it may start, keep all three.
LEMMA AddKeeps ==
  ASSUME NEW t \in Nets, NEW h \in Seq(t.traffic), NEW Q, NEW R, NEW E, NEW m,
         Placed(t, h, Q), Ordered(t, Q), Covered(t, h, Q), Adds(t, h, Q, R, E, m)
  PROVE  /\ Append(h, m) \in Seq(t.traffic)
         /\ Placed(t, Append(h, m), R) /\ Ordered(t, R) /\ Covered(t, Append(h, m), R)
<1> DEFINE h2 == Append(h, m)
           N == Len(h)
<1>0. /\ m \in t.traffic /\ E \in [Spots(t) -> Seq(Copy)] /\ Q \in [Spots(t) -> Seq(Copy)]
      /\ R = [v \in Spots(t) |-> Q[v] \o E[v]]
  BY DEF Adds, Placed
<1>1. /\ h2 \in Seq(t.traffic) /\ N \in Nat /\ DOMAIN h = 1 .. N /\ DOMAIN h2 = 1 .. (N + 1)
      /\ h2[N + 1] = m /\ \A n \in 1 .. N : h2[n] = h[n]
  BY <1>0, AppendProperties, LenProperties
<1>2. ASSUME NEW v \in Spots(t)
      PROVE  /\ Len(Q[v]) \in Nat /\ R[v] \in Seq(Copy)
             /\ \A i \in DOMAIN Q[v] : i \in DOMAIN R[v] /\ R[v][i] = Q[v][i]
             /\ \A i \in DOMAIN E[v] : Len(Q[v]) + i \in DOMAIN R[v] /\ R[v][Len(Q[v]) + i] = E[v][i]
             /\ \A i \in DOMAIN R[v] :
                  /\ i \in Nat
                  /\ \/ i <= Len(Q[v]) /\ i \in DOMAIN Q[v] /\ R[v][i] = Q[v][i]
                     \/ i > Len(Q[v]) /\ i - Len(Q[v]) \in DOMAIN E[v] /\ R[v][i] = E[v][i - Len(Q[v])]
  <2> DEFINE q == Q[v]
             e == E[v]
             r == R[v]
  <2>1. q \in Seq(Copy) /\ e \in Seq(Copy) /\ r = q \o e
    BY <1>0
  <2> HIDE DEF q, e, r
  <2>2. /\ Len(q) \in Nat /\ q \o e \in Seq(Copy)
        /\ \A i \in DOMAIN (q \o e) :
             /\ i \in Nat
             /\ \/ i <= Len(q) /\ i \in DOMAIN q /\ (q \o e)[i] = q[i]
                \/ i > Len(q) /\ i - Len(q) \in DOMAIN e /\ (q \o e)[i] = e[i - Len(q)]
        /\ \A i \in DOMAIN q : i \in DOMAIN (q \o e) /\ (q \o e)[i] = q[i]
        /\ \A i \in DOMAIN e : Len(q) + i \in DOMAIN (q \o e) /\ (q \o e)[Len(q) + i] = e[i]
    BY <2>1, ConcatParts
  <2> QED  BY <2>1, <2>2, Zenon DEF q, e, r
<1>3. R \in [Spots(t) -> Seq(Copy)]
  <2>1. \A v \in Spots(t) : Q[v] \o E[v] \in Seq(Copy)
    BY <1>0, <1>2
  <2> QED  BY <1>0, <2>1
\* A copy in R is in Q, or one of the new ones.
<1>4. ASSUME NEW v \in Spots(t), NEW i \in DOMAIN R[v]
      PROVE  /\ i \in Nat
             /\ \/ i <= Len(Q[v]) /\ i \in DOMAIN Q[v] /\ R[v][i] = Q[v][i]
                \/ i > Len(Q[v]) /\ i - Len(Q[v]) \in DOMAIN E[v] /\ R[v][i] = E[v][i - Len(Q[v])]
  BY <1>2
<1>5. \A v \in Spots(t) : \A i \in DOMAIN Q[v] : Sound(t, h, Q[v][i]) /\ May(t, v, Q[v][i])
  BY DEF Placed
<1>6. \A v \in Spots(t) : \A i \in DOMAIN E[v] :
        /\ E[v][i].n = N + 1 /\ E[v][i].from = m.from /\ E[v][i].class = m.class
        /\ E[v][i].owner = m.owner /\ E[v][i].to \in Range(m.tos)
        /\ v[1] = "tx" /\ v[2][1] = m.from /\ May(t, v, E[v][i])
        /\ \A j \in DOMAIN E[v] : E[v][i].to = E[v][j].to => i = j
  BY DEF Adds
<1> HIDE DEF h2, N
<1>7. \A x : Sound(t, h, x) => Sound(t, h2, x)
  BY <1>1 DEF Sound
<1>8. \A v \in Spots(t) : \A i \in DOMAIN E[v] : Sound(t, h2, E[v][i])
  BY <1>1, <1>6 DEF Sound
<1>9. \A v \in Spots(t) : \A i \in DOMAIN R[v] : Sound(t, h2, R[v][i]) /\ May(t, v, R[v][i])
  BY <1>4, <1>5, <1>6, <1>7, <1>8
<1>10. Placed(t, h2, R)
  BY <1>3, <1>9 DEF Placed
<1>11. Ordered(t, R)
  <2> SUFFICES ASSUME NEW v \in Spots(t), NEW w \in Spots(t), NEW i \in DOMAIN R[v], NEW j \in DOMAIN R[w],
                      Together(t, R[v][i], R[w][j]), InFront(R, v, i, w, j)
               PROVE  R[v][i].n < R[w][j].n
    BY DEF Ordered
  <2> DEFINE x == R[v][i]
             y == R[w][j]
  <2>1. /\ Level(v, x) > Level(w, y) \/ (v = w /\ i < j)
        /\ i \in Nat /\ j \in Nat /\ Len(Q[v]) \in Nat /\ Len(Q[w]) \in Nat
        /\ Level(v, x) \in 1 .. 7 /\ Level(w, y) \in 1 .. 7
    BY <1>2, <1>4, LevelNumber DEF InFront
  <2>2. /\ Sound(t, h2, x) /\ Sound(t, h2, y) /\ May(t, v, x) /\ May(t, w, y)
        /\ Together(t, x, y) /\ Together(t, y, x)
    BY <1>9 DEF Together
  <2>3. Ways(t, x) /\ Ways(t, y)
    BY <1>1, <2>2, SoundWays
  <2>4. CASE i <= Len(Q[v]) /\ j <= Len(Q[w])
    <3>1. i \in DOMAIN Q[v] /\ j \in DOMAIN Q[w] /\ x = Q[v][i] /\ y = Q[w][j]
      BY <1>4, <2>1, <2>4
    <3>2. InFront(Q, v, i, w, j)
      BY <2>1, <3>1 DEF InFront
    <3> QED  BY <2>2, <3>1, <3>2 DEF Ordered
  <2>5. CASE i <= Len(Q[v]) /\ j > Len(Q[w])
    <3>1. i \in DOMAIN Q[v] /\ x = Q[v][i] /\ y.n = N + 1
      BY <1>4, <1>6, <2>1, <2>5
    <3>2. x.n \in 1 .. N
      BY <1>1, <1>5, <3>1 DEF Sound
    <3> QED  BY <1>1, <3>1, <3>2
  <2>6. CASE i > Len(Q[v])
    <3>1. i - Len(Q[v]) \in DOMAIN E[v] /\ x = E[v][i - Len(Q[v])]
      <4>1. ~(i <= Len(Q[v]))
        BY <2>1, <2>6
      <4> QED  BY <1>4, <4>1
    <3>2. v[1] = "tx" /\ v[2][1] = x.from
      BY <1>6, <3>1
    <3>3. Level(v, x) <= Level(w, y)
      BY <2>2, <2>3, <3>2, SenderLast
    <3>4. v = w /\ i < j
      BY <2>1, <3>3
    <3>5. j - Len(Q[v]) \in DOMAIN E[v] /\ y = E[v][j - Len(Q[v])]
      <4>1. ~(j <= Len(Q[w]))
        BY <2>1, <2>6, <3>4
      <4> QED  BY <1>4, <3>4, <4>1
    <3>6. x.to = y.to
      BY <2>2 DEF Together
    <3>7. i - Len(Q[v]) = j - Len(Q[v])
      BY <1>6, <3>1, <3>5, <3>6
    <3> QED  BY <2>1, <3>4, <3>7
  <2> QED  BY <2>1, <2>4, <2>5, <2>6
<1>12. Covered(t, h2, R)
  <2> SUFFICES ASSUME NEW n \in DOMAIN h2, NEW a \in Range(h2[n].tos)
               PROVE  \E v \in Spots(t) : \E i \in DOMAIN R[v] : R[v][i].n = n /\ R[v][i].to = a
    BY DEF Covered
  <2>1. CASE n \in 1 .. N
    <3>1. a \in Range(h[n].tos) /\ n \in DOMAIN h
      BY <1>1, <2>1
    <3>2. PICK v \in Spots(t) : \E i \in DOMAIN Q[v] : Q[v][i].n = n /\ Q[v][i].to = a
      BY <3>1 DEF Covered
    <3>3. PICK i \in DOMAIN Q[v] : Q[v][i].n = n /\ Q[v][i].to = a
      BY <3>2
    <3>4. i \in DOMAIN R[v] /\ R[v][i] = Q[v][i]
      BY <1>2
    <3> QED  BY <3>3, <3>4
  <2>2. CASE n = N + 1
    <3>1. a \in Range(m.tos)
      BY <1>1, <2>2
    <3>2. PICK v \in Spots(t) : \E i \in DOMAIN E[v] : E[v][i].to = a
      BY <3>1 DEF Adds
    <3>3. PICK i \in DOMAIN E[v] : E[v][i].to = a
      BY <3>2
    <3>4. Len(Q[v]) + i \in DOMAIN R[v] /\ R[v][Len(Q[v]) + i] = E[v][i]
      BY <1>2
    <3> QED  BY <1>6, <2>2, <3>3, <3>4
  <2> QED  BY <1>1, <2>1, <2>2
<1> QED  BY <1>1, <1>10, <1>11, <1>12 DEF h2

-----------------------------------------------------------------------------
(* Buffers of the model.                                                    *)

\* Nth counts through a set of positions.
LEMMA NthCounts ==
  ASSUME NEW N \in Nat, NEW I \in SUBSET (1 .. N)
  PROVE  /\ Cardinality(I) \in Nat
         /\ \A k \in 1 .. Cardinality(I) : Nth(I, k) \in I
         /\ \A k, j \in 1 .. Cardinality(I) : Nth(I, k) = Nth(I, j) => k = j
         /\ \A i \in I : \E k \in 1 .. Cardinality(I) : Nth(I, k) = i
<1> DEFINE upTo(i) == {j \in I : j <= i}
           r == [i \in I |-> Cardinality(upTo(i))]
           n == Cardinality(I)
<1>1. IsFiniteSet(I) /\ n \in Nat
  <2>1. IsFiniteSet(1 .. N)
    BY FS_Interval
  <2> QED  BY <2>1, FS_Subset, FS_CardinalityType
<1>2. ASSUME NEW i \in I
      PROVE  IsFiniteSet(upTo(i)) /\ Cardinality(upTo(i)) \in 1 .. n
  <2>1. upTo(i) \in SUBSET I /\ i \in upTo(i)
    OBVIOUS
  <2>2. IsFiniteSet(upTo(i)) /\ Cardinality(upTo(i)) <= n
    BY <1>1, <2>1, FS_Subset
  <2>3. Cardinality(upTo(i)) \in Nat /\ Cardinality(upTo(i)) # 0
    BY <2>1, <2>2, FS_CardinalityType, FS_EmptySet
  <2> HIDE DEF upTo, n
  <2> QED  BY <1>1, <2>2, <2>3
<1>3. ASSUME NEW i \in I, NEW j \in I, i < j
      PROVE  Cardinality(upTo(i)) # Cardinality(upTo(j))
  <2>0. i \in Int /\ j \in Int /\ ~(j <= i) /\ j <= j /\ \A k \in I : k <= i => k <= j
    BY <1>3
  <2>1. upTo(i) \in SUBSET upTo(j) /\ j \in upTo(j) /\ j \notin upTo(i)
    BY <2>0, Zenon
  <2>2. IsFiniteSet(upTo(j))
    BY <1>2
  <2> HIDE DEF upTo
  <2> QED  BY <2>1, <2>2, FS_Subset
<1>4. \A i, j \in I : r[i] = r[j] => i = j
  <2> SUFFICES ASSUME NEW i \in I, NEW j \in I, r[i] = r[j], i # j
               PROVE  FALSE
    OBVIOUS
  <2>1. i \in Nat /\ j \in Nat
    OBVIOUS
  <2>2. i < j \/ j < i
    BY <2>1
  <2> HIDE DEF upTo
  <2> QED  BY <1>3, <2>2
<1>5. r \in [I -> 1 .. n]
  BY <1>2
<1>6. r \in Injection(I, 1 .. n)
  BY <1>4, <1>5 DEF Injection, IsInjective
<1>7. IsFiniteSet(1 .. n) /\ Cardinality(1 .. n) = n
  <2>1. 1 \in Int /\ n \in Int /\ (n = 0 => 1 > n)
    BY <1>1
  <2> HIDE DEF n
  <2> QED  BY <1>1, <2>1, FS_Interval
<1>8. r \in Surjection(I, 1 .. n)
  BY <1>6, <1>7, FS_Injection
<1>9. ASSUME NEW k \in 1 .. n
      PROVE  Nth(I, k) \in I /\ r[Nth(I, k)] = k
  <2>1. \E i \in I : Cardinality({j \in I : j <= i}) = k
    BY <1>8 DEF Surjection
  <2> QED  BY <2>1 DEF Nth
<1> HIDE DEF r
<1>10. \A i \in I : \E k \in 1 .. n : Nth(I, k) = i
  BY <1>4, <1>5, <1>9
<1> QED  BY <1>1, <1>9, <1>10

\* Taking the elected message, or the first one, is a cut.
LEMMA WithoutIsCut ==
  ASSUME NEW s, NEW k
  PROVE  Without(s, k) = Cut(s, k)
BY DEF Without, Cut

\* Taking the front message off is cutting it out.
LEMMA TailIsCut ==
  ASSUME NEW T, NEW s \in Seq(T), s # <<>>
  PROVE  1 \in DOMAIN s /\ Head(s) = s[1] /\ Head(s) \in T /\ Tail(s) = Cut(s, 1)
<1>1. 1 \in DOMAIN s /\ Head(s) = s[1] /\ Head(s) \in T
  BY EmptySeq, LenProperties, HeadTailProperties
<1>2. Tail(s) = [j \in 1 .. (Len(s) - 1) |-> s[j + 1]]
  BY <1>1, LenProperties, HeadTailProperties
<1>3. \A j \in 1 .. (Len(s) - 1) : ~(j < 1)
  BY LenProperties
<1> QED  BY <1>1, <1>2, <1>3 DEF Cut

\* What the spots hold, and which there are.
LEMMA QueueAt ==
  ASSUME NEW t, NEW x, NEW l, NEW r, NEW g, NEW s \in Spots(t)
  PROVE  /\ s[1] = "tx" => QueuesOf(t, x, l, r, g)[s] = x[s[2]][s[3]]
         /\ s[1] = "link" => QueuesOf(t, x, l, r, g)[s] = l[s[2]].msg
         /\ s[1] = "rx" => QueuesOf(t, x, l, r, g)[s] = r[s[2]][s[3]]
         /\ s[1] = "got" => QueuesOf(t, x, l, r, g)[s] = g[s[2]]
BY DEF QueuesOf

\* Which spots there are.
LEMMA SpotIs ==
  ASSUME NEW t
  PROVE  /\ \A p \in Pairs(t), c \in Classes : <<"tx", p, c>> \in Spots(t)
         /\ \A l \in Links(t) : <<"link", l, l[3]>> \in Spots(t)
         /\ \A a \in Ids(t), c \in Classes : <<"rx", a, c>> \in Spots(t)
         /\ \A a \in Ids(t) : <<"got", a, "all">> \in Spots(t)
BY DEF Spots

\* Families of queues are compared spot by spot.
LEMMA QueuesAre ==
  ASSUME NEW t, NEW x, NEW l, NEW r, NEW g, NEW R, NEW s, NEW k, NEW u,
         \A v \in Spots(t) :
           QueuesOf(t, x, l, r, g)[v] =
             IF v = s THEN Cut(R[s], k) ELSE IF v = u THEN Append(R[u], R[s][k]) ELSE R[v]
  PROVE  MovedOn(t, R, QueuesOf(t, x, l, r, g), s, k, u)
BY DEF QueuesOf, MovedOn

\* A family of queues of copies.
LEMMA QueuesTyped ==
  ASSUME NEW t, NEW x, NEW l, NEW r, NEW g,
         \A v \in Spots(t) : QueuesOf(t, x, l, r, g)[v] \in Seq(Copy)
  PROVE  QueuesOf(t, x, l, r, g) \in [Spots(t) -> Seq(Copy)]
BY DEF QueuesOf

\* What the steps do to the buffers between D: one message is taken out, or put in; to the
\* links: one gets s; to what was taken: one copy more.
CutAt(D, x, x2, p, d, k) ==
  \A q \in D, c \in Classes : x2[q][c] = IF q = p /\ c = d THEN Cut(x[p][d], k) ELSE x[q][c]
AddedAt(D, x, x2, p, d, m) ==
  \A q \in D, c \in Classes : x2[q][c] = IF q = p /\ c = d THEN Append(x[p][d], m) ELSE x[q][c]
SetAt(t, l, l2, e, s) == \A j \in Links(t) : l2[j].msg = IF j = e THEN s ELSE l[j].msg
TakenAt(D, g, g2, a, m) == \A b \in D : g2[b] = IF b = a THEN Append(g[a], m) ELSE g[b]

\* The family after each kind of step: an election, ...
LEMMA TxToLink ==
  ASSUME NEW t, NEW x, NEW x2, NEW l, NEW l2, NEW r, NEW g,
         NEW p \in Pairs(t), NEW e \in Links(t), NEW k, l[e].msg = <<>>, e[3] \in Classes,
         CutAt(Pairs(t), x, x2, p, e[3], k), SetAt(t, l, l2, e, <<x[p][e[3]][k]>>)
  PROVE  MovedOn(t, QueuesOf(t, x, l, r, g), QueuesOf(t, x2, l2, r, g),
                 <<"tx", p, e[3]>>, k, <<"link", e, e[3]>>)
<1> DEFINE Q == QueuesOf(t, x, l, r, g)
           R == QueuesOf(t, x2, l2, r, g)
           s == <<"tx", p, e[3]>>
           u == <<"link", e, e[3]>>
<1>1. s \in Spots(t) /\ u \in Spots(t) /\ Q[s] = x[p][e[3]] /\ Q[u] = <<>>
  BY SpotIs, QueueAt
<1>2. ASSUME NEW v \in Spots(t)
      PROVE  R[v] = IF v = s THEN Cut(Q[s], k) ELSE IF v = u THEN Append(Q[u], Q[s][k]) ELSE Q[v]
  <2>0. v = <<v[1], v[2], v[3]>> /\ v[1] \in {"tx", "link", "rx", "got"}
    BY SpotKinds
  <2>1. CASE v[1] = "tx"
    <3>1. v # u /\ (v = s <=> v[2] = p /\ v[3] = e[3])
      BY <2>0, <2>1
    <3>2. v[2] \in Pairs(t) /\ v[3] \in Classes /\ R[v] = x2[v[2]][v[3]] /\ Q[v] = x[v[2]][v[3]]
      BY <2>1, SpotKinds, QueueAt
    <3> QED  BY <1>1, <3>1, <3>2 DEF CutAt, AddedAt, SetAt, TakenAt
  <2>2. CASE v[1] = "link"
    <3>1. v[2] \in Links(t) /\ v[3] = v[2][3] /\ R[v] = l2[v[2]].msg /\ Q[v] = l[v[2]].msg
      BY <2>2, SpotKinds, QueueAt
    <3>2. v # s /\ (v = u <=> v[2] = e)
      BY <2>0, <2>2, <3>1
    <3> QED  BY <1>1, <3>1, <3>2 DEF CutAt, AddedAt, SetAt, TakenAt
  <2>3. CASE v[1] \in {"rx", "got"}
    <3>1. R[v] = Q[v] /\ v # s /\ v # u
      BY <2>3, QueueAt
    <3> QED  BY <3>1
  <2> QED  BY <2>0, <2>1, <2>2, <2>3
<1> HIDE DEF Q
<1>3. MovedOn(t, Q, R, s, k, u)
  BY <1>2, QueuesAre
<1> QED  BY <1>3 DEF Q, R, s, u

\* A delivery, ...
LEMMA LinkToRx ==
  ASSUME NEW t, NEW x, NEW l, NEW l2, NEW r, NEW r2, NEW g,
         NEW e \in Links(t), NEW a \in Ids(t), e[3] \in Classes,
         SetAt(t, l, l2, e, Cut(l[e].msg, 1)), AddedAt(Ids(t), r, r2, a, e[3], l[e].msg[1])
  PROVE  MovedOn(t, QueuesOf(t, x, l, r, g), QueuesOf(t, x, l2, r2, g),
                 <<"link", e, e[3]>>, 1, <<"rx", a, e[3]>>)
<1> DEFINE Q == QueuesOf(t, x, l, r, g)
           R == QueuesOf(t, x, l2, r2, g)
           s == <<"link", e, e[3]>>
           u == <<"rx", a, e[3]>>
<1>1. s \in Spots(t) /\ u \in Spots(t) /\ Q[s] = l[e].msg /\ Q[u] = r[a][e[3]]
  BY SpotIs, QueueAt
<1>2. ASSUME NEW v \in Spots(t)
      PROVE  R[v] = IF v = s THEN Cut(Q[s], 1) ELSE IF v = u THEN Append(Q[u], Q[s][1]) ELSE Q[v]
  <2>0. v = <<v[1], v[2], v[3]>> /\ v[1] \in {"tx", "link", "rx", "got"}
    BY SpotKinds
  <2>1. CASE v[1] = "link"
    <3>1. v[2] \in Links(t) /\ v[3] = v[2][3] /\ R[v] = l2[v[2]].msg /\ Q[v] = l[v[2]].msg
      BY <2>1, SpotKinds, QueueAt
    <3>2. v # u /\ (v = s <=> v[2] = e)
      BY <2>0, <2>1, <3>1
    <3> QED  BY <1>1, <3>1, <3>2 DEF CutAt, AddedAt, SetAt, TakenAt
  <2>2. CASE v[1] = "rx"
    <3>1. v[2] \in Ids(t) /\ v[3] \in Classes /\ R[v] = r2[v[2]][v[3]] /\ Q[v] = r[v[2]][v[3]]
      BY <2>2, SpotKinds, QueueAt
    <3>2. v # s /\ (v = u <=> v[2] = a /\ v[3] = e[3])
      BY <2>0, <2>2, <3>1
    <3> QED  BY <1>1, <3>1, <3>2 DEF CutAt, AddedAt, SetAt, TakenAt
  <2>3. CASE v[1] \in {"tx", "got"}
    <3>1. R[v] = Q[v] /\ v # s /\ v # u
      BY <2>3, QueueAt
    <3> QED  BY <3>1
  <2> QED  BY <2>0, <2>1, <2>2, <2>3
<1> HIDE DEF Q
<1>3. MovedOn(t, Q, R, s, 1, u)
  BY <1>2, QueuesAre
<1> QED  BY <1>3 DEF Q, R, s, u

\* ... a switch forwarding, ...
LEMMA RxToTx ==
  ASSUME NEW t, NEW x, NEW x2, NEW l, NEW r, NEW r2, NEW g,
         NEW p \in Pairs(t), NEW a \in Ids(t), NEW d \in Classes,
         CutAt(Ids(t), r, r2, a, d, 1), AddedAt(Pairs(t), x, x2, p, d, r[a][d][1])
  PROVE  MovedOn(t, QueuesOf(t, x, l, r, g), QueuesOf(t, x2, l, r2, g),
                 <<"rx", a, d>>, 1, <<"tx", p, d>>)
<1> DEFINE Q == QueuesOf(t, x, l, r, g)
           R == QueuesOf(t, x2, l, r2, g)
           s == <<"rx", a, d>>
           u == <<"tx", p, d>>
<1>1. s \in Spots(t) /\ u \in Spots(t) /\ Q[s] = r[a][d] /\ Q[u] = x[p][d]
  BY SpotIs, QueueAt
<1>2. ASSUME NEW v \in Spots(t)
      PROVE  R[v] = IF v = s THEN Cut(Q[s], 1) ELSE IF v = u THEN Append(Q[u], Q[s][1]) ELSE Q[v]
  <2>0. v = <<v[1], v[2], v[3]>> /\ v[1] \in {"tx", "link", "rx", "got"}
    BY SpotKinds
  <2>1. CASE v[1] = "rx"
    <3>1. v[2] \in Ids(t) /\ v[3] \in Classes /\ R[v] = r2[v[2]][v[3]] /\ Q[v] = r[v[2]][v[3]]
      BY <2>1, SpotKinds, QueueAt
    <3>2. v # u /\ (v = s <=> v[2] = a /\ v[3] = d)
      BY <2>0, <2>1, <3>1
    <3> QED  BY <1>1, <3>1, <3>2 DEF CutAt, AddedAt, SetAt, TakenAt
  <2>2. CASE v[1] = "tx"
    <3>1. v[2] \in Pairs(t) /\ v[3] \in Classes /\ R[v] = x2[v[2]][v[3]] /\ Q[v] = x[v[2]][v[3]]
      BY <2>2, SpotKinds, QueueAt
    <3>2. v # s /\ (v = u <=> v[2] = p /\ v[3] = d)
      BY <2>0, <2>2, <3>1
    <3> QED  BY <1>1, <3>1, <3>2 DEF CutAt, AddedAt, SetAt, TakenAt
  <2>3. CASE v[1] \in {"link", "got"}
    <3>1. R[v] = Q[v] /\ v # s /\ v # u
      BY <2>3, QueueAt
    <3> QED  BY <3>1
  <2> QED  BY <2>0, <2>1, <2>2, <2>3
<1> HIDE DEF Q
<1>3. MovedOn(t, Q, R, s, 1, u)
  BY <1>2, QueuesAre
<1> QED  BY <1>3 DEF Q, R, s, u

\* ... and a controller taking.
LEMMA RxToGot ==
  ASSUME NEW t, NEW x, NEW l, NEW r, NEW r2, NEW g, NEW g2,
         NEW a \in Ids(t), NEW d \in Classes,
         CutAt(Ids(t), r, r2, a, d, 1), TakenAt(Ids(t), g, g2, a, r[a][d][1])
  PROVE  MovedOn(t, QueuesOf(t, x, l, r, g), QueuesOf(t, x, l, r2, g2),
                 <<"rx", a, d>>, 1, <<"got", a, "all">>)
<1> DEFINE Q == QueuesOf(t, x, l, r, g)
           R == QueuesOf(t, x, l, r2, g2)
           s == <<"rx", a, d>>
           u == <<"got", a, "all">>
<1>1. s \in Spots(t) /\ u \in Spots(t) /\ Q[s] = r[a][d] /\ Q[u] = g[a]
  BY SpotIs, QueueAt
<1>2. ASSUME NEW v \in Spots(t)
      PROVE  R[v] = IF v = s THEN Cut(Q[s], 1) ELSE IF v = u THEN Append(Q[u], Q[s][1]) ELSE Q[v]
  <2>0. v = <<v[1], v[2], v[3]>> /\ v[1] \in {"tx", "link", "rx", "got"}
    BY SpotKinds
  <2>1. CASE v[1] = "rx"
    <3>1. v[2] \in Ids(t) /\ v[3] \in Classes /\ R[v] = r2[v[2]][v[3]] /\ Q[v] = r[v[2]][v[3]]
      BY <2>1, SpotKinds, QueueAt
    <3>2. v # u /\ (v = s <=> v[2] = a /\ v[3] = d)
      BY <2>0, <2>1, <3>1
    <3> QED  BY <1>1, <3>1, <3>2 DEF CutAt, AddedAt, SetAt, TakenAt
  <2>2. CASE v[1] = "got"
    <3>1. v[2] \in Ids(t) /\ v[3] = "all" /\ R[v] = g2[v[2]] /\ Q[v] = g[v[2]]
      BY <2>2, SpotKinds, QueueAt
    <3>2. v # s /\ (v = u <=> v[2] = a)
      BY <2>0, <2>2, <3>1
    <3> QED  BY <1>1, <3>1, <3>2 DEF CutAt, AddedAt, SetAt, TakenAt
  <2>3. CASE v[1] \in {"tx", "link"}
    <3>1. R[v] = Q[v] /\ v # s /\ v # u
      BY <2>3, QueueAt
    <3> QED  BY <3>1
  <2> QED  BY <2>0, <2>1, <2>2, <2>3
<1> HIDE DEF Q
<1>3. MovedOn(t, Q, R, s, 1, u)
  BY <1>2, QueuesAre
<1> QED  BY <1>3 DEF Q, R, s, u

-----------------------------------------------------------------------------
(* The steps.                                                               *)

\* What one step leaves of the flows.
LEMMA StepMoves ==
  ASSUME net \in Nets, sent \in Seq(net.traffic), FlowInv, net' = net, sent' = sent,
         NEW s, NEW k, NEW u, Moves(net, Queues, Queues', s, k, u)
  PROVE  FlowInv'
<1>1. Placed(net, sent, Queues') /\ Ordered(net, Queues') /\ Covered(net, sent, Queues')
  BY MoveKeeps DEF FlowInv
<1> QED  BY <1>1 DEF FlowInv

\* A step that moves no copy keeps them.
LEMMA StepStays ==
  ASSUME FlowInv, net' = net, sent' = sent, Queues' = Queues
  PROVE  FlowInv'
BY DEF FlowInv

\* The queues after a step that leaves the buffers, and the messages on the links, alone.
LEMMA QueuesStay ==
  ASSUME net' = net, tx' = tx, rx' = rx, got' = got, \A l \in Links(net) : link'[l].msg = link[l].msg
  PROVE  Queues' = Queues
<1>1. ASSUME NEW v \in Spots(net)
      PROVE  QueuesOf(net, tx, link', rx, got)[v] = QueuesOf(net, tx, link, rx, got)[v]
  <2>1. v[1] \in {"tx", "link", "rx", "got"} /\ (v[1] = "link" => v[2] \in Links(net))
    BY SpotKinds
  <2>2. CASE v[1] = "link"
    BY <2>1, <2>2, QueueAt
  <2>3. CASE v[1] # "link"
    BY <2>1, <2>3, QueueAt
  <2> QED  BY <2>2, <2>3
<1>2. QueuesOf(net, tx, link', rx, got) = QueuesOf(net, tx, link, rx, got)
  BY <1>1 DEF QueuesOf
<1> QED  BY <1>2 DEF Queues

\* peekMessage finds a class with a message when there is one.
LEMMA PeekedIs ==
  ASSUME Shape, NEW a \in Ids(net)
  PROVE  /\ Peeked(a) \in Classes \cup {"none"}
         /\ Peeked(a) = "none" <=> \A c \in Classes : rx[a][c] = <<>>
         /\ Peeked(a) \in Classes => rx[a][Peeked(a)] # <<>>
<1>1. rx[a] \in [Classes -> Seq(Copy)]
  BY DEF Shape
<1>2. /\ peekMessage(rx[a], sel[a]) \in {"request", "data", "none"}
      /\ peekMessage(rx[a], sel[a]) = "none" <=> rx[a]["request"] = <<>> /\ rx[a]["data"] = <<>>
      /\ peekMessage(rx[a], sel[a]) = "request" => rx[a]["request"] # <<>>
      /\ peekMessage(rx[a], sel[a]) = "data" => rx[a]["data"] # <<>>
  BY DEF peekMessage
<1> QED  BY <1>1, <1>2 DEF Peeked, Classes

\* A family of buffers with one buffer changed.
LEMMA ChangeOne ==
  ASSUME NEW A, NEW B, NEW T, NEW f \in [A -> [B -> T]], NEW a \in A, NEW b \in B, NEW v \in T
  PROVE  /\ [f EXCEPT ![a][b] = v] \in [A -> [B -> T]]
         /\ \A x \in A, y \in B : [f EXCEPT ![a][b] = v][x][y] = IF x = a /\ y = b THEN v ELSE f[x][y]
OBVIOUS

\* The head of a receive buffer is taken.
LEMMA PopCuts ==
  ASSUME Shape, NEW a \in Ids(net), Pop(a), Peeked(a) # "none"
  PROVE  /\ Peeked(a) \in Classes /\ rx[a][Peeked(a)] # <<>> /\ 1 \in DOMAIN rx[a][Peeked(a)]
         /\ Head(rx[a][Peeked(a)]) = rx[a][Peeked(a)][1] /\ rx[a][Peeked(a)][1] \in Copy
         /\ rx' \in [Ids(net) -> [Classes -> Seq(Copy)]]
         /\ CutAt(Ids(net), rx, rx', a, Peeked(a), 1)
<1>1. Peeked(a) \in Classes /\ rx[a][Peeked(a)] # <<>>
  BY PeekedIs
<1>2. rx \in [Ids(net) -> [Classes -> Seq(Copy)]] /\ rx[a][Peeked(a)] \in Seq(Copy)
  BY <1>1 DEF Shape
<1>3. /\ 1 \in DOMAIN rx[a][Peeked(a)] /\ Head(rx[a][Peeked(a)]) = rx[a][Peeked(a)][1]
      /\ rx[a][Peeked(a)][1] \in Copy /\ Tail(rx[a][Peeked(a)]) = Cut(rx[a][Peeked(a)], 1)
  BY <1>1, <1>2, TailIsCut
<1>4. Cut(rx[a][Peeked(a)], 1) \in Seq(Copy)
  BY <1>2, <1>3, CutParts
<1>5. rx' = [rx EXCEPT ![a][Peeked(a)] = Cut(rx[a][Peeked(a)], 1)]
  BY <1>3 DEF Pop
<1> QED  BY <1>1, <1>2, <1>3, <1>4, <1>5, ChangeOne DEF CutAt

\* Where a copy on a link is delivered: at the end it goes to.
LEMMA DeliverEnd ==
  ASSUME NEW t \in Nets, NEW l \in Links(t), NEW m, Ways(t, m), NEW a, NEW b, Hop(t, m, a, b),
         {a, b} = {l[1], l[2]}
  PROVE  DeliverTo(t, l, m) = b
<1>1. /\ l[1] \in Nat /\ l[2] \in Nat /\ l[1] < l[2]
      /\ l[1] \in t.row[l[2]] /\ l[2] \in t.row[l[1]]
  BY LinkEnds, TopologyParts
<1>2. a # b /\ m.from # m.to /\ (b = m.to \/ b \in t.switches)
  BY HopEnds DEF Ways
<1>3. CASE t.switches = {}
  BY <1>2, <1>3 DEF DeliverTo
<1>4. CASE t.switches # {} /\ a = m.from
  <2>1. (a = l[1] /\ b = l[2]) \/ (a = l[2] /\ b = l[1])
    BY <1>2
  <2> QED  BY <1>1, <1>4, <2>1 DEF DeliverTo
<1>5. CASE t.switches # {} /\ a # m.from
  <2>1. a \in t.switches /\ b = m.to
    BY <1>5 DEF Hop
  <2>2. (a = l[1] /\ b = l[2]) \/ (a = l[2] /\ b = l[1])
    BY <1>2
  <2>3. b < a
    BY <1>1, <2>1, <2>2, SwitchEnds
  <2>4. b = l[1] /\ a = l[2]
    BY <1>1, <2>2, <2>3
  <2> QED  BY <1>2, <1>5, <2>1, <2>4 DEF DeliverTo
<1> QED  BY <1>3, <1>4, <1>5

\* At most one delivery to an interface and cycle from each neighbour, and class.
LEMMA FedBound ==
  ASSUME NEW t \in Nets, NEW a \in Ids(t), NEW c, NEW k \in 1 .. (Len(t.links) + 1)
  PROVE  /\ IsFiniteSet(Fed(t, a, c, k)) /\ Cardinality(Fed(t, a, c, k)) \in Nat
         /\ Cardinality(Fed(t, a, c, k)) < t.max
<1> DEFINE F == Fed(t, a, c, k)
           L == t.links
           other == [j \in F |-> IF L[j][1] = a THEN L[j][2] ELSE L[j][1]]
<1>1. /\ L \in Seq(Nat \X Nat \X Classes) /\ Len(L) \in Nat /\ DOMAIN L = 1 .. Len(L)
      /\ IsInjective(L) /\ \A j \in DOMAIN L : L[j] \in Links(t)
  BY TopologyParts, LenProperties, MeshAssumption DEF Range
<1>2. \A j \in F : j \in DOMAIN L /\ L[j][3] = c /\ a \in {L[j][1], L[j][2]}
  BY <1>1 DEF Fed
<1>3. ASSUME NEW j \in F
      PROVE  other[j] \in t.row[a] /\ {a, other[j]} = {L[j][1], L[j][2]}
  <2>1. L[j][1] \in t.row[L[j][2]] /\ L[j][2] \in t.row[L[j][1]]
    BY <1>1, <1>2, LinkEnds
  <2> QED  BY <1>2, <2>1
<1>4. ASSUME NEW i \in F, NEW j \in F, other[i] = other[j]
      PROVE  i = j
  <2>1. {L[i][1], L[i][2]} = {L[j][1], L[j][2]} /\ L[i][3] = L[j][3]
    BY <1>2, <1>3, <1>4
  <2>2. L[i] \in Links(t) /\ L[j] \in Links(t)
    BY <1>1, <1>2
  <2>3. L[i] = L[j]
    BY <2>1, <2>2, LinkOne
  <2> QED  BY <1>1, <1>2, <2>3 DEF IsInjective
<1>5. other \in Injection(F, t.row[a])
  <2>1. other \in [F -> t.row[a]]
    BY <1>3
  <2> HIDE DEF other, F
  <2> QED  BY <1>4, <2>1 DEF Injection, IsInjective
<1>6. IsFiniteSet(t.row[a]) /\ Cardinality(t.row[a]) < t.max
  <2>1. t.row \in Seq(SUBSET Nat) /\ t.row[a] \subseteq DOMAIN t.row
    BY TopologyParts, MeshAssumption DEF Ids
  <2>2. IsFiniteSet(DOMAIN t.row)
    BY <2>1, DomainFinite
  <2> QED  BY <2>1, <2>2, FS_Subset, MeshAssumption
<1> HIDE DEF other, F
<1>7. IsFiniteSet(F) /\ Cardinality(F) <= Cardinality(t.row[a])
  BY <1>5, <1>6, FS_Injection
<1>8. Cardinality(F) \in Nat /\ Cardinality(t.row[a]) \in Nat /\ t.max \in Nat
  BY <1>6, <1>7, FS_CardinalityType, TopologyParts
<1> QED  BY <1>6, <1>7, <1>8 DEF F

\* The k-th link adds one delivery to what its ends can have got, none to the others.
LEMMA FedNext ==
  ASSUME NEW t \in Nets, NEW a \in Ids(t), NEW c, NEW k \in 1 .. Len(t.links)
  PROVE  Cardinality(Fed(t, a, c, k + 1)) =
           IF t.links[k][3] = c /\ a \in {t.links[k][1], t.links[k][2]}
           THEN Cardinality(Fed(t, a, c, k)) + 1 ELSE Cardinality(Fed(t, a, c, k))
<1>1. Len(t.links) \in Nat /\ k \in 1 .. (Len(t.links) + 1)
  BY TopologyParts, LenProperties
<1>2. IsFiniteSet(Fed(t, a, c, k)) /\ k \notin Fed(t, a, c, k)
  <2>1. k \notin 1 .. (k - 1)
    BY <1>1
  <2>2. k \notin Fed(t, a, c, k)
    BY <2>1 DEF Fed
  <2> QED  BY <1>1, <2>2, FedBound
<1>3. Fed(t, a, c, k + 1) = IF t.links[k][3] = c /\ a \in {t.links[k][1], t.links[k][2]}
                            THEN Fed(t, a, c, k) \cup {k} ELSE Fed(t, a, c, k)
  <2>1. \A j : j \in 1 .. ((k + 1) - 1) <=> j \in 1 .. (k - 1) \/ j = k
    BY <1>1
  <2> QED  BY <2>1 DEF Fed
<1> QED  BY <1>2, <1>3, FS_AddElement

\* The program starts with nothing on its way.
LEMMA InitInv == Init => MeshInv
<1> SUFFICES ASSUME Init
             PROVE  MeshInv
  OBVIOUS
<1>1. net \in Nets /\ sent = <<>> /\ DOMAIN sent = {} /\ sent \in Seq(net.traffic) /\ Len(net.links) \in Nat
  BY TopologyParts, LenProperties, EmptySeq DEF Init
<1>2. <<>> \in Seq(Copy) /\ Len(<<>>) = 0 /\ DOMAIN <<>> = {}
  BY EmptySeq
<1>3. Shape
  <2>1. tx \in [Pairs(net) -> [Classes -> Seq(Copy)]] /\ rx \in [Ids(net) -> [Classes -> Seq(Copy)]]
        /\ got \in [Ids(net) -> Seq(Copy)]
    BY <1>2 DEF Init
  <2>2. DOMAIN link = Links(net) /\ \A l \in Links(net) : link[l] = Idle
    BY DEF Init
  <2>3. /\ DOMAIN Idle = {"msg", "left", "idx"} /\ Idle.msg = <<>> /\ Idle.left = 0
    BY DEF Idle
  <2>4. at = "nodes" /\ turn = 1 /\ stamp = 1
    BY DEF Init
  <2>5. \A l \in Links(net) :
          /\ DOMAIN link[l] = {"msg", "left", "idx"}
          /\ link[l].msg \in Seq(Copy) /\ Len(link[l].msg) <= 1
          /\ link[l].left \in Nat /\ (link[l].left = 0 <=> link[l].msg = <<>>)
    <3> SUFFICES ASSUME NEW l \in Links(net)
                 PROVE  /\ DOMAIN link[l] = {"msg", "left", "idx"}
                        /\ link[l].msg \in Seq(Copy) /\ Len(link[l].msg) <= 1
                        /\ link[l].left \in Nat /\ (link[l].left = 0 <=> link[l].msg = <<>>)
      OBVIOUS
    <3>1. DOMAIN link[l] = {"msg", "left", "idx"} /\ link[l].msg = <<>> /\ link[l].left = 0
      BY <2>2, <2>3
    <3> QED  BY <1>2, <3>1
  <2>6. turn \in 1 .. (Len(net.links) + 1) /\ stamp \in Int
    BY <1>1, <2>4
  <2> QED  BY <1>1, <2>1, <2>2, <2>4, <2>5, <2>6 DEF Shape
<1>4. Room
  <2>1. \A s \in net.switches : s \in Ids(net)
    BY <1>1, SwitchEnds
  <2>2. \A s \in net.switches, c \in Classes : rx[s][c] = <<>>
    BY <2>1 DEF Init
  <2> QED  BY <2>2, EmptySeq DEF Room, Init
<1>5. \A s \in Spots(net) : Queues[s] = <<>>
  <2> SUFFICES ASSUME NEW s \in Spots(net)
               PROVE  Queues[s] = <<>>
    OBVIOUS
  <2>1. CASE s[1] = "tx"
    BY <2>1, SpotKinds, QueueAt DEF Init, Queues
  <2>2. CASE s[1] = "link"
    BY <2>2, SpotKinds, QueueAt DEF Init, Queues, Idle
  <2>3. CASE s[1] = "rx"
    BY <2>3, SpotKinds, QueueAt DEF Init, Queues
  <2>4. CASE s[1] = "got"
    BY <2>4, SpotKinds, QueueAt DEF Init, Queues
  <2> QED  BY <2>1, <2>2, <2>3, <2>4, SpotKinds
<1>6. Queues \in [Spots(net) -> Seq(Copy)]
  <2>1. \A s \in Spots(net) : QueuesOf(net, tx, link, rx, got)[s] \in Seq(Copy)
    BY <1>2, <1>5 DEF Queues
  <2> QED  BY <2>1, QueuesTyped DEF Queues
<1>7. FlowInv
  BY <1>1, <1>2, <1>5, <1>6 DEF FlowInv, Placed, Ordered, Covered
<1> QED  BY <1>3, <1>4, <1>7 DEF MeshInv

\* The bounds of a cycle: no copy moves.
LEMMA QuietKeeps ==
  ASSUME MeshInv, NextCycle \/ LinksDone \/ SwitchesDone \/ Leave \/ UNCHANGED vars
  PROVE  MeshInv'
<1> USE DEF MeshInv
<1>1. net' = net /\ tx' = tx /\ rx' = rx /\ link' = link /\ got' = got /\ sent' = sent /\ fault' = fault
  BY DEF NextCycle, LinksDone, SwitchesDone, Leave, vars
<1>2. FlowInv'
  <2>1. Queues' = Queues
    BY <1>1, QueuesStay
  <2> QED  BY <1>1, <2>1, StepStays
<1>3. Shape'
  <2>1. Len(net.links) \in Nat
    BY TopologyParts, LenProperties DEF Shape
  <2>2. /\ at' \in {"nodes", "links", "switches"} /\ turn' \in 1 .. (Len(net.links) + 1)
        /\ stamp' \in Int
    BY <2>1 DEF NextCycle, LinksDone, SwitchesDone, Leave, vars, Shape
  <2> QED  BY <1>1, <2>2 DEF Shape
<1>4. net \in Nets /\ Ids(net) = Ends(net) \cup (net.switches \cap Ids(net)) /\ net.switches \subseteq Ids(net)
  BY SwitchEnds DEF Shape, Ends
<1>5. Room'
  <2>1. CASE NextCycle
    <3>1. \A a \in net.switches, c \in Classes : Len(rx[a][c]) = 0 /\ Cardinality(Fed(net, a, c, 1)) = 0
      <4>1. \A a, c : Fed(net, a, c, 1) = {}
        BY DEF Fed
      <4> QED  BY <2>1, <4>1, FS_EmptySet, EmptySeq DEF NextCycle, Room
    <3>2. at' = "links" /\ turn' = 1
      BY <2>1 DEF NextCycle
    <3> QED  BY <1>1, <3>1, <3>2 DEF Room
  <2>2. CASE LinksDone
    BY <1>1, <2>2 DEF LinksDone, Room
  <2>3. CASE SwitchesDone
    <3>1. \A a \in net.switches : Peeked(a) = "none"
      BY <2>3 DEF SwitchesDone, Unread
    <3>2. at' = "nodes" /\ \A a \in net.switches, c \in Classes : rx[a][c] = <<>>
      BY <1>4, <2>3, <3>1, PeekedIs DEF SwitchesDone
    <3> QED  BY <1>1, <3>2 DEF Room
  <2>4. CASE Leave
    BY <1>1, <2>4 DEF Leave, Room
  <2>5. CASE UNCHANGED vars
    BY <1>1, <2>5 DEF vars, Room
  <2> QED  BY <2>1, <2>2, <2>3, <2>4, <2>5
<1> QED  BY <1>2, <1>3, <1>5

\* A controller takes what is for it.
LEMMA TakeKeeps ==
  ASSUME MeshInv, Take
  PROVE  MeshInv'
<1> USE DEF MeshInv
<1>1. PICK a \in Ends(net) : /\ Peeked(a) # "none" /\ Pop(a)
                             /\ got' = [got EXCEPT ![a] = Append(@, Head(rx[a][Peeked(a)]))]
  BY DEF Take
<1>2. /\ net' = net /\ tx' = tx /\ link' = link /\ at' = "nodes" /\ at = "nodes" /\ turn' = turn /\ stamp' = stamp
      /\ sent' = sent /\ fault' = fault
  BY DEF Take
<1> DEFINE d == Peeked(a)
           m == rx[a][d][1]
           s == <<"rx", a, d>>
           u == <<"got", a, "all">>
<1>3. a \in Ids(net) /\ a \notin net.switches /\ Peeked(a) # "none"
  BY <1>1 DEF Ends
<1>4. /\ d \in Classes /\ 1 \in DOMAIN rx[a][d] /\ Head(rx[a][d]) = m /\ m \in Copy
      /\ rx' \in [Ids(net) -> [Classes -> Seq(Copy)]]
      /\ CutAt(Ids(net), rx, rx', a, d, 1)
  BY <1>1, <1>3, PopCuts
<1> HIDE DEF d
<1>5. /\ got' \in [Ids(net) -> Seq(Copy)]
      /\ TakenAt(Ids(net), got, got', a, m)
  <2>1. got \in [Ids(net) -> Seq(Copy)] /\ got' = [got EXCEPT ![a] = Append(@, m)]
    BY <1>1, <1>4 DEF Shape, d
  <2>2. Append(got[a], m) \in Seq(Copy)
    BY <1>3, <1>4, <2>1, AppendProperties
  <2> HIDE DEF m
  <2> QED  BY <1>3, <2>1, <2>2 DEF TakenAt
<1>6. MovedOn(net, Queues, Queues', s, 1, u)
  <2>1. MovedOn(net, QueuesOf(net, tx, link, rx, got), QueuesOf(net, tx, link, rx', got'), s, 1, u)
    <3>1. a \in Ids(net) /\ d \in Classes /\ CutAt(Ids(net), rx, rx', a, d, 1)
          /\ TakenAt(Ids(net), got, got', a, rx[a][d][1])
      BY <1>3, <1>4, <1>5
    <3> QED  BY <3>1, RxToGot
  <2> QED  BY <1>2, <2>1 DEF Queues
<1>7. s \in Spots(net) /\ u \in Spots(net) /\ Queues[s] = rx[a][d]
  BY <1>3, <1>4, SpotIs, QueueAt DEF Queues
<1>8. May(net, s, m)
  BY <1>4, <1>7 DEF FlowInv, Placed
<1>9. a = m.to
  BY <1>3, <1>8, SpotRx
<1>10. May(net, u, m) /\ Level(s, m) = 6 /\ Level(u, m) = 7
  BY <1>9, SpotRx, SpotGot
<1>11. \A j \in DOMAIN Queues[s] : ~(j < 1)
  <2>1. rx[a][d] \in Seq(Copy)
    BY <1>3, <1>4 DEF Shape
  <2>2. DOMAIN rx[a][d] = 1 .. Len(rx[a][d]) /\ Len(rx[a][d]) \in Nat
    BY <2>1, LenProperties
  <2> QED  BY <1>7, <2>2
<1>12. FlowInv'
  <2>1. Moves(net, Queues, Queues', s, 1, u)
    BY <1>4, <1>6, <1>7, <1>10, <1>11 DEF Moves
  <2> QED  BY <1>2, <2>1, StepMoves DEF Shape
<1>13. Shape'
  BY <1>2, <1>4, <1>5 DEF Shape
<1>14. Room'
  <2>1. \A b \in net.switches, c \in Classes : rx'[b][c] = <<>>
    <3>1. \A b \in net.switches, c \in Classes : rx[b][c] = <<>> /\ b # a /\ b \in Ids(net)
      BY <1>2, <1>3, SwitchEnds DEF Room, Shape
    <3> QED  BY <1>4, <3>1 DEF CutAt
  <2> QED  BY <1>2, <2>1 DEF Room
<1> QED  BY <1>12, <1>13, <1>14

\* The copies of msg that pushMessage puts into the buffer from a towards b.
Extra(a, b, msg, tos) ==
  [k \in 1 .. Cardinality(Towards(a, b, tos)) |-> [msg EXCEPT !.to = tos[Nth(Towards(a, b, tos), k)]]]

\* One for each destination in this direction, and no other.
ExtraFits(a, b, msg, tos) ==
  /\ Extra(a, b, msg, tos) \in Seq(Copy)
  /\ \A k \in DOMAIN Extra(a, b, msg, tos) :
       /\ Nth(Towards(a, b, tos), k) \in Towards(a, b, tos)
       /\ Extra(a, b, msg, tos)[k] = [msg EXCEPT !.to = tos[Nth(Towards(a, b, tos), k)]]
  /\ \A k, j \in DOMAIN Extra(a, b, msg, tos) :
       Nth(Towards(a, b, tos), k) = Nth(Towards(a, b, tos), j) => k = j
  /\ \A i \in Towards(a, b, tos) : \E k \in DOMAIN Extra(a, b, msg, tos) :
       Extra(a, b, msg, tos)[k] = [msg EXCEPT !.to = tos[i]]

\* It is so, whatever the destinations.
LEMMA ExtraParts ==
  ASSUME NEW a, NEW b, NEW msg \in Copy, NEW tos \in Seq(Nat)
  PROVE  ExtraFits(a, b, msg, tos)
<1> DEFINE I == Towards(a, b, tos)
           n == Cardinality(I)
           E == [k \in 1 .. n |-> [msg EXCEPT !.to = tos[Nth(I, k)]]]
<1>1. Len(tos) \in Nat /\ DOMAIN tos = 1 .. Len(tos) /\ \A i \in DOMAIN tos : tos[i] \in Nat
  BY LenProperties, ElementOfSeq
<1>2. I \in SUBSET (1 .. Len(tos)) /\ \A i \in I : tos[i] \in Nat
  BY <1>1 DEF Towards
<1>3. /\ n \in Nat /\ \A k \in 1 .. n : Nth(I, k) \in I
      /\ \A k, j \in 1 .. n : Nth(I, k) = Nth(I, j) => k = j
      /\ \A i \in I : \E k \in 1 .. n : Nth(I, k) = i
  BY <1>1, <1>2, NthCounts
<1>4. \A v \in Nat : [msg EXCEPT !.to = v] \in Copy
  BY DEF Copy
<1> HIDE DEF I, n
<1>5. \A k \in 1 .. n : [msg EXCEPT !.to = tos[Nth(I, k)]] \in Copy
  BY <1>2, <1>3, <1>4
<1>6. E \in Seq(Copy) /\ DOMAIN E = 1 .. n
  BY <1>3, <1>5, IsASeq
<1> QED  BY <1>3, <1>6 DEF Extra, ExtraFits, I, n

\* What pushMessage does to every buffer.
Pushed(x, x2, a, msg, tos) ==
  /\ x2 \in [Pairs(net) -> [Classes -> Seq(Copy)]]
  /\ \A q \in Pairs(net), c \in Classes :
       x2[q][c] = IF q[1] = a /\ c = msg.class THEN x[q][c] \o Extra(a, q[2], msg, tos) ELSE x[q][c]

\* It is so, of every transmit buffer.
LEMMA PushParts ==
  ASSUME Shape, NEW a, NEW msg \in Copy, NEW tos \in Seq(Nat)
  PROVE  Pushed(tx, Push(tx, a, msg, tos), a, msg, tos)
<1>1. tx \in [Pairs(net) -> [Classes -> Seq(Copy)]] /\ msg.class \in Classes
  BY DEF Shape, Copy
<1>2. DOMAIN tx = Pairs(net)
  BY <1>1
<1> DEFINE one(p) == IF p[1] = a THEN [tx[p] EXCEPT ![msg.class] = @ \o Extra(a, p[2], msg, tos)] ELSE tx[p]
<1>3. Push(tx, a, msg, tos) = [p \in Pairs(net) |-> one(p)]
  BY <1>2 DEF Push, Extra
<1>4. ASSUME NEW q \in Pairs(net)
      PROVE  /\ one(q) \in [Classes -> Seq(Copy)]
             /\ \A c \in Classes :
                  one(q)[c] = IF q[1] = a /\ c = msg.class THEN tx[q][c] \o Extra(a, q[2], msg, tos) ELSE tx[q][c]
  <2>1. tx[q] \in [Classes -> Seq(Copy)] /\ tx[q][msg.class] \in Seq(Copy)
    BY <1>1
  <2>2. Extra(a, q[2], msg, tos) \in Seq(Copy)
    BY ExtraParts DEF ExtraFits
  <2>3. tx[q][msg.class] \o Extra(a, q[2], msg, tos) \in Seq(Copy)
    BY <2>1, <2>2, ConcatProperties
  <2> QED  BY <1>1, <2>1, <2>3
<1> HIDE DEF one
<1> QED  BY <1>3, <1>4 DEF Pushed

\* A switch forwards a copy to its destination, a neighbour.
LEMMA PushOne ==
  ASSUME Shape, NEW a, NEW msg \in Copy, Route(net, a, msg.to) = {msg.to}, <<a, msg.to>> \in Pairs(net)
  PROVE  \A q \in Pairs(net), c \in Classes :
           Push(tx, a, msg, <<msg.to>>)[q][c] =
             IF q = <<a, msg.to>> /\ c = msg.class THEN Append(tx[<<a, msg.to>>][msg.class], msg) ELSE tx[q][c]
<1> DEFINE tos == <<msg.to>>
<1>1. msg.to \in Nat /\ tos \in Seq(Nat) /\ DOMAIN tos = {1} /\ tos[1] = msg.to
  BY DEF Copy
<1>2. [msg EXCEPT !.to = msg.to] = msg
  BY DEF Copy
<1> HIDE DEF tos
<1>3. ASSUME NEW q \in Pairs(net), NEW c \in Classes
      PROVE  Push(tx, a, msg, tos)[q][c] =
               IF q = <<a, msg.to>> /\ c = msg.class THEN Append(tx[<<a, msg.to>>][msg.class], msg) ELSE tx[q][c]
  <2>0. Push(tx, a, msg, tos)[q][c] =
          IF q[1] = a /\ c = msg.class THEN tx[q][c] \o Extra(a, q[2], msg, tos) ELSE tx[q][c]
    <3>1. Pushed(tx, Push(tx, a, msg, tos), a, msg, tos)
      BY <1>1, PushParts
    <3> QED  BY <3>1 DEF Pushed
  <2>1. tx[q][c] \in Seq(Copy)
    BY DEF Shape
  <2>2. q = <<q[1], q[2]>>
    BY DEF Pairs
  <2>3. Extra(a, q[2], msg, tos) \in Seq(Copy)
    BY <1>1, ExtraParts DEF ExtraFits
  <2>4. CASE q[2] = msg.to
    <3>1. Towards(a, q[2], tos) = {1}
      BY <1>1, <2>4 DEF Towards
    <3>2. Cardinality({1}) = 1
      BY FS_Singleton
    <3>3. DOMAIN Extra(a, q[2], msg, tos) = {1} /\ Extra(a, q[2], msg, tos)[1] = msg
      <4>1. DOMAIN Extra(a, q[2], msg, tos) = 1 .. 1
        BY <3>1, <3>2 DEF Extra
      <4>2. /\ Nth(Towards(a, q[2], tos), 1) \in Towards(a, q[2], tos)
            /\ Extra(a, q[2], msg, tos)[1] = [msg EXCEPT !.to = tos[Nth(Towards(a, q[2], tos), 1)]]
        <5>1. \A k \in DOMAIN Extra(a, q[2], msg, tos) :
                /\ Nth(Towards(a, q[2], tos), k) \in Towards(a, q[2], tos)
                /\ Extra(a, q[2], msg, tos)[k] = [msg EXCEPT !.to = tos[Nth(Towards(a, q[2], tos), k)]]
          BY <1>1, ExtraParts DEF ExtraFits
        <5>2. 1 \in DOMAIN Extra(a, q[2], msg, tos)
          BY <4>1
        <5> QED  BY <5>1, <5>2
      <4>3. Nth(Towards(a, q[2], tos), 1) = 1
        BY <3>1, <4>2
      <4>4. Extra(a, q[2], msg, tos)[1] = msg
        BY <1>1, <1>2, <4>2, <4>3
      <4> QED  BY <4>1, <4>4
    <3>4. Extra(a, q[2], msg, tos) = <<msg>>
      BY <2>3, <3>3, SeqEqual, LenProperties
    <3>5. tx[q][c] \o <<msg>> = Append(tx[q][c], msg)
      BY <2>1, AppendIsConcat
    <3>6. q = <<a, msg.to>> <=> q[1] = a
      BY <2>2, <2>4
    <3>7. CASE q[1] = a /\ c = msg.class
      BY <2>0, <3>4, <3>5, <3>6, <3>7
    <3>8. CASE ~(q[1] = a /\ c = msg.class)
      BY <2>0, <3>6, <3>8
    <3> QED  BY <3>7, <3>8
  <2>5. CASE q[2] # msg.to
    <3>1. Towards(a, q[2], tos) = {}
      BY <1>1, <2>5 DEF Towards
    <3>2. Extra(a, q[2], msg, tos) = <<>>
      <4>1. Cardinality(Towards(a, q[2], tos)) = 0
        BY <3>1, FS_EmptySet
      <4>2. DOMAIN Extra(a, q[2], msg, tos) = 1 .. 0
        BY <4>1 DEF Extra
      <4>3. Len(Extra(a, q[2], msg, tos)) = 0
        BY <2>3, <4>2, LenProperties
      <4> QED  BY <2>3, <4>3, EmptySeq
    <3>3. tx[q][c] \o <<>> = tx[q][c]
      BY <2>1, ConcatEmptySeq
    <3> QED  BY <2>0, <2>2, <2>5, <3>2, <3>3
  <2> QED  BY <2>4, <2>5
<1> HIDE DEF tos
<1> QED  BY <1>3 DEF tos

\* A switch passes a copy on.
LEMMA ForwardKeeps ==
  ASSUME MeshInv, forward
  PROVE  MeshInv'
<1> USE DEF MeshInv
<1>1. PICK a \in net.switches : /\ First(a, Unread(net.switches)) /\ Pop(a)
                                /\ tx' = Push(tx, a, Head(rx[a][Peeked(a)]), <<Head(rx[a][Peeked(a)]).to>>)
  BY DEF forward
<1>2. /\ net' = net /\ link' = link /\ at' = "switches" /\ at = "switches" /\ turn' = turn /\ stamp' = stamp
      /\ sent' = sent /\ got' = got /\ fault' = fault
  BY DEF forward
<1> DEFINE d == Peeked(a)
           m == rx[a][d][1]
           p == <<a, m.to>>
           s == <<"rx", a, d>>
           u == <<"tx", p, d>>
<1>3. a \in Ids(net) /\ Peeked(a) # "none" /\ net \in Nets
  BY <1>1, SwitchEnds DEF Shape, First, Unread
<1>4. /\ d \in Classes /\ 1 \in DOMAIN rx[a][d] /\ Head(rx[a][d]) = m /\ m \in Copy
      /\ rx' \in [Ids(net) -> [Classes -> Seq(Copy)]]
      /\ CutAt(Ids(net), rx, rx', a, d, 1)
  BY <1>1, <1>3, PopCuts
<1> HIDE DEF d
<1>5. <<"rx", a, d>> \in Spots(net) /\ Queues[<<"rx", a, d>>] = rx[a][d]
  <2>1. <<"rx", a, d>> \in Spots(net)
    BY <1>3, <1>4, SpotIs
  <2> DEFINE v == <<"rx", a, d>>
  <2>2. v[1] = "rx" /\ v[2] = a /\ v[3] = d
    OBVIOUS
  <2> HIDE DEF v
  <2>3. v \in Spots(net) => Queues[v] = rx[a][d]
    BY <2>2, QueueAt DEF Queues
  <2> QED  BY <2>1, <2>3 DEF v
<1>6. May(net, s, m) /\ Sound(net, sent, m)
  BY <1>4, <1>5 DEF FlowInv, Placed
<1>7. Ways(net, m)
  BY <1>3, <1>6, SoundWays DEF Shape
<1>8. a # m.to /\ a \in net.switches \cap Route(net, m.from, m.to) /\ m.class = d
  BY <1>1, <1>6, <1>7, SpotRx DEF Ways
<1>9. Hop(net, m, a, m.to)
  BY <1>8 DEF Hop
<1>10. m.to \in net.row[a] /\ p \in Pairs(net) /\ Route(net, a, m.to) = {m.to}
  <2>1. m.to \in net.row[a] /\ m.to \in Ids(net)
    BY <1>3, <1>7, <1>9, HopEnds
  <2> QED  BY <1>3, <2>1 DEF Pairs, Route
<1>11. /\ tx' \in [Pairs(net) -> [Classes -> Seq(Copy)]]
       /\ AddedAt(Pairs(net), tx, tx', p, d, m)
  <2>1. tx' = Push(tx, a, m, <<m.to>>)
    BY <1>1, <1>4 DEF d
  <2>2. <<m.to>> \in Seq(Nat)
    BY <1>4 DEF Copy
  <2> HIDE DEF m
  <2>3. Push(tx, a, m, <<m.to>>) \in [Pairs(net) -> [Classes -> Seq(Copy)]]
    <3>1. Pushed(tx, Push(tx, a, m, <<m.to>>), a, m, <<m.to>>)
      BY <1>4, <2>2, PushParts
    <3> QED  BY <3>1 DEF Pushed
  <2>4. \A q \in Pairs(net), c \in Classes :
          Push(tx, a, m, <<m.to>>)[q][c] =
            IF q = <<a, m.to>> /\ c = m.class THEN Append(tx[<<a, m.to>>][m.class], m) ELSE tx[q][c]
    BY <1>4, <1>10, PushOne
  <2> QED  BY <1>8, <2>1, <2>3, <2>4 DEF AddedAt
<1>12. MovedOn(net, Queues, Queues', s, 1, u)
  <2> HIDE DEF p
  <2>2. MovedOn(net, QueuesOf(net, tx, link, rx, got), QueuesOf(net, tx', link, rx', got), s, 1, u)
    <3>1. p \in Pairs(net) /\ a \in Ids(net) /\ d \in Classes /\ CutAt(Ids(net), rx, rx', a, d, 1)
          /\ AddedAt(Pairs(net), tx, tx', p, d, rx[a][d][1])
      BY <1>3, <1>4, <1>10, <1>11
    <3> QED  BY <3>1, RxToTx
  <2> QED  BY <1>2, <2>2 DEF Queues
<1>13. u \in Spots(net) /\ May(net, u, m) /\ Level(s, m) = 3 /\ Level(u, m) = 4
  <2>1. u \in Spots(net)
    BY <1>4, <1>10, SpotIs
  <2>2. Level(s, m) = 3
    BY <1>8, SpotRx
  <2> HIDE DEF m
  <2> QED  BY <1>8, <1>9, <2>1, <2>2, SpotTx
<1>14. \A j \in DOMAIN Queues[s] : ~(j < 1)
  <2>1. rx[a][d] \in Seq(Copy)
    BY <1>3, <1>4 DEF Shape
  <2>2. DOMAIN rx[a][d] = 1 .. Len(rx[a][d]) /\ Len(rx[a][d]) \in Nat
    BY <2>1, LenProperties
  <2> QED  BY <1>5, <2>2
<1>15. FlowInv'
  <2>1. Moves(net, Queues, Queues', s, 1, u)
    <3>1. 1 \in DOMAIN Queues[s] /\ Queues[s][1] = m /\ s # u /\ s \in Spots(net)
      BY <1>4, <1>5
    <3> HIDE DEF m, s, u
    <3> QED  BY <1>12, <1>13, <1>14, <3>1 DEF Moves
  <2> QED  BY <1>2, <2>1, StepMoves DEF Shape
<1>16. Shape'
  BY <1>2, <1>4, <1>11 DEF Shape
<1>17. Room'
  BY <1>2 DEF Room
<1> QED  BY <1>15, <1>16, <1>17

\* A controller sends: the copies are behind all others of their flows.
LEMMA SendKeeps ==
  ASSUME MeshInv, NEW m \in net.traffic, Send(m)
  PROVE  MeshInv'
<1> USE DEF MeshInv
<1> DEFINE msg == [n |-> Len(sent) + 1, from |-> m.from, to |-> m.from, class |-> m.class,
                   owner |-> m.owner, cycle |-> stamp]
           More(v) == IF v[1] = "tx" /\ v[2][1] = m.from /\ v[3] = m.class
                      THEN Extra(m.from, v[2][2], msg, m.tos) ELSE <<>>
           E == [v \in Spots(net) |-> More(v)]
<1>1. /\ net' = net /\ rx' = rx /\ link' = link /\ at' = at /\ at = "nodes" /\ turn' = turn /\ stamp' = stamp
      /\ got' = got /\ fault' = fault /\ sent' = Append(sent, m) /\ tx' = Push(tx, m.from, msg, m.tos)
  BY DEF Send
<1>2. /\ net \in Nets /\ sent \in Seq(net.traffic) /\ Len(sent) \in Nat /\ stamp \in Int
  BY LenProperties DEF Shape
<1>3. /\ m.from \in Ids(net) /\ IsInjective(m.tos) /\ m.tos \in Seq(Nat)
      /\ m.class \in Classes /\ m.owner \in Nat /\ m.from \in Nat
      /\ \A to \in Range(m.tos) : \E b \in Ids(net) : Route(net, m.from, to) = {b}
  BY <1>2, TrafficRoute DEF Ends
<1>4. /\ msg \in Copy /\ msg.n = Len(sent) + 1 /\ msg.from = m.from /\ msg.class = m.class /\ msg.owner = m.owner
  BY <1>2, <1>3 DEF Copy
<1> HIDE DEF msg
<1>5. /\ tx' \in [Pairs(net) -> [Classes -> Seq(Copy)]]
      /\ \A q \in Pairs(net), c \in Classes :
           tx'[q][c] = IF q[1] = m.from /\ c = m.class THEN tx[q][c] \o Extra(m.from, q[2], msg, m.tos) ELSE tx[q][c]
  <2>1. /\ Push(tx, m.from, msg, m.tos) \in [Pairs(net) -> [Classes -> Seq(Copy)]]
        /\ \A q \in Pairs(net), c \in Classes :
             Push(tx, m.from, msg, m.tos)[q][c] =
               IF q[1] = m.from /\ c = msg.class THEN tx[q][c] \o Extra(m.from, q[2], msg, m.tos) ELSE tx[q][c]
    <3>1. msg \in Copy /\ m.tos \in Seq(Nat)
      BY <1>3, <1>4
    <3>2. Pushed(tx, Push(tx, m.from, msg, m.tos), m.from, msg, m.tos)
      BY <3>1, PushParts
    <3> QED  BY <3>2 DEF Pushed
  <2> QED  BY <1>1, <1>4, <2>1
<1>6. \A v \in Spots(net) : Queues[v] \in Seq(Copy)
  BY DEF FlowInv, Placed
<1>7. Queues' = [v \in Spots(net) |-> Queues[v] \o E[v]]
  <2>1. ASSUME NEW v \in Spots(net)
        PROVE  QueuesOf(net, tx', link, rx, got)[v] = QueuesOf(net, tx, link, rx, got)[v] \o More(v)
    <3>1. QueuesOf(net, tx, link, rx, got)[v] \o <<>> = QueuesOf(net, tx, link, rx, got)[v]
      BY <1>6, ConcatEmptySeq DEF Queues
    <3>2. CASE v[1] = "tx"
      <4>1. v[2] \in Pairs(net) /\ v[3] \in Classes
        BY <3>2, SpotKinds
      <4>2. /\ QueuesOf(net, tx', link, rx, got)[v] = tx'[v[2]][v[3]]
            /\ QueuesOf(net, tx, link, rx, got)[v] = tx[v[2]][v[3]]
        BY <3>2, QueueAt
      <4>3. CASE v[2][1] = m.from /\ v[3] = m.class
        BY <1>5, <3>2, <4>1, <4>2, <4>3
      <4>4. CASE ~(v[2][1] = m.from /\ v[3] = m.class)
        BY <1>5, <3>1, <3>2, <4>1, <4>2, <4>4
      <4> QED  BY <4>3, <4>4
    <3>3. CASE v[1] # "tx"
      <4>1. QueuesOf(net, tx', link, rx, got)[v] = QueuesOf(net, tx, link, rx, got)[v]
        BY <3>3, SpotKinds, QueueAt
      <4> QED  BY <3>1, <3>3, <4>1
    <3> QED  BY <3>2, <3>3
  <2> DEFINE Q == QueuesOf(net, tx, link, rx, got)
  <2>2. QueuesOf(net, tx', link, rx, got) = [v \in Spots(net) |-> Q[v] \o E[v]]
    <3>1. \A v \in Spots(net) : QueuesOf(net, tx', link, rx, got)[v] = Q[v] \o E[v]
      BY <2>1
    <3> HIDE DEF E, Q
    <3> QED  BY <3>1 DEF QueuesOf
  <2> QED  BY <1>1, <2>2 DEF Queues
<1>12. \A b : ExtraFits(m.from, b, msg, m.tos)
  <2>1. msg \in Copy /\ m.tos \in Seq(Nat)
    BY <1>3, <1>4
  <2> QED  BY <2>1, ExtraParts
<1>8. Adds(net, sent, Queues, Queues', E, m)
  <2>1. E \in [Spots(net) -> Seq(Copy)]
    <3>1. \A v \in Spots(net) : More(v) \in Seq(Copy)
      BY <1>12, EmptySeq DEF ExtraFits
    <3> HIDE DEF More
    <3> QED  BY <3>1
  <2>2. ASSUME NEW v \in Spots(net), NEW i \in DOMAIN E[v]
        PROVE  /\ E[v][i].n = Len(sent) + 1 /\ E[v][i].from = m.from /\ E[v][i].class = m.class
               /\ E[v][i].owner = m.owner /\ E[v][i].to \in Range(m.tos)
               /\ v[1] = "tx" /\ v[2][1] = m.from /\ May(net, v, E[v][i])
               /\ \A j \in DOMAIN E[v] : E[v][i].to = E[v][j].to => i = j
    <3>1. v[1] = "tx" /\ v[2][1] = m.from /\ v[3] = m.class /\ E[v] = Extra(m.from, v[2][2], msg, m.tos)
      <4>1. DOMAIN <<>> = {}
        OBVIOUS
      <4>2. E[v] = More(v)
        OBVIOUS
      <4> HIDE DEF E
      <4> QED  BY <2>2, <4>1, <4>2
    <3> DEFINE I == Towards(m.from, v[2][2], m.tos)
               F == Extra(m.from, v[2][2], msg, m.tos)
    <3>2. /\ \A k \in DOMAIN F : Nth(I, k) \in I /\ F[k] = [msg EXCEPT !.to = m.tos[Nth(I, k)]]
          /\ \A k, j \in DOMAIN F : Nth(I, k) = Nth(I, j) => k = j
      BY <1>12 DEF ExtraFits
    <3>3. \A z \in I : z \in DOMAIN m.tos /\ v[2][2] \in Route(net, m.from, m.tos[z])
      BY DEF Towards
    <3>4. \A z : /\ [msg EXCEPT !.to = z].to = z /\ [msg EXCEPT !.to = z].n = msg.n
                 /\ [msg EXCEPT !.to = z].from = msg.from /\ [msg EXCEPT !.to = z].class = msg.class
                 /\ [msg EXCEPT !.to = z].owner = msg.owner
      BY <1>4 DEF Copy
    <3> HIDE DEF I, F, E
    <3>5. /\ i \in DOMAIN F /\ E[v][i] = F[i] /\ F[i].n = Len(sent) + 1 /\ F[i].from = m.from
          /\ F[i].class = m.class /\ F[i].owner = m.owner /\ F[i].to = m.tos[Nth(I, i)]
      <4>1. i \in DOMAIN F /\ E[v][i] = F[i] /\ F[i] = [msg EXCEPT !.to = m.tos[Nth(I, i)]]
        BY <2>2, <3>1, <3>2 DEF F
      <4> QED  BY <1>4, <3>4, <4>1
    <3>6. F[i].to \in Range(m.tos)
      BY <3>2, <3>3, <3>5 DEF Range
    <3>7. Hop(net, F[i], m.from, v[2][2])
      BY <3>2, <3>3, <3>5 DEF Hop
    <3>8. May(net, v, F[i])
      BY <3>1, <3>5, <3>7, SpotTx
    <3>9. ASSUME NEW j \in DOMAIN E[v], E[v][i].to = E[v][j].to
          PROVE  i = j
      <4>1. j \in DOMAIN F /\ E[v][j].to = m.tos[Nth(I, j)]
        <5>1. j \in DOMAIN F /\ E[v][j] = F[j] /\ F[j] = [msg EXCEPT !.to = m.tos[Nth(I, j)]]
          BY <3>1, <3>2, <3>9 DEF F
        <5> QED  BY <3>4, <5>1
      <4>2. Nth(I, i) = Nth(I, j)
        BY <1>3, <3>2, <3>3, <3>5, <3>9, <4>1 DEF IsInjective
      <4> QED  BY <3>2, <3>5, <4>1, <4>2
    <3> QED  BY <3>1, <3>5, <3>6, <3>8, <3>9
  <2>3. ASSUME NEW b \in Range(m.tos)
        PROVE  \E v \in Spots(net) : \E i \in DOMAIN E[v] : E[v][i].to = b
    <3>1. PICK w \in Ids(net) : Route(net, m.from, b) = {w}
      BY <1>3
    <3>2. PICK z \in DOMAIN m.tos : m.tos[z] = b
      BY DEF Range
    <3>3. w \in net.row[m.from]
      BY <3>1 DEF Route, Through
    <3> DEFINE q == <<m.from, w>>
               v == <<"tx", q, m.class>>
    <3>4. v \in Spots(net) /\ E[v] = Extra(m.from, w, msg, m.tos)
      <4>1. q \in Pairs(net)
        BY <1>3, <3>3 DEF Pairs
      <4>2. v \in Spots(net)
        BY <1>3, <4>1, SpotIs
      <4> QED  BY <4>2
    <3>5. z \in Towards(m.from, w, m.tos)
      BY <3>1, <3>2 DEF Towards
    <3>6. PICK i \in DOMAIN Extra(m.from, w, msg, m.tos) :
            Extra(m.from, w, msg, m.tos)[i] = [msg EXCEPT !.to = m.tos[z]]
      <4>1. \A x \in Towards(m.from, w, m.tos) : \E k \in DOMAIN Extra(m.from, w, msg, m.tos) :
              Extra(m.from, w, msg, m.tos)[k] = [msg EXCEPT !.to = m.tos[x]]
        BY <1>12 DEF ExtraFits
      <4> QED  BY <3>5, <4>1
    <3>7. [msg EXCEPT !.to = m.tos[z]].to = b
      BY <1>4, <3>2 DEF Copy
    <3> HIDE DEF E, v
    <3> QED  BY <3>4, <3>6, <3>7
  <2> HIDE DEF E
  <2> QED  BY <1>7, <2>1, <2>2, <2>3 DEF Adds
<1> HIDE DEF E
<1>9. Append(sent, m) \in Seq(net.traffic) /\ FlowInv'
  <2>1. /\ Append(sent, m) \in Seq(net.traffic) /\ Placed(net, Append(sent, m), Queues')
        /\ Ordered(net, Queues') /\ Covered(net, Append(sent, m), Queues')
    BY <1>2, <1>8, AddKeeps DEF FlowInv
  <2> QED  BY <1>1, <2>1 DEF FlowInv
<1>10. Shape'
  BY <1>1, <1>5, <1>9 DEF Shape
<1>11. Room'
  BY <1>1 DEF Room
<1> QED  BY <1>9, <1>10, <1>11

\* What every step of a link has in common.
LEMMA LinkStep ==
  ASSUME MeshInv, step
  PROVE  /\ turn \in 1 .. Len(net.links) /\ net.links[turn] \in Links(net)
         /\ turn' \in 1 .. (Len(net.links) + 1) /\ turn' = turn + 1
         /\ net' = net /\ at = "links" /\ at' = "links" /\ stamp' = stamp /\ sent' = sent /\ got' = got
         /\ net \in Nets /\ fault = {}
<1>1. net \in Nets /\ turn \in 1 .. (Len(net.links) + 1) /\ turn <= Len(net.links)
  BY DEF MeshInv, Shape, step
<1>2. Len(net.links) \in Nat /\ DOMAIN net.links = 1 .. Len(net.links)
  BY <1>1, TopologyParts, LenProperties
<1>3. turn \in 1 .. Len(net.links) /\ turn' \in 1 .. (Len(net.links) + 1) /\ turn' = turn + 1
  BY <1>1, <1>2 DEF step
<1>4. net.links[turn] \in Links(net)
  BY <1>1, <1>2, <1>3, MeshAssumption DEF Range
<1> QED  BY <1>1, <1>3, <1>4 DEF step

\* What a step that delivers nothing leaves of the room.
LEMMA RoomKeeps ==
  ASSUME MeshInv, step, rx' = rx, fault' \in SUBSET Ends(net)
  PROVE  Room'
<1>1. /\ turn \in 1 .. Len(net.links) /\ turn' = turn + 1 /\ net' = net /\ at = "links" /\ at' = "links"
      /\ net \in Nets /\ fault = {}
  BY LinkStep
<1>0. \A a \in net.switches : a \in Ids(net)
  BY SwitchEnds DEF MeshInv, Shape
<1>2. \A a \in net.switches, c \in Classes : Len(rx[a][c]) \in Nat /\ Len(rx[a][c]) <= Cardinality(Fed(net, a, c, turn))
  <2>1. \A a \in net.switches, c \in Classes : rx[a][c] \in Seq(Copy)
    BY <1>0 DEF MeshInv, Shape
  <2> QED  BY <1>1, <2>1, LenProperties DEF MeshInv, Room
<1>3. ASSUME NEW a \in net.switches, NEW c \in Classes
      PROVE  Len(rx[a][c]) <= Cardinality(Fed(net, a, c, turn + 1))
  <2>1. turn \in 1 .. (Len(net.links) + 1)
    BY DEF MeshInv, Shape
  <2>2. Cardinality(Fed(net, a, c, turn)) \in Nat
    BY <1>0, <1>1, <2>1, FedBound
  <2>3. \/ Cardinality(Fed(net, a, c, turn + 1)) = Cardinality(Fed(net, a, c, turn)) + 1
        \/ Cardinality(Fed(net, a, c, turn + 1)) = Cardinality(Fed(net, a, c, turn))
    BY <1>0, <1>1, FedNext
  <2> QED  BY <1>2, <2>2, <2>3
<1> QED  BY <1>1, <1>3 DEF MeshInv, Room

\* A link that elects nothing, or is busy, moves no copy.
LEMMA LinkQuietKeeps ==
  ASSUME MeshInv, step, Idles(net.links[turn]) \/ Busy(net.links[turn])
  PROVE  MeshInv'
<1> USE DEF MeshInv
<1> DEFINE l == net.links[turn]
<1>1. /\ l \in Links(net) /\ turn' \in 1 .. (Len(net.links) + 1) /\ net' = net /\ at' = "links"
      /\ stamp' = stamp /\ sent' = sent /\ got' = got
  BY LinkStep
<1> HIDE DEF l
<1>2. tx' = tx /\ rx' = rx /\ fault' = fault
  BY DEF Idles, Busy
<1>3. DOMAIN link = Links(net) /\ \A j \in Links(net) :
        /\ DOMAIN link[j] = {"msg", "left", "idx"}
        /\ link[j].msg \in Seq(Copy) /\ Len(link[j].msg) <= 1
        /\ link[j].left \in Nat /\ (link[j].left = 0 <=> link[j].msg = <<>>)
  BY DEF Shape
<1>4. DOMAIN link' = Links(net) /\ \A j \in Links(net) :
        /\ DOMAIN link'[j] = {"msg", "left", "idx"} /\ link'[j].msg = link[j].msg
        /\ link'[j].left \in Nat /\ (link'[j].left = 0 <=> link[j].left = 0)
  <2>1. CASE Idles(l)
    BY <1>1, <1>3, <2>1 DEF Idles
  <2>2. CASE Busy(l)
    <3>1. link[l].left \in Nat /\ link[l].left > 1
      BY <1>1, <1>3, <2>2 DEF Busy
    <3>2. link[l].left - 1 \in Nat /\ link[l].left - 1 # 0 /\ link[l].left # 0
      BY <3>1
    <3>3. link' = [link EXCEPT ![l].left = link[l].left - 1]
      BY <2>2 DEF Busy
    <3> QED  BY <1>1, <1>3, <3>2, <3>3
  <2> QED  BY <2>1, <2>2 DEF l
<1>5. Shape'
  BY <1>1, <1>2, <1>3, <1>4 DEF Shape
<1>6. FlowInv'
  <2>1. Queues' = Queues
    BY <1>1, <1>2, <1>4, QueuesStay
  <2> QED  BY <1>1, <2>1, StepStays
<1>7. Room'
  BY <1>2, RoomKeeps DEF Room
<1> QED  BY <1>5, <1>6, <1>7

\* The buffers a link serves: those between its ends.
LEMMA EndersParts ==
  ASSUME NEW t \in Nets, NEW l \in Links(t), NEW i \in 1 .. 2
  PROVE  /\ Enders(t, l)[i] \in Pairs(t)
         /\ {Enders(t, l)[i][1], Enders(t, l)[i][2]} = {l[1], l[2]}
<1>1. <<l[1], l[2]>> \in Pairs(t) /\ <<l[2], l[1]>> \in Pairs(t)
  BY LinkEnds
<1>2. i = 1 \/ i = 2
  OBVIOUS
<1> QED  BY <1>1, <1>2 DEF Enders

\* An elected copy has none of its flow before it: a link keeps the order.
LEMMA StartsKeeps ==
  ASSUME MeshInv, step, Starts(net.links[turn])
  PROVE  MeshInv'
<1> USE DEF MeshInv
<1> DEFINE l == net.links[turn]
<1>1. /\ l \in Links(net) /\ turn' \in 1 .. (Len(net.links) + 1) /\ net' = net /\ at' = "links"
      /\ stamp' = stamp /\ sent' = sent /\ got' = got /\ net \in Nets
  BY LinkStep
<1>2. /\ link[l].left <= 0 /\ rx' = rx /\ fault' = fault
      /\ \E g \in Elected(l).grant :
           /\ tx' = [tx EXCEPT ![Enders(net, l)[g[1]]][l[3]] = Without(@, g[2])]
           /\ link' = [link EXCEPT ![l] = [msg |-> <<tx[Enders(net, l)[g[1]]][l[3]][g[2]]>>,
                                          left |-> utilize(l[3]), idx |-> Elected(l).idx]]
  BY DEF Starts
<1> HIDE DEF l
<1> DEFINE c == l[3]
<1>3. c \in Classes /\ l = <<l[1], l[2], c>>
  BY <1>1, LinkEnds
<1>4. tx \in [Pairs(net) -> [Classes -> Seq(Copy)]]
  BY DEF Shape
<1>5. LinkBuffers(l) \in Buffers(1 .. 2, Copy)
  <2>1. \A i \in 1 .. 2 : tx[Enders(net, l)[i]][c] \in Seq(Copy)
    BY <1>1, <1>3, <1>4, EndersParts
  <2> QED  BY <2>1 DEF LinkBuffers, Buffers
<1>6. PICK g \in Elected(l).grant :
        /\ tx' = [tx EXCEPT ![Enders(net, l)[g[1]]][c] = Without(@, g[2])]
        /\ link' = [link EXCEPT ![l] = [msg |-> <<tx[Enders(net, l)[g[1]]][c][g[2]]>>,
                                        left |-> utilize(c), idx |-> Elected(l).idx]]
  BY <1>2
<1>7. PICK i \in 1 .. 2 : \E k \in DOMAIN LinkBuffers(l)[i] :
        /\ g = <<i, k>>
        /\ \A j \in DOMAIN LinkBuffers(l)[i] : j < k =>
             net.arbiter # "FCFS" /\ LinkBuffers(l)[i][j].owner # LinkBuffers(l)[i][k].owner
  <2>1. 1 .. 2 \in SUBSET Int /\ TRUE \in BOOLEAN
    OBVIOUS
  <2>2. g \in elect(net.arbiter, LinkBuffers(l), Candidates, link[l].idx, TRUE).grant
    BY <1>6 DEF Elected
  <2>3. FrontGrant(1 .. 2, LinkBuffers(l), net.arbiter, g)
    BY <1>5, <2>1, <2>2, ElectFirst
  <2> QED  BY <2>3 DEF FrontGrant
<1> DEFINE p == Enders(net, l)[i]
<1>8. PICK k \in DOMAIN tx[p][c] :
        /\ g = <<i, k>>
        /\ \A j \in DOMAIN tx[p][c] : j < k =>
             net.arbiter # "FCFS" /\ tx[p][c][j].owner # tx[p][c][k].owner
  BY <1>7 DEF LinkBuffers
<1> DEFINE m == tx[p][c][k]
           s == <<"tx", p, c>>
           u == <<"link", l, c>>
<1>9. p \in Pairs(net) /\ {p[1], p[2]} = {l[1], l[2]}
  BY <1>1, EndersParts
<1> HIDE DEF c, p
<1>10. /\ tx' \in [Pairs(net) -> [Classes -> Seq(Copy)]]
       /\ CutAt(Pairs(net), tx, tx', p, c, k)
  <2>1. tx' = [tx EXCEPT ![p][c] = Cut(tx[p][c], k)]
    BY <1>6, <1>8, WithoutIsCut DEF p
  <2>2. tx[p][c] \in Seq(Copy)
    BY <1>3, <1>4, <1>9
  <2>3. Cut(tx[p][c], k) \in Seq(Copy)
    BY <1>8, <2>2, CutParts
  <2> QED  BY <1>3, <1>4, <1>9, <2>1, <2>3, ChangeOne DEF CutAt
<1>11. m \in Copy
  BY <1>3, <1>4, <1>8, <1>9, ElementOfSeq, LenProperties
<1>12. link' = [link EXCEPT ![l] = [msg |-> <<m>>, left |-> utilize(c), idx |-> Elected(l).idx]]
  BY <1>6, <1>8 DEF p
<1>13. DOMAIN link = Links(net) /\ \A j \in Links(net) :
         /\ DOMAIN link[j] = {"msg", "left", "idx"}
         /\ link[j].msg \in Seq(Copy) /\ Len(link[j].msg) <= 1
         /\ link[j].left \in Nat /\ (link[j].left = 0 <=> link[j].msg = <<>>)
  BY DEF Shape
<1>14. link[l].msg = <<>>
  BY <1>1, <1>2, <1>13
<1>15. /\ DOMAIN link' = Links(net)
       /\ \A j \in Links(net) : j # l => link'[j] = link[j]
       /\ DOMAIN link'[l] = {"msg", "left", "idx"}
       /\ link'[l].msg = <<m>> /\ link'[l].left = utilize(c)
  <2> HIDE DEF m
  <2> QED  BY <1>1, <1>12, <1>13
<1>16. Queues[s] = tx[p][c] /\ s \in Spots(net) /\ u \in Spots(net) /\ s # u
  BY <1>1, <1>3, <1>9, SpotIs, QueueAt DEF Queues, c
<1>17. May(net, s, m) /\ Sound(net, sent, m)
  BY <1>8, <1>16 DEF FlowInv, Placed
<1>18. Ways(net, m)
  BY <1>1, <1>17, SoundWays DEF Shape
<1>19. MovedOn(net, Queues, Queues', s, k, u)
  <2>1. /\ p \in Pairs(net) /\ l \in Links(net) /\ link[l].msg = <<>> /\ l[3] \in Classes
        /\ CutAt(Pairs(net), tx, tx', p, l[3], k) /\ SetAt(net, link, link', l, <<tx[p][l[3]][k]>>)
    BY <1>1, <1>3, <1>9, <1>10, <1>14, <1>15 DEF c, SetAt
  <2>2. MovedOn(net, QueuesOf(net, tx, link, rx, got), QueuesOf(net, tx', link', rx, got),
                <<"tx", p, l[3]>>, k, <<"link", l, l[3]>>)
    BY <2>1, TxToLink
  <2> QED  BY <1>1, <1>2, <2>2 DEF Queues, c
<1>20. May(net, u, m) /\ Level(u, m) = Level(s, m) + 1
  <2> HIDE DEF m
  <2>1. Hop(net, m, p[1], p[2]) /\ c = m.class /\ Level(s, m) \in {1, 4} /\ (Level(s, m) = 4 <=> p[2] = m.to)
    BY <1>17, SpotTx
  <2>2. p[1] # m.to
    BY <1>1, <1>18, <2>1, HopEnds
  <2>3. Level(u, m) \in {2, 5} /\ (Level(u, m) = 5 <=> m.to \in {l[1], l[2]})
    BY SpotLink
  <2>4. Level(u, m) = 5 <=> p[2] = m.to
    BY <1>9, <2>2, <2>3
  <2>5. Hop(net, m, l[1], l[2]) \/ Hop(net, m, l[2], l[1])
    <3>1. (p[1] = l[1] /\ p[2] = l[2]) \/ (p[1] = l[2] /\ p[2] = l[1])
      <4>1. l[1] # l[2]
        BY <1>1, LinkEnds, Neighbours
      <4> QED  BY <1>9, <4>1
    <3> QED  BY <2>1, <3>1
  <2> QED  BY <2>1, <2>3, <2>4, <2>5, SpotLink
<1>21. \A j \in DOMAIN Queues[s] : j < k => ~Together(net, Queues[s][j], m)
  BY <1>8, <1>16 DEF Together
<1>22. FlowInv'
  <2>1. Queues[s][k] = m /\ k \in DOMAIN Queues[s]
    BY <1>8, <1>16
  <2> HIDE DEF m, s, u
  <2>2. Moves(net, Queues, Queues', s, k, u)
    BY <1>16, <1>19, <1>20, <1>21, <2>1 DEF Moves
  <2> QED  BY <1>1, <2>2, StepMoves DEF Shape
<1>23. Shape'
  <2>1. utilize(c) \in Nat /\ utilize(c) # 0
    BY <1>3, MeshAssumption DEF utilize
  <2>2. <<m>> \in Seq(Copy) /\ Len(<<m>>) = 1 /\ <<m>> # <<>>
    BY <1>11
  <2> HIDE DEF m
  <2>3. \A j \in Links(net) :
          /\ DOMAIN link'[j] = {"msg", "left", "idx"}
          /\ link'[j].msg \in Seq(Copy) /\ Len(link'[j].msg) <= 1
          /\ link'[j].left \in Nat /\ (link'[j].left = 0 <=> link'[j].msg = <<>>)
    <3> SUFFICES ASSUME NEW j \in Links(net)
                 PROVE  /\ DOMAIN link'[j] = {"msg", "left", "idx"}
                        /\ link'[j].msg \in Seq(Copy) /\ Len(link'[j].msg) <= 1
                        /\ link'[j].left \in Nat /\ (link'[j].left = 0 <=> link'[j].msg = <<>>)
      OBVIOUS
    <3>1. CASE j = l
      <4> DEFINE M == <<m>>
      <4>1. M \in Seq(Copy) /\ Len(M) <= 1 /\ M # <<>>
        BY <2>2
      <4>2. DOMAIN link'[j] = {"msg", "left", "idx"} /\ link'[j].msg = M /\ link'[j].left = utilize(c)
        BY <1>15, <3>1
      <4> HIDE DEF M
      <4> QED  BY <2>1, <4>1, <4>2
    <3>2. CASE j # l
      <4>1. link'[j] = link[j]
        BY <1>15, <3>2
      <4> QED  BY <1>13, <4>1
    <3> QED  BY <3>1, <3>2
  <2> QED  BY <1>1, <1>2, <1>10, <1>15, <2>3 DEF Shape
<1>24. Room'
  BY <1>2, RoomKeeps DEF Room
<1> QED  BY <1>22, <1>23, <1>24

\* Where a copy goes from the link it is on: to the end that did not send it.
LEMMA Arriving ==
  ASSUME MeshInv, NEW l \in Links(net), link[l].left = 1
  PROVE  LET m == link[l].msg[1]
             s == <<"link", l, l[3]>>
         IN  /\ m \in Copy /\ 1 \in DOMAIN link[l].msg /\ Cut(link[l].msg, 1) = <<>>
             /\ s \in Spots(net) /\ Queues[s] = link[l].msg /\ l[3] \in Classes /\ l[3] = m.class
             /\ Ways(net, m)
             /\ \E a, b \in Ids(net) :
                  /\ {a, b} = {l[1], l[2]} /\ Hop(net, m, a, b) /\ DeliverTo(net, l, m) = b
                  /\ Level(s, m) \in {2, 5} /\ (Level(s, m) = 5 <=> b = m.to)
<1> USE DEF MeshInv
<1>1. net \in Nets
  BY DEF Shape
<1>2. link[l].left = 1
  OBVIOUS
<1>3. DOMAIN link = Links(net) /\ \A j \in Links(net) :
        /\ DOMAIN link[j] = {"msg", "left", "idx"}
        /\ link[j].msg \in Seq(Copy) /\ Len(link[j].msg) <= 1
        /\ link[j].left \in Nat /\ (link[j].left = 0 <=> link[j].msg = <<>>)
  BY DEF Shape
<1> DEFINE m == link[l].msg[1]
           c == l[3]
           s == <<"link", l, c>>
<1>5. m \in Copy /\ 1 \in DOMAIN link[l].msg /\ Cut(link[l].msg, 1) = <<>>
  <2>1. link[l].msg \in Seq(Copy) /\ Len(link[l].msg) <= 1 /\ link[l].msg # <<>>
    BY <1>1, <1>2, <1>3
  <2> DEFINE q == link[l].msg
  <2>2. q \in Seq(Copy) /\ q[1] \in Copy /\ q = <<q[1]>>
    BY <2>1, SlotHolds
  <2>3. Len(q) = 1 /\ 1 \in DOMAIN q
    <3>1. \A x : Len(<<x>>) = 1
      OBVIOUS
    <3> HIDE DEF q
    <3>2. Len(q) = 1
      BY <2>2, <3>1
    <3> QED  BY <2>2, <3>2, LenProperties
  <2>4. Cut(q, 1) \in Seq(Copy) /\ DOMAIN Cut(q, 1) = 1 .. 0
    BY <2>2, <2>3, CutParts
  <2> HIDE DEF q
  <2>5. Len(Cut(q, 1)) = 0
    BY <2>4, LenProperties
  <2>6. Cut(q, 1) = <<>>
    BY <2>4, <2>5, EmptySeq
  <2> QED  BY <2>2, <2>3, <2>6 DEF q
<1>6. s \in Spots(net) /\ Queues[s] = link[l].msg /\ c \in Classes
  <2>1. s \in Spots(net) /\ c \in Classes
    BY <1>1, SpotIs, LinkEnds
  <2>2. s[1] = "link" /\ s[2] = l
    OBVIOUS
  <2> HIDE DEF s
  <2> QED  BY <2>1, <2>2, QueueAt DEF Queues
<1>7. May(net, s, m) /\ Sound(net, sent, m)
  BY <1>5, <1>6 DEF FlowInv, Placed
<1>8. Ways(net, m)
  BY <1>1, <1>7, SoundWays DEF Shape
<1>9. PICK a, b \in Ids(net) : /\ {a, b} = {l[1], l[2]} /\ Hop(net, m, a, b) /\ c = m.class
                               /\ Level(s, m) \in {2, 5} /\ (Level(s, m) = 5 <=> b = m.to)
  <2>1. s[1] = "link" /\ s[2] = l /\ s[3] = c
    OBVIOUS
  <2> HIDE DEF m, s, c
  <2>2. \E a, b \in Ids(net) : /\ {a, b} = {s[2][1], s[2][2]} /\ Hop(net, m, a, b) /\ s[3] = m.class
                               /\ Level(s, m) \in {2, 5} /\ (Level(s, m) = 5 <=> b = m.to)
    BY <1>1, <1>6, <1>7, <1>8, <2>1, OnLink
  <2> QED  BY <2>1, <2>2
<1>10. DeliverTo(net, l, m) = b
  <2> HIDE DEF m
  <2> QED  BY <1>1, <1>8, <1>9, DeliverEnd
<1> HIDE DEF m, s, c
<1> QED  BY <1>5, <1>6, <1>8, <1>9, <1>10 DEF m, s, c

\* A copy is delivered where it goes.
LEMMA DeliversKeeps ==
  ASSUME MeshInv, step, Delivers(net.links[turn])
  PROVE  MeshInv'
<1> USE DEF MeshInv
<1> DEFINE l == net.links[turn]
<1>1. /\ l \in Links(net) /\ turn' \in 1 .. (Len(net.links) + 1) /\ net' = net /\ at = "links" /\ at' = "links"
      /\ stamp' = stamp /\ sent' = sent /\ got' = got /\ net \in Nets /\ turn \in 1 .. Len(net.links)
      /\ turn' = turn + 1
  BY LinkStep
<1>2. /\ link[l].left = 1 /\ tx' = tx /\ fault' = fault
      /\ rx' = [rx EXCEPT ![DeliverTo(net, l, link[l].msg[1])][link[l].msg[1].class] = Append(@, link[l].msg[1])]
      /\ link' = [link EXCEPT ![l].left = 0, ![l].msg = <<>>]
  BY DEF Delivers
<1>3. DOMAIN link = Links(net) /\ \A j \in Links(net) :
        /\ DOMAIN link[j] = {"msg", "left", "idx"}
        /\ link[j].msg \in Seq(Copy) /\ Len(link[j].msg) <= 1
        /\ link[j].left \in Nat /\ (link[j].left = 0 <=> link[j].msg = <<>>)
  BY DEF Shape
<1> HIDE DEF l
<1> DEFINE m == link[l].msg[1]
           c == l[3]
           s == <<"link", l, c>>
<1>5. m \in Copy /\ 1 \in DOMAIN link[l].msg /\ Cut(link[l].msg, 1) = <<>>
  BY <1>1, <1>2, Arriving
<1>6. s \in Spots(net) /\ Queues[s] = link[l].msg /\ c \in Classes /\ c = m.class
  BY <1>1, <1>2, Arriving
<1>8. Ways(net, m)
  BY <1>1, <1>2, Arriving
<1>9. PICK a, b \in Ids(net) : /\ {a, b} = {l[1], l[2]} /\ Hop(net, m, a, b) /\ DeliverTo(net, l, m) = b
                               /\ Level(s, m) \in {2, 5} /\ (Level(s, m) = 5 <=> b = m.to)
  BY <1>1, <1>2, Arriving
<1> DEFINE u == <<"rx", b, c>>
<1>11. rx \in [Ids(net) -> [Classes -> Seq(Copy)]] /\ \A e \in Ids(net), d \in Classes : Len(rx[e][d]) \in Nat
  <2>1. rx \in [Ids(net) -> [Classes -> Seq(Copy)]]
    BY DEF Shape
  <2> QED  BY <2>1, LenProperties
<1>12. \A e \in net.switches, d \in Classes :
         e \in Ids(net) /\ Cardinality(Fed(net, e, d, turn)) \in Nat /\ Len(rx[e][d]) <= Cardinality(Fed(net, e, d, turn))
  <2>1. turn \in 1 .. (Len(net.links) + 1)
    BY DEF Shape
  <2>2. \A e \in net.switches : e \in Ids(net)
    BY <1>1, SwitchEnds
  <2> QED  BY <1>1, <2>1, <2>2, FedBound DEF Room
<1>14. rx' = [rx EXCEPT ![b][c] = Append(rx[b][c], m)]
  BY <1>2, <1>6, <1>9
<1>15. /\ rx' \in [Ids(net) -> [Classes -> Seq(Copy)]]
       /\ AddedAt(Ids(net), rx, rx', b, c, m)
       /\ Len(Append(rx[b][c], m)) = Len(rx[b][c]) + 1
  <2>1. rx[b][c] \in Seq(Copy)
    BY <1>6, <1>9, <1>11
  <2>2. Append(rx[b][c], m) \in Seq(Copy) /\ Len(Append(rx[b][c], m)) = Len(rx[b][c]) + 1
    BY <1>5, <2>1, AppendProperties
  <2> HIDE DEF m, c
  <2> QED  BY <1>6, <1>9, <1>11, <1>14, <2>2, ChangeOne DEF AddedAt
<1>16. /\ DOMAIN link' = Links(net)
       /\ \A j \in Links(net) : j # l => link'[j] = link[j]
       /\ DOMAIN link'[l] = {"msg", "left", "idx"} /\ link'[l].msg = <<>> /\ link'[l].left = 0
  BY <1>1, <1>2, <1>3
<1>17. MovedOn(net, Queues, Queues', s, 1, u)
  <2>1. /\ l \in Links(net) /\ b \in Ids(net) /\ l[3] \in Classes
        /\ SetAt(net, link, link', l, Cut(link[l].msg, 1))
        /\ AddedAt(Ids(net), rx, rx', b, l[3], link[l].msg[1])
    BY <1>1, <1>5, <1>6, <1>9, <1>15, <1>16 DEF SetAt
  <2>2. MovedOn(net, QueuesOf(net, tx, link, rx, got), QueuesOf(net, tx, link', rx', got),
                <<"link", l, l[3]>>, 1, <<"rx", b, l[3]>>)
    BY <2>1, LinkToRx
  <2> QED  BY <1>1, <1>2, <2>2 DEF Queues
<1>18. u \in Spots(net) /\ May(net, u, m) /\ Level(u, m) = Level(s, m) + 1
  <2>1. u \in Spots(net)
    BY <1>6, <1>9, SpotIs
  <2>2. b = m.to \/ b \in net.switches \cap Route(net, m.from, m.to)
    BY <1>1, <1>8, <1>9, HopEnds
  <2> HIDE DEF m, c
  <2>3. May(net, u, m) /\ Level(u, m) \in {3, 6} /\ (Level(u, m) = 6 <=> b = m.to)
    BY <1>1, <1>6, <1>9, <2>2, SpotRx
  <2>4. \/ Level(s, m) = 5 /\ Level(u, m) = 6
        \/ Level(s, m) = 2 /\ Level(u, m) = 3
    BY <1>9, <2>3
  <2> QED  BY <2>1, <2>3, <2>4
<1>19. FlowInv'
  <2>1. /\ s # u /\ s \in Spots(net) /\ 1 \in DOMAIN Queues[s] /\ Queues[s][1] = m
        /\ \A j \in DOMAIN Queues[s] : ~(j < 1)
    <3>1. \A j \in DOMAIN Queues[s] : j \in Nat /\ j >= 1
      BY <1>1, <1>3, <1>6, LenProperties
    <3> QED  BY <1>5, <1>6, <3>1
  <2> HIDE DEF m, s, u
  <2>2. Moves(net, Queues, Queues', s, 1, u)
    BY <1>17, <1>18, <2>1 DEF Moves
  <2> QED  BY <1>1, <2>2, StepMoves DEF Shape
<1>20. Shape'
  <2>1. \A j \in Links(net) :
          /\ DOMAIN link'[j] = {"msg", "left", "idx"}
          /\ link'[j].msg \in Seq(Copy) /\ Len(link'[j].msg) <= 1
          /\ link'[j].left \in Nat /\ (link'[j].left = 0 <=> link'[j].msg = <<>>)
    <3> SUFFICES ASSUME NEW j \in Links(net)
                 PROVE  /\ DOMAIN link'[j] = {"msg", "left", "idx"}
                        /\ link'[j].msg \in Seq(Copy) /\ Len(link'[j].msg) <= 1
                        /\ link'[j].left \in Nat /\ (link'[j].left = 0 <=> link'[j].msg = <<>>)
      OBVIOUS
    <3>1. CASE j = l
      <4>1. <<>> \in Seq(Copy) /\ Len(<<>>) = 0
        BY EmptySeq
      <4>2. DOMAIN link'[j] = {"msg", "left", "idx"} /\ link'[j].msg = <<>> /\ link'[j].left = 0
        BY <1>16, <3>1
      <4>3. link'[j].msg \in Seq(Copy) /\ Len(link'[j].msg) <= 1
        BY <4>1, <4>2
      <4>4. link'[j].left \in Nat /\ (link'[j].left = 0 <=> link'[j].msg = <<>>)
        BY <4>2
      <4> QED  BY <4>2, <4>3, <4>4
    <3>2. CASE j # l
      <4>1. link'[j] = link[j]
        BY <1>16, <3>2
      <4> QED  BY <1>3, <4>1
    <3> QED  BY <3>1, <3>2
  <2> QED  BY <1>1, <1>2, <1>15, <1>16, <2>1 DEF Shape
<1>21. Room'
  <2>1. ASSUME NEW e \in net.switches, NEW d \in Classes
        PROVE  Len(rx'[e][d]) <= Cardinality(Fed(net, e, d, turn + 1))
    <3>1. Cardinality(Fed(net, e, d, turn + 1)) =
            IF l[3] = d /\ e \in {l[1], l[2]}
            THEN Cardinality(Fed(net, e, d, turn)) + 1 ELSE Cardinality(Fed(net, e, d, turn))
      BY <1>1, <1>12, FedNext DEF l
    <3>2. CASE e = b /\ d = c
      <4>1. Len(rx'[e][d]) = Len(rx[b][c]) + 1
        BY <1>6, <1>9, <1>15, <3>2 DEF AddedAt
      <4>2. Cardinality(Fed(net, e, d, turn + 1)) = Cardinality(Fed(net, b, c, turn)) + 1
        BY <1>9, <3>1, <3>2
      <4>3. Len(rx[b][c]) \in Nat /\ Cardinality(Fed(net, b, c, turn)) \in Nat
            /\ Len(rx[b][c]) <= Cardinality(Fed(net, b, c, turn))
        BY <1>6, <1>9, <1>11, <1>12, <3>2
      <4> QED  BY <4>1, <4>2, <4>3
    <3>3. CASE ~(e = b /\ d = c)
      <4>1. rx'[e][d] = rx[e][d]
        BY <1>12, <1>15, <3>3 DEF AddedAt
      <4>2. Len(rx[e][d]) \in Nat /\ Cardinality(Fed(net, e, d, turn)) \in Nat
            /\ Len(rx[e][d]) <= Cardinality(Fed(net, e, d, turn))
        BY <1>11, <1>12
      <4> QED  BY <3>1, <4>1, <4>2
    <3> QED  BY <3>2, <3>3
  <2> QED  BY <1>1, <1>2, <2>1 DEF Room
<1> QED  BY <1>19, <1>20, <1>21

\* Only the buffer of a controller is ever full: that of a switch has room for all its links.
LEMMA ExitsKeeps ==
  ASSUME MeshInv, step, Exits(net.links[turn])
  PROVE  MeshInv'
<1> USE DEF MeshInv
<1> DEFINE l == net.links[turn]
<1>1. /\ l \in Links(net) /\ turn' \in 1 .. (Len(net.links) + 1) /\ net' = net /\ at = "links" /\ at' = "links"
      /\ stamp' = stamp /\ sent' = sent /\ got' = got /\ net \in Nets /\ turn \in 1 .. (Len(net.links) + 1)
  BY LinkStep DEF Shape
<1> HIDE DEF l
<1> DEFINE m == link[l].msg[1]
<1>2. /\ link[l].left = 1 /\ tx' = tx /\ rx' = rx /\ link' = link
      /\ ~Accepts(DeliverTo(net, l, m), m.class) /\ fault' = {DeliverTo(net, l, m)}
  BY DEF Exits, l
<1>3. PICK b \in Ids(net) : DeliverTo(net, l, m) = b /\ m.class \in Classes
  BY <1>1, <1>2, Arriving
<1> HIDE DEF m
<1>4. b \in Ends(net)
  <2> SUFFICES ASSUME b \in net.switches
               PROVE  FALSE
    BY <1>3 DEF Ends
  <2>1. Len(rx[b][m.class]) <= Cardinality(Fed(net, b, m.class, turn))
    BY <1>1, <1>3 DEF Room
  <2>2. /\ Cardinality(Fed(net, b, m.class, turn)) \in Nat
        /\ Cardinality(Fed(net, b, m.class, turn)) < net.max
    BY <1>1, <1>3, FedBound
  <2>3. Len(rx[b][m.class]) \in Nat /\ net.max \in Nat
    <3>1. rx[b][m.class] \in Seq(Copy)
      BY <1>3 DEF Shape
    <3> QED  BY <1>1, <3>1, LenProperties, TopologyParts
  <2>4. Len(rx[b][m.class]) < net.max
    BY <2>1, <2>2, <2>3
  <2> QED  BY <1>2, <1>3, <2>4 DEF Accepts
<1>5. Room'
  BY <1>2, <1>3, <1>4, RoomKeeps
<1>6. FlowInv'
  <2>1. Queues' = Queues
    BY <1>1, <1>2, QueuesStay
  <2> QED  BY <1>1, <2>1, StepStays
<1>7. Shape'
  BY <1>1, <1>2 DEF Shape
<1> QED  BY <1>5, <1>6, <1>7

\* Every state keeps the copies where they may be, in order, and all of them.
THEOREM MeshInvariant == Spec => []MeshInv
<1>1. Init => MeshInv
  BY InitInv
<1>2. MeshInv /\ [Next]_vars => MeshInv'
  <2> SUFFICES ASSUME MeshInv, [Next]_vars
               PROVE  MeshInv'
    OBVIOUS
  <2>1. CASE \E m \in net.traffic : Send(m)
    BY <2>1, SendKeeps
  <2>2. CASE step
    <3>1. \/ Idles(net.links[turn]) \/ Starts(net.links[turn])
          \/ Busy(net.links[turn]) \/ Delivers(net.links[turn])
          \/ Exits(net.links[turn])
      BY <2>2 DEF step
    <3> QED  BY <2>2, <3>1, LinkQuietKeeps, StartsKeeps, DeliversKeeps, ExitsKeeps
  <2>3. CASE forward
    BY <2>3, ForwardKeeps
  <2>4. CASE Take
    BY <2>4, TakeKeeps
  <2>5. CASE NextCycle \/ LinksDone \/ SwitchesDone \/ Leave \/ UNCHANGED vars
    BY <2>5, QuietKeeps
  <2> QED  BY <2>1, <2>2, <2>3, <2>4, <2>5 DEF Next, Clocked
<1> QED  BY <1>1, <1>2, PTL DEF Spec

-----------------------------------------------------------------------------
(* What follows.                                                            *)

\* What has been taken, as one of the queues.
LEMMA GotSpot ==
  ASSUME MeshInv, NEW a \in Ids(net)
  PROVE  /\ <<"got", a, "all">> \in Spots(net) /\ Queues[<<"got", a, "all">>] = got[a]
         /\ got[a] \in Seq(Copy) /\ Len(got[a]) \in Nat /\ DOMAIN got[a] = 1 .. Len(got[a])
         /\ \A k \in DOMAIN got[a] : /\ got[a][k] \in Copy /\ got[a][k].to = a
                                     /\ Sound(net, sent, got[a][k])
<1> DEFINE s == <<"got", a, "all">>
<1>1. s \in Spots(net) /\ s[1] = "got" /\ s[2] = a
  BY SpotIs
<1> HIDE DEF s
<1>2. Queues[s] = got[a]
  BY <1>1, QueueAt DEF Queues
<1>3. got[a] \in Seq(Copy)
  BY DEF MeshInv, Shape
<1>4. Len(got[a]) \in Nat /\ DOMAIN got[a] = 1 .. Len(got[a]) /\ \A k \in DOMAIN got[a] : got[a][k] \in Copy
  BY <1>3, LenProperties, ElementOfSeq
<1>5. ASSUME NEW k \in DOMAIN got[a]
      PROVE  got[a][k].to = a /\ Sound(net, sent, got[a][k])
  <2>1. May(net, s, got[a][k]) /\ Sound(net, sent, got[a][k])
    BY <1>1, <1>2 DEF MeshInv, FlowInv, Placed
  <2> QED  BY <1>1, <2>1, SpotGot
<1> QED  BY <1>1, <1>2, <1>3, <1>4, <1>5 DEF s

\* The messages of one flow are taken in the order in which they were sent.
THEOREM OrderKept == Spec => []PairOrder
<1>1. MeshInv => PairOrder
  <2> SUFFICES ASSUME MeshInv, NEW a \in Ids(net), NEW i \in DOMAIN got[a], NEW j \in DOMAIN got[a], i < j,
                      got[a][i].from = got[a][j].from, got[a][i].class = got[a][j].class,
                      net.arbiter = "FCFS" \/ got[a][i].owner = got[a][j].owner
               PROVE  got[a][i].n < got[a][j].n
    BY DEF PairOrder
  <2> DEFINE s == <<"got", a, "all">>
  <2>1. /\ s \in Spots(net) /\ Queues[s] = got[a]
        /\ got[a][i].to = a /\ got[a][j].to = a
    BY GotSpot
  <2> HIDE DEF s
  <2>2. Together(net, Queues[s][i], Queues[s][j])
    BY <2>1 DEF Together
  <2>3. InFront(Queues, s, i, s, j)
    BY DEF InFront
  <2> QED  BY <2>1, <2>2, <2>3 DEF MeshInv, FlowInv, Ordered
<1> QED  BY <1>1, MeshInvariant, PTL

\* Two copies with one number and destination are one copy.
LEMMA StateKeyOne ==
  ASSUME MeshInv, NEW s \in Spots(net), NEW i \in DOMAIN Queues[s], NEW u \in Spots(net), NEW j \in DOMAIN Queues[u],
         Queues[s][i].n = Queues[u][j].n, Queues[s][i].to = Queues[u][j].to
  PROVE  s = u /\ i = j
<1>1. net \in Nets /\ sent \in Seq(net.traffic) /\ Placed(net, sent, Queues) /\ Ordered(net, Queues)
  BY DEF MeshInv, Shape, FlowInv
<1> QED  BY <1>1, KeyOne

\* The places are the positions of the queues of what is in flight.
LEMMA PlacesAre ==
  ASSUME MeshInv
  PROVE  /\ \A x \in Places : \E s \in Spots(net) : s[1] # "got" /\ \E k \in DOMAIN Queues[s] :
              x = <<Queues[s][k], s[1], s[2], k>>
         /\ \A s \in Spots(net) : s[1] # "got" => \A k \in DOMAIN Queues[s] :
              <<Queues[s][k], s[1], s[2], k>> \in Places
<1>1. DOMAIN tx = Pairs(net) /\ DOMAIN link = Links(net)
  BY DEF MeshInv, Shape
<1> DEFINE inTx(p, c) == {<<tx[p][c][k], "tx", p, k>> : k \in DOMAIN tx[p][c]}
           inLink(l) == {<<link[l].msg[k], "link", l, k>> : k \in DOMAIN link[l].msg}
           inRx(a, c) == {<<rx[a][c][k], "rx", a, k>> : k \in DOMAIN rx[a][c]}
<1>2. Places = UNION ({inTx(p, c) : p \in Pairs(net), c \in Classes} \cup {inLink(l) : l \in Links(net)}
                      \cup {inRx(a, c) : a \in Ids(net), c \in Classes})
  BY <1>1 DEF Places
<1>3. ASSUME NEW p \in Pairs(net), NEW c \in Classes, NEW x \in inTx(p, c)
      PROVE  \E s \in Spots(net) : s[1] # "got" /\ \E k \in DOMAIN Queues[s] : x = <<Queues[s][k], s[1], s[2], k>>
  <2> DEFINE s == <<"tx", p, c>>
  <2>1. s \in Spots(net) /\ s[1] = "tx" /\ s[2] = p /\ s[3] = c
    BY SpotIs
  <2> HIDE DEF s
  <2>2. Queues[s] = tx[p][c]
    BY <2>1, QueueAt DEF Queues
  <2>3. PICK k \in DOMAIN tx[p][c] : x = <<tx[p][c][k], "tx", p, k>>
    OBVIOUS
  <2> QED  BY <2>1, <2>2, <2>3
<1>4. ASSUME NEW l \in Links(net), NEW x \in inLink(l)
      PROVE  \E s \in Spots(net) : s[1] # "got" /\ \E k \in DOMAIN Queues[s] : x = <<Queues[s][k], s[1], s[2], k>>
  <2> DEFINE s == <<"link", l, l[3]>>
  <2>1. s \in Spots(net) /\ s[1] = "link" /\ s[2] = l
    BY SpotIs
  <2> HIDE DEF s
  <2>2. Queues[s] = link[l].msg
    BY <2>1, QueueAt DEF Queues
  <2>3. PICK k \in DOMAIN link[l].msg : x = <<link[l].msg[k], "link", l, k>>
    OBVIOUS
  <2> QED  BY <2>1, <2>2, <2>3
<1>5. ASSUME NEW a \in Ids(net), NEW c \in Classes, NEW x \in inRx(a, c)
      PROVE  \E s \in Spots(net) : s[1] # "got" /\ \E k \in DOMAIN Queues[s] : x = <<Queues[s][k], s[1], s[2], k>>
  <2> DEFINE s == <<"rx", a, c>>
  <2>1. s \in Spots(net) /\ s[1] = "rx" /\ s[2] = a /\ s[3] = c
    BY SpotIs
  <2> HIDE DEF s
  <2>2. Queues[s] = rx[a][c]
    BY <2>1, QueueAt DEF Queues
  <2>3. PICK k \in DOMAIN rx[a][c] : x = <<rx[a][c][k], "rx", a, k>>
    OBVIOUS
  <2> QED  BY <2>1, <2>2, <2>3
<1>6. ASSUME NEW s \in Spots(net), s[1] # "got", NEW k \in DOMAIN Queues[s]
      PROVE  \/ \E p \in Pairs(net), c \in Classes : <<Queues[s][k], s[1], s[2], k>> \in inTx(p, c)
             \/ \E l \in Links(net) : <<Queues[s][k], s[1], s[2], k>> \in inLink(l)
             \/ \E a \in Ids(net), c \in Classes : <<Queues[s][k], s[1], s[2], k>> \in inRx(a, c)
  <2>1. CASE s[1] = "tx"
    <3>1. s[2] \in Pairs(net) /\ s[3] \in Classes /\ Queues[s] = tx[s[2]][s[3]]
      BY <2>1, SpotKinds, QueueAt DEF Queues
    <3>2. <<Queues[s][k], s[1], s[2], k>> \in inTx(s[2], s[3])
      BY <2>1, <3>1
    <3> HIDE DEF inTx
    <3> QED  BY <3>1, <3>2
  <2>2. CASE s[1] = "link"
    <3>1. s[2] \in Links(net) /\ Queues[s] = link[s[2]].msg
      BY <2>2, SpotKinds, QueueAt DEF Queues
    <3>2. <<Queues[s][k], s[1], s[2], k>> \in inLink(s[2])
      BY <2>2, <3>1
    <3> HIDE DEF inLink
    <3> QED  BY <3>1, <3>2
  <2>3. CASE s[1] = "rx"
    <3>1. s[2] \in Ids(net) /\ s[3] \in Classes /\ Queues[s] = rx[s[2]][s[3]]
      BY <2>3, SpotKinds, QueueAt DEF Queues
    <3>2. <<Queues[s][k], s[1], s[2], k>> \in inRx(s[2], s[3])
      BY <2>3, <3>1
    <3> HIDE DEF inRx
    <3> QED  BY <3>1, <3>2
  <2> QED  BY <1>6, <2>1, <2>2, <2>3, SpotKinds
<1> HIDE DEF inTx, inLink, inRx
<1>7. \A x \in Places : \/ \E p \in Pairs(net), c \in Classes : x \in inTx(p, c)
                        \/ \E l \in Links(net) : x \in inLink(l)
                        \/ \E a \in Ids(net), c \in Classes : x \in inRx(a, c)
  BY <1>2
<1>8. \A x : \/ \E p \in Pairs(net), c \in Classes : x \in inTx(p, c)
             \/ \E l \in Links(net) : x \in inLink(l)
             \/ \E a \in Ids(net), c \in Classes : x \in inRx(a, c)
             => x \in Places
  BY <1>2
<1>9. \A x \in Places : \E s \in Spots(net) : s[1] # "got" /\ \E k \in DOMAIN Queues[s] :
        x = <<Queues[s][k], s[1], s[2], k>>
  BY <1>3, <1>4, <1>5, <1>7
<1>10. \A s \in Spots(net) : s[1] # "got" => \A k \in DOMAIN Queues[s] :
         <<Queues[s][k], s[1], s[2], k>> \in Places
  BY <1>6, <1>8
<1> QED  BY <1>9, <1>10

\* What is taken was sent, and taken once.
LEMMA TakenOnce ==
  ASSUME MeshInv, NEW a \in Ids(net)
  PROVE  Len(got[a]) = Cardinality(Taken(a)) /\ Taken(a) \subseteq Copies(a)
<1> DEFINE s == <<"got", a, "all">>
           D == DOMAIN got[a]
           f == [k \in D |-> got[a][k].n]
<1>1. /\ s \in Spots(net) /\ Queues[s] = got[a] /\ got[a] \in Seq(Copy) /\ Len(got[a]) \in Nat
      /\ D = 1 .. Len(got[a])
      /\ \A k \in D : got[a][k] \in Copy /\ got[a][k].to = a /\ Sound(net, sent, got[a][k])
  BY GotSpot
<1>2. IsFiniteSet(D) /\ Cardinality(D) = Len(got[a])
  <2>1. \A n \in Nat : IsFiniteSet(1 .. n) /\ Cardinality(1 .. n) = n
    BY FS_Interval
  <2> QED  BY <1>1, <2>1
<1>3. \A k, j \in D : f[k] = f[j] => k = j
  <2> HIDE DEF s
  <2> QED  BY <1>1, StateKeyOne
<1>4. f \in [D -> Taken(a)] /\ \A n \in Taken(a) : \E k \in D : f[k] = n
  BY DEF Taken
<1>5. Cardinality(Taken(a)) = Cardinality(D)
  <2> HIDE DEF f, D
  <2> QED  BY <1>2, <1>3, <1>4, SameSize
<1>6. Taken(a) \subseteq Copies(a)
  BY <1>1 DEF Taken, Copies, Sound
<1> QED  BY <1>2, <1>5, <1>6

\* What is owed to an interface is in flight, and nothing else.
LEMMA FlightIsOwed ==
  ASSUME MeshInv
  PROVE  /\ \A x \in Places : /\ x[1].n \in DOMAIN sent /\ x[1].to \in Ids(net)
                              /\ x[1].n \in Copies(x[1].to) \ Taken(x[1].to)
         /\ \A n \in DOMAIN sent, a \in Ids(net) : n \in Copies(a) \ Taken(a) =>
              \E x \in Places : x[1].n = n /\ x[1].to = a
         /\ \A x, y \in Places : x[1].n = y[1].n /\ x[1].to = y[1].to => x = y
<1>1. /\ net \in Nets /\ sent \in Seq(net.traffic)
      /\ \A s \in Spots(net) : \A i \in DOMAIN Queues[s] :
           Sound(net, sent, Queues[s][i]) /\ May(net, s, Queues[s][i])
  BY DEF MeshInv, Shape, FlowInv, Placed
<1>2. ASSUME NEW x \in Places
      PROVE  /\ x[1].n \in DOMAIN sent /\ x[1].to \in Ids(net)
             /\ x[1].n \in Copies(x[1].to) \ Taken(x[1].to)
  <2>1. PICK s \in Spots(net) : s[1] # "got" /\ \E k \in DOMAIN Queues[s] : x = <<Queues[s][k], s[1], s[2], k>>
    BY PlacesAre
  <2>2. PICK k \in DOMAIN Queues[s] : x = <<Queues[s][k], s[1], s[2], k>>
    BY <2>1
  <2> DEFINE m == Queues[s][k]
  <2>3. x[1] = m
    BY <2>2
  <2>4. Sound(net, sent, m)
    BY <1>1
  <2>5. m.to \in Ids(net)
    <3>1. Ways(net, m)
      BY <1>1, <2>4, SoundWays
    <3> QED  BY <3>1 DEF Ways
  <2>6. m.n \notin Taken(m.to)
    <3> SUFFICES ASSUME NEW j \in DOMAIN got[m.to], got[m.to][j].n = m.n
                 PROVE  FALSE
      BY DEF Taken
    <3> DEFINE u == <<"got", m.to, "all">>
    <3>1. u \in Spots(net) /\ Queues[u] = got[m.to] /\ got[m.to][j].to = m.to /\ u[1] = "got"
      BY <2>5, GotSpot
    <3> HIDE DEF u
    <3>2. s = u
      BY <3>1, StateKeyOne
    <3> QED  BY <2>1, <3>1, <3>2
  <2>7. m.n \in DOMAIN sent /\ m.n \in Copies(m.to)
    BY <2>4 DEF Sound, Copies
  <2> HIDE DEF m
  <2> QED  BY <2>3, <2>5, <2>6, <2>7
<1>3. ASSUME NEW n \in DOMAIN sent, NEW a \in Ids(net), n \in Copies(a) \ Taken(a)
      PROVE  \E x \in Places : x[1].n = n /\ x[1].to = a
  <2>1. PICK s \in Spots(net) : \E i \in DOMAIN Queues[s] : Queues[s][i].n = n /\ Queues[s][i].to = a
    BY <1>3 DEF Copies, MeshInv, FlowInv, Covered
  <2>2. PICK i \in DOMAIN Queues[s] : Queues[s][i].n = n /\ Queues[s][i].to = a
    BY <2>1
  <2>3. s[1] # "got"
    <3> SUFFICES ASSUME s[1] = "got"
                 PROVE  FALSE
      OBVIOUS
    <3>1. s[2] = a /\ Queues[s] = got[s[2]]
      BY <1>1, <2>2, SpotGot, QueueAt DEF Queues
    <3> QED  BY <1>3, <2>2, <3>1 DEF Taken
  <2>4. <<Queues[s][i], s[1], s[2], i>> \in Places
    BY <2>3, PlacesAre
  <2> DEFINE x == <<Queues[s][i], s[1], s[2], i>>
  <2>5. x[1].n = n /\ x[1].to = a
    BY <2>2
  <2> HIDE DEF x
  <2> QED  BY <2>4, <2>5 DEF x
<1>4. ASSUME NEW x \in Places, NEW y \in Places, x[1].n = y[1].n, x[1].to = y[1].to
      PROVE  x = y
  <2>1. PICK s \in Spots(net) : \E k \in DOMAIN Queues[s] : x = <<Queues[s][k], s[1], s[2], k>>
    BY PlacesAre
  <2>2. PICK k \in DOMAIN Queues[s] : x = <<Queues[s][k], s[1], s[2], k>>
    BY <2>1
  <2>3. PICK u \in Spots(net) : \E j \in DOMAIN Queues[u] : y = <<Queues[u][j], u[1], u[2], j>>
    BY PlacesAre
  <2>4. PICK j \in DOMAIN Queues[u] : y = <<Queues[u][j], u[1], u[2], j>>
    BY <2>3
  <2>5. Queues[s][k].n = Queues[u][j].n /\ Queues[s][k].to = Queues[u][j].to
    BY <1>4, <2>2, <2>4
  <2>6. s = u /\ k = j
    BY <2>5, StateKeyOne
  <2> QED  BY <2>2, <2>4, <2>6
<1> QED  BY <1>2, <1>3, <1>4

\* Nothing is lost, nothing is duplicated, and no buffer overflows.
THEOREM NothingLost == Spec => []CopiesConserved
<1>1. MeshInv => CopiesConserved
  <2> SUFFICES ASSUME MeshInv
               PROVE  CopiesConserved
    OBVIOUS
  <2> DEFINE owed == {o \in (DOMAIN sent) \X Ids(net) : o[1] \in Copies(o[2]) \ Taken(o[2])}
             f == [x \in Places |-> <<x[1].n, x[1].to>>]
  <2>1. /\ \A x \in Places : /\ x[1].n \in DOMAIN sent /\ x[1].to \in Ids(net)
                             /\ x[1].n \in Copies(x[1].to) \ Taken(x[1].to)
        /\ \A n \in DOMAIN sent, a \in Ids(net) : n \in Copies(a) \ Taken(a) =>
             \E x \in Places : x[1].n = n /\ x[1].to = a
        /\ \A x, y \in Places : x[1].n = y[1].n /\ x[1].to = y[1].to => x = y
    BY FlightIsOwed
  <2>2. f \in [Places -> owed]
    BY <2>1
  <2>3. \A x, y \in Places : f[x] = f[y] => x = y
    BY <2>1
  <2>4. \A o \in owed : \E x \in Places : f[x] = o
    <3> SUFFICES ASSUME NEW o \in owed
                 PROVE  \E x \in Places : f[x] = o
      OBVIOUS
    <3>1. o = <<o[1], o[2]>> /\ o[1] \in DOMAIN sent /\ o[2] \in Ids(net) /\ o[1] \in Copies(o[2]) \ Taken(o[2])
      OBVIOUS
    <3>2. PICK x \in Places : x[1].n = o[1] /\ x[1].to = o[2]
      BY <2>1, <3>1
    <3>3. f[x] = <<o[1], o[2]>>
      BY <3>2
    <3> HIDE DEF f
    <3> QED  BY <3>1, <3>3
  <2>5. IsFiniteSet(owed)
    <3>1. net \in Nets /\ sent \in Seq(net.traffic)
      BY DEF MeshInv, Shape
    <3>2. IsFiniteSet(DOMAIN sent)
      BY <3>1, DomainFinite
    <3>3. IsFiniteSet(Ids(net))
      <4>1. net.row \in Seq(SUBSET Nat)
        BY <3>1, TopologyParts
      <4> QED  BY <4>1, DomainFinite DEF Ids
    <3>4. IsFiniteSet((DOMAIN sent) \X Ids(net))
      BY <3>2, <3>3, FS_Product
    <3>5. owed \in SUBSET ((DOMAIN sent) \X Ids(net))
      OBVIOUS
    <3> HIDE DEF owed
    <3> QED  BY <3>4, <3>5, FS_Subset
  <2>6. {<<x[1].n, x[1].to>> : x \in Places} = owed
    <3>1. {f[x] : x \in Places} = owed
      <4> HIDE DEF f, owed
      <4> QED  BY <2>2, <2>4
    <3>2. {f[x] : x \in Places} = {<<x[1].n, x[1].to>> : x \in Places}
      OBVIOUS
    <3> HIDE DEF f, owed
    <3> QED  BY <3>1, <3>2
  <2>7. Cardinality(Places) = Cardinality(owed)
    <3> HIDE DEF f, owed
    <3>1. f \in Injection(Places, owed)
      BY <2>2, <2>3 DEF Injection, IsInjective
    <3>2. IsFiniteSet(Places)
      BY <2>5, <3>1, FS_Injection
    <3> QED  BY <2>2, <2>3, <2>4, <3>2, SameSize
  <2>8. fault \subseteq Ends(net)
    BY DEF MeshInv, Room
  <2>9. \A a \in Ids(net) : Len(got[a]) = Cardinality(Taken(a)) /\ Taken(a) \subseteq Copies(a)
    BY TakenOnce
  <2> QED  BY <2>6, <2>7, <2>8, <2>9 DEF CopiesConserved
<1> QED  BY <1>1, MeshInvariant, PTL

\* The numbers of what has been taken, when a copy more is taken and when not.
LEMMA NumbersAre ==
  ASSUME MeshInv, NEW a \in Ids(net)
  PROVE  /\ DOMAIN got = Ids(net) /\ DOMAIN numbers = Ids(net)
         /\ numbers[a] = [k \in DOMAIN got[a] |-> got[a][k].n]
         /\ numbers[a] \in Seq(Nat) /\ Range(numbers[a]) = Taken(a)
<1>1. got \in [Ids(net) -> Seq(Copy)]
  BY DEF MeshInv, Shape
<1>2. numbers[a] = [k \in DOMAIN got[a] |-> got[a][k].n] /\ DOMAIN numbers = Ids(net)
  BY <1>1 DEF numbers
<1>3. /\ Len(got[a]) \in Nat /\ DOMAIN got[a] = 1 .. Len(got[a])
      /\ \A k \in DOMAIN got[a] : got[a][k] \in Copy
  BY GotSpot
<1>4. \A k \in 1 .. Len(got[a]) : got[a][k].n \in Nat
  BY <1>3 DEF Copy
<1>5. [k \in 1 .. Len(got[a]) |-> got[a][k].n] \in Seq(Nat)
  BY <1>3, <1>4, IsASeq
<1>6. Range(numbers[a]) = Taken(a)
  BY <1>2 DEF Range, Taken
<1> QED  BY <1>1, <1>2, <1>3, <1>5, <1>6

\* A copy more taken is a number more.
LEMMA NumbersAppend ==
  ASSUME MeshInv, NEW a \in Ids(net), NEW m \in Copy, got' = [got EXCEPT ![a] = Append(@, m)]
  PROVE  numbers' = [numbers EXCEPT ![a] = Append(@, m.n)]
<1>1. got \in [Ids(net) -> Seq(Copy)] /\ got[a] \in Seq(Copy)
  BY DEF MeshInv, Shape
<1> DEFINE g == got[a]
           q == [k \in 1 .. Len(g) |-> g[k].n]
           r == [k \in DOMAIN Append(g, m) |-> Append(g, m)[k].n]
<1>2. numbers[a] = q /\ q \in Seq(Nat) /\ Len(g) \in Nat /\ DOMAIN g = 1 .. Len(g)
  BY <1>1, NumbersAre, LenProperties
<1>3. /\ Append(g, m) \in Seq(Copy) /\ DOMAIN Append(g, m) = 1 .. (Len(g) + 1)
      /\ Append(g, m)[Len(g) + 1] = m /\ \A k \in 1 .. Len(g) : Append(g, m)[k] = g[k]
  BY <1>1, AppendProperties, LenProperties
<1>4. Append(q, m.n) = r
  <2>1. Len(q) = Len(g)
    <3>1. DOMAIN q = 1 .. Len(g)
      OBVIOUS
    <3> HIDE DEF q
    <3> QED  BY <1>2, <3>1, LenProperties
  <2>2. m.n \in Nat
    BY DEF Copy
  <2>3. /\ Append(q, m.n) \in Seq(Nat) /\ DOMAIN Append(q, m.n) = 1 .. (Len(g) + 1)
        /\ Append(q, m.n)[Len(g) + 1] = m.n /\ \A k \in 1 .. Len(g) : Append(q, m.n)[k] = q[k]
    <3> HIDE DEF q
    <3> QED  BY <1>2, <2>1, <2>2, AppendProperties, LenProperties
  <2>4. Append(q, m.n) = [k \in 1 .. (Len(g) + 1) |-> Append(q, m.n)[k]]
    BY <2>3
  <2>5. \A k \in 1 .. (Len(g) + 1) : Append(q, m.n)[k] = Append(g, m)[k].n
    <3> SUFFICES ASSUME NEW k \in 1 .. (Len(g) + 1)
                 PROVE  Append(q, m.n)[k] = Append(g, m)[k].n
      OBVIOUS
    <3>1. CASE k = Len(g) + 1
      BY <1>3, <2>3, <3>1
    <3>2. CASE k # Len(g) + 1
      <4>1. k \in 1 .. Len(g)
        BY <1>2, <3>2
      <4> QED  BY <1>3, <2>3, <4>1
    <3> QED  BY <3>1, <3>2
  <2> HIDE DEF q
  <2> QED  BY <1>3, <2>4, <2>5
<1>5. numbers' = [b \in Ids(net) |-> IF b = a THEN r ELSE numbers[b]]
  <2>1. DOMAIN got' = Ids(net) /\ \A b \in Ids(net) : got'[b] = IF b = a THEN Append(g, m) ELSE got[b]
    BY <1>1
  <2>2. \A b \in Ids(net) : numbers[b] = [k \in DOMAIN got[b] |-> got[b][k].n]
    BY <1>1 DEF numbers
  <2>3. numbers' = [b \in DOMAIN got' |-> [k \in DOMAIN got'[b] |-> got'[b][k].n]]
    BY DEF numbers
  <2>4. \A b \in Ids(net) : [k \in DOMAIN got'[b] |-> got'[b][k].n] = IF b = a THEN r ELSE numbers[b]
    BY <2>1, <2>2
  <2> HIDE DEF r
  <2> QED  BY <2>1, <2>3, <2>4
<1>6. numbers = [b \in Ids(net) |-> numbers[b]]
  BY <1>1 DEF numbers
<1> HIDE DEF r
<1> QED  BY <1>2, <1>4, <1>5, <1>6

\* What a controller takes is the oldest of what it is owed of the flow.
LEMMA OldestTaken ==
  ASSUME MeshInv, NEW a \in Ids(net), a \notin net.switches, NEW d \in Classes, 1 \in DOMAIN rx[a][d]
  PROVE  LET n == rx[a][d][1].n
         IN  /\ n \in Copies(a) \ Taken(a)
             /\ \A o \in Copies(a) \ Taken(a) :
                  /\ sent[n].from = sent[o].from /\ sent[n].class = sent[o].class
                  /\ perOwner => sent[n].owner = sent[o].owner
                  => n <= o
<1> DEFINE s == <<"rx", a, d>>
           m == rx[a][d][1]
<1>1. s \in Spots(net) /\ s[1] = "rx" /\ s[2] = a /\ s[3] = d
  BY SpotIs
<1> HIDE DEF s
<1>2. Queues[s] = rx[a][d]
  BY <1>1, QueueAt DEF Queues
<1>3. /\ net \in Nets /\ sent \in Seq(net.traffic) /\ Queues \in [Spots(net) -> Seq(Copy)]
      /\ \A u \in Spots(net) : \A i \in DOMAIN Queues[u] :
           Sound(net, sent, Queues[u][i]) /\ May(net, u, Queues[u][i])
  BY DEF MeshInv, Shape, FlowInv, Placed
<1>4. Sound(net, sent, m) /\ May(net, s, m) /\ m.to = a /\ Level(s, m) = 6
  <2>1. Sound(net, sent, m) /\ May(net, s, m)
    BY <1>1, <1>2, <1>3
  <2>2. a = m.to
    BY <1>1, <2>1, SpotRx
  <2> HIDE DEF m
  <2> QED  BY <1>1, <2>1, <2>2, SpotRx
<1>5. Ways(net, m)
  BY <1>3, <1>4, SoundWays
<1>6. \A u \in Spots(net) : \A i \in DOMAIN Queues[u] : Queues[u][i] \in Copy /\ i \in Nat
  BY <1>3, ElementOfSeq, LenProperties
<1>7. m \in Copy /\ m.n \in Nat
  BY <1>1, <1>2, <1>6 DEF Copy
<1>8. m.n \in Copies(a) \ Taken(a)
  <2>1. <<m, "rx", a, 1>> \in Places
    BY <1>1, <1>2, PlacesAre
  <2> DEFINE x == <<m, "rx", a, 1>>
  <2>2. x[1] = m
    OBVIOUS
  <2> HIDE DEF x
  <2>3. x[1].n \in Copies(x[1].to) \ Taken(x[1].to)
    BY <2>1, FlightIsOwed DEF x
  <2> QED  BY <1>4, <2>2, <2>3
<1>9. ASSUME NEW o \in Copies(a) \ Taken(a), sent[m.n].from = sent[o].from, sent[m.n].class = sent[o].class,
             perOwner => sent[m.n].owner = sent[o].owner
      PROVE  m.n <= o
  <2>1. o \in DOMAIN sent /\ a \in Range(sent[o].tos)
    BY DEF Copies
  <2>2. PICK u \in Spots(net) : \E j \in DOMAIN Queues[u] : Queues[u][j].n = o /\ Queues[u][j].to = a
    BY <2>1 DEF MeshInv, FlowInv, Covered
  <2>3. PICK j \in DOMAIN Queues[u] : Queues[u][j].n = o /\ Queues[u][j].to = a
    BY <2>2
  <2> DEFINE y == Queues[u][j]
  <2>4. Sound(net, sent, y) /\ May(net, u, y) /\ y \in Copy /\ j \in Nat /\ y.n = o /\ y.to = a /\ o \in Nat
    BY <1>3, <1>6, <2>3 DEF Copy
  <2>5. Together(net, m, y) /\ Together(net, y, m)
    <3>1. net.arbiter \in {"FCFS", "RR"}
      BY <1>3, TopologyParts
    <3>2. net.arbiter = "FCFS" \/ sent[m.n].owner = sent[o].owner
      BY <1>9, <3>1 DEF perOwner
    <3> QED  BY <1>4, <1>9, <2>4, <3>2 DEF Sound, Together
  <2>6. u[1] # "got"
    <3> SUFFICES ASSUME u[1] = "got"
                 PROVE  FALSE
      OBVIOUS
    <3>1. u[2] = a /\ Queues[u] = got[u[2]]
      BY <2>4, SpotGot, QueueAt DEF Queues
    <3> QED  BY <2>3, <3>1 DEF Taken
  <2>7. Level(u, y) \in 1 .. 6
    <3>1. Level(u, y) \in 1 .. 7 /\ Level(u, y) # 7
      BY <2>6, LevelNumber, LevelKind
    <3> QED  BY <3>1
  <2>8. Queues[s][1] = m /\ 1 \in DOMAIN Queues[s]
    BY <1>2
  <2> HIDE DEF y, m
  <2>9. CASE Level(u, y) = 6
    <3>1. u = s
      BY <1>1, <1>3, <1>4, <1>5, <2>4, <2>5, <2>9, SpotOne
    <3>2. CASE j = 1
      BY <1>7, <2>4, <2>8, <3>1, <3>2 DEF y
    <3>3. CASE j # 1
      <4>1. 1 < j
        <5>1. j \in 1 .. Len(Queues[u])
          BY <1>3, <2>3, LenProperties
        <5> QED  BY <2>4, <3>3, <5>1
      <4>2. InFront(Queues, s, 1, u, j)
        BY <3>1, <4>1 DEF InFront
      <4>3. m.n < y.n
        BY <1>1, <2>5, <2>8, <4>2 DEF MeshInv, FlowInv, Ordered, y
      <4> QED  BY <1>7, <2>4, <4>3
    <3> QED  BY <3>2, <3>3
  <2>10. CASE Level(u, y) # 6
    <3>1. Level(s, m) > Level(u, y)
      BY <1>4, <2>7, <2>10
    <3>2. InFront(Queues, s, 1, u, j)
      BY <2>8, <3>1 DEF InFront, y
    <3>3. m.n < y.n
      BY <1>1, <2>5, <2>8, <3>2 DEF MeshInv, FlowInv, Ordered, y
    <3> QED  BY <1>7, <2>4, <3>3
  <2> QED  BY <2>9, <2>10
<1> HIDE DEF m
<1> QED  BY <1>8, <1>9 DEF m

\* A message is sent: the network takes one in.
LEMMA SendPosts ==
  ASSUME MeshInv, NEW m \in net.traffic, Send(m)
  PROVE  Net!Post
<1>1. net \in Nets /\ m \in UNION {t.traffic : t \in Nets}
  BY DEF MeshInv, Shape
<1>2. net' = net /\ got' = got /\ sent' = Append(sent, m)
  BY DEF Send
<1>3. perOwner' = perOwner /\ numbers' = numbers
  BY <1>2 DEF perOwner, numbers
<1> QED  BY <1>1, <1>2, <1>3 DEF Net!Post

\* A controller takes a message: its destination receives the oldest of a flow.
LEMMA TakeReceives ==
  ASSUME MeshInv, Take
  PROVE  \E a \in DOMAIN numbers : Net!Receive(a)
<1>1. net' = net /\ sent' = sent
  BY DEF Take
<1>2. PICK a \in Ends(net) : /\ Peeked(a) # "none"
                             /\ Pop(a) /\ got' = [got EXCEPT ![a] = Append(@, Head(rx[a][Peeked(a)]))]
  BY DEF Take
<1> DEFINE d == Peeked(a)
           m == rx[a][d][1]
<1>3. a \in Ids(net) /\ a \notin net.switches
  BY DEF Ends
<1>4. d \in Classes /\ 1 \in DOMAIN rx[a][d] /\ Head(rx[a][d]) = m /\ m \in Copy
  <2>1. Shape /\ Pop(a) /\ Peeked(a) # "none"
    BY <1>2 DEF MeshInv
  <2> QED  BY <1>3, <2>1, PopCuts
<1> HIDE DEF d, m
<1>5. got' = [got EXCEPT ![a] = Append(@, m)]
  BY <1>2, <1>4 DEF d
<1>6. numbers' = [numbers EXCEPT ![a] = Append(@, m.n)]
  BY <1>3, <1>4, <1>5, NumbersAppend
<1>7. a \in DOMAIN numbers /\ Net!Outstanding(a) = Copies(a) \ Taken(a)
  <2>1. a \in DOMAIN numbers /\ Range(numbers[a]) = Taken(a)
    BY <1>3, NumbersAre
  <2>2. \A f : Net!Range(f) = Range(f)
    BY DEF Net!Range, Range
  <2> QED  BY <2>1, <2>2 DEF Net!Outstanding, Copies
<1>8. /\ m.n \in Copies(a) \ Taken(a)
      /\ \A o \in Copies(a) \ Taken(a) :
           /\ sent[m.n].from = sent[o].from /\ sent[m.n].class = sent[o].class
           /\ perOwner => sent[m.n].owner = sent[o].owner
           => m.n <= o
  BY <1>3, <1>4, OldestTaken DEF m
<1>9. perOwner' = perOwner
  BY <1>1 DEF perOwner
<1>10. Net!Receive(a)
  BY <1>1, <1>6, <1>7, <1>8, <1>9 DEF Net!Receive, Net!SameFlow
<1> QED  BY <1>7, <1>10

\* Nothing else is seen outside.
LEMMA RestStutters ==
  ASSUME step \/ forward \/ NextCycle \/ LinksDone \/ SwitchesDone \/ Leave \/ UNCHANGED vars
  PROVE  UNCHANGED <<perOwner, sent, numbers>>
<1>1. net' = net /\ sent' = sent /\ got' = got
  BY DEF step, forward, NextCycle, LinksDone, SwitchesDone, Leave, vars
<1> QED  BY <1>1 DEF perOwner, numbers

\* The interconnect is an ordered network: it starts as one, and every step of it is a sending, the
\* taking of the oldest message of a flow, or hidden.
THEOREM MeshImplements == Spec => Implements
<1>1. Init => Net!NetInit
  <2> SUFFICES ASSUME Init
               PROVE  Net!NetInit
    OBVIOUS
  <2>1. DOMAIN numbers = Ids(net) /\ \A a \in Ids(net) : numbers[a] = [k \in DOMAIN got[a] |-> got[a][k].n]
    BY DEF Init, numbers
  <2>2. \A a \in Ids(net) : got[a] = <<>> /\ numbers[a] \in Seq(Nat)
    BY InitInv, NumbersAre DEF Init
  <2>3. \A a \in Ids(net) : numbers[a] = <<>>
    <3> SUFFICES ASSUME NEW a \in Ids(net)
                 PROVE  numbers[a] = <<>>
      OBVIOUS
    <3>1. DOMAIN got[a] = {}
      BY <2>2
    <3>2. DOMAIN numbers[a] = {}
      BY <2>1, <3>1
    <3>3. \A q \in Seq(Nat) : DOMAIN q = 1 .. Len(q) /\ Len(q) \in Nat /\ (Len(q) = 0 => q = <<>>)
      BY EmptySeq, LenProperties
    <3>4. \A k \in Nat : 1 .. k = {} => k = 0
      OBVIOUS
    <3> QED  BY <2>2, <3>2, <3>3, <3>4
  <2> QED  BY <2>1, <2>3 DEF Init, perOwner, Net!NetInit
<1>2. MeshInv /\ [Next]_vars => [Net!NetNext]_(Net!netVars)
  <2> SUFFICES ASSUME MeshInv, [Next]_vars
               PROVE  Net!NetNext \/ UNCHANGED <<perOwner, sent, numbers>>
    BY DEF Net!netVars
  <2>1. CASE \E m \in net.traffic : Send(m)
    BY <2>1, SendPosts DEF Net!NetNext
  <2>2. CASE Take
    BY <2>2, TakeReceives DEF Net!NetNext
  <2>3. CASE step \/ forward \/ NextCycle \/ LinksDone \/ SwitchesDone \/ Leave \/ UNCHANGED vars
    BY <2>3, RestStutters
  <2> QED  BY <2>1, <2>2, <2>3 DEF Next, Clocked
<1> QED  BY <1>1, <1>2, MeshInvariant, PTL DEF Spec, Implements, Net!NetSpec

-----------------------------------------------------------------------------
(* The abstract network.                                                    *)

\* What is ever sent.
Mail == UNION {t.traffic : t \in Nets}
\* Two messages of a flow, by their numbers.
Flow(n, o) == Net!SameFlow(sent[n], sent[o])

\* What a destination took is older than what it still awaits of the flow.
NetInv ==
  /\ sent \in Seq(Mail)
  /\ \A a \in DOMAIN numbers : numbers[a] \in Seq(Nat)
  /\ \A a \in DOMAIN numbers : \A i \in DOMAIN numbers[a] : numbers[a][i] \in DOMAIN sent
  /\ \A a \in DOMAIN numbers : \A i, j \in DOMAIN numbers[a] :
       i < j /\ Flow(numbers[a][i], numbers[a][j]) => numbers[a][i] < numbers[a][j]
  /\ \A a \in DOMAIN numbers : \A i \in DOMAIN numbers[a], o \in Net!Outstanding(a) :
       Flow(numbers[a][i], o) => numbers[a][i] < o

\* Outstanding, in the terms of this module.
LEMMA Awaited ==
  ASSUME NEW a, NEW o
  PROVE  o \in Net!Outstanding(a) <=>
           o \in DOMAIN sent /\ a \in Range(sent[o].tos) /\ \A i \in DOMAIN numbers[a] : numbers[a][i] # o
BY DEF Net!Outstanding, Net!Range, Range

\* The same of the next state.
LEMMA AwaitedNext ==
  ASSUME NEW a, NEW o
  PROVE  o \in Net!Outstanding(a)' <=>
           o \in DOMAIN sent' /\ a \in Range(sent'[o].tos) /\ \A i \in DOMAIN numbers'[a] : numbers'[a][i] # o
BY DEF Net!Outstanding, Net!Range, Range

\* A message more is the youngest of all.
LEMMA PostKeeps ==
  ASSUME NetInv, Net!Post
  PROVE  NetInv'
<1> USE DEF NetInv
<1>1. PICK m \in Mail : sent' = Append(sent, m)
  BY DEF Net!Post, Mail
<1>2. numbers' = numbers /\ perOwner' = perOwner
  BY DEF Net!Post
<1>3. /\ sent' \in Seq(Mail) /\ Len(sent) \in Nat
      /\ DOMAIN sent = 1 .. Len(sent) /\ DOMAIN sent' = 1 .. (Len(sent) + 1)
      /\ \A n \in DOMAIN sent : sent'[n] = sent[n]
  BY <1>1, AppendProperties, LenProperties
<1>4. \A n, o \in DOMAIN sent : Flow(n, o)' <=> Flow(n, o)
  BY <1>2, <1>3 DEF Flow, Net!SameFlow
<1>5. ASSUME NEW a \in DOMAIN numbers, NEW i \in DOMAIN numbers[a], NEW o \in Net!Outstanding(a)',
             Flow(numbers[a][i], o)'
      PROVE  numbers[a][i] < o
  <2>1. numbers[a][i] \in DOMAIN sent
    OBVIOUS
  <2>2. CASE o \in DOMAIN sent
    <3>1. a \in Range(sent'[o].tos) /\ \A j \in DOMAIN numbers'[a] : numbers'[a][j] # o
      BY <1>5, AwaitedNext
    <3>2. o \in Net!Outstanding(a)
      <4>1. a \in Range(sent[o].tos) /\ \A j \in DOMAIN numbers[a] : numbers[a][j] # o
        BY <1>2, <1>3, <2>2, <3>1
      <4> QED  BY <2>2, <4>1, Awaited
    <3>3. Flow(numbers[a][i], o)
      <4> DEFINE k == numbers[a][i]
      <4>1. Flow(k, o)'
        BY <1>5
      <4>2. k \in DOMAIN sent /\ k' = k
        BY <1>2, <2>1
      <4> QED  BY <1>2, <1>3, <2>2, <4>1, <4>2 DEF Flow, Net!SameFlow
    <3> QED  BY <3>2, <3>3
  <2>3. CASE o \notin DOMAIN sent
    <3>1. o = Len(sent) + 1
      BY <1>3, <2>3, AwaitedNext
    <3> QED  BY <1>3, <2>1, <3>1
  <2> QED  BY <2>2, <2>3
<1>6. \A a \in DOMAIN numbers : \A i \in DOMAIN numbers[a] : numbers[a][i] \in DOMAIN sent'
  BY <1>3
<1>7. \A a \in DOMAIN numbers : \A i, j \in DOMAIN numbers[a] :
        i < j /\ Flow(numbers[a][i], numbers[a][j])' => numbers[a][i] < numbers[a][j]
  BY <1>2, <1>4
<1> QED  BY <1>2, <1>3, <1>5, <1>6, <1>7

\* The oldest of a flow is older than the others, and younger than what was taken.
LEMMA ReceiveKeeps ==
  ASSUME NetInv, NEW a \in DOMAIN numbers, Net!Receive(a)
  PROVE  NetInv'
<1> USE DEF NetInv
<1>1. PICK n \in Net!Outstanding(a) :
        /\ \A o \in Net!Outstanding(a) : Flow(n, o) => n <= o
        /\ numbers' = [numbers EXCEPT ![a] = Append(@, n)] /\ perOwner' = perOwner /\ sent' = sent
  BY DEF Net!Receive, Flow
<1>2. /\ n \in DOMAIN sent /\ n \in Nat /\ DOMAIN sent \subseteq Nat
      /\ \A i \in DOMAIN numbers[a] : numbers[a][i] # n
  BY Awaited, LenProperties
<1> DEFINE q == numbers[a]
<1>3. /\ Append(q, n) \in Seq(Nat) /\ Len(q) \in Nat /\ DOMAIN q = 1 .. Len(q)
      /\ DOMAIN Append(q, n) = 1 .. (Len(q) + 1)
      /\ Append(q, n)[Len(q) + 1] = n /\ \A i \in DOMAIN q : Append(q, n)[i] = q[i]
  BY <1>2, AppendProperties, LenProperties
<1>4. /\ DOMAIN numbers' = DOMAIN numbers /\ numbers'[a] = Append(q, n)
      /\ \A b \in DOMAIN numbers : b # a => numbers'[b] = numbers[b]
  BY <1>1
<1>5. \A k, o : Flow(k, o)' <=> Flow(k, o)
  BY <1>1 DEF Flow, Net!SameFlow
<1>6. ASSUME NEW b, NEW o \in Net!Outstanding(b)', b \in DOMAIN numbers
      PROVE  o \in Net!Outstanding(b) /\ (b = a => o # n) /\ o \in Nat
  <2>1. o \in DOMAIN sent /\ b \in Range(sent[o].tos) /\ \A i \in DOMAIN numbers'[b] : numbers'[b][i] # o
    BY <1>1, <1>6, AwaitedNext
  <2>2. CASE b = a
    <3>1. /\ Len(q) + 1 \in DOMAIN numbers'[b]
          /\ \A i \in DOMAIN q : i \in DOMAIN numbers'[b] /\ numbers'[b][i] = q[i]
      BY <1>3, <1>4, <2>2
    <3>2. o # n
      BY <1>3, <1>4, <2>1, <2>2, <3>1
    <3> QED  BY <1>2, <2>1, <2>2, <3>1, <3>2, Awaited
  <2>3. CASE b # a
    BY <1>2, <1>4, <1>6, <2>1, <2>3, Awaited
  <2> QED  BY <2>2, <2>3
<1> HIDE DEF q
<1>7. ASSUME NEW i \in 1 .. (Len(q) + 1)
      PROVE  i \in DOMAIN q \/ i = Len(q) + 1
  BY <1>3
<1>8. \A b \in DOMAIN numbers : /\ numbers'[b] \in Seq(Nat)
                                /\ \A i \in DOMAIN numbers'[b] : numbers'[b][i] \in DOMAIN sent
  BY <1>2, <1>3, <1>4, <1>7 DEF q
<1>9. ASSUME NEW i \in DOMAIN numbers'[a], NEW j \in DOMAIN numbers'[a], i < j,
             Flow(numbers'[a][i], numbers'[a][j])
      PROVE  numbers'[a][i] < numbers'[a][j]
  <2>1. i \in DOMAIN q /\ numbers'[a][i] = q[i]
    BY <1>3, <1>4, <1>7, <1>9
  <2>2. CASE j \in DOMAIN q
    BY <1>3, <1>4, <1>9, <2>1, <2>2 DEF q
  <2>3. CASE j = Len(q) + 1
    BY <1>1, <1>3, <1>4, <1>9, <2>1, <2>3 DEF q
  <2> QED  BY <1>3, <1>4, <1>7, <2>2, <2>3
<1>10. ASSUME NEW i \in DOMAIN numbers'[a], NEW o \in Net!Outstanding(a)', Flow(numbers'[a][i], o)
       PROVE  numbers'[a][i] < o
  <2>1. o \in Net!Outstanding(a) /\ o # n /\ o \in Nat
    BY <1>6
  <2>2. CASE i \in DOMAIN q
    BY <1>3, <1>4, <1>10, <2>1, <2>2 DEF q
  <2>3. CASE i = Len(q) + 1
    <3>1. Flow(n, o) /\ numbers'[a][i] = n
      BY <1>3, <1>4, <1>10, <2>3
    <3> QED  BY <1>1, <1>2, <2>1, <3>1
  <2> QED  BY <1>3, <1>4, <1>7, <2>2, <2>3
<1>11. \A b \in DOMAIN numbers : \A i, j \in DOMAIN numbers'[b] :
         i < j /\ Flow(numbers'[b][i], numbers'[b][j]) => numbers'[b][i] < numbers'[b][j]
  <2> SUFFICES ASSUME NEW b \in DOMAIN numbers, NEW i \in DOMAIN numbers'[b], NEW j \in DOMAIN numbers'[b],
                      i < j, Flow(numbers'[b][i], numbers'[b][j])
               PROVE  numbers'[b][i] < numbers'[b][j]
    OBVIOUS
  <2>1. CASE b = a
    BY <1>9, <2>1
  <2>2. CASE b # a
    BY <1>4, <2>2
  <2> QED  BY <2>1, <2>2
<1>12. \A b \in DOMAIN numbers : \A i \in DOMAIN numbers'[b], o \in Net!Outstanding(b)' :
         Flow(numbers'[b][i], o) => numbers'[b][i] < o
  <2> SUFFICES ASSUME NEW b \in DOMAIN numbers, NEW i \in DOMAIN numbers'[b], NEW o \in Net!Outstanding(b)',
                      Flow(numbers'[b][i], o)
               PROVE  numbers'[b][i] < o
    OBVIOUS
  <2>1. CASE b = a
    BY <1>10, <2>1
  <2>2. CASE b # a
    BY <1>4, <1>6, <2>2
  <2> QED  BY <2>1, <2>2
<1> QED  BY <1>1, <1>4, <1>5, <1>8, <1>11, <1>12

\* The abstract network delivers each message to a destination once, and the flows in order: what
\* an interconnect that implements it promises its controllers.
THEOREM NetworkInOrder == Net!NetSpec => []Net!InOrder
<1>1. Net!NetInit => NetInv
  <2> SUFFICES ASSUME Net!NetInit
               PROVE  NetInv
    OBVIOUS
  <2>1. sent \in Seq(Mail) /\ \A a \in DOMAIN numbers : numbers[a] = <<>> /\ numbers[a] \in Seq(Nat)
    BY EmptySeq DEF Net!NetInit
  <2> QED  BY <2>1 DEF NetInv
<1>2. NetInv /\ [Net!NetNext]_(Net!netVars) => NetInv'
  <2> SUFFICES ASSUME NetInv, Net!NetNext \/ UNCHANGED <<perOwner, sent, numbers>>
               PROVE  NetInv'
    BY DEF Net!netVars
  <2>1. CASE UNCHANGED <<perOwner, sent, numbers>>
    <3>1. \A a, o : o \in Net!Outstanding(a)' <=> o \in Net!Outstanding(a)
      BY <2>1, Awaited, AwaitedNext
    <3>2. \A n, o : Flow(n, o)' <=> Flow(n, o)
      BY <2>1 DEF Flow, Net!SameFlow
    <3> QED  BY <2>1, <3>1, <3>2 DEF NetInv
  <2> QED  BY <2>1, PostKeeps, ReceiveKeeps DEF Net!NetNext
<1>3. NetInv => Net!InOrder
  BY DEF NetInv, Net!InOrder, Flow
<1> QED  BY <1>1, <1>2, <1>3, PTL DEF Net!NetSpec

-----------------------------------------------------------------------------
(* The promise of CoherentLine keeps single writer or many readers, for any *)
(* set of cores.  A protocol model that implements AbsSpec (Directory does, *)
(* by its run, over an ordered interconnect) therefore keeps it as well.    *)

\* The permissions are permissions, and no two of them clash.
LineInv ==
  /\ perm \in [Core -> Perms]
  /\ SingleWriter

\* A permission given where it is allowed clashes with no other core's.
LEMMA GiveKeeps ==
  ASSUME LineInv, NEW c \in Core, NEW p \in Perms, Allowed(c, p),
         perm' = [perm EXCEPT ![c] = p]
  PROVE  LineInv'
<1>1. perm' \in [Core -> Perms]
  BY DEF LineInv
<1>2. SingleWriter'
  <2> SUFFICES ASSUME NEW d \in Core, NEW e \in Core, d # e
               PROVE  /\ perm'[d] = "write" => perm'[e] = "none"
                      /\ perm'[d] = "read" => perm'[e] # "write"
    BY DEF SingleWriter, Allowed
  <2>1. \A x \in Core, y \in Core : x # y =>
          /\ perm[x] = "write" => perm[y] = "none"
          /\ perm[x] = "read" => perm[y] # "write"
    BY DEF LineInv, SingleWriter, Allowed
  <2>2. perm'[d] = IF d = c THEN p ELSE perm[d]
    BY DEF LineInv
  <2>3. perm'[e] = IF e = c THEN p ELSE perm[e]
    BY DEF LineInv
  <2>4. CASE d = c
    BY <2>2, <2>3, <2>4 DEF Allowed
  <2>5. CASE e = c
    <3>1. perm[d] \in Perms
      BY DEF LineInv
    <3>2. QED
      BY <2>2, <2>3, <2>5, <3>1 DEF Allowed, Perms
  <2>6. CASE d # c /\ e # c
    BY <2>1, <2>2, <2>3, <2>6
  <2>7. QED
    BY <2>4, <2>5, <2>6
<1>3. QED
  BY <1>1, <1>2 DEF LineInv

\* A weaker permission than the one held is always allowed.
LEMMA WeakerAllowed ==
  ASSUME LineInv, NEW c \in Core, NEW p \in Perms, Weaker(p, perm[c])
  PROVE  Allowed(c, p)
<1>1. Allowed(c, perm[c])
  BY DEF LineInv, SingleWriter
<1>2. \A d \in Core : perm[d] \in Perms
  BY DEF LineInv
<1>3. QED
  BY <1>1, <1>2 DEF Allowed, Weaker, Perms

\* Single writer or many readers, for any number of cores.
THEOREM AbsSpecSingleWriter == AbsSpec => []SingleWriter
<1>1. AbsInit => LineInv
  BY DEF AbsInit, LineInv, SingleWriter, Allowed, Perms
<1>2. LineInv /\ [AbsNext]_absVars => LineInv'
  <2> SUFFICES ASSUME LineInv, [AbsNext]_absVars PROVE LineInv'
    OBVIOUS
  <2>1. ASSUME NEW c \in Core, Ask(c) PROVE LineInv'
    BY <2>1, WeakerAllowed, GiveKeeps DEF Ask
  <2>2. ASSUME NEW c \in Core, Serve(c) PROVE LineInv'
    BY <2>2, GiveKeeps DEF Serve
  <2>3. ASSUME NEW c \in Core, Lose(c) PROVE LineInv'
    BY <2>3, WeakerAllowed, GiveKeeps DEF Lose
  <2>4. CASE UNCHANGED absVars
    BY <2>4 DEF absVars, LineInv, SingleWriter, Allowed
  <2>5. QED
    BY <2>1, <2>2, <2>3, <2>4 DEF AbsNext
<1>3. LineInv => SingleWriter
  BY DEF LineInv
<1>4. QED
  BY <1>1, <1>2, <1>3, PTL DEF AbsSpec
=============================================================================
