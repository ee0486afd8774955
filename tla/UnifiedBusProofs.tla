-------------------------- MODULE UnifiedBusProofs --------------------------
(***************************************************************************)
(* Theorems about UnifiedBus for every number of agents, buffer size,      *)
(* latency and arbiter: the requests of a cache are broadcast in the order *)
(* it issued them.                                                         *)
(***************************************************************************)
EXTENDS UnifiedBus, BufferLemmas

Msg == [id : Nat, kind : {"Demand", "PutM", "Data"}, owner : Agents, to : SUBSET Agents,
        for : Nat, cycle : {0}]

-----------------------------------------------------------------------------
(* The arbiters.                                                            *)

\* When every message of a buffer belongs to its agent, an arbiter only grants heads.
LEMMA HeadGranted ==
  ASSUME NEW bufs \in [Agents -> Seq(Msg)], \A a \in Agents : \A k \in DOMAIN bufs[a] : bufs[a][k].owner = a,
         NEW cand, NEW i, NEW aligned \in BOOLEAN
  PROVE  \A p \in elect(Arbiter, bufs, cand, i, aligned).grant :
           \E a \in Agents : bufs[a] # <<>> /\ p = <<a, 1>>
<1>1. ASSUME NEW owner, NEW p \in electOldestOwned(bufs, owner)
      PROVE  \E a \in Agents : bufs[a] # <<>> /\ p = <<a, 1>>
  <2> DEFINE pairs == UNION {{<<a, k>> : k \in findMessage(bufs[a], owner)} : a \in DOMAIN bufs}
  <2>1. p \in pairs
    BY DEF electOldestOwned, Oldest
  <2>2. PICK a \in Agents : \E k \in findMessage(bufs[a], owner) : p = <<a, k>>
    BY <2>1
  <2>3. PICK k \in findMessage(bufs[a], owner) : p = <<a, k>>
    BY <2>2
  <2>4. bufs[a] \in Seq(Msg) /\ k \in 1 .. Len(bufs[a]) /\ Len(bufs[a]) \in Nat
    BY <2>3, LenProperties DEF findMessage
  <2>5. owner = a /\ \A l \in 1 .. (k - 1) : bufs[a][l].owner # owner
    BY <2>3 DEF findMessage
  <2>6. k = 1
    <3>1. k # 1 => 1 \in 1 .. (k - 1) /\ 1 \in DOMAIN bufs[a]
      BY <2>4, LenProperties
    <3> QED  BY <2>5, <3>1
  <2> QED  BY <2>3, <2>4, <2>6
<1>2. CASE Arbiter = "FCFS"
  <2>1. \A p \in elect(Arbiter, bufs, cand, i, aligned).grant :
          p \in {<<a, 1>> : a \in {b \in DOMAIN bufs : bufs[b] # <<>>}}
    BY <1>2 DEF elect, FCFSElect, Oldest
  <2> QED  BY <2>1
<1>3. CASE Arbiter = "RR"
  <2>1. \A p \in elect(Arbiter, bufs, cand, i, aligned).grant :
          \E owner : p \in electOldestOwned(bufs, owner)
    BY <1>3 DEF elect, RRElect
  <2> QED  BY <1>1, <2>1
<1>4. CASE Arbiter = "TDM"
  <2>1. elect(Arbiter, bufs, cand, i, aligned).grant
          \in {{}, electOldestOwned(bufs, cand[Advance(i, 1, Len(cand)) + 1])}
    BY <1>4 DEF elect, TDMElect
  <2> QED  BY <1>1, <2>1
<1> QED  BY <1>2, <1>3, <1>4, UnifiedAssumption DEF Kinds

\* Removing a queued message.
LEMMA Removed ==
  ASSUME NEW s \in Seq(Msg), NEW k \in DOMAIN s
  PROVE  SubSeq(s, 1, k - 1) \o SubSeq(s, k + 1, Len(s)) \in Seq(Msg)
<1>1. Len(s) \in Nat /\ k \in 1 .. Len(s)
  BY LenProperties
<1>2. SubSeq(s, 1, k - 1) \in Seq(Msg) /\ SubSeq(s, k + 1, Len(s)) \in Seq(Msg)
  BY <1>1
<1> QED  BY <1>2, ConcatProperties

\* Removing the head shifts the others by one.
LEMMA HeadRemoved ==
  ASSUME NEW s \in Seq(Msg), s # <<>>,
         NEW t, t = SubSeq(s, 1, 1 - 1) \o SubSeq(s, 1 + 1, Len(s))
  PROVE  /\ t \in Seq(Msg) /\ Len(t) = Len(s) - 1
         /\ \A j \in 1 .. Len(t) : t[j] = s[j + 1]
<1>1. Len(s) \in Nat /\ Len(s) > 0
  BY LenProperties, EmptySeq
<1>2. SubSeq(s, 1, 1 - 1) = <<>>
  BY <1>1
<1>3. SubSeq(s, 1 + 1, Len(s)) = Tail(s)
  BY TailIsSubSeq
<1>4. /\ Tail(s) \in Seq(Msg) /\ Len(Tail(s)) = Len(s) - 1
      /\ \A j \in 1 .. Len(Tail(s)) : Tail(s)[j] = s[j + 1]
  BY HeadTailProperties
<1>5. t = Tail(s)
  BY <1>2, <1>3, <1>4, ConcatEmptySeq
<1> QED  BY <1>4, <1>5

\* What an election leaves and what it takes, given one grant at most.
LEMMA ElectionStep ==
  ASSUME NEW tx \in [Agents -> Seq(Msg)], NEW e, OneGrant(tx, e.grant)
  PROVE  /\ WithoutElected(tx, e) \in [Agents -> Seq(Msg)]
         /\ Elected(tx, e) \in Seq(Msg) /\ Len(Elected(tx, e)) <= 1
         /\ e.grant = {} => Elected(tx, e) = <<>> /\ WithoutElected(tx, e) = tx
         /\ \A p \in e.grant :
              /\ Elected(tx, e) = <<tx[p[1]][p[2]]>>
              /\ WithoutElected(tx, e)[p[1]]
                   = SubSeq(tx[p[1]], 1, p[2] - 1) \o SubSeq(tx[p[1]], p[2] + 1, Len(tx[p[1]]))
              /\ \A a \in Agents \ {p[1]} : WithoutElected(tx, e)[a] = tx[a]
<1>1. CASE e.grant = {}
  <2>1. Elected(tx, e) = <<>> /\ WithoutElected(tx, e) = tx
    BY <1>1 DEF Elected, WithoutElected
  <2> QED  BY <1>1, <2>1
<1>2. ASSUME NEW p \in e.grant
      PROVE  /\ WithoutElected(tx, e) \in [Agents -> Seq(Msg)]
             /\ Elected(tx, e) \in Seq(Msg) /\ Len(Elected(tx, e)) <= 1
             /\ Elected(tx, e) = <<tx[p[1]][p[2]]>>
             /\ WithoutElected(tx, e)[p[1]]
                  = SubSeq(tx[p[1]], 1, p[2] - 1) \o SubSeq(tx[p[1]], p[2] + 1, Len(tx[p[1]]))
             /\ \A a \in Agents \ {p[1]} : WithoutElected(tx, e)[a] = tx[a]
  <2>1. PICK a \in Agents : \E k \in DOMAIN tx[a] : p = <<a, k>>
    BY <1>2 DEF OneGrant
  <2>2. PICK k \in DOMAIN tx[a] : p = <<a, k>>
    BY <2>1
  <2>3. e.grant = {p}
    BY <1>2 DEF OneGrant
  <2> DEFINE g == CHOOSE q \in e.grant : TRUE
             cut == SubSeq(tx[a], 1, k - 1) \o SubSeq(tx[a], k + 1, Len(tx[a]))
  <2>4. g = p
    BY <2>3
  <2>5. Elected(tx, e) = <<tx[p[1]][p[2]]>>
    <3>1. Elected(tx, e) = <<tx[g[1]][g[2]]>>
      BY <2>3 DEF Elected
    <3> HIDE DEF g
    <3> QED  BY <2>4, <3>1
  <2>6. Elected(tx, e) \in Seq(Msg) /\ Len(Elected(tx, e)) <= 1
    BY <2>2, <2>5
  <2>7. ASSUME NEW b \in Agents PROVE WithoutElected(tx, e)[b] = IF b = a THEN cut ELSE tx[b]
    <3>1. CASE b = a
      <4> DEFINE h == CHOOSE q \in e.grant : q[1] = b
      <4>1. h = <<a, k>>
        BY <2>2, <2>3, <3>1
      <4>2. WithoutElected(tx, e)[b] = LET j == h[2] IN SubSeq(tx[b], 1, j - 1) \o SubSeq(tx[b], j + 1, Len(tx[b]))
        BY <2>2, <2>3, <3>1 DEF WithoutElected
      <4> HIDE DEF h
      <4> QED  BY <3>1, <4>1, <4>2
    <3>2. CASE b # a
      BY <2>2, <2>3, <3>2 DEF WithoutElected
    <3> QED  BY <3>1, <3>2
  <2>8. cut \in Seq(Msg)
    BY Removed
  <2> HIDE DEF cut
  <2>9. WithoutElected(tx, e) = [b \in Agents |-> WithoutElected(tx, e)[b]]
    BY DEF WithoutElected
  <2>10. WithoutElected(tx, e) \in [Agents -> Seq(Msg)]
    BY <2>7, <2>8, <2>9
  <2> QED  BY <2>2, <2>5, <2>6, <2>7, <2>10 DEF cut
<1> QED  BY <1>1, <1>2

\* Both elections grant at most one queued message.
LEMMA OneGranted ==
  ASSUME NEW bufs \in [Agents -> Seq(Msg)]
  PROVE  /\ OneGrant(bufs, elect(Arbiter, bufs, Cand, idx, phase = 0).grant)
         /\ OneGrant(bufs, forceElect(bufs).grant)
<1>1. Agents \in SUBSET Int /\ bufs \in Buffers(Agents, Msg)
  BY UnifiedAssumption DEF Agents, Buffers
<1>2. \A m \in Msg : m.cycle \in Int
  BY DEF Msg
<1>3. OneGrant(bufs, elect(Arbiter, bufs, Cand, idx, phase = 0).grant)
  BY <1>1, <1>2, ElectOne
<1>4. OneGrant(bufs, forceElect(bufs).grant)
  <2>1. CASE Arbiter = "FCFS"
    <3>1. forceElect(bufs) = elect("FCFS", bufs, Cand, idx, TRUE)
      BY <2>1 DEF forceElect, elect
    <3> QED  BY <1>1, <1>2, <3>1, ElectOne
  <2>2. CASE Arbiter # "FCFS"
    <3>1. \E o : forceElect(bufs).grant = electOldestOwned(bufs, o)
      BY <2>2 DEF forceElect
    <3> QED  BY <1>1, <1>2, <3>1, OwnedOne
  <2> QED  BY <2>1, <2>2
<1> QED  BY <1>3, <1>4

-----------------------------------------------------------------------------
(* Requests keep the order of their cache.                                  *)

\* The queues, the slot and the deliveries hold messages.
UnifiedTyped ==
  /\ txReq \in [Agents -> Seq(Msg)] /\ txResp \in [Agents -> Seq(Msg)]
  /\ held \in Seq(Msg) /\ Len(held) <= 1
  /\ log \in Seq(Msg) /\ pushed \in Nat /\ clk \in 0 .. (Period - 1)

\* A request waits in the buffer of its own agent, in the order of its numbers.
Queued ==
  \A a \in Agents :
    /\ \A k \in DOMAIN txReq[a] : txReq[a][k].owner = a /\ txReq[a][k].id <= pushed
    /\ \A j, k \in DOMAIN txReq[a] : j < k => txReq[a][j].id < txReq[a][k].id

\* What is broadcast is older than what waits, and in order.
Broadcast ==
  /\ \A k \in DOMAIN log : log[k].id <= pushed
  /\ \A k \in DOMAIN log : \A j \in DOMAIN txReq[log[k].owner] : log[k].id < txReq[log[k].owner][j].id
  /\ RequestProgramOrder

\* In the request phase of a round the slot holds a request between the two.
Between ==
  0 < clk /\ clk < ReqLatency =>
    /\ held # <<>> /\ held[1].id <= pushed
    /\ \A k \in DOMAIN log : log[k].owner = held[1].owner => log[k].id < held[1].id
    /\ \A j \in DOMAIN txReq[held[1].owner] : held[1].id < txReq[held[1].owner][j].id

OrderInv == UnifiedTyped /\ Queued /\ Broadcast /\ Between

\* Counting modulo the period.
LEMMA ClockStep ==
  ASSUME NEW c \in 0 .. (Period - 1)
  PROVE  /\ c < Period - 1 => (c + 1) % Period = c + 1
         /\ c = Period - 1 => (c + 1) % Period = 0
         /\ Period \in Nat /\ ReqLatency < Period /\ ReqLatency \in Nat /\ ReqLatency > 0
<1>1. Period \in Nat /\ ReqLatency < Period /\ ReqLatency \in Nat /\ ReqLatency > 0
  BY UnifiedAssumption DEF Period
<1>2. c < Period - 1 => (c + 1) % Period = c + 1
  <2> SUFFICES ASSUME NEW p \in Nat, p > 0, c + 1 < p, c \in Nat PROVE (c + 1) % p = c + 1
    BY <1>1
  <2> QED  OBVIOUS
<1>3. c = Period - 1 => (c + 1) % Period = 0
  <2> SUFFICES ASSUME NEW p \in Nat, p > 0 PROVE p % p = 0
    BY <1>1
  <2> QED  OBVIOUS
<1> QED  BY <1>1, <1>2, <1>3

\* Appending the next request keeps a queue in order.
LEMMA PushQueued ==
  ASSUME UnifiedTyped, Queued, Broadcast, Between, NEW a \in Agents, NEW k, PushRequest(a, k),
         k \in {"Demand", "PutM"}
  PROVE  OrderInv'
<1> DEFINE m == Message(k, a, {LLC}, 0)
           s == txReq[a]
<1>1. m \in Msg /\ m.id = pushed + 1 /\ m.owner = a
  BY UnifiedAssumption DEF Message, Msg, UnifiedTyped, LLC, Agents
<1>2. /\ txReq' = [txReq EXCEPT ![a] = Append(s, m)] /\ pushed' = pushed + 1
      /\ UNCHANGED <<txResp, held, log, clk>>
  BY DEF PushRequest
<1> HIDE DEF m
<1>3. s \in Seq(Msg) /\ pushed \in Nat /\ Len(s) \in Nat /\ DOMAIN s = 1 .. Len(s)
  BY LenProperties DEF UnifiedTyped
<1>4. /\ Append(s, m) \in Seq(Msg) /\ Len(Append(s, m)) = Len(s) + 1
      /\ DOMAIN Append(s, m) = 1 .. (Len(s) + 1)
      /\ \A j \in 1 .. Len(s) : Append(s, m)[j] = s[j]
      /\ Append(s, m)[Len(s) + 1] = m
  <2> HIDE DEF s
  <2>1. Append(s, m) \in Seq(Msg) /\ Len(Append(s, m)) = Len(s) + 1
    BY <1>1, <1>3, AppendProperties
  <2>2. /\ \A j \in 1 .. Len(s) : Append(s, m)[j] = s[j]
        /\ Append(s, m)[Len(s) + 1] = m
    BY <1>1, <1>3, AppendProperties
  <2>3. DOMAIN Append(s, m) = 1 .. (Len(s) + 1)
    BY <2>1, LenProperties
  <2> QED  BY <2>1, <2>2, <2>3
<1>5. txReq'[a] = Append(s, m) /\ \A b \in Agents : b # a => txReq'[b] = txReq[b]
  BY <1>2 DEF UnifiedTyped
<1>6. UnifiedTyped'
  BY <1>2, <1>3, <1>4 DEF UnifiedTyped
<1>7. /\ \A j \in DOMAIN s : s[j].owner = a /\ s[j].id <= pushed /\ s[j] \in Msg
      /\ \A i, j \in DOMAIN s : i < j => s[i].id < s[j].id
  BY <1>3 DEF Queued
<1>7a. \A j \in DOMAIN s : s[j].id \in Nat
  BY <1>7 DEF Msg
<1> HIDE DEF s
<1>8. Queued'
  <2>1. \A j \in DOMAIN txReq'[a] : txReq'[a][j].owner = a /\ txReq'[a][j].id <= pushed + 1
    BY <1>1, <1>3, <1>4, <1>5, <1>7, <1>7a
  <2>2. \A i, j \in DOMAIN txReq'[a] : i < j => txReq'[a][i].id < txReq'[a][j].id
    BY <1>1, <1>3, <1>4, <1>5, <1>7, <1>7a
  <2>3. ASSUME NEW b \in Agents, b # a, NEW j \in DOMAIN txReq[b]
        PROVE  txReq[b][j].id \in Nat /\ txReq[b][j].id <= pushed /\ txReq[b][j].owner = b
    <3>1. txReq[b] \in Seq(Msg)
      BY DEF UnifiedTyped
    <3>2. txReq[b][j] \in Msg
      BY <2>3, <3>1, ElementOfSeq, LenProperties
    <3>3. txReq[b][j].id \in Nat
      BY <3>2 DEF Msg
    <3> QED  BY <2>3, <3>3 DEF Queued
  <2>4. \A b \in Agents : b # a =>
          /\ \A j \in DOMAIN txReq[b] : txReq[b][j].owner = b /\ txReq[b][j].id <= pushed + 1
          /\ \A i, j \in DOMAIN txReq[b] : i < j => txReq[b][i].id < txReq[b][j].id
    BY <1>3, <2>3 DEF Queued
  <2> QED  BY <1>2, <1>5, <2>1, <2>2, <2>4 DEF Queued
<1>9. ASSUME NEW x \in Msg, x.id <= pushed, NEW b \in Agents,
             \A j \in DOMAIN txReq[b] : x.id < txReq[b][j].id
      PROVE  \A j \in DOMAIN txReq'[b] : x.id < txReq'[b][j].id
  <2>1. x.id \in Nat
    BY DEF Msg
  <2>2. CASE b = a
    <3>1. \A j \in DOMAIN s : x.id < s[j].id
      BY <1>9, <2>2 DEF s
    <3>2. m.id = pushed + 1 /\ x.id < m.id
      BY <1>1, <1>3, <1>9, <2>1
    <3>3. \A j \in 1 .. (Len(s) + 1) : x.id < Append(s, m)[j].id
      BY <1>3, <1>4, <3>1, <3>2
    <3> QED  BY <1>4, <1>5, <2>2, <3>3
  <2>3. CASE b # a
    BY <1>5, <1>9, <2>3
  <2> QED  BY <2>2, <2>3
<1>10. Broadcast'
  <2>1. ASSUME NEW j \in DOMAIN log
        PROVE  /\ log[j].id <= pushed + 1
               /\ \A i \in DOMAIN txReq'[log[j].owner] : log[j].id < txReq'[log[j].owner][i].id
    <3>0. log[j] \in Msg
      BY <2>1, ElementOfSeq, LenProperties DEF UnifiedTyped
    <3>1. log[j].id \in Nat /\ log[j].owner \in Agents
      BY <3>0 DEF Msg
    <3>2. log[j].id <= pushed /\ \A i \in DOMAIN txReq[log[j].owner] : log[j].id < txReq[log[j].owner][i].id
      BY DEF Broadcast
    <3>3. \A i \in DOMAIN txReq'[log[j].owner] : log[j].id < txReq'[log[j].owner][i].id
      BY <1>9, <3>0, <3>1, <3>2
    <3> QED  BY <1>3, <3>1, <3>2, <3>3
  <2> QED  BY <1>2, <2>1 DEF Broadcast, RequestProgramOrder
<1>11. Between'
  <2>1. ASSUME 0 < clk, clk < ReqLatency
        PROVE  /\ held[1].id <= pushed + 1
               /\ \A j \in DOMAIN txReq'[held[1].owner] : held[1].id < txReq'[held[1].owner][j].id
    <3>1. held # <<>> /\ held[1].id <= pushed
          /\ \A j \in DOMAIN txReq[held[1].owner] : held[1].id < txReq[held[1].owner][j].id
      BY <2>1 DEF Between
    <3>2. held[1] \in Msg
      BY <3>1, SlotHolds DEF UnifiedTyped
    <3>3. held[1].id \in Nat /\ held[1].owner \in Agents
      BY <3>2 DEF Msg
    <3> QED  BY <1>3, <1>9, <3>1, <3>2, <3>3
  <2> QED  BY <1>2, <2>1 DEF Between
<1> QED  BY <1>6, <1>8, <1>10, <1>11 DEF OrderInv

\* Electing a request takes the oldest of its agent out of the queue.
LEMMA ElectOrdered ==
  ASSUME UnifiedTyped, Queued, Broadcast, Between, ElectRequest, clk' = NextClk(held'), UNCHANGED pushed
  PROVE  OrderInv'
<1>1. PICK e \in {elect(Arbiter, txReq, Cand, idx, phase = 0)} :
        held' = Elected(txReq, e) /\ txReq' = WithoutElected(txReq, e)
  BY DEF ElectRequest
<1>2. UNCHANGED <<txResp, rxReq, rxResp, log, sent, pushed>> /\ clk = 0
  BY DEF ElectRequest
<1>3. OneGrant(txReq, e.grant)
  <2>1. e = elect(Arbiter, txReq, Cand, idx, phase = 0) /\ txReq \in [Agents -> Seq(Msg)]
    BY <1>1 DEF UnifiedTyped
  <2> QED  BY <2>1, OneGranted
<1>4. \A p \in e.grant : \E a \in Agents : txReq[a] # <<>> /\ p = <<a, 1>>
  <2>1. e = elect(Arbiter, txReq, Cand, idx, phase = 0) /\ txReq \in [Agents -> Seq(Msg)]
    BY <1>1 DEF UnifiedTyped
  <2>2. \A a \in Agents : \A k \in DOMAIN txReq[a] : txReq[a][k].owner = a
    BY DEF Queued
  <2>3. (phase = 0) \in BOOLEAN
    OBVIOUS
  <2>4. \A p \in elect(Arbiter, txReq, Cand, idx, phase = 0).grant :
          \E a \in Agents : txReq[a] # <<>> /\ p = <<a, 1>>
    <3> DEFINE aligned == phase = 0
    <3>1. aligned \in BOOLEAN
      OBVIOUS
    <3> HIDE DEF aligned
    <3>2. \A p \in elect(Arbiter, txReq, Cand, idx, aligned).grant :
            \E a \in Agents : txReq[a] # <<>> /\ p = <<a, 1>>
      BY <2>1, <2>2, <3>1, HeadGranted
    <3> QED  BY <3>2 DEF aligned
  <2> QED  BY <2>1, <2>4
<1>5. txReq' \in [Agents -> Seq(Msg)] /\ held' \in Seq(Msg) /\ Len(held') <= 1
  BY <1>1, <1>3, ElectionStep DEF UnifiedTyped
<1>6. clk' \in 0 .. (Period - 1) /\ (held' = <<>> => clk' = 0)
  BY <1>2, ClockStep DEF NextClk, UnifiedTyped
<1>7. UnifiedTyped'
  BY <1>2, <1>5, <1>6 DEF UnifiedTyped
<1>8. CASE e.grant = {}
  <2>1. held' = <<>> /\ txReq' = txReq
    BY <1>1, <1>3, <1>8, ElectionStep DEF UnifiedTyped
  <2> QED  BY <1>2, <1>6, <1>7, <2>1 DEF OrderInv, Queued, Broadcast, Between, RequestProgramOrder
<1>9. CASE e.grant # {}
  <2>1. PICK p \in e.grant : TRUE
    BY <1>9
  <2>2. PICK a \in Agents : txReq[a] # <<>> /\ p = <<a, 1>>
    BY <1>4, <2>1
  <2> DEFINE s == txReq[a]
             t == txReq'[a]
  <2>3. s \in Seq(Msg) /\ s # <<>> /\ Len(s) \in Nat /\ DOMAIN s = 1 .. Len(s) /\ Len(s) > 0
    BY <2>2, LenProperties, EmptySeq DEF UnifiedTyped
  <2>4. /\ held' = <<s[1]>>
        /\ t = SubSeq(s, 1, 1 - 1) \o SubSeq(s, 1 + 1, Len(s))
        /\ \A b \in Agents \ {a} : txReq'[b] = txReq[b]
    <3>1. txReq \in [Agents -> Seq(Msg)]
      BY DEF UnifiedTyped
    <3>2. /\ Elected(txReq, e) = <<txReq[p[1]][p[2]]>>
          /\ WithoutElected(txReq, e)[p[1]]
               = SubSeq(txReq[p[1]], 1, p[2] - 1) \o SubSeq(txReq[p[1]], p[2] + 1, Len(txReq[p[1]]))
          /\ \A b \in Agents \ {p[1]} : WithoutElected(txReq, e)[b] = txReq[b]
      BY <1>3, <2>1, <3>1, ElectionStep
    <3>3. p[1] = a /\ p[2] = 1
      BY <2>2
    <3> QED  BY <1>1, <3>2, <3>3
  <2>5. \A j \in DOMAIN s : s[j].owner = a /\ s[j].id <= pushed /\ s[j] \in Msg /\ s[j].id \in Nat
    <3>1. \A j \in DOMAIN s : s[j] \in Msg
      BY <2>3, ElementOfSeq, LenProperties
    <3>2. \A j \in DOMAIN s : s[j].owner = a /\ s[j].id <= pushed
      BY DEF Queued
    <3> QED  BY <3>1, <3>2 DEF Msg
  <2>6. \A i, j \in DOMAIN s : i < j => s[i].id < s[j].id
    BY DEF Queued
  <2> HIDE DEF s
  <2>7. t \in Seq(Msg) /\ Len(t) = Len(s) - 1 /\ \A j \in 1 .. Len(t) : t[j] = s[j + 1]
    BY <2>3, <2>4, HeadRemoved
  <2>8. DOMAIN t = 1 .. (Len(s) - 1)
    BY <2>7, LenProperties
  <2>t. t = txReq'[a] /\ s = txReq[a]
    BY DEF s
  <2> HIDE DEF t
  <2>9. held'[1] = s[1] /\ held' # <<>> /\ 1 \in DOMAIN s
    BY <2>3, <2>4
  <2>10. Queued'
    <3>1. \A j \in DOMAIN t : t[j].owner = a /\ t[j].id <= pushed
      BY <2>3, <2>5, <2>7, <2>8
    <3>2. \A i, j \in DOMAIN t : i < j => t[i].id < t[j].id
      <4> SUFFICES ASSUME NEW i \in DOMAIN t, NEW j \in DOMAIN t, i < j PROVE t[i].id < t[j].id
        OBVIOUS
      <4>1. t[i] = s[i + 1] /\ t[j] = s[j + 1] /\ i + 1 \in DOMAIN s /\ j + 1 \in DOMAIN s /\ i + 1 < j + 1
        BY <2>3, <2>7, <2>8
      <4>2. s[i + 1].id < s[j + 1].id
        BY <2>6, <4>1
      <4> QED  BY <4>1, <4>2
    <3> QED  BY <1>2, <2>4, <2>t, <3>1, <3>2 DEF Queued
  <2>11. \A j \in DOMAIN t : s[1].id < t[j].id
    BY <2>3, <2>6, <2>7, <2>8
  <2>12. \A k \in DOMAIN log : log[k].owner = a => log[k].id < s[1].id
    BY <2>9, <2>t DEF Broadcast
  <2>13. Broadcast'
    <3>1. ASSUME NEW k \in DOMAIN log, NEW j \in DOMAIN txReq'[log[k].owner]
          PROVE  log[k].id < txReq'[log[k].owner][j].id
      <4>0. log[k] \in Msg
        BY <3>1, ElementOfSeq, LenProperties DEF UnifiedTyped
      <4>1. log[k].owner \in Agents
        BY <4>0 DEF Msg
      <4>2. CASE log[k].owner = a
        <5>1. j \in DOMAIN t
          BY <3>1, <4>2, <2>t
        <5>2. t[j] = s[j + 1] /\ j + 1 \in DOMAIN s
          BY <2>3, <2>7, <2>8, <5>1
        <5>3. log[k].id < s[j + 1].id
          BY <4>2, <5>2, <2>t DEF Broadcast
        <5> QED  BY <2>t, <4>2, <5>2, <5>3
      <4>3. CASE log[k].owner # a
        BY <2>4, <3>1, <4>1, <4>3 DEF Broadcast
      <4> QED  BY <4>2, <4>3
    <3> QED  BY <1>2, <3>1 DEF Broadcast, RequestProgramOrder
  <2>14. Between'
    <3>1. s[1].owner = a /\ s[1].id <= pushed
      BY <2>5, <2>9
    <3>2. \A k \in DOMAIN log : log[k].owner = held'[1].owner => log[k].id < held'[1].id
      BY <2>9, <2>12, <3>1
    <3>3. \A j \in DOMAIN txReq'[held'[1].owner] : held'[1].id < txReq'[held'[1].owner][j].id
      BY <2>9, <2>11, <2>t, <3>1
    <3> QED  BY <1>2, <2>9, <3>1, <3>2, <3>3 DEF Between
  <2> QED  BY <1>7, <2>10, <2>13, <2>14 DEF OrderInv
<1> QED  BY <1>8, <1>9

\* The broadcast puts the request of the slot after all those of its cache.
LEMMA BroadcastOrdered ==
  ASSUME UnifiedTyped, Queued, Broadcast, Between, BroadcastRequest, clk' = NextClk(held'), UNCHANGED pushed
  PROVE  OrderInv'
<1>1. UNCHANGED <<held, txReq, txResp, pushed>> /\ log' = log \o Delivered /\ clk = ReqLatency - 1 /\ clk # 0
  BY DEF BroadcastRequest
<1>2. 0 < clk /\ clk < ReqLatency /\ clk \in 0 .. (Period - 1)
  BY <1>1, ClockStep DEF UnifiedTyped
<1> DEFINE m == held[1]
<1>3. /\ held # <<>> /\ m.id <= pushed
      /\ \A k \in DOMAIN log : log[k].owner = m.owner => log[k].id < m.id
      /\ \A j \in DOMAIN txReq[m.owner] : m.id < txReq[m.owner][j].id
  BY <1>2 DEF Between
<1>4. m \in Msg /\ held = <<m>> /\ log \in Seq(Msg)
  BY <1>3, SlotHolds DEF UnifiedTyped
<1>5. clk' = ReqLatency /\ clk' \in 0 .. (Period - 1)
  BY <1>1, <1>2, <1>3, ClockStep DEF NextClk
<1> HIDE DEF m
<1>6. CASE Delivered = <<>>
  <2>1. log' = log
    BY <1>1, <1>4, <1>6, ConcatEmptySeq
  <2> QED  BY <1>1, <1>5, <2>1 DEF OrderInv, UnifiedTyped, Queued, Broadcast, Between, RequestProgramOrder
<1>7. CASE Delivered # <<>>
  <2>1. log' = Append(log, m)
    BY <1>1, <1>4, <1>7, AppendIsConcat DEF Delivered
  <2>2. Len(log) \in Nat /\ DOMAIN log = 1 .. Len(log)
    BY <1>4, LenProperties
  <2>3. log' \in Seq(Msg) /\ DOMAIN log' = 1 .. (Len(log) + 1)
        /\ (\A j \in 1 .. Len(log) : log'[j] = log[j]) /\ log'[Len(log) + 1] = m
    <3>1. log' \in Seq(Msg) /\ Len(log') = Len(log) + 1
      BY <1>4, <2>1, AppendProperties
    <3>2. (\A j \in 1 .. Len(log) : log'[j] = log[j]) /\ log'[Len(log) + 1] = m
      BY <1>4, <2>1, AppendProperties
    <3> QED  BY <3>1, <3>2, LenProperties
  <2>4. ASSUME NEW k \in DOMAIN log'
        PROVE  log'[k].id <= pushed /\ \A j \in DOMAIN txReq[log'[k].owner] : log'[k].id < txReq[log'[k].owner][j].id
    <3>1. CASE k \in DOMAIN log
      BY <2>2, <2>3, <3>1 DEF Broadcast
    <3>2. CASE k = Len(log) + 1
      BY <1>3, <2>3, <3>2
    <3> QED  BY <2>2, <2>3, <2>4, <3>1, <3>2
  <2>5. ASSUME NEW j \in DOMAIN log', NEW k \in DOMAIN log', j < k, log'[j].owner = log'[k].owner
        PROVE  log'[j].id < log'[k].id
    <3>1. CASE k \in DOMAIN log
      <4>1. j \in DOMAIN log
        BY <2>2, <2>3, <2>5, <3>1
      <4> QED  BY <2>2, <2>3, <2>5, <3>1, <4>1 DEF Broadcast, RequestProgramOrder
    <3>2. CASE k = Len(log) + 1
      <4>1. j \in DOMAIN log /\ log'[k] = m /\ log'[j] = log[j]
        BY <2>2, <2>3, <2>5, <3>2
      <4> QED  BY <1>3, <2>5, <4>1
    <3> QED  BY <2>2, <2>3, <2>5, <3>1, <3>2
  <2>6. Broadcast'
    BY <1>1, <2>4, <2>5 DEF Broadcast, RequestProgramOrder
  <2>7. UnifiedTyped' /\ Queued' /\ Between'
    BY <1>1, <1>5, <2>3 DEF UnifiedTyped, Queued, Between
  <2> QED  BY <2>6, <2>7 DEF OrderInv
<1> QED  BY <1>6, <1>7

\* The response phase of a round touches no request.
LEMMA ResponseOrdered ==
  ASSUME UnifiedTyped, Queued, Broadcast, Between, ElectResponse \/ SendResponse,
         clk' = NextClk(held'), UNCHANGED pushed
  PROVE  OrderInv'
<1>1. UNCHANGED <<txReq, log, pushed>>
  BY DEF ElectResponse, SendResponse
<1>2. txResp' \in [Agents -> Seq(Msg)] /\ held' \in Seq(Msg) /\ Len(held') <= 1
  <2>1. CASE SendResponse
    BY <2>1 DEF SendResponse, UnifiedTyped
  <2>2. CASE ElectResponse
    <3>1. PICK e \in {forceElect(txResp)} : held' = Elected(txResp, e) /\ txResp' = WithoutElected(txResp, e)
      BY <2>2 DEF ElectResponse
    <3>2. OneGrant(txResp, e.grant)
      BY <3>1, OneGranted DEF UnifiedTyped
    <3> QED  BY <3>1, <3>2, ElectionStep DEF UnifiedTyped
  <2> QED  BY <2>1, <2>2
<1>3. clk' \in 0 .. (Period - 1) /\ ~(0 < clk' /\ clk' < ReqLatency)
  <2>1. clk \in 0 .. (Period - 1)
    BY DEF UnifiedTyped
  <2>2. clk = ReqLatency \/ clk = Period - 1
    BY DEF ElectResponse, SendResponse
  <2>3. clk' = 0 \/ clk' = (clk + 1) % Period
    BY DEF NextClk
  <2>4. Period \in Nat /\ ReqLatency < Period /\ ReqLatency \in Nat /\ ReqLatency > 0
    BY <2>1, ClockStep
  <2>5. CASE clk = Period - 1
    <3>1. clk' = 0
      BY <2>1, <2>3, <2>5, ClockStep
    <3> QED  BY <2>4, <3>1
  <2>6. CASE clk # Period - 1
    <3>1. clk < Period - 1 /\ clk = ReqLatency
      BY <2>1, <2>2, <2>4, <2>6
    <3>2. (clk + 1) % Period = clk + 1
      BY <2>1, <3>1, ClockStep
    <3> QED  BY <2>3, <2>4, <3>1, <3>2
  <2> QED  BY <2>5, <2>6
<1>4. UnifiedTyped' /\ Between'
  BY <1>1, <1>2, <1>3 DEF UnifiedTyped, Between
<1>5. Queued' /\ Broadcast'
  BY <1>1 DEF Queued, Broadcast, RequestProgramOrder
<1> QED  BY <1>4, <1>5 DEF OrderInv

\* An agent's own requests are broadcast in the order it issued them, whatever the
\* arbiter, the latencies and the number of agents (UnifiedBusController::requestBusStep,
\* electOldestOwned, FCFS): a write-back request never passes an earlier request.
THEOREM RequestsInOrder == Spec => []RequestProgramOrder
<1>1. Init => OrderInv
  <2> SUFFICES ASSUME Init PROVE OrderInv
    OBVIOUS
  <2>1. UnifiedTyped
    BY ClockStep, UnifiedAssumption DEF Init, UnifiedTyped, Empty, Period
  <2>2. Queued
    BY DEF Init, Queued, Empty
  <2>3. Broadcast /\ Between
    BY DEF Init, Broadcast, Between, RequestProgramOrder, Empty
  <2> QED  BY <2>1, <2>2, <2>3 DEF OrderInv
<1>2. OrderInv /\ [Next]_vars => OrderInv'
  <2> SUFFICES ASSUME OrderInv, [Next]_vars PROVE OrderInv'
    OBVIOUS
  <2>i. UnifiedTyped /\ Queued /\ Broadcast /\ Between
    BY DEF OrderInv
  <2> DEFINE quiet == UNCHANGED <<txReq, clk, held, log, pushed>> /\ txResp' \in [Agents -> Seq(Msg)]
  <2>0. ASSUME quiet PROVE OrderInv'
    BY <2>0, <2>i DEF OrderInv, UnifiedTyped, Queued, Broadcast, Between, RequestProgramOrder
  <2> HIDE DEF quiet
  <2>1. ASSUME NEW a \in Agents, NEW k \in {"Demand", "PutM"}, PushRequest(a, k)
        PROVE  OrderInv'
    BY <2>1, <2>i, PushQueued
  <2>2. ASSUME NEW a \in Agents, NEW k \in DOMAIN log, PushResponse(a, log[k])
        PROVE  OrderInv'
    <3>1. log[k] \in Msg
      BY <2>2, <2>i, ElementOfSeq, LenProperties DEF UnifiedTyped
    <3> DEFINE m == log[k]
               d == Message("Data", m.owner, {IF a = m.owner THEN LLC ELSE m.owner}, m.id)
               q == UNCHANGED <<txReq, clk, held, log>>
    <3>2. txResp' = [txResp EXCEPT ![a] = Append(@, d)] /\ q /\ pushed' = pushed + 1
      BY <2>2 DEF PushResponse
    <3>3. d \in Msg
      BY <2>i, <3>1, UnifiedAssumption DEF Message, Msg, UnifiedTyped, LLC, Agents
    <3> HIDE DEF d, m
    <3>4. txResp' \in [Agents -> Seq(Msg)] /\ pushed' \in Nat /\ pushed \in Nat
      BY <2>i, <3>2, <3>3 DEF UnifiedTyped
    <3>5. UnifiedTyped'
      BY <2>i, <3>2, <3>4 DEF UnifiedTyped
    <3>6. \A b \in Agents : \A j \in DOMAIN txReq[b] : txReq[b][j].id <= pushed + 1
      <4> SUFFICES ASSUME NEW b \in Agents, NEW j \in DOMAIN txReq[b] PROVE txReq[b][j].id <= pushed + 1
        OBVIOUS
      <4>1. txReq[b][j] \in Msg
        BY <2>i, ElementOfSeq, LenProperties DEF UnifiedTyped
      <4>2. txReq[b][j].id \in Nat /\ txReq[b][j].id <= pushed
        BY <2>i, <4>1 DEF Msg, Queued
      <4> QED  BY <3>4, <4>2
    <3>7. \A j \in DOMAIN log : log[j].id <= pushed + 1
      <4> SUFFICES ASSUME NEW j \in DOMAIN log PROVE log[j].id <= pushed + 1
        OBVIOUS
      <4>1. log[j] \in Msg
        BY <2>i, ElementOfSeq, LenProperties DEF UnifiedTyped
      <4>2. log[j].id \in Nat /\ log[j].id <= pushed
        BY <2>i, <4>1 DEF Msg, Broadcast
      <4> QED  BY <3>4, <4>2
    <3>8. held # <<>> /\ held[1].id <= pushed => held[1].id <= pushed + 1
      <4> HAVE held # <<>> /\ held[1].id <= pushed
      <4>1. held[1] \in Msg
        BY <2>i, SlotHolds DEF UnifiedTyped
      <4>2. held[1].id \in Nat
        BY <4>1 DEF Msg
      <4> QED  BY <3>4, <4>2
    <3>9. Queued' /\ Broadcast' /\ Between'
      BY <2>i, <3>2, <3>6, <3>7, <3>8 DEF Queued, Broadcast, Between, RequestProgramOrder
    <3> QED  BY <3>5, <3>9 DEF OrderInv
  <2>3. ASSUME NEW a \in Agents, TakeRequest(a) \/ TakeResponse(a)
        PROVE  OrderInv'
    BY <2>0, <2>3, <2>i DEF quiet, TakeRequest, TakeResponse, UnifiedTyped
  <2>4. CASE busStep
    <3>1. clk' = NextClk(held') /\ UNCHANGED pushed
      BY <2>4 DEF busStep
    <3>2. CASE ElectRequest
      BY <2>i, <3>1, <3>2, ElectOrdered
    <3>3. CASE BroadcastRequest
      BY <2>i, <3>1, <3>3, BroadcastOrdered
    <3>4. CASE ElectResponse \/ SendResponse
      BY <2>i, <3>1, <3>4, ResponseOrdered
    <3>5. CASE Wait
      <4>1. UNCHANGED <<held, txReq, txResp, log, pushed>> /\ clk \notin {0, ReqLatency - 1, ReqLatency, Period - 1}
        BY <3>1, <3>5 DEF Wait
      <4>2. clk \in 0 .. (Period - 1)
        BY <2>i DEF UnifiedTyped
      <4>3. clk' \in 0 .. (Period - 1) /\ (0 < clk' /\ clk' < ReqLatency => 0 < clk /\ clk < ReqLatency)
        <5>1. clk' = 0 \/ clk' = (clk + 1) % Period
          BY <3>1 DEF NextClk
        <5>2. Period \in Nat /\ ReqLatency < Period /\ ReqLatency \in Nat /\ ReqLatency > 0
          BY <4>2, ClockStep
        <5>3. clk < Period - 1 /\ clk > 0
          BY <4>1, <4>2, <5>2
        <5>4. (clk + 1) % Period = clk + 1
          BY <4>2, <5>3, ClockStep
        <5> QED  BY <4>2, <5>1, <5>2, <5>3, <5>4
      <4> QED  BY <2>i, <4>1, <4>3 DEF OrderInv, UnifiedTyped, Queued, Broadcast, Between, RequestProgramOrder
    <3> QED  BY <2>4, <3>2, <3>3, <3>4, <3>5 DEF busStep
  <2>5. CASE UNCHANGED vars
    BY <2>0, <2>5, <2>i DEF quiet, vars, UnifiedTyped
  <2> QED  BY <2>1, <2>2, <2>3, <2>4, <2>5 DEF Next
<1>3. OrderInv => RequestProgramOrder
  BY DEF OrderInv, Broadcast
<1> QED  BY <1>1, <1>2, <1>3, PTL DEF Spec
=============================================================================
