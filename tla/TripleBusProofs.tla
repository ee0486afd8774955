-------------------------- MODULE TripleBusProofs ---------------------------
(***************************************************************************)
(* Theorems about TripleBus for every number of agents, buffer size,       *)
(* reserve, latency and arbiter.                                           *)
(***************************************************************************)
EXTENDS TripleBus, BufferLemmas

\* A grant names a buffer and a position in it.
Valid(bufs, grant) ==
  \A p \in grant : \E i \in DOMAIN bufs, k \in Nat : p = <<i, k>> /\ k \in DOMAIN bufs[i]

-----------------------------------------------------------------------------
(* The arbiters.                                                            *)

\* Selecting the oldest pair only narrows the choice.
LEMMA OldestSubset ==
  ASSUME NEW bufs, NEW pairs PROVE Oldest(bufs, pairs) \subseteq pairs
  BY DEF Oldest

\* What electOldestOwned returns is a message of some buffer.
LEMMA OwnedValid ==
  ASSUME NEW bufs \in [Agents -> Seq(Msg)], NEW owner
  PROVE  Valid(bufs, electOldestOwned(bufs, owner))
<1> DEFINE P == UNION {{<<i, k>> : k \in findMessage(bufs[i], owner)} : i \in DOMAIN bufs}
<1>1. ASSUME NEW p \in P
      PROVE  \E i \in DOMAIN bufs, k \in Nat : p = <<i, k>> /\ k \in DOMAIN bufs[i]
  <2>0. PICK i \in DOMAIN bufs : \E k \in findMessage(bufs[i], owner) : p = <<i, k>>
    BY <1>1
  <2>1. PICK k \in findMessage(bufs[i], owner) : p = <<i, k>>
    BY <2>0
  <2>2. k \in DOMAIN bufs[i] BY <2>1 DEF findMessage
  <2>3. k \in Nat BY <2>1, <2>2
  <2>4. QED BY <2>1, <2>2, <2>3
<1>2. electOldestOwned(bufs, owner) \subseteq P BY OldestSubset DEF electOldestOwned
<1>3. QED BY <1>1, <1>2 DEF Valid

\* Advancing a candidate index stays among the candidates.
LEMMA AdvanceRange ==
  ASSUME NEW idx \in Nat, NEW d \in Nat PROVE Advance(idx, d, N) \in 0 .. (N - 1)
  BY BusAssumption DEF Advance

\* Every arbiter grants only messages that are queued and keeps its index in range.
LEMMA ElectValid ==
  ASSUME NEW bufs \in [Agents -> Seq(Msg)], NEW idx \in 0 .. (N - 1), NEW aligned \in BOOLEAN
  PROVE  /\ Valid(bufs, elect(Arbiter, bufs, Cand, idx, aligned).grant)
         /\ elect(Arbiter, bufs, Cand, idx, aligned).idx \in 0 .. (N - 1)
<1>1. Len(Cand) = N BY BusAssumption DEF Cand, Agents
<1>2. CASE Arbiter = "FCFS"
  <2> DEFINE heads == {<<i, 1>> : i \in {j \in DOMAIN bufs : bufs[j] # <<>>}}
  <2>1. ASSUME NEW p \in heads
        PROVE  \E i \in DOMAIN bufs, k \in Nat : p = <<i, k>> /\ k \in DOMAIN bufs[i]
    <3>1. PICK i \in DOMAIN bufs : bufs[i] # <<>> /\ p = <<i, 1>> BY <2>1
    <3>2. 1 \in DOMAIN bufs[i] BY <3>1
    <3>3. QED BY <3>1, <3>2
  <2>2. Valid(bufs, Oldest(bufs, heads)) BY <2>1, OldestSubset DEF Valid
  <2>3. QED BY <1>2, <2>2 DEF elect, FCFSElect
<1>3. CASE Arbiter = "RR"
  <2> DEFINE Owned(d) == electOldestOwned(bufs, Cand[Advance(idx, d, N) + 1])
             tries == {d \in 1 .. N : Owned(d) # {} /\ \A e \in 1 .. (d - 1) : Owned(e) = {}}
             made == IF tries = {} THEN N ELSE CHOOSE d \in tries : TRUE
  <2>1. RRElect(bufs, Cand, idx)
          = [grant |-> UNION {Owned(d) : d \in tries}, idx |-> Advance(idx, made, N)]
    BY <1>1 DEF RRElect
  <2>2. \A d \in tries : Valid(bufs, Owned(d)) BY OwnedValid
  <2>3. tries \subseteq Nat BY BusAssumption
  <2> HIDE DEF tries, Owned
  <2>4. made \in Nat BY <2>3, BusAssumption
  <2> HIDE DEF made
  <2>5. Advance(idx, made, N) \in 0 .. (N - 1)
    <3>1. idx \in Nat BY BusAssumption
    <3>2. QED BY <3>1, <2>4, AdvanceRange
  <2>6. Valid(bufs, UNION {Owned(d) : d \in tries}) BY <2>2 DEF Valid
  <2>7. QED BY <1>3, <2>1, <2>5, <2>6 DEF elect
<1>4. CASE Arbiter = "TDM"
  <2> DEFINE g == electOldestOwned(bufs, Cand[Advance(idx, 1, N) + 1])
  <2>1. Advance(idx, 1, N) \in 0 .. (N - 1) BY AdvanceRange
  <2>2. Valid(bufs, g) BY OwnedValid
  <2>3. Valid(bufs, {}) BY DEF Valid
  <2>4. elect(Arbiter, bufs, Cand, idx, aligned) = TDMElect(bufs, Cand, idx, aligned) BY <1>4 DEF elect
  <2>5. CASE aligned
    <3>1. TDMElect(bufs, Cand, idx, aligned) = [grant |-> g, idx |-> Advance(idx, 1, N)]
      BY <2>5, <1>1 DEF TDMElect
    <3> HIDE DEF g
    <3>2. QED BY <2>4, <3>1, <2>1, <2>2
  <2>6. CASE ~aligned
    <3>1. TDMElect(bufs, Cand, idx, aligned) = [grant |-> {}, idx |-> idx] BY <2>6 DEF TDMElect
    <3>2. QED BY <2>4, <3>1, <2>3
  <2>7. QED BY <2>5, <2>6
<1>5. QED BY <1>2, <1>3, <1>4, BusAssumption DEF Kinds

-----------------------------------------------------------------------------
(* One step of each channel.                                                *)

Slot(s) == s \in Seq(Msg) /\ Len(s) <= 1

\* Removing a position from a sequence leaves a sequence.
LEMMA EraseType ==
  ASSUME NEW s \in Seq(Msg), NEW k \in DOMAIN s PROVE erase(s, k) \in Seq(Msg)
<1>1. Len(s) - 1 \in Nat OBVIOUS
<1>2. \A j \in 1 .. (Len(s) - 1) : (IF j < k THEN s[j] ELSE s[j + 1]) \in Msg OBVIOUS
<1>3. QED BY <1>1, <1>2 DEF erase

\* The election of a slot: what is then held, and the buffers without it.
LEMMA ElectionType ==
  ASSUME NEW L \in Nat, NEW bus \in BusState(L), Slot(bus.held),
         NEW tx \in [Agents -> Seq(Msg)], NEW aligned \in BOOLEAN,
         NEW e, e = Election(bus, tx, aligned)
  PROVE  /\ e.idx \in 0 .. (N - 1)
         /\ Slot(HeldAfter(bus, tx, e))
         /\ WithoutElected(tx, e) \in [Agents -> Seq(Msg)]
<1>0. bus.idx \in 0 .. (N - 1) BY DEF BusState
<1>1. Valid(tx, e.grant) /\ e.idx \in 0 .. (N - 1)
  <2>1. CASE bus.slot = 0 /\ bus.held = <<>>
    <3>1. e = elect(Arbiter, tx, Cand, bus.idx, aligned) BY <2>1 DEF Election
    <3>2. QED BY <3>1, <1>0, ElectValid
  <2>2. CASE ~(bus.slot = 0 /\ bus.held = <<>>)
    <3>1. e = [grant |-> {}, idx |-> bus.idx] BY <2>2 DEF Election
    <3>2. QED BY <3>1, <1>0 DEF Valid
  <2>3. QED BY <2>1, <2>2
<1>2. \A p \in e.grant : p[1] \in Agents /\ p[2] \in DOMAIN tx[p[1]]
  BY <1>1 DEF Valid
<1>3. Slot(HeldAfter(bus, tx, e))
  <2>1. CASE e.grant = {} BY <2>1 DEF HeldAfter
  <2>2. CASE e.grant # {}
    <3> DEFINE g == CHOOSE p \in e.grant : TRUE
    <3>1. g \in e.grant BY <2>2
    <3>2. HeldAfter(bus, tx, e) = <<tx[g[1]][g[2]]>> BY <2>2 DEF HeldAfter
    <3> HIDE DEF g
    <3>3. tx[g[1]][g[2]] \in Msg BY <3>1, <1>2
    <3>4. QED BY <3>2, <3>3 DEF Slot
  <2>3. QED BY <2>1, <2>2
<1>4. WithoutElected(tx, e) \in [Agents -> Seq(Msg)]
  <2>1. ASSUME NEW a \in Agents
        PROVE  (IF \E p \in e.grant : p[1] = a
                THEN erase(tx[a], (CHOOSE p \in e.grant : p[1] = a)[2]) ELSE tx[a]) \in Seq(Msg)
    <3>1. CASE \E p \in e.grant : p[1] = a
      <4> DEFINE g == CHOOSE p \in e.grant : p[1] = a
      <4>1. g \in e.grant /\ g[1] = a BY <3>1
      <4> HIDE DEF g
      <4>2. g[2] \in DOMAIN tx[a] BY <4>1, <1>2
      <4>3. erase(tx[a], g[2]) \in Seq(Msg) BY <4>2, EraseType
      <4>4. QED BY <3>1, <4>3 DEF g
    <3>2. CASE ~ \E p \in e.grant : p[1] = a BY <3>2
    <3>3. QED BY <3>1, <3>2
  <2>2. QED BY <2>1 DEF WithoutElected
<1>5. QED BY <1>1, <1>3, <1>4

\* Numbering what is delivered gives RX entries.
LEMMA StampedType ==
  ASSUME NEW out \in Seq(Msg), NEW n \in Nat
  PROVE  Stamped(out, n) \in Seq(Entry) /\ Len(Stamped(out, n)) = Len(out)
<1>1. \A k \in 1 .. Len(out) : [m |-> out[k], seq |-> n] \in Entry BY DEF Entry
<1>2. QED BY <1>1 DEF Stamped

\* Delivering a message to every agent leaves RX buffers.
LEMMA BroadcastType ==
  ASSUME NEW rx \in [Agents -> Seq(Entry)], NEW out \in Seq(Msg), NEW n \in Nat
  PROVE  Broadcast(rx, out, n) \in [Agents -> Seq(Entry)]
  BY StampedType DEF Broadcast

\* requestBusStep delivers at most one message and keeps the slot counter in range.
LEMMA RequestStepType ==
  ASSUME TypeOK
  PROVE  /\ requestBusStep.tx \in [Agents -> Seq(Msg)]
         /\ Slot(requestBusStep.out)
         /\ requestBusStep.bus \in BusState(ReqLatency) /\ Slot(requestBusStep.bus.held)
<1> DEFINE e    == Election(reqBus, txReq, phase.req = 0)
           held == HeldAfter(reqBus, txReq, e)
           last == held # <<>> /\ reqBus.slot = ReqLatency - 1
           out  == IF last /\ canBroadcast(held[1]) THEN held ELSE <<>>
           slot == IF last THEN (IF out = <<>> THEN reqBus.slot ELSE 0)
                   ELSE IF held # <<>> THEN reqBus.slot + 1 ELSE 0
           rest == IF out = <<>> THEN held ELSE <<>>
<1>1. reqBus \in BusState(ReqLatency) /\ Slot(reqBus.held) BY DEF TypeOK, BusState, Slot
<1>2. CASE responseBackpressured
  <2>1. requestBusStep = [bus |-> reqBus, tx |-> txReq, out |-> <<>>] BY <1>2 DEF requestBusStep
  <2>2. QED BY <2>1, <1>1 DEF TypeOK, Slot
<1>3. CASE ~responseBackpressured
  <2>1. requestBusStep = [tx  |-> WithoutElected(txReq, e), out |-> out,
                          bus |-> [idx |-> e.idx, held |-> rest, slot |-> slot]]
    BY <1>3 DEF requestBusStep
  <2>2. /\ e.idx \in 0 .. (N - 1)
        /\ Slot(held)
        /\ WithoutElected(txReq, e) \in [Agents -> Seq(Msg)]
    BY <1>1, ElectionType, BusAssumption DEF TypeOK
  <2>3. slot \in 0 .. (ReqLatency - 1)
    <3>1. reqBus.slot \in 0 .. (ReqLatency - 1) BY <1>1 DEF BusState
    <3> HIDE DEF held, out
    <3>2. QED BY <3>1, BusAssumption
  <2>4. Slot(out) /\ Slot(rest) BY <2>2 DEF Slot
  <2> HIDE DEF e, held, out, slot, rest
  <2>5. [idx |-> e.idx, held |-> rest, slot |-> slot] \in BusState(ReqLatency)
    BY <2>2, <2>3, <2>4 DEF BusState, Slot
  <2>6. QED BY <2>1, <2>2, <2>4, <2>5
<1>4. QED BY <1>2, <1>3

\* responseBusStep, likewise.
LEMMA ResponseStepType ==
  ASSUME TypeOK
  PROVE  /\ responseBusStep.tx \in [Agents -> Seq(Msg)]
         /\ Slot(responseBusStep.out)
         /\ responseBusStep.bus \in BusState(RespLatency) /\ Slot(responseBusStep.bus.held)
<1> DEFINE e    == Election(respBus, txResp, phase.resp = 0)
           held == HeldAfter(respBus, txResp, e)
           last == held # <<>> /\ respBus.slot = RespLatency - 1
           out  == IF last THEN held ELSE <<>>
           slot == IF last \/ held = <<>> THEN 0 ELSE respBus.slot + 1
           rest == IF last THEN <<>> ELSE held
<1>1. respBus \in BusState(RespLatency) /\ Slot(respBus.held) BY DEF TypeOK, BusState, Slot
<1>2. responseBusStep = [tx  |-> WithoutElected(txResp, e), out |-> out,
                         bus |-> [idx |-> e.idx, held |-> rest, slot |-> slot]]
  BY DEF responseBusStep
<1>3. /\ e.idx \in 0 .. (N - 1)
      /\ Slot(held)
      /\ WithoutElected(txResp, e) \in [Agents -> Seq(Msg)]
  BY <1>1, ElectionType, BusAssumption DEF TypeOK
<1>4. slot \in 0 .. (RespLatency - 1)
  <2>1. respBus.slot \in 0 .. (RespLatency - 1) BY <1>1 DEF BusState
  <2> HIDE DEF held
  <2>2. QED BY <2>1, BusAssumption
<1>5. Slot(out) /\ Slot(rest) BY <1>3 DEF Slot
<1> HIDE DEF e, held, out, slot, rest
<1>6. [idx |-> e.idx, held |-> rest, slot |-> slot] \in BusState(RespLatency)
  BY <1>3, <1>4, <1>5 DEF BusState, Slot
<1>7. QED BY <1>2, <1>3, <1>5, <1>6

\* serviceBusStep delivers at most the head of one buffer.
LEMMA ServiceStepType ==
  ASSUME TypeOK
  PROVE  serviceBusStep.tx \in [Agents -> Seq(Msg)] /\ Slot(serviceBusStep.out)
<1> DEFINE s   == CHOOSE a \in serviceSenders : TRUE
           out == IF serviceSenders = {} THEN <<>> ELSE <<Head(txSvc[s])>>
           tx  == [a \in Agents |-> IF a \in serviceSenders THEN Tail(txSvc[a]) ELSE txSvc[a]]
<1>1. serviceBusStep = [out |-> out, tx |-> tx] BY DEF serviceBusStep
<1>2. \A a \in serviceSenders : a \in Agents /\ txSvc[a] \in Seq(Msg) /\ txSvc[a] # <<>>
  BY DEF serviceSenders, TypeOK
<1>3. tx \in [Agents -> Seq(Msg)] BY <1>2 DEF TypeOK
<1>4. Slot(out)
  <2>1. CASE serviceSenders = {} BY <2>1 DEF Slot
  <2>2. CASE serviceSenders # {}
    <3>1. s \in serviceSenders BY <2>2
    <3> HIDE DEF s
    <3>2. Head(txSvc[s]) \in Msg BY <3>1, <1>2
    <3>3. QED BY <2>2, <3>2 DEF Slot
  <2>3. QED BY <2>1, <2>2
<1> HIDE DEF out, tx
<1>5. QED BY <1>1, <1>3, <1>4

-----------------------------------------------------------------------------
(* Type correctness.                                                        *)

\* What one bus cycle delivers (out and inv, at most one each) and the delivery
\* numbers it uses: rxSeq for the request, n for the invalidation.
LEMMA BusStepFacts ==
  ASSUME TypeOK, busStep
  PROVE  \E out, inv, data \in Seq(Msg), n \in Nat :
           /\ Slot(out) /\ Slot(inv) /\ Slot(data)
           /\ n >= rxSeq /\ (out # <<>> => n > rxSeq)
           /\ rxSeq' \in Nat /\ rxSeq' >= n /\ (inv # <<>> => rxSeq' > n)
           /\ rxReq' = Broadcast(rxReq, out, rxSeq)
           /\ rxSvc' = Broadcast(rxSvc, inv, n)
           /\ rxResp' = Send(rxResp, data)
           /\ log' = log \o Stamped(out, rxSeq) \o Stamped(inv, n)
           /\ sent' = sent \o data
           /\ out = requestBusStep.out /\ inv = serviceBusStep.out /\ data = responseBusStep.out
<1> DEFINE out == requestBusStep.out
           inv == serviceBusStep.out
           data == responseBusStep.out
           n1 == rxSeq + N * Len(out)
           n == n1 + (IF data = <<>> THEN 0 ELSE Cardinality(data[1].to))
<1>1. Slot(out) /\ Slot(inv) /\ Slot(data)
  BY RequestStepType, ServiceStepType, ResponseStepType
<1>2. /\ rxReq' = Broadcast(rxReq, out, rxSeq)
      /\ rxSvc' = Broadcast(rxSvc, inv, n)
      /\ rxResp' = Send(rxResp, data)
      /\ rxSeq' = n + N * Len(inv)
      /\ log' = log \o Stamped(out, rxSeq) \o Stamped(inv, n)
      /\ sent' = sent \o data
  BY DEF busStep
<1>d. out = requestBusStep.out /\ inv = serviceBusStep.out /\ data = responseBusStep.out OBVIOUS
<1> HIDE DEF out, inv, data
<1>3. n1 \in Nat /\ n1 >= rxSeq /\ (out # <<>> => n1 > rxSeq)
  BY <1>1, BusAssumption DEF Slot, TypeOK
<1>4. data # <<>> => Cardinality(data[1].to) \in Nat
  <2> SUFFICES ASSUME data # <<>> PROVE Cardinality(data[1].to) \in Nat OBVIOUS
  <2>1. data[1] \in Msg BY <1>1 DEF Slot
  <2>2. data[1].to \subseteq Agents BY <2>1 DEF Msg
  <2>3. IsFiniteSet(Agents) BY FS_Interval, BusAssumption DEF Agents
  <2>4. QED BY <2>2, <2>3, FS_Subset, FS_CardinalityType
<1>5. n \in Nat /\ n >= n1
  <2> HIDE DEF n1
  <2>1. QED BY <1>3, <1>4
<1>6. N * Len(inv) \in Nat /\ (inv # <<>> => N * Len(inv) > 0)
  BY <1>1, BusAssumption DEF Slot
<1> HIDE DEF n, n1
<1>7. n >= rxSeq /\ (out # <<>> => n > rxSeq)
  BY <1>3, <1>5 DEF TypeOK
<1>8. rxSeq' \in Nat /\ rxSeq' >= n /\ (inv # <<>> => rxSeq' > n)
  BY <1>2, <1>5, <1>6
<1>9. out \in Seq(Msg) /\ inv \in Seq(Msg) /\ data \in Seq(Msg) BY <1>1 DEF Slot
<1>10. QED BY <1>1, <1>2, <1>5, <1>7, <1>8, <1>9, <1>d

\* Every reachable state of the bus and its interfaces is well typed: slot counters
\* stay inside their slot, each channel holds at most one message, arbiters stay in
\* range (SplitBusController, TripleBusController, the interfaces and the arbiters).
THEOREM BusTyped == Spec => []TypeOK
<1>1. Init => TypeOK
  BY BusAssumption DEF Init, TypeOK, Empty, Idle, BusState, Agents
<1>2. TypeOK /\ [Next]_vars => TypeOK'
  <2> SUFFICES ASSUME TypeOK, [Next]_vars PROVE TypeOK' OBVIOUS
  <2>1. ASSUME NEW a \in Agents, NEW k \in ReqKinds, PushRequest(a, k) PROVE TypeOK'
    <3>1. New(k, a, {LLC}) \in Msg
      BY BusAssumption DEF New, Msg, TypeOK, LLC, Agents
    <3>2. txReq' \in [Agents -> Seq(Msg)] BY <2>1, <3>1 DEF PushRequest, TypeOK
    <3>3. QED BY <2>1, <3>2 DEF PushRequest, TypeOK, ifVars, busVars
  <2>2. ASSUME NEW a \in Agents, NEW o \in Agents, NEW both \in BOOLEAN, PushResponse(a, o, both)
        PROVE  TypeOK'
    <3>1. New("Data", o, IF both THEN {LLC, o} ELSE {o}) \in Msg
      BY BusAssumption DEF New, Msg, TypeOK, LLC, Agents
    <3>2. txResp' \in [Agents -> Seq(Msg)] BY <2>2, <3>1 DEF PushResponse, TypeOK
    <3>3. pushed' \in Nat BY <2>2 DEF PushResponse, TypeOK
    <3>4. UNCHANGED <<txReq, txSvc, rxReq, rxResp, rxSvc, selector, reqBus, respBus, cycle,
                      phase, rxSeq, log, sent, seen>>
      BY <2>2 DEF PushResponse, ifVars, busVars
    <3>5. QED BY <3>2, <3>3, <3>4 DEF TypeOK
  <2>3. CASE PushService
    <3>1. New("INV", LLC, {LLC}) \in Msg
      BY BusAssumption DEF New, Msg, TypeOK, LLC, Agents
    <3>2. txSvc' \in [Agents -> Seq(Msg)]
      <4>1. LLC \in Agents BY BusAssumption DEF LLC, Agents
      <4>2. QED BY <2>3, <3>1, <4>1 DEF PushService, TypeOK
    <3>3. QED BY <2>3, <3>2 DEF PushService, TypeOK, ifVars, busVars
  <2>4. ASSUME NEW a \in Agents, Intake(a) PROVE TypeOK'
    <3>1. rxSvc[a] \in Seq(Entry) /\ rxReq[a] \in Seq(Entry) /\ rxResp[a] \in Seq(Msg)
      BY DEF TypeOK
    <3>2. PeekChoice(a) = "service" => rxSvc[a] # <<>>
      BY DEF PeekChoice, ServiceFirst
    <3>3. PeekChoice(a) = "request" => rxReq[a] # <<>>
      BY DEF PeekChoice, RequestFirst
    <3>4. PeekChoice(a) = "response" => rxResp[a] # <<>>
      BY DEF PeekChoice
    <3>e. \A x \in Entry : x.m \in Msg BY DEF Entry
    <3>5. PeekChoice(a) = "service" => Tail(rxSvc[a]) \in Seq(Entry) /\ Head(rxSvc[a]).m \in Msg
      <4>1. PeekChoice(a) = "service" => Tail(rxSvc[a]) \in Seq(Entry) /\ Head(rxSvc[a]) \in Entry
        BY <3>1, <3>2
      <4>2. QED BY <4>1, <3>e
    <3>6. PeekChoice(a) = "request" => Tail(rxReq[a]) \in Seq(Entry) /\ Head(rxReq[a]).m \in Msg
      <4>1. PeekChoice(a) = "request" => Tail(rxReq[a]) \in Seq(Entry) /\ Head(rxReq[a]) \in Entry
        BY <3>1, <3>3
      <4>2. QED BY <4>1, <3>e
    <3>7. PeekChoice(a) = "response" => Tail(rxResp[a]) \in Seq(Msg)
      BY <3>1, <3>4
    <3>8. rxSvc' \in [Agents -> Seq(Entry)] BY <2>4, <3>5 DEF Intake, TypeOK
    <3>9. rxReq' \in [Agents -> Seq(Entry)] BY <2>4, <3>6 DEF Intake, TypeOK
    <3>10. rxResp' \in [Agents -> Seq(Msg)] BY <2>4, <3>7 DEF Intake, TypeOK
    <3>11. seen' \in [Agents -> Seq(Msg)] BY <2>4, <3>5, <3>6 DEF Intake, TypeOK
    <3>12. selector' \in [Agents -> {-1, 0, 1}]
      <4>1. SelectorAfter(a, PeekChoice(a)) \in {-1, 0, 1} BY DEF SelectorAfter, TypeOK
      <4>2. QED BY <2>4, <4>1 DEF Intake, TypeOK
    <3>13. QED BY <2>4, <3>8, <3>9, <3>10, <3>11, <3>12 DEF Intake, TypeOK, txVars, busVars
  <2>5. CASE RefuseDemand
    BY <2>5 DEF RefuseDemand, TypeOK, txVars, busVars
  <2>6. CASE busStep
    <3>1. PICK out, inv, data \in Seq(Msg), n \in Nat :
             /\ rxSeq' \in Nat
             /\ rxReq' = Broadcast(rxReq, out, rxSeq)
             /\ rxSvc' = Broadcast(rxSvc, inv, n)
             /\ rxResp' = Send(rxResp, data)
             /\ log' = log \o Stamped(out, rxSeq) \o Stamped(inv, n)
             /\ sent' = sent \o data
      BY <2>6, BusStepFacts
    <3>2. rxSeq \in Nat /\ log \in Seq(Entry) /\ sent \in Seq(Msg) BY DEF TypeOK
    <3>3. rxReq' \in [Agents -> Seq(Entry)] /\ rxSvc' \in [Agents -> Seq(Entry)]
      BY <3>1, <3>2, BroadcastType DEF TypeOK
    <3>4. rxResp' \in [Agents -> Seq(Msg)]
      <4>1. data # <<>> => data[1] \in Msg BY <3>1
      <4>2. \A a \in Agents : data # <<>> => Append(rxResp[a], data[1]) \in Seq(Msg)
        BY <4>1 DEF TypeOK
      <4>3. QED BY <3>1, <4>2 DEF Send, TypeOK
    <3>5. log' \in Seq(Entry)
      <4>1. Stamped(out, rxSeq) \in Seq(Entry) /\ Stamped(inv, n) \in Seq(Entry)
        BY <3>2, StampedType
      <4>2. QED BY <4>1, <3>1, <3>2
    <3>6. sent' \in Seq(Msg) BY <3>1, <3>2
    <3>7. /\ txReq' = requestBusStep.tx /\ reqBus' = requestBusStep.bus
          /\ txResp' = responseBusStep.tx /\ respBus' = responseBusStep.bus
          /\ txSvc' = serviceBusStep.tx
      BY <2>6 DEF busStep
    <3>8. /\ txReq' \in [Agents -> Seq(Msg)]
          /\ txResp' \in [Agents -> Seq(Msg)]
          /\ txSvc' \in [Agents -> Seq(Msg)]
          /\ reqBus' \in BusState(ReqLatency) /\ Len(reqBus'.held) <= 1
          /\ respBus' \in BusState(RespLatency) /\ Len(respBus'.held) <= 1
      BY <3>7, RequestStepType, ResponseStepType, ServiceStepType DEF Slot
    <3>9. cycle' \in Nat BY <2>6 DEF busStep, TypeOK
    <3>10. phase' \in [req : 0 .. (ReqLatency - 1), resp : 0 .. (RespLatency - 1)]
      <4>1. \A i \in Nat : (i + 1) % ReqLatency \in 0 .. (ReqLatency - 1)
        BY BusAssumption
      <4>2. \A i \in Nat : (i + 1) % RespLatency \in 0 .. (RespLatency - 1)
        BY BusAssumption
      <4>3. phase.req \in Nat /\ phase.resp \in Nat BY BusAssumption DEF TypeOK
      <4>4. [req |-> (phase.req + 1) % ReqLatency, resp |-> (phase.resp + 1) % RespLatency]
              \in [req : 0 .. (ReqLatency - 1), resp : 0 .. (RespLatency - 1)]
        BY <4>1, <4>2, <4>3
      <4>5. QED BY <2>6, <4>4 DEF busStep, TypeOK
    <3>11. selector' = selector /\ pushed' = pushed /\ seen' = seen BY <2>6 DEF busStep
    <3>12. QED BY <3>1, <3>3, <3>4, <3>5, <3>6, <3>8, <3>9, <3>10, <3>11 DEF TypeOK
  <2>7. CASE UNCHANGED vars BY <2>7 DEF vars, TypeOK
  <2>8. QED BY <2>1, <2>2, <2>3, <2>4, <2>5, <2>6, <2>7 DEF Next
<1>3. QED BY <1>1, <1>2, PTL DEF Spec

-----------------------------------------------------------------------------
(* Every agent observes the broadcast order.                                *)

\* Delivery numbers increase along a sequence of entries.
Increasing(s) == \A i, j \in DOMAIN s : i < j => s[i].seq < s[j].seq

In(s, x) == \E j \in DOMAIN s : s[j] = x

\* Buffers p and q of an agent that has taken the first n entries of l hold exactly
\* the others, each buffer in delivery order, with no number in both.
Holds(l, p, q, n) ==
  /\ \A j \in DOMAIN p : \E k \in (n + 1) .. Len(l) : p[j] = l[k]
  /\ \A j \in DOMAIN q : \E k \in (n + 1) .. Len(l) : q[j] = l[k]
  /\ \A k \in (n + 1) .. Len(l) : In(p, l[k]) \/ In(q, l[k])
  /\ Increasing(p) /\ Increasing(q)
  /\ \A i \in DOMAIN p, j \in DOMAIN q : p[i].seq # q[j].seq

\* The inductive strengthening of SameOrder.
OrderInv ==
  /\ SameOrder
  /\ Increasing(log)
  /\ \A k \in DOMAIN log : log[k].seq < rxSeq
  /\ \A a \in Agents : Holds(log, rxReq[a], rxSvc[a], Len(seen[a]))

\* The request and the service buffer play the same part in Holds.
LEMMA HoldsSym ==
  ASSUME NEW l, NEW p, NEW q, NEW n, Holds(l, p, q, n) PROVE Holds(l, q, p, n)
  BY DEF Holds

\* The older of the two heads is the next entry of the log, and taking it leaves the
\* buffers holding the rest.
LEMMA TakeNext ==
  ASSUME NEW l \in Seq(Entry), NEW p \in Seq(Entry), NEW q \in Seq(Entry), NEW n \in Nat,
         Increasing(l), Holds(l, p, q, n), p # <<>>,
         q = <<>> \/ Head(p).seq <= Head(q).seq
  PROVE  /\ n + 1 <= Len(l) /\ Head(p) = l[n + 1]
         /\ Holds(l, Tail(p), q, n + 1)
<1>0. \A x \in Entry : x.seq \in Nat BY DEF Entry
<1>1. 1 \in DOMAIN p /\ Head(p) = p[1] OBVIOUS
<1>2. PICK k \in (n + 1) .. Len(l) : p[1] = l[k] BY <1>1 DEF Holds
<1>3. n + 1 <= Len(l) /\ n + 1 \in DOMAIN l /\ k \in DOMAIN l BY <1>2
<1>4. ASSUME NEW x \in Entry, In(p, x) \/ In(q, x) PROVE p[1].seq <= x.seq
  <2>1. ASSUME NEW j \in DOMAIN p, p[j] = x PROVE p[1].seq <= x.seq
    <3>1. j = 1 \/ p[1].seq < p[j].seq BY <1>1 DEF Holds, Increasing
    <3>2. p[1] \in Entry BY <1>1
    <3>3. QED BY <2>1, <3>1, <3>2, <1>0
  <2>2. ASSUME NEW j \in DOMAIN q, q[j] = x PROVE p[1].seq <= x.seq
    <3>1. q # <<>> /\ 1 \in DOMAIN q /\ Head(q) = q[1] BY <2>2
    <3>2. j = 1 \/ q[1].seq < q[j].seq BY <3>1 DEF Holds, Increasing
    <3>3. p[1].seq <= q[1].seq BY <3>1, <1>1
    <3>4. p[1] \in Entry /\ q[1] \in Entry BY <1>1, <3>1
    <3>5. QED BY <2>2, <3>2, <3>3, <3>4, <1>0
  <2>3. QED BY <1>4, <2>1, <2>2 DEF In
<1>5. k = n + 1
  <2>1. l[n + 1] \in Entry /\ l[k] \in Entry BY <1>3
  <2>2. p[1].seq <= l[n + 1].seq BY <1>3, <1>4, <2>1 DEF Holds
  <2>3. n + 1 < k => l[n + 1].seq < l[k].seq BY <1>3 DEF Increasing
  <2>4. QED BY <1>2, <2>1, <2>2, <2>3, <1>0
<1>6. p[1] = l[n + 1] BY <1>2, <1>5
<1>t. /\ Tail(p) \in Seq(Entry)
      /\ \A j \in DOMAIN Tail(p) : j + 1 \in DOMAIN p /\ Tail(p)[j] = p[j + 1]
      /\ \A j \in DOMAIN p : j # 1 => j - 1 \in DOMAIN Tail(p) /\ Tail(p)[j - 1] = p[j]
  OBVIOUS
<1>7. \A j \in DOMAIN Tail(p) : \E i \in (n + 2) .. Len(l) : Tail(p)[j] = l[i]
  <2> TAKE j \in DOMAIN Tail(p)
  <2>1. j + 1 \in DOMAIN p /\ Tail(p)[j] = p[j + 1] BY <1>t
  <2>2. PICK i \in (n + 1) .. Len(l) : p[j + 1] = l[i] BY <2>1 DEF Holds
  <2>3. p[1].seq < p[j + 1].seq BY <2>1, <1>1 DEF Holds, Increasing
  <2>4. p[1] \in Entry /\ p[j + 1] \in Entry BY <2>1, <1>1
  <2>5. i # n + 1 BY <2>2, <2>3, <2>4, <1>6, <1>0
  <2>6. QED BY <2>1, <2>2, <2>5
<1>8. \A j \in DOMAIN q : \E i \in (n + 2) .. Len(l) : q[j] = l[i]
  <2> TAKE j \in DOMAIN q
  <2>1. PICK i \in (n + 1) .. Len(l) : q[j] = l[i] BY DEF Holds
  <2>2. p[1].seq # q[j].seq BY <1>1 DEF Holds
  <2>3. i # n + 1 BY <2>1, <2>2, <1>6
  <2>4. QED BY <2>1, <2>3
<1>9. \A i \in (n + 2) .. Len(l) : In(Tail(p), l[i]) \/ In(q, l[i])
  <2> TAKE i \in (n + 2) .. Len(l)
  <2>1. In(p, l[i]) \/ In(q, l[i]) BY DEF Holds
  <2>a. i \in DOMAIN l /\ n + 1 < i OBVIOUS
  <2>b. l[i] \in Entry /\ l[n + 1] \in Entry BY <1>3, <2>a
  <2>c. l[n + 1].seq < l[i].seq BY <1>3, <2>a DEF Increasing
  <2>2. l[n + 1].seq < l[i].seq /\ l[i] \in Entry /\ l[n + 1] \in Entry BY <2>b, <2>c
  <2>3. ASSUME NEW j \in DOMAIN p, p[j] = l[i] PROVE In(Tail(p), l[i])
    <3>1. j # 1 BY <2>3, <2>2, <1>6, <1>0
    <3>2. QED BY <3>1, <2>3, <1>t DEF In
  <2>4. QED BY <2>1, <2>3 DEF In
<1>10. Increasing(Tail(p))
  <2> SUFFICES ASSUME NEW i \in DOMAIN Tail(p), NEW j \in DOMAIN Tail(p), i < j
               PROVE  Tail(p)[i].seq < Tail(p)[j].seq
    BY DEF Increasing
  <2>1. i \in Nat /\ j \in Nat /\ i + 1 < j + 1 BY <1>t
  <2>2. QED BY <2>1, <1>t DEF Holds, Increasing
<1>11. \A i \in DOMAIN Tail(p), j \in DOMAIN q : Tail(p)[i].seq # q[j].seq
  BY <1>t DEF Holds
<1>12. (n + 1) + 1 = n + 2 OBVIOUS
<1>13. QED BY <1>1, <1>3, <1>6, <1>7, <1>8, <1>9, <1>10, <1>11, <1>12 DEF Holds

\* A delivery with a number larger than any so far extends the log and one buffer.
LEMMA DeliverOne ==
  ASSUME NEW l \in Seq(Entry), NEW p \in Seq(Entry), NEW q \in Seq(Entry), NEW n \in Nat,
         NEW x \in Entry, n <= Len(l),
         \A k \in DOMAIN l : l[k].seq < x.seq,
         Holds(l, p, q, n)
  PROVE  Holds(Append(l, x), Append(p, x), q, n)
<1> DEFINE l2 == Append(l, x)
           p2 == Append(p, x)
<1>0. \A y \in Entry : y.seq \in Nat BY DEF Entry
<1>1. /\ Len(l2) = Len(l) + 1 /\ l2[Len(l) + 1] = x
      /\ \A k \in 1 .. Len(l) : l2[k] = l[k]
  OBVIOUS
<1>2. /\ Len(p2) = Len(p) + 1 /\ p2[Len(p) + 1] = x /\ DOMAIN p2 = 1 .. (Len(p) + 1)
      /\ \A k \in 1 .. Len(p) : p2[k] = p[k]
  OBVIOUS
<1>3. \A j \in DOMAIN p : p[j].seq < x.seq
  <2> TAKE j \in DOMAIN p
  <2>1. PICK k \in (n + 1) .. Len(l) : p[j] = l[k] BY DEF Holds
  <2>2. QED BY <2>1
<1>4. \A j \in DOMAIN q : q[j].seq < x.seq
  <2> TAKE j \in DOMAIN q
  <2>1. PICK k \in (n + 1) .. Len(l) : q[j] = l[k] BY DEF Holds
  <2>2. QED BY <2>1
<1> HIDE DEF l2, p2
<1>5. \A j \in DOMAIN p2 : \E k \in (n + 1) .. Len(l2) : p2[j] = l2[k]
  <2> TAKE j \in DOMAIN p2
  <2>1. CASE j = Len(p) + 1 BY <2>1, <1>1, <1>2
  <2>2. CASE j # Len(p) + 1
    <3>1. j \in DOMAIN p /\ p2[j] = p[j] BY <2>2, <1>2
    <3>2. PICK k \in (n + 1) .. Len(l) : p[j] = l[k] BY <3>1 DEF Holds
    <3>3. QED BY <3>1, <3>2, <1>1
  <2>3. QED BY <2>1, <2>2
<1>6. \A j \in DOMAIN q : \E k \in (n + 1) .. Len(l2) : q[j] = l2[k]
  <2> TAKE j \in DOMAIN q
  <2>1. PICK k \in (n + 1) .. Len(l) : q[j] = l[k] BY DEF Holds
  <2>2. QED BY <2>1, <1>1
<1>7. \A k \in (n + 1) .. Len(l2) : In(p2, l2[k]) \/ In(q, l2[k])
  <2> TAKE k \in (n + 1) .. Len(l2)
  <2>1. CASE k = Len(l) + 1 BY <2>1, <1>1, <1>2 DEF In
  <2>2. CASE k # Len(l) + 1
    <3>1. k \in (n + 1) .. Len(l) /\ l2[k] = l[k] BY <2>2, <1>1
    <3>2. In(p, l[k]) \/ In(q, l[k]) BY <3>1 DEF Holds
    <3>3. ASSUME NEW j \in DOMAIN p, p[j] = l[k] PROVE In(p2, l[k])
      <4>1. j \in DOMAIN p2 /\ p2[j] = p[j] BY <1>2
      <4>2. QED BY <4>1, <3>3 DEF In
    <3>4. QED BY <3>1, <3>2, <3>3 DEF In
  <2>3. QED BY <2>1, <2>2
<1>8. Increasing(p2)
  <2> SUFFICES ASSUME NEW i \in DOMAIN p2, NEW j \in DOMAIN p2, i < j
               PROVE  p2[i].seq < p2[j].seq
    BY DEF Increasing
  <2>1. i \in DOMAIN p /\ p2[i] = p[i] BY <1>2
  <2>2. CASE j = Len(p) + 1 BY <2>1, <2>2, <1>2, <1>3
  <2>3. CASE j # Len(p) + 1
    <3>1. j \in DOMAIN p /\ p2[j] = p[j] BY <2>3, <1>2
    <3>2. QED BY <3>1, <2>1 DEF Holds, Increasing
  <2>4. QED BY <2>2, <2>3
<1>9. \A i \in DOMAIN p2, j \in DOMAIN q : p2[i].seq # q[j].seq
  <2> TAKE i \in DOMAIN p2, j \in DOMAIN q
  <2>1. CASE i = Len(p) + 1
    <3>1. q[j].seq < x.seq /\ q[j] \in Entry BY <1>4
    <3>2. QED BY <2>1, <3>1, <1>0, <1>2
  <2>2. CASE i # Len(p) + 1
    <3>1. i \in DOMAIN p /\ p2[i] = p[i] BY <2>2, <1>2
    <3>2. QED BY <3>1 DEF Holds
  <2>3. QED BY <2>1, <2>2
<1>10. Increasing(q) BY DEF Holds
<1>11. QED BY <1>5, <1>6, <1>7, <1>8, <1>9, <1>10 DEF Holds, l2, p2

\* The part of the invariant about the log and one agent, before and after the
\* delivery of a slot.
LogInv(l, bound) ==
  Increasing(l) /\ \A k \in DOMAIN l : l[k].seq < bound

Prefix(s, l) == Len(s) <= Len(l) /\ \A k \in 1 .. Len(s) : s[k] = l[k].m

\* A slot that is not empty holds one message.
LEMMA SlotShape ==
  ASSUME NEW out \in Seq(Msg), Slot(out), out # <<>>
  PROVE  out[1] \in Msg /\ DOMAIN out = 1 .. 1
<1>1. Len(out) \in Nat /\ Len(out) # 0 BY EmptySeq
<1>2. Len(out) <= 1 BY DEF Slot
<1>a. \A k \in Nat : k # 0 /\ k <= 1 => k = 1 OBVIOUS
<1>3. Len(out) = 1 BY <1>1, <1>2, <1>a, Zenon
<1>4. DOMAIN out = 1 .. 1 BY <1>3, LenProperties
<1>5. out[1] \in Msg BY <1>4
<1>6. QED BY <1>4, <1>5

\* The delivery of a slot (at most one message, numbered n) keeps the numbering, the
\* prefixes already taken and what the buffers hold.
LEMMA DeliverSlot ==
  ASSUME NEW l \in Seq(Entry), NEW out \in Seq(Msg), Slot(out),
         NEW b \in Nat, NEW n \in Nat, NEW c \in Nat, b <= n, n <= c, out # <<>> => n < c,
         LogInv(l, b)
  PROVE  /\ l \o Stamped(out, n) \in Seq(Entry) /\ LogInv(l \o Stamped(out, n), c)
         /\ \A s \in Seq(Msg) : Prefix(s, l) => Prefix(s, l \o Stamped(out, n))
         /\ \A p, q \in Seq(Entry), i \in Nat : i <= Len(l) /\ Holds(l, p, q, i)
               => Holds(l \o Stamped(out, n), p \o Stamped(out, n), q, i)
<1> DEFINE l2 == l \o Stamped(out, n)
<1>0. \A y \in Entry : y.seq \in Nat BY DEF Entry
<1>1. CASE out = <<>>
  <2>1. Stamped(out, n) = <<>> BY <1>1 DEF Stamped
  <2>2. l2 = l /\ \A p \in Seq(Entry) : p \o Stamped(out, n) = p BY <2>1
  <2>3. LogInv(l, c)
    <3>1. \A k \in DOMAIN l : l[k] \in Entry /\ l[k].seq < b BY DEF LogInv
    <3>2. QED BY <3>1, <1>0 DEF LogInv
  <2> HIDE DEF l2
  <2>4. QED BY <2>2, <2>3 DEF l2
<1>2. CASE out # <<>>
  <2> DEFINE x == [m |-> out[1], seq |-> n]
  <2>1. out[1] \in Msg /\ DOMAIN out = 1 .. 1 BY <1>2, SlotShape
  <2>2. x \in Entry BY <2>1 DEF Entry
  <2>3. Stamped(out, n) = <<x>> BY <2>1 DEF Stamped
  <2>x. x.seq = n OBVIOUS
  <2> HIDE DEF x
  <2>4. l2 = Append(l, x) /\ \A p \in Seq(Entry) : p \o Stamped(out, n) = Append(p, x)
    BY <2>2, <2>3
  <2> HIDE DEF l2
  <2>5. \A k \in DOMAIN l : l[k] \in Entry /\ l[k].seq < x.seq
    <3>1. \A k \in DOMAIN l : l[k] \in Entry /\ l[k].seq < b BY DEF LogInv
    <3>2. QED BY <3>1, <1>0, <2>x
  <2>6. /\ l2 \in Seq(Entry) /\ Len(l2) = Len(l) + 1 /\ l2[Len(l) + 1] = x
        /\ \A k \in 1 .. Len(l) : l2[k] = l[k]
    BY <2>2, <2>4
  <2>7. Increasing(l2)
    <3> SUFFICES ASSUME NEW i \in DOMAIN l2, NEW j \in DOMAIN l2, i < j
                 PROVE  l2[i].seq < l2[j].seq
      BY DEF Increasing
    <3>1. i \in DOMAIN l /\ l2[i] = l[i] BY <2>6
    <3>2. CASE j = Len(l) + 1 BY <3>1, <3>2, <2>5, <2>6
    <3>3. CASE j # Len(l) + 1
      <4>1. j \in DOMAIN l /\ l2[j] = l[j] BY <3>3, <2>6
      <4>2. QED BY <4>1, <3>1 DEF LogInv, Increasing
    <3>4. QED BY <3>2, <3>3
  <2>8. \A k \in DOMAIN l2 : l2[k].seq < c
    <3> TAKE k \in DOMAIN l2
    <3>1. CASE k = Len(l) + 1 BY <3>1, <2>6, <2>x, <1>2
    <3>2. CASE k # Len(l) + 1
      <4>1. k \in DOMAIN l /\ l2[k] = l[k] BY <3>2, <2>6
      <4>2. QED BY <4>1, <2>5, <2>x, <1>0
    <3>3. QED BY <3>1, <3>2
  <2>9. ASSUME NEW s \in Seq(Msg), Prefix(s, l) PROVE Prefix(s, l2)
    BY <2>9, <2>6 DEF Prefix
  <2>10. ASSUME NEW p \in Seq(Entry), NEW q \in Seq(Entry), NEW i \in Nat,
                i <= Len(l), Holds(l, p, q, i)
         PROVE  Holds(l2, p \o Stamped(out, n), q, i)
    BY <2>10, <2>2, <2>4, <2>5, DeliverOne
  <2>l. LogInv(l2, c) BY <2>7, <2>8 DEF LogInv
  <2>11. QED BY <2>6, <2>l, <2>9, <2>10 DEF l2
<1>3. QED BY <1>1, <1>2

\* Every controller observes requests and back-invalidations in broadcast order, for
\* every number of agents, buffer size, latency and arbiter
\* (TripleBusInterface::peekMessage against TripleBusController::busStep).
THEOREM BusOrdered == Spec => []SameOrder
<1>1. Init => OrderInv
  <2> SUFFICES ASSUME Init PROVE OrderInv OBVIOUS
  <2>1. log = <<>> /\ \A a \in Agents : rxReq[a] = <<>> /\ rxSvc[a] = <<>> /\ seen[a] = <<>>
    BY DEF Init, Empty
  <2>2. SameOrder BY <2>1 DEF SameOrder
  <2>3. Increasing(log) /\ \A k \in DOMAIN log : log[k].seq < rxSeq BY <2>1 DEF Increasing
  <2>4. ASSUME NEW a \in Agents PROVE Holds(log, rxReq[a], rxSvc[a], Len(seen[a]))
    BY <2>1 DEF Holds, Increasing
  <2>5. QED BY <2>2, <2>3, <2>4 DEF OrderInv
<1>2. TypeOK /\ TypeOK' /\ OrderInv /\ [Next]_vars => OrderInv'
  <2> SUFFICES ASSUME TypeOK, TypeOK', OrderInv, [Next]_vars PROVE OrderInv' OBVIOUS
  <2> DEFINE quiet == UNCHANGED <<rxReq, rxSvc, rxSeq, log, seen>>
  <2>0. ASSUME quiet PROVE OrderInv' BY <2>0 DEF OrderInv, SameOrder, Holds, Increasing, In
  <2> HIDE DEF quiet
  <2>1. ASSUME NEW a \in Agents, NEW k \in ReqKinds, PushRequest(a, k) PROVE OrderInv'
    BY <2>0, <2>1 DEF quiet, PushRequest, ifVars, busVars
  <2>2. ASSUME NEW a \in Agents, NEW o \in Agents, NEW both \in BOOLEAN, PushResponse(a, o, both)
        PROVE  OrderInv'
    BY <2>0, <2>2 DEF quiet, PushResponse, ifVars, busVars
  <2>3. CASE PushService BY <2>0, <2>3 DEF quiet, PushService, ifVars, busVars
  <2>4. ASSUME NEW a \in Agents, Intake(a) PROVE OrderInv'
    <3> DEFINE n == Len(seen[a])
    <3>0. /\ log \in Seq(Entry) /\ rxReq[a] \in Seq(Entry) /\ rxSvc[a] \in Seq(Entry)
          /\ seen[a] \in Seq(Msg) /\ n \in Nat
      BY DEF TypeOK
    <3>i. /\ Increasing(log) /\ Holds(log, rxReq[a], rxSvc[a], n)
          /\ \A b \in Agents : Holds(log, rxReq[b], rxSvc[b], Len(seen[b]))
      BY DEF OrderInv
    <3>e. \A x \in Entry : x.seq \in Nat BY DEF Entry
    <3>u. log' = log /\ rxSeq' = rxSeq BY <2>4 DEF Intake, busVars
    <3>1. CASE PeekChoice(a) = "service"
      <4>1. rxSvc[a] # <<>> /\ (rxReq[a] = <<>> \/ Head(rxSvc[a]).seq < Head(rxReq[a]).seq)
        BY <3>1 DEF PeekChoice, ServiceFirst
      <4>2. rxReq[a] = <<>> \/ Head(rxSvc[a]).seq <= Head(rxReq[a]).seq
        <5>1. rxReq[a] # <<>> => Head(rxSvc[a]) \in Entry /\ Head(rxReq[a]) \in Entry BY <4>1, <3>0
        <5>2. QED BY <4>1, <5>1, <3>e
      <4>3. /\ n + 1 <= Len(log) /\ Head(rxSvc[a]) = log[n + 1]
            /\ Holds(log, Tail(rxSvc[a]), rxReq[a], n + 1)
        BY <3>0, <3>i, <4>1, <4>2, HoldsSym, TakeNext
      <4>4. /\ rxSvc' = [rxSvc EXCEPT ![a] = Tail(@)] /\ rxReq' = rxReq
            /\ seen' = [seen EXCEPT ![a] = Append(@, Head(rxSvc[a]).m)]
        BY <2>4, <3>1 DEF Intake
      <4>5. /\ rxSvc'[a] = Tail(rxSvc[a]) /\ rxReq'[a] = rxReq[a]
            /\ seen'[a] = Append(seen[a], log[n + 1].m)
            /\ \A b \in Agents \ {a} : rxSvc'[b] = rxSvc[b] /\ rxReq'[b] = rxReq[b] /\ seen'[b] = seen[b]
        BY <4>3, <4>4 DEF TypeOK
      <4>6. Len(seen'[a]) = n + 1 BY <3>0, <4>5
      <4>7. \A b \in Agents : Holds(log, rxReq'[b], rxSvc'[b], Len(seen'[b]))
        BY <3>i, <4>3, <4>5, <4>6, HoldsSym
      <4>8. SameOrder'
        <5>1. Len(seen[a]) <= Len(log) /\ \A k \in 1 .. n : seen[a][k] = log[k].m
          BY DEF OrderInv, SameOrder
        <5>2. ASSUME NEW k \in 1 .. (n + 1) PROVE seen'[a][k] = log[k].m
          <6>1. CASE k = n + 1 BY <6>1, <3>0, <4>5
          <6>2. CASE k # n + 1 BY <6>2, <3>0, <4>5, <5>1
          <6>3. QED BY <6>1, <6>2
        <5>3. ASSUME NEW b \in Agents
              PROVE  Len(seen'[b]) <= Len(log) /\ \A k \in 1 .. Len(seen'[b]) : seen'[b][k] = log[k].m
          <6>1. CASE b = a BY <6>1, <4>3, <4>6, <5>2
          <6>2. CASE b # a
            <7>1. seen'[b] = seen[b] BY <6>2, <4>5
            <7>2. QED BY <7>1 DEF OrderInv, SameOrder
          <6>3. QED BY <6>1, <6>2
        <5>4. QED BY <3>u, <5>3 DEF SameOrder
      <4>9. QED BY <3>u, <4>7, <4>8 DEF OrderInv
    <3>2. CASE PeekChoice(a) = "request"
      <4>1. rxReq[a] # <<>> /\ ~(rxSvc[a] # <<>> /\ (rxReq[a] = <<>> \/ Head(rxSvc[a]).seq < Head(rxReq[a]).seq))
        BY <3>2 DEF PeekChoice, RequestFirst, ServiceFirst
      <4>2. rxSvc[a] = <<>> \/ Head(rxReq[a]).seq <= Head(rxSvc[a]).seq
        <5>1. rxSvc[a] # <<>> => Head(rxSvc[a]) \in Entry /\ Head(rxReq[a]) \in Entry BY <4>1, <3>0
        <5>2. QED BY <4>1, <5>1, <3>e
      <4>3. /\ n + 1 <= Len(log) /\ Head(rxReq[a]) = log[n + 1]
            /\ Holds(log, Tail(rxReq[a]), rxSvc[a], n + 1)
        BY <3>0, <3>i, <4>1, <4>2, TakeNext
      <4>4. /\ rxReq' = [rxReq EXCEPT ![a] = Tail(@)] /\ rxSvc' = rxSvc
            /\ seen' = [seen EXCEPT ![a] = Append(@, Head(rxReq[a]).m)]
        BY <2>4, <3>2 DEF Intake
      <4>5. /\ rxReq'[a] = Tail(rxReq[a]) /\ rxSvc'[a] = rxSvc[a]
            /\ seen'[a] = Append(seen[a], log[n + 1].m)
            /\ \A b \in Agents \ {a} : rxSvc'[b] = rxSvc[b] /\ rxReq'[b] = rxReq[b] /\ seen'[b] = seen[b]
        BY <4>3, <4>4 DEF TypeOK
      <4>6. Len(seen'[a]) = n + 1 BY <3>0, <4>5
      <4>7. \A b \in Agents : Holds(log, rxReq'[b], rxSvc'[b], Len(seen'[b]))
        BY <3>i, <4>3, <4>5, <4>6
      <4>8. SameOrder'
        <5>1. Len(seen[a]) <= Len(log) /\ \A k \in 1 .. n : seen[a][k] = log[k].m
          BY DEF OrderInv, SameOrder
        <5>2. ASSUME NEW k \in 1 .. (n + 1) PROVE seen'[a][k] = log[k].m
          <6>1. CASE k = n + 1 BY <6>1, <3>0, <4>5
          <6>2. CASE k # n + 1 BY <6>2, <3>0, <4>5, <5>1
          <6>3. QED BY <6>1, <6>2
        <5>3. ASSUME NEW b \in Agents
              PROVE  Len(seen'[b]) <= Len(log) /\ \A k \in 1 .. Len(seen'[b]) : seen'[b][k] = log[k].m
          <6>1. CASE b = a BY <6>1, <4>3, <4>6, <5>2
          <6>2. CASE b # a
            <7>1. seen'[b] = seen[b] BY <6>2, <4>5
            <7>2. QED BY <7>1 DEF OrderInv, SameOrder
          <6>3. QED BY <6>1, <6>2
        <5>4. QED BY <3>u, <5>3 DEF SameOrder
      <4>9. QED BY <3>u, <4>7, <4>8 DEF OrderInv
    <3>3. CASE PeekChoice(a) \notin {"service", "request"}
      BY <2>0, <2>4, <3>3 DEF quiet, Intake, busVars
    <3>4. QED BY <3>1, <3>2, <3>3
  <2>5. CASE RefuseDemand BY <2>0, <2>5 DEF quiet, RefuseDemand, busVars
  <2>6. CASE busStep
    <3>1. PICK out, inv, data \in Seq(Msg), n \in Nat :
             /\ Slot(out) /\ Slot(inv)
             /\ n >= rxSeq /\ (out # <<>> => n > rxSeq)
             /\ rxSeq' \in Nat /\ rxSeq' >= n /\ (inv # <<>> => rxSeq' > n)
             /\ rxReq' = Broadcast(rxReq, out, rxSeq)
             /\ rxSvc' = Broadcast(rxSvc, inv, n)
             /\ log' = log \o Stamped(out, rxSeq) \o Stamped(inv, n)
      BY <2>6, BusStepFacts
    <3> DEFINE l1 == log \o Stamped(out, rxSeq)
    <3>2. log \in Seq(Entry) /\ rxSeq \in Nat /\ seen' = seen BY <2>6 DEF TypeOK, busStep
    <3>3. /\ l1 \in Seq(Entry) /\ LogInv(l1, n)
          /\ \A s \in Seq(Msg) : Prefix(s, log) => Prefix(s, l1)
          /\ \A p, q \in Seq(Entry), i \in Nat : i <= Len(log) /\ Holds(log, p, q, i)
                => Holds(l1, p \o Stamped(out, rxSeq), q, i)
      <4>1. LogInv(log, rxSeq) BY DEF OrderInv, LogInv
      <4>2. rxSeq <= n BY <3>1, <3>2
      <4>3. QED BY <4>1, <4>2, <3>1, <3>2, DeliverSlot
    <3> HIDE DEF l1
    <3>4. /\ log' \in Seq(Entry) /\ LogInv(log', rxSeq')
          /\ \A s \in Seq(Msg) : Prefix(s, l1) => Prefix(s, log')
          /\ \A p, q \in Seq(Entry), i \in Nat : i <= Len(l1) /\ Holds(l1, p, q, i)
                => Holds(log', p \o Stamped(inv, n), q, i)
      <4>1. log' = l1 \o Stamped(inv, n) BY <3>1 DEF l1
      <4>2. n <= rxSeq' /\ n <= n /\ (inv # <<>> => n < rxSeq') BY <3>1
      <4>3. LET l2 == l1 \o Stamped(inv, n) IN
            /\ l2 \in Seq(Entry) /\ LogInv(l2, rxSeq')
            /\ \A s \in Seq(Msg) : Prefix(s, l1) => Prefix(s, l2)
            /\ \A p, q \in Seq(Entry), i \in Nat : i <= Len(l1) /\ Holds(l1, p, q, i)
                  => Holds(l2, p \o Stamped(inv, n), q, i)
        BY <4>2, <3>1, <3>3, DeliverSlot
      <4>4. QED BY <4>1, <4>3
    <3>5. ASSUME NEW a \in Agents
          PROVE  Prefix(seen'[a], log') /\ Holds(log', rxReq'[a], rxSvc'[a], Len(seen'[a]))
      <4>1. /\ seen[a] \in Seq(Msg) /\ Len(seen[a]) \in Nat /\ seen'[a] = seen[a]
            /\ rxReq[a] \in Seq(Entry) /\ rxSvc[a] \in Seq(Entry)
            /\ rxReq'[a] \in Seq(Entry)
        BY <3>2 DEF TypeOK
      <4>b. /\ rxReq'[a] = rxReq[a] \o Stamped(out, rxSeq)
            /\ rxSvc'[a] = rxSvc[a] \o Stamped(inv, n)
        BY <3>1 DEF Broadcast
      <4>2. Prefix(seen[a], log) /\ Holds(log, rxReq[a], rxSvc[a], Len(seen[a]))
        BY DEF OrderInv, SameOrder, Prefix
      <4>3. Prefix(seen[a], l1) /\ Prefix(seen[a], log') BY <3>3, <3>4, <4>1, <4>2
      <4>4. Len(seen[a]) <= Len(log) /\ Len(seen[a]) <= Len(l1) BY <4>2, <4>3 DEF Prefix
      <4>5. Holds(l1, rxReq'[a], rxSvc[a], Len(seen[a])) BY <3>3, <4>1, <4>b, <4>2, <4>4
      <4>6. Holds(l1, rxSvc[a], rxReq'[a], Len(seen[a])) BY <4>5, HoldsSym
      <4>7. Holds(log', rxSvc'[a], rxReq'[a], Len(seen[a])) BY <3>4, <4>1, <4>b, <4>4, <4>6
      <4>8. QED BY <4>1, <4>3, <4>7, HoldsSym
    <3>6. SameOrder' BY <3>5 DEF SameOrder, Prefix
    <3>7. QED BY <3>4, <3>5, <3>6 DEF OrderInv, LogInv
  <2>7. CASE UNCHANGED vars BY <2>0, <2>7 DEF quiet, vars
  <2>8. QED BY <2>1, <2>2, <2>3, <2>4, <2>5, <2>6, <2>7 DEF Next
<1>3. OrderInv => SameOrder BY DEF OrderInv
<1>4. QED BY <1>1, <1>2, <1>3, BusTyped, PTL DEF Spec

-----------------------------------------------------------------------------
(* Broadcast is all-or-nothing.                                             *)

DemandEntries == {x \in Entry : isDemandRequest(x.m)}

\* What the request bus broadcasts was admitted by every receiver.
LEMMA RequestAdmitted == requestBusStep.out # <<>> => canBroadcast(requestBusStep.out[1])
<1> DEFINE e    == Election(reqBus, txReq, phase.req = 0)
           held == HeldAfter(reqBus, txReq, e)
           last == held # <<>> /\ reqBus.slot = ReqLatency - 1
           out  == IF last /\ canBroadcast(held[1]) THEN held ELSE <<>>
<1>1. requestBusStep.out = IF responseBackpressured THEN <<>> ELSE out
  BY DEF requestBusStep
<1> HIDE DEF held, last
<1> QED  BY <1>1

\* A buffer holds no more messages of a kind than messages.
LEMMA CountBound ==
  ASSUME NEW T, NEW s \in Seq(T), NEW S
  PROVE  NOf(s, S) <= Len(s)
<1>1. Positions(s, S) \subseteq 1 .. Len(s) /\ Len(s) \in Int /\ 1 \in Int /\ Len(s) \in Nat
  BY PositionsFinite, LenProperties
<1>2. IsFiniteSet(1 .. Len(s)) /\ Cardinality(1 .. Len(s)) = Len(s)
  <2>1. IsFiniteSet(1 .. Len(s)) /\ Cardinality(1 .. Len(s)) = (IF 1 > Len(s) THEN 0 ELSE Len(s) - 1 + 1)
    BY <1>1, FS_Interval, Zenon
  <2> QED  BY <1>1, <2>1
<1> QED  BY <1>1, <1>2, FS_Subset DEF NOf

\* The two halves of AtomicBroadcast for one agent.
Balanced(a) == Len(seen[a]) + Len(rxReq[a]) + Len(rxSvc[a]) = Len(log)
Bounded(a) == NOf(rxReq[a], DemandEntries) <= BufMax

\* What an agent has taken plus what waits for it is everything broadcast, for every
\* agent, and no request buffer holds more demands than its size: BusController::broadcast
\* delivers to all receivers or to none.
THEOREM BroadcastIsAtomic == Spec => []AtomicBroadcast
<1> DEFINE Inv == \A a \in Agents : Balanced(a) /\ Bounded(a)
<1>1. Init => Inv
  <2> SUFFICES ASSUME Init, NEW a \in Agents PROVE Balanced(a) /\ Bounded(a)
    OBVIOUS
  <2>1. log = <<>> /\ rxReq[a] = <<>> /\ rxSvc[a] = <<>> /\ seen[a] = <<>>
    BY DEF Init, Empty
  <2>2. NOf(<<>>, DemandEntries) = 0
    BY CountNone
  <2> QED  BY <2>1, <2>2, BusAssumption DEF Balanced, Bounded
<1>2. TypeOK /\ Inv /\ [Next]_vars => Inv'
  <2> SUFFICES ASSUME TypeOK, Inv, [Next]_vars, NEW a \in Agents PROVE Balanced(a)' /\ Bounded(a)'
    OBVIOUS
  <2>t. /\ log \in Seq(Entry) /\ rxReq[a] \in Seq(Entry) /\ rxSvc[a] \in Seq(Entry)
        /\ seen[a] \in Seq(Msg) /\ Len(log) \in Nat /\ Len(rxReq[a]) \in Nat
        /\ Len(rxSvc[a]) \in Nat /\ Len(seen[a]) \in Nat
    BY LenProperties DEF TypeOK
  <2>i. Balanced(a) /\ Bounded(a)
    OBVIOUS
  <2> HIDE DEF Inv
  <2> DEFINE quiet == UNCHANGED <<rxReq, rxSvc, log, seen>>
  <2>0. ASSUME quiet PROVE Balanced(a)' /\ Bounded(a)'
    BY <2>0, <2>i DEF Balanced, Bounded
  <2> HIDE DEF quiet
  <2>1. ASSUME NEW b \in Agents, NEW k \in ReqKinds, PushRequest(b, k)
        PROVE  Balanced(a)' /\ Bounded(a)'
    BY <2>0, <2>1 DEF quiet, PushRequest, ifVars, busVars
  <2>2. ASSUME NEW b \in Agents, NEW o \in Agents, NEW both \in BOOLEAN, PushResponse(b, o, both)
        PROVE  Balanced(a)' /\ Bounded(a)'
    BY <2>0, <2>2 DEF quiet, PushResponse, ifVars, busVars
  <2>3. CASE PushService
    BY <2>0, <2>3 DEF quiet, PushService, ifVars, busVars
  <2>4. ASSUME NEW b \in Agents, Intake(b)
        PROVE  Balanced(a)' /\ Bounded(a)'
    <3>u. log' = log
      BY <2>4 DEF Intake, busVars
    <3>1. CASE a # b
      <4>1. rxReq'[a] = rxReq[a] /\ rxSvc'[a] = rxSvc[a] /\ seen'[a] = seen[a]
        BY <2>4, <3>1 DEF Intake, TypeOK
      <4> QED  BY <2>i, <3>u, <4>1 DEF Balanced, Bounded
    <3>2. CASE a = b /\ PeekChoice(a) = "service"
      <4>1. rxSvc[a] # <<>>
        BY <3>2 DEF PeekChoice, ServiceFirst
      <4>2. /\ rxReq'[a] = rxReq[a] /\ rxSvc'[a] = Tail(rxSvc[a])
            /\ seen'[a] = Append(seen[a], Head(rxSvc[a]).m)
        BY <2>4, <3>2 DEF Intake, TypeOK
      <4>3. Len(Tail(rxSvc[a])) = Len(rxSvc[a]) - 1
        BY <2>t, <4>1, CountTail
      <4>4. Head(rxSvc[a]).m \in Msg
        <5>1. Head(rxSvc[a]) \in Entry
          BY <2>t, <4>1, HeadTailProperties
        <5> QED  BY <5>1 DEF Entry
      <4>5. Len(seen'[a]) = Len(seen[a]) + 1
        BY <2>t, <4>2, <4>4, AppendProperties
      <4>6. Balanced(a)'
        <5>1. PICK w \in Nat, x \in Nat, y \in Nat :
                w = Len(seen[a]) /\ x = Len(rxReq[a]) /\ y = Len(rxSvc[a])
          BY <2>t, Zenon
        <5>2. (w + 1) + x + (y - 1) = w + x + y
          OBVIOUS
        <5>3. Len(seen'[a]) = w + 1 /\ Len(rxReq'[a]) = x /\ Len(rxSvc'[a]) = y - 1
          BY <4>2, <4>3, <4>5, <5>1, Zenon
        <5> QED  BY <2>i, <3>u, <5>1, <5>2, <5>3, Zenon DEF Balanced
      <4> QED  BY <2>i, <4>2, <4>6 DEF Bounded
    <3>3. CASE a = b /\ PeekChoice(a) = "request"
      <4>1. rxReq[a] # <<>>
        BY <3>3 DEF PeekChoice, RequestFirst
      <4>2. /\ rxSvc'[a] = rxSvc[a] /\ rxReq'[a] = Tail(rxReq[a])
            /\ seen'[a] = Append(seen[a], Head(rxReq[a]).m)
        BY <2>4, <3>3 DEF Intake, TypeOK
      <4>3. /\ Len(Tail(rxReq[a])) = Len(rxReq[a]) - 1 /\ Tail(rxReq[a]) \in Seq(Entry)
            /\ NOf(Tail(rxReq[a]), DemandEntries)
                 = NOf(rxReq[a], DemandEntries) - (IF Head(rxReq[a]) \in DemandEntries THEN 1 ELSE 0)
        BY <2>t, <4>1, CountTail
      <4>4. Head(rxReq[a]).m \in Msg
        <5>1. Head(rxReq[a]) \in Entry
          BY <2>t, <4>1, HeadTailProperties
        <5> QED  BY <5>1 DEF Entry
      <4>5. Len(seen'[a]) = Len(seen[a]) + 1
        BY <2>t, <4>2, <4>4, AppendProperties
      <4>6. Balanced(a)'
        <5>1. PICK w \in Nat, x \in Nat, y \in Nat :
                w = Len(seen[a]) /\ x = Len(rxReq[a]) /\ y = Len(rxSvc[a])
          BY <2>t, Zenon
        <5>2. (w + 1) + (x - 1) + y = w + x + y
          OBVIOUS
        <5>3. Len(seen'[a]) = w + 1 /\ Len(rxReq'[a]) = x - 1 /\ Len(rxSvc'[a]) = y
          BY <4>2, <4>3, <4>5, <5>1, Zenon
        <5> QED  BY <2>i, <3>u, <5>1, <5>2, <5>3, Zenon DEF Balanced
      <4>7. NOf(rxReq[a], DemandEntries) \in Nat /\ BufMax \in Nat
        BY <2>t, CountZero, BusAssumption
      <4> QED  BY <2>i, <4>2, <4>3, <4>6, <4>7 DEF Bounded
    <3>4. CASE PeekChoice(b) \notin {"service", "request"}
      BY <2>0, <2>4, <3>4 DEF quiet, Intake, busVars
    <3> QED  BY <3>1, <3>2, <3>3, <3>4
  <2>5. CASE RefuseDemand
    BY <2>0, <2>5 DEF quiet, RefuseDemand, busVars
  <2>6. CASE busStep
    <3>1. PICK out, inv, data \in Seq(Msg), n \in Nat :
            /\ Slot(out) /\ Slot(inv)
            /\ rxReq' = Broadcast(rxReq, out, rxSeq) /\ rxSvc' = Broadcast(rxSvc, inv, n)
            /\ log' = log \o Stamped(out, rxSeq) \o Stamped(inv, n)
            /\ out = requestBusStep.out
      BY <2>6, BusStepFacts
    <3>2. Slot(out) /\ Slot(inv) /\ out \in Seq(Msg) /\ inv \in Seq(Msg)
      BY <3>1
    <3>3. out # <<>> => canBroadcast(out[1])
      BY <3>1, RequestAdmitted
    <3>4. seen' = seen
      BY <2>6 DEF busStep
    <3> DEFINE so == Stamped(out, rxSeq)
               si == Stamped(inv, n)
    <3>5. so \in Seq(Entry) /\ si \in Seq(Entry) /\ Len(so) = Len(out) /\ Len(si) = Len(inv)
          /\ Len(out) \in Nat /\ Len(inv) \in Nat
      BY <3>2, StampedType, LenProperties DEF TypeOK
    <3>6. rxReq'[a] = rxReq[a] \o so /\ rxSvc'[a] = rxSvc[a] \o si /\ log' = (log \o so) \o si
      BY <3>1 DEF Broadcast
    <3>61. out # <<>> => so = <<[m |-> out[1], seq |-> rxSeq]>> /\ [m |-> out[1], seq |-> rxSeq] \in Entry
      <4> HAVE out # <<>>
      <4>1. out[1] \in Msg /\ DOMAIN out = 1 .. 1
        BY <3>2, SlotShape
      <4> QED  BY <4>1 DEF Stamped, Entry, TypeOK
    <3>62. out = <<>> => so = <<>>
      BY DEF Stamped
    <3> HIDE DEF so, si
    <3>7. /\ Len(rxReq[a] \o so) = Len(rxReq[a]) + Len(out)
          /\ Len(rxSvc[a] \o si) = Len(rxSvc[a]) + Len(inv)
          /\ Len((log \o so) \o si) = Len(log) + Len(out) + Len(inv)
      <4>1. Len(rxReq[a] \o so) = Len(rxReq[a]) + Len(so) /\ Len(rxSvc[a] \o si) = Len(rxSvc[a]) + Len(si)
        BY <2>t, <3>5, ConcatProperties
      <4>2. log \o so \in Seq(Entry) /\ Len(log \o so) = Len(log) + Len(so)
        BY <2>t, <3>5, ConcatProperties
      <4>3. Len((log \o so) \o si) = Len(log \o so) + Len(si)
        BY <3>5, <4>2, ConcatProperties
      <4> QED  BY <3>5, <4>1, <4>2, <4>3, Zenon
    <3>8. Balanced(a)'
      <4>1. PICK w \in Nat, x \in Nat, y \in Nat, z \in Nat, u \in Nat, v \in Nat :
              /\ w = Len(seen[a]) /\ x = Len(rxReq[a]) /\ y = Len(rxSvc[a]) /\ z = Len(log)
              /\ u = Len(out) /\ v = Len(inv)
        BY <2>t, <3>5, Zenon
      <4>2. w + x + y = z
        BY <2>i, <4>1, Zenon DEF Balanced
      <4>3. w + (x + u) + (y + v) = z + u + v
        BY <4>2
      <4>4. Len(seen'[a]) = w /\ Len(rxReq'[a]) = x + u /\ Len(rxSvc'[a]) = y + v /\ Len(log') = z + u + v
        BY <3>4, <3>6, <3>7, <4>1, Zenon
      <4> QED  BY <4>3, <4>4, Zenon DEF Balanced
    <3>9. Bounded(a)'
      <4>0. NOf(rxReq[a], DemandEntries) \in Nat /\ BufMax \in Nat
        BY <2>t, CountZero, BusAssumption
      <4>1. CASE out = <<>>
        <5>1. rxReq'[a] = rxReq[a]
          BY <2>t, <3>6, <3>62, <4>1, ConcatEmptySeq
        <5> QED  BY <2>i, <5>1 DEF Bounded
      <4>2. CASE out # <<>>
        <5> DEFINE x == [m |-> out[1], seq |-> rxSeq]
        <5>0. x.m = out[1] /\ x \in Entry /\ so = <<x>>
          BY <3>61, <4>2
        <5> HIDE DEF x
        <5>1. /\ NOf(rxReq[a] \o so, DemandEntries) = NOf(rxReq[a], DemandEntries) + NOf(so, DemandEntries)
              /\ NOf(so, DemandEntries) = (IF x \in DemandEntries THEN 1 ELSE 0)
          <6>1. NOf(rxReq[a] \o so, DemandEntries) = NOf(rxReq[a], DemandEntries) + NOf(so, DemandEntries)
            BY <2>t, <3>5, CountConcat
          <6>2. NOf(<<x>>, DemandEntries) = (IF x \in DemandEntries THEN 1 ELSE 0)
            BY CountOne
          <6> QED  BY <5>0, <6>1, <6>2, Zenon
        <5>2. CASE x \notin DemandEntries
          BY <2>i, <3>6, <4>0, <5>1, <5>2 DEF Bounded
        <5>3. CASE x \in DemandEntries
          <6>1. canAcceptRX(a)
            BY <3>3, <4>2, <5>0, <5>3 DEF canBroadcast, DemandEntries
          <6>2. NOf(rxReq[a], DemandEntries) < BufMax
            BY <2>t, <4>0, <6>1, CountBound DEF canAcceptRX
          <6> QED  BY <3>6, <4>0, <5>1, <5>3, <6>2 DEF Bounded
        <5> QED  BY <5>2, <5>3
      <4> QED  BY <4>1, <4>2
    <3> QED  BY <3>8, <3>9
  <2>7. CASE UNCHANGED vars
    BY <2>0, <2>7 DEF quiet, vars
  <2> QED  BY <2>1, <2>2, <2>3, <2>4, <2>5, <2>6, <2>7 DEF Next
<1>3. TypeOK /\ Inv => AtomicBroadcast
  <2> SUFFICES ASSUME TypeOK, Inv, NEW a \in Agents
               PROVE  /\ Len(seen[a]) + Len(rxReq[a]) + Len(rxSvc[a]) = Len(log)
                      /\ Cardinality({k \in DOMAIN rxReq[a] : isDemandRequest(rxReq[a][k].m)}) <= BufMax
    BY Zenon DEF AtomicBroadcast
  <2>1. rxReq[a] \in Seq(Entry)
    BY DEF TypeOK
  <2>2. \A k \in DOMAIN rxReq[a] : rxReq[a][k] \in Entry
    BY <2>1, ElementOfSeq, LenProperties
  <2>3. {k \in DOMAIN rxReq[a] : isDemandRequest(rxReq[a][k].m)} = Positions(rxReq[a], DemandEntries)
    BY <2>2 DEF Positions, DemandEntries
  <2> QED  BY <2>3 DEF Balanced, Bounded, NOf
<1> QED  BY <1>1, <1>2, <1>3, BusTyped, PTL DEF Spec

-----------------------------------------------------------------------------
(* No message is lost or duplicated.                                        *)

\* Where a message can be, and what is there when the buffers, the slots and the
\* deliveries hold what the arguments say.
Spots == ({"req", "resp", "svc"} \X Agents) \cup ({"heldReq", "heldResp", "log", "sent"} \X {0})
Stores == [Spots -> Seq(Msg)]
Store(tr, tp, ts, hr, hp, l, s) ==
  [p \in Spots |->
     CASE p[1] = "req"      -> tr[p[2]]
       [] p[1] = "resp"     -> tp[p[2]]
       [] p[1] = "svc"      -> ts[p[2]]
       [] p[1] = "heldReq"  -> hr
       [] p[1] = "heldResp" -> hp
       [] p[1] = "log"      -> l
       [] p[1] = "sent"     -> s]

OfId(id) == {m \in Msg : m.id = id}
Count(B, p, id) == NOf(B[p], OfId(id))
Once(B, id) == \E p \in Spots : Count(B, p, id) = 1 /\ \A q \in Spots \ {p} : Count(B, q, id) = 0
Nowhere(B, id) == \A p \in Spots : Count(B, p, id) = 0

\* A step that neither loses nor repeats nor creates a message.
Keeps(B, C) == \A id \in Nat : (Once(B, id) => Once(C, id)) /\ (Nowhere(B, id) => Nowhere(C, id))

\* A count is a number.
LEMMA CountIsNat == ASSUME NEW B \in Stores, NEW p \in Spots, NEW id PROVE Count(B, p, id) \in Nat
<1>1. B[p] \in Seq(Msg)
  BY DEF Stores
<1> QED  BY <1>1, CountZero DEF Count

\* Moving messages from one place to another loses, repeats and creates none.
LEMMA MoveKeeps ==
  ASSUME NEW B \in Stores, NEW C \in Stores, NEW p \in Spots, NEW q \in Spots, p # q,
         \A r \in Spots \ {p, q} : C[r] = B[r],
         \A id \in Nat : Count(C, p, id) + Count(C, q, id) = Count(B, p, id) + Count(B, q, id)
  PROVE  Keeps(B, C)
<1> SUFFICES ASSUME NEW id \in Nat
             PROVE  (Once(B, id) => Once(C, id)) /\ (Nowhere(B, id) => Nowhere(C, id))
  BY DEF Keeps
<1>1. \A r \in Spots : Count(B, r, id) \in Nat /\ Count(C, r, id) \in Nat
  BY CountIsNat
<1>2. \A r \in Spots \ {p, q} : Count(C, r, id) = Count(B, r, id)
  BY DEF Count
<1>3. Count(C, p, id) + Count(C, q, id) = Count(B, p, id) + Count(B, q, id)
  OBVIOUS
<1>4. ASSUME Once(B, id) PROVE Once(C, id)
  <2>1. PICK r \in Spots : Count(B, r, id) = 1 /\ \A t \in Spots \ {r} : Count(B, t, id) = 0
    BY <1>4 DEF Once
  <2>2. CASE r \notin {p, q}
    <3>1. Count(C, p, id) = 0 /\ Count(C, q, id) = 0
      BY <1>1, <1>3, <2>1, <2>2
    <3>2. Count(C, r, id) = 1 /\ \A t \in Spots \ {r} : Count(C, t, id) = 0
      BY <1>2, <2>1, <2>2, <3>1
    <3> QED  BY <3>2 DEF Once
  <2>3. CASE r \in {p, q}
    <3>1. Count(B, p, id) + Count(B, q, id) = 1
      BY <1>1, <2>1, <2>3
    <3>2. \/ Count(C, p, id) = 1 /\ Count(C, q, id) = 0
          \/ Count(C, p, id) = 0 /\ Count(C, q, id) = 1
      BY <1>1, <1>3, <3>1
    <3>3. \A t \in Spots \ {p, q} : Count(C, t, id) = 0
      BY <1>2, <2>1, <2>3
    <3> QED  BY <3>2, <3>3 DEF Once
  <2> QED  BY <2>2, <2>3
<1>5. ASSUME Nowhere(B, id) PROVE Nowhere(C, id)
  <2>1. Count(B, p, id) = 0 /\ Count(B, q, id) = 0
    BY <1>5 DEF Nowhere
  <2>2. Count(C, p, id) = 0 /\ Count(C, q, id) = 0
    BY <1>1, <1>3, <2>1
  <2> QED  BY <1>2, <1>5, <2>2 DEF Nowhere
<1> QED  BY <1>4, <1>5

\* A slot hands what it holds to the deliveries (or nothing at all).
LEMMA DeliverKeeps ==
  ASSUME NEW B \in Stores, NEW C \in Stores, NEW p \in Spots, NEW q \in Spots, p # q,
         \A r \in Spots \ {p, q} : C[r] = B[r],
         NEW out \in Seq(Msg), C[q] = B[q] \o out,
         \/ out = <<>> /\ C[p] = B[p]
         \/ out = B[p] /\ C[p] = <<>>
  PROVE  Keeps(B, C)
<1>0. B[p] \in Seq(Msg) /\ B[q] \in Seq(Msg)
  BY DEF Stores
<1>1. ASSUME NEW id \in Nat
      PROVE  Count(C, p, id) + Count(C, q, id) = Count(B, p, id) + Count(B, q, id)
  <2>1. Count(C, q, id) = Count(B, q, id) + NOf(out, OfId(id))
    BY <1>0, CountConcat DEF Count
  <2>2. NOf(<<>>, OfId(id)) = 0
    BY CountNone
  <2>3. Count(B, p, id) \in Nat /\ Count(B, q, id) \in Nat
    BY CountIsNat
  <2>4. Count(C, p, id) + NOf(out, OfId(id)) = Count(B, p, id)
    BY <2>2, <2>3 DEF Count
  <2>5. Count(C, p, id) \in Nat /\ NOf(out, OfId(id)) \in Nat
    BY CountIsNat, CountZero
  <2> QED  BY <2>1, <2>3, <2>4, <2>5
<1> QED  BY <1>1, MoveKeeps

\* What an election does: nothing, or the elected message leaves its buffer for the slot.
LEMMA ElectionMoves ==
  ASSUME NEW bus, NEW tx \in [Agents -> Seq(Msg)], NEW aligned \in BOOLEAN,
         NEW e, e = Election(bus, tx, aligned)
  PROVE  \/ HeldAfter(bus, tx, e) = bus.held /\ WithoutElected(tx, e) = tx
         \/ /\ bus.held = <<>>
            /\ \E a \in Agents : \E k \in DOMAIN tx[a] :
                 /\ HeldAfter(bus, tx, e) = <<tx[a][k]>>
                 /\ WithoutElected(tx, e) = [tx EXCEPT ![a] = Cut(tx[a], k)]
<1>1. CASE e.grant = {}
  <2>1. WithoutElected(tx, e) = [a \in Agents |-> tx[a]]
    BY <1>1 DEF WithoutElected
  <2> QED  BY <1>1, <2>1 DEF HeldAfter
<1>2. CASE e.grant # {}
  <2>1. bus.held = <<>> /\ e = elect(Arbiter, tx, Cand, bus.idx, aligned)
    BY <1>2 DEF Election
  <2>2. OneGrant(tx, e.grant)
    <3>1. Agents \in SUBSET Int /\ tx \in Buffers(Agents, Msg) /\ \A m \in Msg : m.cycle \in Int
      <4>1. Agents \in SUBSET Int /\ tx \in Buffers(Agents, Msg)
        BY BusAssumption DEF Agents, Buffers
      <4>2. \A m \in Msg : m.cycle \in Int
        BY DEF Msg
      <4> QED  BY <4>1, <4>2
    <3> QED  BY <2>1, <3>1, ElectOne
  <2>3. PICK f \in e.grant : TRUE
    BY <1>2
  <2>4. PICK a \in Agents : \E k \in DOMAIN tx[a] : f = <<a, k>>
    BY <2>2, <2>3 DEF OneGrant
  <2>5. PICK k \in DOMAIN tx[a] : f = <<a, k>>
    BY <2>4
  <2>6. e.grant = {<<a, k>>}
    BY <2>2, <2>3, <2>5 DEF OneGrant
  <2> DEFINE g == CHOOSE p \in e.grant : TRUE
  <2>7. g = <<a, k>>
    BY <2>6
  <2>8. HeldAfter(bus, tx, e) = <<tx[a][k]>>
    <3>1. HeldAfter(bus, tx, e) = <<tx[g[1]][g[2]]>>
      BY <1>2 DEF HeldAfter
    <3> HIDE DEF g
    <3> QED  BY <2>7, <3>1
  <2>9. ASSUME NEW b \in Agents
        PROVE  (IF \E p \in e.grant : p[1] = b
                THEN erase(tx[b], (CHOOSE p \in e.grant : p[1] = b)[2]) ELSE tx[b])
               = [tx EXCEPT ![a] = Cut(tx[a], k)][b]
    <3>1. CASE b = a
      <4>1. (CHOOSE p \in e.grant : p[1] = b) = <<a, k>>
        BY <2>6, <3>1
      <4>2. erase(tx[a], k) = Cut(tx[a], k)
        BY DEF erase, Cut
      <4> QED  BY <2>6, <3>1, <4>1, <4>2
    <3>2. CASE b # a
      BY <2>6, <3>2
    <3> QED  BY <3>1, <3>2
  <2>10. WithoutElected(tx, e) = [tx EXCEPT ![a] = Cut(tx[a], k)]
    BY <2>9 DEF WithoutElected
  <2> QED  BY <2>1, <2>8, <2>10
<1> QED  BY <1>1, <1>2

\* From store B to store C the slot at h elects from the buffers of that kind.
Elects(B, C, kind, h, bus, tx, e) ==
  /\ B \in Stores /\ C \in Stores /\ h \in Spots
  /\ \A a \in Agents : /\ <<kind, a>> \in Spots /\ <<kind, a>> # h
                       /\ B[<<kind, a>>] = tx[a] /\ C[<<kind, a>>] = WithoutElected(tx, e)[a]
  /\ B[h] = bus.held /\ C[h] = HeldAfter(bus, tx, e)
  /\ \A r \in Spots : r # h /\ (\A a \in Agents : r # <<kind, a>>) => C[r] = B[r]

\* The election of a channel loses, repeats and creates no message.
LEMMA ElectKeeps ==
  ASSUME NEW B, NEW C, NEW kind, NEW h, NEW bus, NEW tx \in [Agents -> Seq(Msg)],
         NEW aligned \in BOOLEAN, NEW e, e = Election(bus, tx, aligned), Elects(B, C, kind, h, bus, tx, e)
  PROVE  Keeps(B, C)
<1> USE DEF Elects
<1>1. CASE HeldAfter(bus, tx, e) = bus.held /\ WithoutElected(tx, e) = tx
  <2>1. \A r \in Spots : C[r] = B[r]
    BY <1>1
  <2>2. C = B
    BY <2>1 DEF Stores
  <2> QED  BY <2>2 DEF Keeps
<1>2. ASSUME bus.held = <<>>, NEW a \in Agents, NEW k \in DOMAIN tx[a],
             HeldAfter(bus, tx, e) = <<tx[a][k]>>, WithoutElected(tx, e) = [tx EXCEPT ![a] = Cut(tx[a], k)]
      PROVE  Keeps(B, C)
  <2> DEFINE p == <<kind, a>>
  <2>1. p \in Spots /\ p # h
    OBVIOUS
  <2>2. C[p] = Cut(tx[a], k) /\ B[p] = tx[a] /\ C[h] = <<tx[a][k]>> /\ B[h] = <<>>
    BY <1>2
  <2>3. ASSUME NEW r \in Spots \ {p, h} PROVE C[r] = B[r]
    <3>1. CASE \E b \in Agents : r = <<kind, b>>
      BY <1>2, <3>1
    <3>2. CASE \A b \in Agents : r # <<kind, b>>
      BY <3>2
    <3> QED  BY <3>1, <3>2
  <2> HIDE DEF p
  <2>4. ASSUME NEW id \in Nat
        PROVE  Count(C, p, id) + Count(C, h, id) = Count(B, p, id) + Count(B, h, id)
    <3>1. NOf(Cut(tx[a], k), OfId(id)) = NOf(tx[a], OfId(id)) - (IF tx[a][k] \in OfId(id) THEN 1 ELSE 0)
      BY CountCut
    <3>2. NOf(<<tx[a][k]>>, OfId(id)) = (IF tx[a][k] \in OfId(id) THEN 1 ELSE 0)
      BY CountOne
    <3>3. NOf(<<>>, OfId(id)) = 0 /\ NOf(tx[a], OfId(id)) \in Nat
      BY CountNone, CountZero
    <3> QED  BY <2>2, <3>1, <3>2, <3>3 DEF Count
  <2> QED  BY <2>1, <2>3, <2>4, MoveKeeps
<1> QED  BY <1>1, <1>2, ElectionMoves

\* Store B shows these contents.
Shows(B, tr, tp, ts, hr, hp, l, s) ==
  /\ B \in Stores
  /\ \A a \in Agents : B[<<"req", a>>] = tr[a] /\ B[<<"resp", a>>] = tp[a] /\ B[<<"svc", a>>] = ts[a]
  /\ B[<<"heldReq", 0>>] = hr /\ B[<<"heldResp", 0>>] = hp
  /\ B[<<"log", 0>>] = l /\ B[<<"sent", 0>>] = s

\* The store of well-typed contents shows them.
LEMMA StoreType ==
  ASSUME NEW tr \in [Agents -> Seq(Msg)], NEW tp \in [Agents -> Seq(Msg)],
         NEW ts \in [Agents -> Seq(Msg)], NEW hr \in Seq(Msg), NEW hp \in Seq(Msg),
         NEW l \in Seq(Msg), NEW s \in Seq(Msg)
  PROVE  Shows(Store(tr, tp, ts, hr, hp, l, s), tr, tp, ts, hr, hp, l, s)
<1> DEFINE B == Store(tr, tp, ts, hr, hp, l, s)
<1>1. \A p \in Spots : \/ p[1] \in {"req", "resp", "svc"} /\ p[2] \in Agents
                       \/ p[1] \in {"heldReq", "heldResp", "log", "sent"} /\ p[2] = 0
  BY DEF Spots
<1>2. /\ \A a \in Agents : <<"req", a>> \in Spots /\ <<"resp", a>> \in Spots /\ <<"svc", a>> \in Spots
      /\ <<"heldReq", 0>> \in Spots /\ <<"heldResp", 0>> \in Spots
      /\ <<"log", 0>> \in Spots /\ <<"sent", 0>> \in Spots
  BY DEF Spots
<1>3. ASSUME NEW p \in Spots PROVE Store(tr, tp, ts, hr, hp, l, s)[p] \in Seq(Msg)
  BY <1>1 DEF Store
<1>4. B \in Stores
  BY <1>3 DEF Store, Stores
<1>5. \A a \in Agents : /\ B[<<"req", a>>] = tr[a] /\ B[<<"resp", a>>] = tp[a]
                        /\ B[<<"svc", a>>] = ts[a]
  BY <1>2 DEF Store
<1>6. /\ B[<<"heldReq", 0>>] = hr /\ B[<<"heldResp", 0>>] = hp
      /\ B[<<"log", 0>>] = l /\ B[<<"sent", 0>>] = s
  BY <1>2 DEF Store
<1> QED  BY <1>4, <1>5, <1>6 DEF Shows

\* Keeping is transitive.
LEMMA KeepsTwice ==
  ASSUME NEW B, NEW C, NEW D, Keeps(B, C), Keeps(C, D) PROVE Keeps(B, D)
  BY DEF Keeps

\* The request channel: election, and perhaps the broadcast of what is held.
LEMMA RequestKeeps ==
  ASSUME TypeOK, NEW tp \in [Agents -> Seq(Msg)], NEW ts \in [Agents -> Seq(Msg)],
         NEW hp \in Seq(Msg), NEW l \in Seq(Msg), NEW s \in Seq(Msg)
  PROVE  Keeps(Store(txReq, tp, ts, reqBus.held, hp, l, s),
               Store(requestBusStep.tx, tp, ts, requestBusStep.bus.held, hp, l \o requestBusStep.out, s))
<1> DEFINE e    == Election(reqBus, txReq, phase.req = 0)
           held == HeldAfter(reqBus, txReq, e)
           last == held # <<>> /\ reqBus.slot = ReqLatency - 1
           out  == IF last /\ canBroadcast(held[1]) THEN held ELSE <<>>
           slot == IF last THEN (IF out = <<>> THEN reqBus.slot ELSE 0)
                   ELSE IF held # <<>> THEN reqBus.slot + 1 ELSE 0
           rest == IF out = <<>> THEN held ELSE <<>>
           W    == WithoutElected(txReq, e)
           B    == Store(txReq, tp, ts, reqBus.held, hp, l, s)
           C    == Store(W, tp, ts, held, hp, l, s)
           D    == Store(W, tp, ts, rest, hp, l \o out, s)
<1>1. CASE responseBackpressured
  <2>1. requestBusStep = [bus |-> reqBus, tx |-> txReq, out |-> <<>>]
    BY <1>1 DEF requestBusStep
  <2>2. l \o <<>> = l
    BY ConcatEmptySeq
  <2>3. Keeps(B, B)
    BY DEF Keeps
  <2> HIDE DEF B
  <2>4. B = Store(requestBusStep.tx, tp, ts, requestBusStep.bus.held, hp, l \o requestBusStep.out, s)
    BY <2>1, <2>2 DEF B
  <2> QED  BY <2>3, <2>4 DEF B
<1>2. CASE ~responseBackpressured
  <2>1. requestBusStep = [tx |-> W, out |-> out, bus |-> [idx |-> e.idx, held |-> rest, slot |-> slot]]
    BY <1>2 DEF requestBusStep
  <2>2. reqBus \in BusState(ReqLatency) /\ Slot(reqBus.held) /\ txReq \in [Agents -> Seq(Msg)]
    BY DEF TypeOK, BusState, Slot
  <2>3. Slot(held) /\ W \in [Agents -> Seq(Msg)]
    BY <2>2, ElectionType, BusAssumption
  <2>4. held \in Seq(Msg) /\ out \in Seq(Msg) /\ rest \in Seq(Msg) /\ reqBus.held \in Seq(Msg)
    BY <2>2, <2>3 DEF Slot
  <2>5. \/ out = <<>> /\ rest = held
        \/ out = held /\ rest = <<>>
    OBVIOUS
  <2> DEFINE al == phase.req = 0
  <2>e. e = Election(reqBus, txReq, al) /\ al \in BOOLEAN
    OBVIOUS
  <2>h. held = HeldAfter(reqBus, txReq, e) /\ W = WithoutElected(txReq, e)
    OBVIOUS
  <2> HIDE DEF e, held, last, out, rest, slot, W, al
  <2>6. l \o out \in Seq(Msg)
    BY <2>4, ConcatProperties
  <2> DEFINE h == <<"heldReq", 0>>
             q == <<"log", 0>>
  <2>7. B \in Stores /\ B[h] = reqBus.held /\ \A a \in Agents : B[<<"req", a>>] = txReq[a]
    <3>1. Shows(B, txReq, tp, ts, reqBus.held, hp, l, s)
      BY <2>2, <2>4, StoreType
    <3> HIDE DEF B
    <3> QED  BY <3>1 DEF Shows
  <2>8. C \in Stores /\ C[h] = held /\ C[q] = l /\ \A a \in Agents : C[<<"req", a>>] = W[a]
    <3>1. Shows(C, W, tp, ts, held, hp, l, s)
      BY <2>3, <2>4, StoreType
    <3> HIDE DEF C
    <3> QED  BY <3>1 DEF Shows
  <2>9. D \in Stores /\ D[h] = rest /\ D[q] = l \o out
    <3>1. Shows(D, W, tp, ts, rest, hp, l \o out, s)
      BY <2>3, <2>4, <2>6, StoreType
    <3> HIDE DEF D
    <3> QED  BY <3>1 DEF Shows
  <2>10. /\ h \in Spots /\ q \in Spots /\ h # q
         /\ \A a \in Agents : <<"req", a>> \in Spots /\ <<"req", a>> # h
    BY DEF Spots
  <2>11. \A r \in Spots : r # h /\ (\A a \in Agents : r # <<"req", a>>) => C[r] = B[r]
    BY DEF Spots, Store
  <2>12. \A r \in Spots \ {h, q} : D[r] = C[r]
    BY DEF Spots, Store
  <2> HIDE DEF B, C, D, h, q
  <2>13. \A a \in Agents : B[<<"req", a>>] = txReq[a] /\ C[<<"req", a>>] = WithoutElected(txReq, e)[a]
    BY <2>7, <2>8, <2>h
  <2>14. Keeps(B, C)
    <3>1. Elects(B, C, "req", h, reqBus, txReq, e)
      BY <2>h, <2>7, <2>8, <2>10, <2>11, <2>13 DEF Elects
    <3> QED  BY <2>2, <2>e, <3>1, ElectKeeps
  <2>15. Keeps(C, D)
    BY <2>4, <2>5, <2>8, <2>9, <2>10, <2>12, DeliverKeeps
  <2>16. Keeps(B, D)
    BY <2>14, <2>15, KeepsTwice
  <2> QED  BY <2>1, <2>16 DEF B, D
<1> QED  BY <1>1, <1>2

\* The response channel: election, and perhaps the delivery of what is held.
LEMMA ResponseKeeps ==
  ASSUME TypeOK, NEW tr \in [Agents -> Seq(Msg)], NEW ts \in [Agents -> Seq(Msg)],
         NEW hr \in Seq(Msg), NEW l \in Seq(Msg), NEW s \in Seq(Msg)
  PROVE  Keeps(Store(tr, txResp, ts, hr, respBus.held, l, s),
               Store(tr, responseBusStep.tx, ts, hr, responseBusStep.bus.held, l, s \o responseBusStep.out))
<1> DEFINE al   == phase.resp = 0
           e    == Election(respBus, txResp, al)
           held == HeldAfter(respBus, txResp, e)
           last == held # <<>> /\ respBus.slot = RespLatency - 1
           out  == IF last THEN held ELSE <<>>
           slot == IF last \/ held = <<>> THEN 0 ELSE respBus.slot + 1
           rest == IF last THEN <<>> ELSE held
           W    == WithoutElected(txResp, e)
           B    == Store(tr, txResp, ts, hr, respBus.held, l, s)
           C    == Store(tr, W, ts, hr, held, l, s)
           D    == Store(tr, W, ts, hr, rest, l, s \o out)
           h    == <<"heldResp", 0>>
           q    == <<"sent", 0>>
<1>1. responseBusStep = [tx |-> W, out |-> out, bus |-> [idx |-> e.idx, held |-> rest, slot |-> slot]]
  BY DEF responseBusStep
<1>2. respBus \in BusState(RespLatency) /\ Slot(respBus.held) /\ txResp \in [Agents -> Seq(Msg)]
  BY DEF TypeOK, BusState, Slot
<1>3. Slot(held) /\ W \in [Agents -> Seq(Msg)]
  BY <1>2, ElectionType, BusAssumption
<1>4. held \in Seq(Msg) /\ out \in Seq(Msg) /\ rest \in Seq(Msg) /\ respBus.held \in Seq(Msg)
  BY <1>2, <1>3 DEF Slot
<1>5. \/ out = <<>> /\ rest = held
      \/ out = held /\ rest = <<>>
  OBVIOUS
<1>e. e = Election(respBus, txResp, al) /\ al \in BOOLEAN
  OBVIOUS
<1>h. held = HeldAfter(respBus, txResp, e) /\ W = WithoutElected(txResp, e)
  OBVIOUS
<1> HIDE DEF e, held, last, out, rest, slot, W, al
<1>6. s \o out \in Seq(Msg)
  BY <1>4, ConcatProperties
<1>7. B \in Stores /\ B[h] = respBus.held /\ \A a \in Agents : B[<<"resp", a>>] = txResp[a]
  <2>1. Shows(B, tr, txResp, ts, hr, respBus.held, l, s)
    BY <1>2, <1>4, StoreType
  <2> HIDE DEF B
  <2> QED  BY <2>1 DEF Shows
<1>8. C \in Stores /\ C[h] = held /\ C[q] = s /\ \A a \in Agents : C[<<"resp", a>>] = W[a]
  <2>1. Shows(C, tr, W, ts, hr, held, l, s)
    BY <1>3, <1>4, StoreType
  <2> HIDE DEF C
  <2> QED  BY <2>1 DEF Shows
<1>9. D \in Stores /\ D[h] = rest /\ D[q] = s \o out
  <2>1. Shows(D, tr, W, ts, hr, rest, l, s \o out)
    BY <1>3, <1>4, <1>6, StoreType
  <2> HIDE DEF D
  <2> QED  BY <2>1 DEF Shows
<1>10. /\ h \in Spots /\ q \in Spots /\ h # q
       /\ \A a \in Agents : <<"resp", a>> \in Spots /\ <<"resp", a>> # h
  BY DEF Spots
<1>11. \A r \in Spots : r # h /\ (\A a \in Agents : r # <<"resp", a>>) => C[r] = B[r]
  BY DEF Spots, Store
<1>12. \A r \in Spots \ {h, q} : D[r] = C[r]
  BY DEF Spots, Store
<1> HIDE DEF B, C, D, h, q
<1>13. Keeps(B, C)
  <2>1. Elects(B, C, "resp", h, respBus, txResp, e)
    BY <1>h, <1>7, <1>8, <1>10, <1>11 DEF Elects
  <2> QED  BY <1>2, <1>e, <2>1, ElectKeeps
<1>14. Keeps(C, D)
  BY <1>4, <1>5, <1>8, <1>9, <1>10, <1>12, DeliverKeeps
<1>15. Keeps(B, D)
  BY <1>13, <1>14, KeepsTwice
<1> QED  BY <1>1, <1>15 DEF B, D

\* The service channel: the head of one buffer is broadcast.
LEMMA ServiceKeeps ==
  ASSUME TypeOK, NEW tr \in [Agents -> Seq(Msg)], NEW tp \in [Agents -> Seq(Msg)],
         NEW hr \in Seq(Msg), NEW hp \in Seq(Msg), NEW l \in Seq(Msg), NEW s \in Seq(Msg)
  PROVE  Keeps(Store(tr, tp, txSvc, hr, hp, l, s),
               Store(tr, tp, serviceBusStep.tx, hr, hp, l \o serviceBusStep.out, s))
<1> DEFINE w   == CHOOSE a \in serviceSenders : TRUE
           out == IF serviceSenders = {} THEN <<>> ELSE <<Head(txSvc[w])>>
           tx  == [a \in Agents |-> IF a \in serviceSenders THEN Tail(txSvc[a]) ELSE txSvc[a]]
           B   == Store(tr, tp, txSvc, hr, hp, l, s)
           D   == Store(tr, tp, tx, hr, hp, l \o out, s)
           q   == <<"log", 0>>
<1>1. serviceBusStep = [out |-> out, tx |-> tx]
  BY DEF serviceBusStep
<1>2. out \in Seq(Msg) /\ tx \in [Agents -> Seq(Msg)] /\ txSvc \in [Agents -> Seq(Msg)]
  BY <1>1, ServiceStepType DEF Slot, TypeOK
<1>3. \A a \in serviceSenders : a \in Agents /\ txSvc[a] # <<>> /\ \A b \in serviceSenders : b = a
  <2>1. \A a, b \in serviceSenders : ~(a < b)
    BY BusAssumption DEF serviceSenders, Agents
  <2>2. \A a \in serviceSenders : a \in Agents /\ a \in Int /\ txSvc[a] # <<>>
    BY BusAssumption DEF serviceSenders, Agents
  <2> QED  BY <2>1, <2>2
<1>4. CASE serviceSenders = {}
  <2>1. out = <<>> /\ tx = txSvc
    BY <1>2, <1>4
  <2>2. l \o <<>> = l
    BY ConcatEmptySeq
  <2>3. Keeps(B, B)
    BY DEF Keeps
  <2> HIDE DEF out, tx
  <2> QED  BY <1>1, <2>1, <2>2, <2>3
<1>5. CASE serviceSenders # {}
  <2>1. PICK a \in serviceSenders : TRUE
    BY <1>5
  <2>2. w \in serviceSenders /\ w = a
    BY <1>3, <1>5, <2>1
  <2> HIDE DEF w
  <2>3. a \in Agents /\ txSvc[a] \in Seq(Msg) /\ txSvc[a] # <<>>
    BY <1>2, <1>3, <2>1
  <2>4. out = <<Head(txSvc[a])>> /\ tx[a] = Tail(txSvc[a])
        /\ \A b \in Agents : b # a => tx[b] = txSvc[b]
    BY <1>3, <1>5, <2>1, <2>2, <2>3
  <2> HIDE DEF out, tx
  <2>5. l \o out \in Seq(Msg)
    BY <1>2, ConcatProperties
  <2> DEFINE p == <<"svc", a>>
  <2>6. B \in Stores /\ B[q] = l /\ B[p] = txSvc[a]
    <3>1. Shows(B, tr, tp, txSvc, hr, hp, l, s)
      BY <1>2, StoreType
    <3> HIDE DEF B
    <3> QED  BY <2>3, <3>1 DEF Shows
  <2>7. D \in Stores /\ D[q] = l \o out /\ D[p] = tx[a]
    <3>1. Shows(D, tr, tp, tx, hr, hp, l \o out, s)
      BY <1>2, <2>5, StoreType
    <3> HIDE DEF D
    <3> QED  BY <2>3, <3>1 DEF Shows
  <2>8. p \in Spots /\ q \in Spots /\ p # q
    BY <2>3 DEF Spots
  <2>9. \A r \in Spots \ {p, q} : D[r] = B[r]
    BY <2>4 DEF Spots, Store
  <2> HIDE DEF B, D, p, q
  <2>10. ASSUME NEW id \in Nat
         PROVE  Count(D, p, id) + Count(D, q, id) = Count(B, p, id) + Count(B, q, id)
    <3>1. NOf(Tail(txSvc[a]), OfId(id)) = NOf(txSvc[a], OfId(id)) - (IF Head(txSvc[a]) \in OfId(id) THEN 1 ELSE 0)
      BY <2>3, CountTail
    <3>2. NOf(l \o out, OfId(id)) = NOf(l, OfId(id)) + NOf(out, OfId(id))
      BY <1>2, CountConcat
    <3>3. NOf(<<Head(txSvc[a])>>, OfId(id)) = (IF Head(txSvc[a]) \in OfId(id) THEN 1 ELSE 0)
      BY CountOne
    <3>4. NOf(txSvc[a], OfId(id)) \in Nat /\ NOf(l, OfId(id)) \in Nat
      BY <2>3, CountZero
    <3> QED  BY <2>4, <2>6, <2>7, <3>1, <3>2, <3>3, <3>4 DEF Count
  <2>11. Keeps(B, D)
    BY <2>6, <2>7, <2>8, <2>9, <2>10, MoveKeeps
  <2> QED  BY <1>1, <2>11 DEF B, D
<1> QED  BY <1>4, <1>5

LogMsgs(l) == [k \in DOMAIN l |-> l[k].m]

\* What is in the buffers, the slots and the deliveries.
Now == Store(txReq, txResp, txSvc, reqBus.held, respBus.held, LogMsgs(log), sent)

\* The n messages pushed so far are in one place each; the others are nowhere.
Numbered(B, n) == \A id \in Nat \ {0} : IF id <= n THEN Once(B, id) ELSE Nowhere(B, id)

\* The messages of a log are messages, one for each entry.
LEMMA LogMsgsType ==
  ASSUME NEW l \in Seq(Entry)
  PROVE  /\ LogMsgs(l) \in Seq(Msg) /\ Len(LogMsgs(l)) = Len(l)
         /\ \A k \in 1 .. Len(l) : LogMsgs(l)[k] = l[k].m
<1>1. DOMAIN l = 1 .. Len(l) /\ Len(l) \in Nat /\ \A k \in 1 .. Len(l) : l[k] \in Entry
  BY ElementOfSeq, LenProperties
<1>2. LogMsgs(l) = [k \in 1 .. Len(l) |-> l[k].m]
  BY <1>1 DEF LogMsgs
<1>3. \A k \in 1 .. Len(l) : l[k].m \in Msg
  BY <1>1 DEF Entry
<1> QED  BY <1>1, <1>2, <1>3

\* The positions of a concatenation.
LEMMA ConcatAt ==
  ASSUME NEW T, NEW s \in Seq(T), NEW t \in Seq(T)
  PROVE  /\ s \o t \in Seq(T) /\ Len(s \o t) = Len(s) + Len(t)
         /\ \A k \in 1 .. Len(s) : (s \o t)[k] = s[k]
         /\ \A i \in 1 .. Len(t) : (s \o t)[Len(s) + i] = t[i]
<1>1. s \o t \in Seq(T) /\ Len(s \o t) = Len(s) + Len(t)
  BY ConcatProperties
<1>2. /\ \A k \in 1 .. Len(s) : (s \o t)[k] = s[k]
      /\ \A i \in 1 .. Len(t) : (s \o t)[Len(s) + i] = t[i]
  BY ConcatProperties, LenProperties
<1> QED  BY <1>1, <1>2

\* The messages of a log extended by one delivery.
LEMMA LogConcat ==
  ASSUME NEW l \in Seq(Entry), NEW out \in Seq(Msg), NEW n \in Nat
  PROVE  LogMsgs(l) \in Seq(Msg) /\ LogMsgs(l \o Stamped(out, n)) = LogMsgs(l) \o out
<1>1. Stamped(out, n) \in Seq(Entry) /\ Len(Stamped(out, n)) = Len(out)
  BY StampedType
<1>2. /\ LogMsgs(l) \in Seq(Msg) /\ Len(LogMsgs(l)) = Len(l)
      /\ \A k \in 1 .. Len(l) : LogMsgs(l)[k] = l[k].m
  BY LogMsgsType
<1>3. \A i \in 1 .. Len(out) : Stamped(out, n)[i].m = out[i]
  BY DEF Stamped
<1> DEFINE t == Stamped(out, n)
           u == l \o t
           v == LogMsgs(l) \o out
<1> HIDE DEF t
<1>4. /\ u \in Seq(Entry) /\ Len(u) = Len(l) + Len(out)
      /\ \A k \in 1 .. Len(l) : u[k] = l[k]
      /\ \A i \in 1 .. Len(out) : u[Len(l) + i] = t[i]
  <2>1. PICK q \in Seq(Entry) : q = t /\ Len(q) = Len(out)
    BY <1>1 DEF t
  <2>2. /\ l \o q \in Seq(Entry) /\ Len(l \o q) = Len(l) + Len(q)
        /\ \A k \in 1 .. Len(l) : (l \o q)[k] = l[k]
        /\ \A i \in 1 .. Len(q) : (l \o q)[Len(l) + i] = q[i]
    BY ConcatAt
  <2> QED  BY <2>1, <2>2
<1>5. /\ v \in Seq(Msg) /\ Len(v) = Len(l) + Len(out)
      /\ \A k \in 1 .. Len(l) : v[k] = LogMsgs(l)[k]
      /\ \A i \in 1 .. Len(out) : v[Len(l) + i] = out[i]
  <2>1. PICK w \in Seq(Msg) : w = LogMsgs(l) /\ Len(w) = Len(l)
    BY <1>2
  <2>2. /\ w \o out \in Seq(Msg) /\ Len(w \o out) = Len(w) + Len(out)
        /\ \A k \in 1 .. Len(w) : (w \o out)[k] = w[k]
        /\ \A i \in 1 .. Len(out) : (w \o out)[Len(w) + i] = out[i]
    BY ConcatAt
  <2> QED  BY <2>1, <2>2
<1>6. /\ LogMsgs(u) \in Seq(Msg) /\ Len(LogMsgs(u)) = Len(u)
      /\ \A k \in 1 .. Len(u) : LogMsgs(u)[k] = u[k].m
  BY <1>4, LogMsgsType
<1> HIDE DEF u, v
<1>7. ASSUME NEW k \in 1 .. Len(v) PROVE LogMsgs(u)[k] = v[k]
  <2>1. Len(l) \in Nat /\ Len(out) \in Nat
    BY LenProperties
  <2>2. CASE k \in 1 .. Len(l)
    BY <1>2, <1>4, <1>5, <1>6, <2>2
  <2>3. CASE k \notin 1 .. Len(l)
    <3>1. k - Len(l) \in 1 .. Len(out) /\ Len(l) + (k - Len(l)) = k
      BY <1>5, <2>1, <2>3
    <3>2. v[k] = out[k - Len(l)] /\ u[k] = t[k - Len(l)]
      BY <1>4, <1>5, <3>1
    <3> QED  BY <1>3, <1>4, <1>5, <1>6, <3>1, <3>2 DEF t
  <2> QED  BY <2>2, <2>3
<1>8. LogMsgs(u) = v
  BY <1>4, <1>5, <1>6, <1>7
<1> QED  BY <1>2, <1>8 DEF u, v, t

\* A step that keeps messages keeps them numbered.
LEMMA KeepsNumbered ==
  ASSUME NEW B, NEW C, NEW n \in Nat, Keeps(B, C), Numbered(B, n) PROVE Numbered(C, n)
  BY DEF Keeps, Numbered

\* Appending the next message anywhere numbers one more.
LEMMA PushNumbered ==
  ASSUME NEW B \in Stores, NEW C \in Stores, NEW p \in Spots, NEW m \in Msg, NEW n \in Nat,
         Numbered(B, n), m.id = n + 1, C[p] = Append(B[p], m),
         \A r \in Spots \ {p} : C[r] = B[r]
  PROVE  Numbered(C, n + 1)
<1>0. B[p] \in Seq(Msg)
  BY DEF Stores
<1>1. ASSUME NEW id \in Nat
      PROVE  /\ Count(C, p, id) = Count(B, p, id) + (IF id = n + 1 THEN 1 ELSE 0)
             /\ Count(B, p, id) \in Nat
             /\ \A r \in Spots \ {p} : Count(C, r, id) = Count(B, r, id)
  <2>1. NOf(Append(B[p], m), OfId(id)) = NOf(B[p], OfId(id)) + (IF m \in OfId(id) THEN 1 ELSE 0)
    BY <1>0, CountAppend
  <2>2. m \in OfId(id) <=> id = n + 1
    BY DEF OfId
  <2>3. Count(B, p, id) \in Nat
    BY CountIsNat
  <2> QED  BY <2>1, <2>2, <2>3 DEF Count
<1>2. ASSUME NEW id \in Nat \ {0}, id <= n PROVE Once(C, id)
  <2>1. Once(B, id) /\ id # n + 1 /\ id \in Nat
    BY <1>2 DEF Numbered
  <2>2. \A r \in Spots : Count(C, r, id) = Count(B, r, id)
    BY <1>1, <2>1
  <2> QED  BY <2>1, <2>2 DEF Once
<1>3. ASSUME NEW id \in Nat \ {0}, id > n PROVE Nowhere(B, id)
  BY <1>3 DEF Numbered
<1>4. Once(C, n + 1)
  <2>1. Nowhere(B, n + 1) /\ n + 1 \in Nat
    BY <1>3
  <2> HIDE DEF Numbered
  <2>2. Count(C, p, n + 1) = 1 /\ \A r \in Spots \ {p} : Count(C, r, n + 1) = 0
    BY <1>1, <2>1 DEF Nowhere
  <2> QED  BY <2>2 DEF Once
<1>5. ASSUME NEW id \in Nat \ {0}, id > n + 1 PROVE Nowhere(C, id)
  <2>1. Nowhere(B, id) /\ id # n + 1 /\ id \in Nat
    BY <1>3, <1>5
  <2>2. \A r \in Spots : Count(C, r, id) = Count(B, r, id)
    BY <1>1, <2>1
  <2> QED  BY <2>1, <2>2 DEF Nowhere
<1>6. ASSUME NEW id \in Nat \ {0} PROVE IF id <= n + 1 THEN Once(C, id) ELSE Nowhere(C, id)
  <2>1. id <= n \/ id = n + 1 \/ id > n + 1
    OBVIOUS
  <2> QED  BY <1>2, <1>4, <1>5, <2>1
<1> QED  BY <1>6 DEF Numbered

\* In a well-typed state the store shows the variables.
LEMMA NowShows ==
  TypeOK => Shows(Now, txReq, txResp, txSvc, reqBus.held, respBus.held, LogMsgs(log), sent)
<1> SUFFICES ASSUME TypeOK
             PROVE  Shows(Now, txReq, txResp, txSvc, reqBus.held, respBus.held, LogMsgs(log), sent)
  OBVIOUS
<1>1. /\ txReq \in [Agents -> Seq(Msg)] /\ txResp \in [Agents -> Seq(Msg)]
      /\ txSvc \in [Agents -> Seq(Msg)] /\ sent \in Seq(Msg) /\ log \in Seq(Entry)
      /\ reqBus.held \in Seq(Msg) /\ respBus.held \in Seq(Msg)
  BY DEF TypeOK, BusState
<1>2. LogMsgs(log) \in Seq(Msg)
  BY <1>1, LogMsgsType
<1> QED  BY <1>1, <1>2, StoreType DEF Now

\* A message that is in one place, once, is one spot of Places.
LEMMA OncePlaced ==
  ASSUME TypeOK, NEW id \in Nat, Once(Now, id)
  PROVE  Cardinality(Places(id)) = 1
<1> DEFINE B == Now
           Spot == [p \in Spots |-> {<<p, k>> : k \in Positions(B[p], OfId(id))}]
<1>0. Shows(B, txReq, txResp, txSvc, reqBus.held, respBus.held, LogMsgs(log), sent)
  BY NowShows
<1>1. PICK p \in Spots : Count(B, p, id) = 1 /\ \A q \in Spots \ {p} : Count(B, q, id) = 0
  BY DEF Once
<1> HIDE DEF B
<1>2. \A q \in Spots : B[q] \in Seq(Msg)
  BY <1>0 DEF Shows, Stores
<1>3. ASSUME NEW q \in Spots PROVE At(q, B[q], id) = Spot[q]
  <2>1. \A k \in DOMAIN B[q] : B[q][k] \in Msg
    BY <1>2, <1>3
  <2>2. {k \in DOMAIN B[q] : B[q][k].id = id} = Positions(B[q], OfId(id))
    BY <2>1 DEF Positions, OfId
  <2> QED  BY <2>2 DEF At
<1>4. \A q \in Spots \ {p} : Spot[q] = {}
  <2>1. ASSUME NEW q \in Spots \ {p} PROVE Positions(B[q], OfId(id)) = {}
    <3>1. NOf(B[q], OfId(id)) = 0
      BY <1>1 DEF Count
    <3>2. \A i \in DOMAIN B[q] : B[q][i] \notin OfId(id)
      BY <1>2, <3>1, CountZero
    <3> QED  BY <3>2 DEF Positions
  <2> QED  BY <2>1
<1>5. \E x : Spot[p] = {x}
  <2>1. IsFiniteSet(Positions(B[p], OfId(id))) /\ Cardinality(Positions(B[p], OfId(id))) = 1
    BY <1>1, <1>2, PositionsFinite DEF Count, NOf
  <2>2. PICK k : Positions(B[p], OfId(id)) = {k}
    BY <2>1, FS_Singleton
  <2>3. Spot[p] = {<<p, k>>}
    BY <2>2
  <2> QED  BY <2>3
<1>6. Places(id) = Spot[p]
  <2>1. /\ \A a \in Agents : /\ At(<<"req", a>>, txReq[a], id) = Spot[<<"req", a>>]
                             /\ At(<<"resp", a>>, txResp[a], id) = Spot[<<"resp", a>>]
                             /\ At(<<"svc", a>>, txSvc[a], id) = Spot[<<"svc", a>>]
                             /\ <<"req", a>> \in Spots /\ <<"resp", a>> \in Spots /\ <<"svc", a>> \in Spots
        /\ At(<<"heldReq", 0>>, reqBus.held, id) = Spot[<<"heldReq", 0>>]
        /\ At(<<"heldResp", 0>>, respBus.held, id) = Spot[<<"heldResp", 0>>]
        /\ At(<<"log", 0>>, LogMsgs(log), id) = Spot[<<"log", 0>>]
        /\ At(<<"sent", 0>>, sent, id) = Spot[<<"sent", 0>>]
        /\ <<"heldReq", 0>> \in Spots /\ <<"heldResp", 0>> \in Spots
        /\ <<"log", 0>> \in Spots /\ <<"sent", 0>> \in Spots
    <3>1. /\ \A a \in Agents : <<"req", a>> \in Spots /\ <<"resp", a>> \in Spots /\ <<"svc", a>> \in Spots
          /\ <<"heldReq", 0>> \in Spots /\ <<"heldResp", 0>> \in Spots
          /\ <<"log", 0>> \in Spots /\ <<"sent", 0>> \in Spots
      BY DEF Spots
    <3> HIDE DEF Spot
    <3> QED  BY <1>0, <1>3, <3>1 DEF Shows
  <2> HIDE DEF Spot
  <2>2. ASSUME NEW x
        PROVE  x \in Places(id) <=>
                 \/ \E a \in Agents : \/ x \in At(<<"req", a>>, txReq[a], id)
                                      \/ x \in At(<<"resp", a>>, txResp[a], id)
                                      \/ x \in At(<<"svc", a>>, txSvc[a], id)
                 \/ x \in At(<<"heldReq", 0>>, reqBus.held, id)
                 \/ x \in At(<<"heldResp", 0>>, respBus.held, id)
                 \/ x \in At(<<"log", 0>>, LogMsgs(log), id)
                 \/ x \in At(<<"sent", 0>>, sent, id)
    <3> DEFINE G(a) == At(<<"req", a>>, txReq[a], id) \cup At(<<"resp", a>>, txResp[a], id)
                         \cup At(<<"svc", a>>, txSvc[a], id)
    <3>1. PICK U : U = UNION {G(a) : a \in Agents}
      OBVIOUS
    <3>2. x \in U <=> \E a \in Agents : x \in G(a)
      BY <3>1
    <3>3. Places(id) = U
            \cup At(<<"heldReq", 0>>, reqBus.held, id) \cup At(<<"heldResp", 0>>, respBus.held, id)
            \cup At(<<"log", 0>>, LogMsgs(log), id) \cup At(<<"sent", 0>>, sent, id)
      BY <3>1, Zenon DEF Places, LogMsgs
    <3>4. \A a \in Agents : x \in G(a) <=> \/ x \in At(<<"req", a>>, txReq[a], id)
                                           \/ x \in At(<<"resp", a>>, txResp[a], id)
                                           \/ x \in At(<<"svc", a>>, txSvc[a], id)
      BY Zenon
    <3> HIDE DEF G
    <3>5. x \in Places(id) <=>
            \/ x \in U
            \/ x \in At(<<"heldReq", 0>>, reqBus.held, id) \/ x \in At(<<"heldResp", 0>>, respBus.held, id)
            \/ x \in At(<<"log", 0>>, LogMsgs(log), id) \/ x \in At(<<"sent", 0>>, sent, id)
      BY <3>3
    <3> QED  BY <3>2, <3>4, <3>5
  <2>3. ASSUME NEW x
        PROVE  x \in Places(id) <=> \E q \in Spots : x \in Spot[q]
    <3>1. \A q \in Spots : \/ \E a \in Agents : q = <<"req", a>> \/ q = <<"resp", a>> \/ q = <<"svc", a>>
                           \/ q = <<"heldReq", 0>> \/ q = <<"heldResp", 0>>
                           \/ q = <<"log", 0>> \/ q = <<"sent", 0>>
      BY DEF Spots
    <3>2. ASSUME x \in Places(id) PROVE \E q \in Spots : x \in Spot[q]
      BY <2>1, <2>2, <3>2, Zenon
    <3>3. ASSUME NEW q \in Spots, x \in Spot[q] PROVE x \in Places(id)
      <4>1. CASE \E a \in Agents : q = <<"req", a>> \/ q = <<"resp", a>> \/ q = <<"svc", a>>
        BY <2>1, <2>2, <3>3, <4>1
      <4>2. CASE \/ q = <<"heldReq", 0>> \/ q = <<"heldResp", 0>>
                 \/ q = <<"log", 0>> \/ q = <<"sent", 0>>
        BY <2>1, <2>2, <3>3, <4>2
      <4> QED  BY <3>1, <4>1, <4>2
    <3> QED  BY <3>2, <3>3
  <2>4. ASSUME NEW x PROVE x \in Places(id) <=> x \in Spot[p]
    <3>1. p \in Spots /\ \A q \in Spots : q # p => Spot[q] = {}
      BY <1>1, <1>4
    <3>2. (\E q \in Spots : x \in Spot[q]) <=> x \in Spot[p]
      BY <3>1
    <3> QED  BY <2>3, <3>2, Zenon
  <2> QED  BY <2>4
<1> HIDE DEF Spot
<1> QED  BY <1>5, <1>6, FS_Singleton

\* A bus cycle moves messages along the channels and nothing else.
LEMMA BusKeeps == ASSUME TypeOK, TypeOK', busStep PROVE Keeps(Now, Now')
<1>1. PICK out, inv, data \in Seq(Msg), n \in Nat :
        /\ log' = log \o Stamped(out, rxSeq) \o Stamped(inv, n)
        /\ sent' = sent \o data
        /\ out = requestBusStep.out /\ inv = serviceBusStep.out /\ data = responseBusStep.out
  BY BusStepFacts
<1> DEFINE req == requestBusStep
           rsp == responseBusStep
           svc == serviceBusStep
           L0 == LogMsgs(log)
           L1 == L0 \o out
           L2 == L1 \o inv
           S1 == sent \o data
           B0 == Store(txReq, txResp, txSvc, reqBus.held, respBus.held, L0, sent)
           B1 == Store(req.tx, txResp, txSvc, req.bus.held, respBus.held, L1, sent)
           B2 == Store(req.tx, rsp.tx, txSvc, req.bus.held, rsp.bus.held, L1, S1)
           B3 == Store(req.tx, rsp.tx, svc.tx, req.bus.held, rsp.bus.held, L2, S1)
<1>2. /\ txReq' = req.tx /\ reqBus' = req.bus /\ txResp' = rsp.tx /\ respBus' = rsp.bus /\ txSvc' = svc.tx
  BY DEF busStep
<1>3. /\ req.tx \in [Agents -> Seq(Msg)] /\ rsp.tx \in [Agents -> Seq(Msg)] /\ svc.tx \in [Agents -> Seq(Msg)]
      /\ req.bus.held \in Seq(Msg) /\ rsp.bus.held \in Seq(Msg)
      /\ txResp \in [Agents -> Seq(Msg)] /\ txSvc \in [Agents -> Seq(Msg)]
      /\ respBus.held \in Seq(Msg) /\ log \in Seq(Entry) /\ sent \in Seq(Msg) /\ rxSeq \in Nat
  BY RequestStepType, ResponseStepType, ServiceStepType DEF Slot, TypeOK, BusState
<1> HIDE DEF req, rsp, svc
<1>4. L0 \in Seq(Msg) /\ LogMsgs(log \o Stamped(out, rxSeq)) = L1
  BY <1>1, <1>3, LogConcat
<1>5. L1 \in Seq(Msg) /\ S1 \in Seq(Msg)
  <2> HIDE DEF L0
  <2> QED  BY <1>1, <1>3, <1>4, ConcatProperties
<1>6. LogMsgs(log') = L2
  <2> DEFINE l1 == log \o Stamped(out, rxSeq)
  <2>1. l1 \in Seq(Entry)
    BY <1>1, <1>3, StampedType, ConcatProperties
  <2>2. LogMsgs(l1) = L1 /\ log' = l1 \o Stamped(inv, n)
    BY <1>1, <1>4
  <2> HIDE DEF l1, L1
  <2>3. LogMsgs(l1 \o Stamped(inv, n)) = LogMsgs(l1) \o inv
    BY <1>1, <2>1, LogConcat
  <2> QED  BY <2>2, <2>3
<1>7. Now = B0 /\ Now' = B3
  <2>1. sent' = S1
    BY <1>1
  <2> HIDE DEF L2, S1
  <2> QED  BY <1>2, <1>6, <2>1 DEF Now
<1> HIDE DEF L0
<1>8. Keeps(B0, B1)
  <2>1. \A tp, ts \in [Agents -> Seq(Msg)], hp, l, s \in Seq(Msg) :
          Keeps(Store(txReq, tp, ts, reqBus.held, hp, l, s),
                Store(req.tx, tp, ts, req.bus.held, hp, l \o out, s))
    BY <1>1, RequestKeeps DEF req
  <2> QED  BY <1>3, <1>4, <2>1
<1> HIDE DEF L1
<1>9. Keeps(B1, B2)
  <2>1. \A tr, ts \in [Agents -> Seq(Msg)], hr, l, s \in Seq(Msg) :
          Keeps(Store(tr, txResp, ts, hr, respBus.held, l, s),
                Store(tr, rsp.tx, ts, hr, rsp.bus.held, l, s \o data))
    BY <1>1, ResponseKeeps DEF rsp
  <2> QED  BY <1>3, <1>5, <2>1
<1> HIDE DEF S1
<1>10. Keeps(B2, B3)
  <2>1. \A tr, tp \in [Agents -> Seq(Msg)], hr, hp, l, s \in Seq(Msg) :
          Keeps(Store(tr, tp, txSvc, hr, hp, l, s), Store(tr, tp, svc.tx, hr, hp, l \o inv, s))
    BY <1>1, ServiceKeeps DEF svc
  <2> QED  BY <1>3, <1>5, <2>1
<1> HIDE DEF B0, B1, B2, B3
<1>11. Keeps(B0, B3)
  BY <1>8, <1>9, <1>10, KeepsTwice
<1> QED  BY <1>7, <1>11

\* Each message pushed is queued, held in a slot or delivered, and in one place only:
\* no arbiter, slot or delivery of the three bus steps drops or repeats one.
THEOREM NothingLost == Spec => []NoLossNoDuplicate
<1> DEFINE Inv == Numbered(Now, pushed)
<1>1. Init => Inv
  <2> SUFFICES ASSUME Init PROVE Numbered(Now, 0) /\ pushed = 0
    OBVIOUS
  <2>1. \A p \in Spots : Now[p] = <<>>
    BY DEF Init, Empty, Idle, Now, Store, Spots, LogMsgs
  <2>2. \A id : Nowhere(Now, id)
    BY <2>1, CountNone DEF Nowhere, Count
  <2> QED  BY <2>2 DEF Numbered, Init
<1>2. TypeOK /\ TypeOK' /\ Inv /\ [Next]_vars => Inv'
  <2> SUFFICES ASSUME TypeOK, TypeOK', Inv, [Next]_vars PROVE Inv'
    OBVIOUS
  <2>t. pushed \in Nat
    BY DEF TypeOK
  <2>s. /\ Shows(Now, txReq, txResp, txSvc, reqBus.held, respBus.held, LogMsgs(log), sent)
        /\ Shows(Now', txReq', txResp', txSvc', reqBus'.held, respBus'.held, LogMsgs(log'), sent')
    <3>1. Shows(Now, txReq, txResp, txSvc, reqBus.held, respBus.held, LogMsgs(log), sent)
      BY NowShows
    <3>2. Shows(Now', txReq', txResp', txSvc', reqBus'.held, respBus'.held, LogMsgs(log'), sent')
      <4>1. /\ txReq' \in [Agents -> Seq(Msg)] /\ txResp' \in [Agents -> Seq(Msg)]
            /\ txSvc' \in [Agents -> Seq(Msg)] /\ sent' \in Seq(Msg) /\ log' \in Seq(Entry)
            /\ reqBus'.held \in Seq(Msg) /\ respBus'.held \in Seq(Msg)
        BY DEF TypeOK, BusState
      <4>2. LogMsgs(log') \in Seq(Msg)
        BY <4>1, LogMsgsType
      <4> QED  BY <4>1, <4>2, StoreType DEF Now
    <3> QED  BY <3>1, <3>2
  <2> DEFINE quiet == UNCHANGED <<txReq, txResp, txSvc, reqBus, respBus, log, sent, pushed>>
  <2>0. ASSUME quiet PROVE Inv'
    BY <2>0 DEF Now
  <2> HIDE DEF quiet, Inv
  <2>p. ASSUME NEW p \in Spots, NEW m \in Msg, m.id = pushed + 1, pushed' = pushed + 1,
               Now'[p] = Append(Now[p], m), \A r \in Spots \ {p} : Now'[r] = Now[r]
        PROVE  Inv'
    <3>1. Now \in Stores /\ Now' \in Stores
      BY <2>s DEF Shows
    <3>2. Numbered(Now', pushed + 1)
      BY <2>p, <2>t, <3>1, PushNumbered DEF Inv
    <3> QED  BY <2>p, <3>2 DEF Inv
  <2>1. ASSUME NEW a \in Agents, NEW k \in ReqKinds, PushRequest(a, k)
        PROVE  Inv'
    <3> DEFINE m == New(k, a, {LLC})
               p == <<"req", a>>
    <3>1. m \in Msg /\ m.id = pushed + 1
      BY BusAssumption DEF New, Msg, TypeOK, LLC, Agents
    <3>2. p \in Spots
      BY DEF Spots
    <3>3. txReq' = [txReq EXCEPT ![a] = Append(@, m)] /\ pushed' = pushed + 1
          /\ UNCHANGED <<txResp, txSvc, reqBus, respBus, log, sent>>
      BY <2>1 DEF PushRequest, busVars
    <3>4. txReq'[a] = Append(txReq[a], m) /\ \A b \in Agents : b # a => txReq'[b] = txReq[b]
      BY <3>3 DEF TypeOK
    <3> HIDE DEF m
    <3>5. Now'[p] = Append(Now[p], m)
      BY <2>s, <3>4 DEF Shows
    <3>6. \A r \in Spots \ {p} : Now'[r] = Now[r]
      BY <3>3, <3>4 DEF Now, Store, Spots
    <3> HIDE DEF p
    <3> QED  BY <2>p, <3>1, <3>2, <3>3, <3>5, <3>6
  <2>2. ASSUME NEW a \in Agents, NEW o \in Agents, NEW both \in BOOLEAN, PushResponse(a, o, both)
        PROVE  Inv'
    <3> DEFINE m == New("Data", o, IF both THEN {LLC, o} ELSE {o})
               p == <<"resp", a>>
    <3>1. m \in Msg /\ m.id = pushed + 1
      BY BusAssumption DEF New, Msg, TypeOK, LLC, Agents
    <3>2. p \in Spots
      BY DEF Spots
    <3>3. txResp' = [txResp EXCEPT ![a] = Append(@, m)] /\ pushed' = pushed + 1
          /\ UNCHANGED <<txReq, txSvc, reqBus, respBus, log, sent>>
      BY <2>2 DEF PushResponse, busVars
    <3> HIDE DEF m
    <3>4. txResp'[a] = Append(txResp[a], m) /\ \A b \in Agents : b # a => txResp'[b] = txResp[b]
      BY <3>3 DEF TypeOK
    <3>5. Now'[p] = Append(Now[p], m)
      BY <2>s, <3>4 DEF Shows
    <3>6. \A r \in Spots \ {p} : Now'[r] = Now[r]
      BY <3>3, <3>4 DEF Now, Store, Spots
    <3> HIDE DEF p
    <3> QED  BY <2>p, <3>1, <3>2, <3>3, <3>5, <3>6
  <2>3. CASE PushService
    <3> DEFINE m == New("INV", LLC, {LLC})
               p == <<"svc", LLC>>
    <3>1. m \in Msg /\ m.id = pushed + 1 /\ LLC \in Agents
      BY BusAssumption DEF New, Msg, TypeOK, LLC, Agents
    <3>2. p \in Spots
      BY <3>1 DEF Spots
    <3>3. txSvc' = [txSvc EXCEPT ![LLC] = Append(@, m)] /\ pushed' = pushed + 1
          /\ UNCHANGED <<txReq, txResp, reqBus, respBus, log, sent>>
      BY <2>3 DEF PushService, busVars
    <3> HIDE DEF m
    <3>4. txSvc'[LLC] = Append(txSvc[LLC], m) /\ \A b \in Agents : b # LLC => txSvc'[b] = txSvc[b]
      BY <3>1, <3>3 DEF TypeOK
    <3>5. Now'[p] = Append(Now[p], m)
      BY <2>s, <3>1, <3>4 DEF Shows
    <3>6. \A r \in Spots \ {p} : Now'[r] = Now[r]
      BY <3>3, <3>4 DEF Now, Store, Spots
    <3> HIDE DEF p
    <3> QED  BY <2>p, <3>1, <3>2, <3>3, <3>5, <3>6
  <2>4. ASSUME NEW a \in Agents, Intake(a)
        PROVE  Inv'
    BY <2>0, <2>4 DEF quiet, Intake, txVars, busVars
  <2>5. CASE RefuseDemand
    BY <2>0, <2>5 DEF quiet, RefuseDemand, txVars, busVars
  <2>6. CASE busStep
    <3>1. Keeps(Now, Now') /\ pushed' = pushed
      BY <2>6, BusKeeps DEF busStep
    <3> QED  BY <2>t, <3>1, KeepsNumbered DEF Inv
  <2>7. CASE UNCHANGED vars
    BY <2>0, <2>7 DEF quiet, vars
  <2> QED  BY <2>1, <2>2, <2>3, <2>4, <2>5, <2>6, <2>7 DEF Next
<1>3. TypeOK /\ Inv => NoLossNoDuplicate
  <2> SUFFICES ASSUME TypeOK, Inv, NEW id \in 1 .. pushed PROVE Cardinality(Places(id)) = 1
    BY DEF NoLossNoDuplicate
  <2>1. id \in Nat \ {0} /\ id <= pushed
    BY DEF TypeOK
  <2>2. Once(Now, id)
    BY <2>1 DEF Numbered
  <2> QED  BY <2>1, <2>2, OncePlaced
<1> QED  BY <1>1, <1>2, <1>3, BusTyped, PTL DEF Spec
=============================================================================
