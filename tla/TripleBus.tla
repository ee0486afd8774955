----------------------------- MODULE TripleBus ------------------------------
(***************************************************************************)
(* The snooping interconnect: the interfaces of the agents                 *)
(* (BusInterface, TripleBusInterface), the split-transaction controller    *)
(* (SplitBusController) and the service channel (TripleBusController).     *)
(*                                                                         *)
(* Agents are numbered 1 .. N in m_interfaces order: the LLC first, then   *)
(* the L1s.  The controllers that own the interfaces are the environment:  *)
(* they push into the TX buffers and take from the RX buffers.             *)
(***************************************************************************)
EXTENDS Integers, Sequences, FiniteSets, Arbiters

CONSTANTS
  N,           \* number of interfaces on the bus
  BufMax,      \* buffers_max_size
  Reserve,     \* response_reserve
  ReqLatency,  \* m_request_latency
  RespLatency, \* m_response_latency
  Arbiter,     \* arbiter_type
  MaxMsgs,     \* bound: messages the agents push in a behaviour
  MaxCycle     \* bound: cycle stamps distinguished among queued messages

ASSUME BusAssumption ==
  /\ N \in Nat \ {0}
  /\ BufMax \in Nat \ {0}
  /\ Reserve \in Nat
  /\ ReqLatency \in Nat \ {0}
  /\ RespLatency \in Nat \ {0}
  /\ Arbiter \in Kinds
  /\ MaxMsgs \in Nat
  /\ MaxCycle \in Nat

Agents == 1 .. N
LLC == 1
Cand == [k \in Agents |-> k]          \* m_arbiter_candidate_ids: every interface id

VARIABLES
  txReq, txResp, txSvc,   \* m_tx_request/response/service_buffer, per agent
  rxReq, rxResp, rxSvc,   \* the RX buffers; request and service entries carry their
                          \* delivery number (m_rx_request_seq, m_rx_service_seq)
  selector,               \* m_buffer_selector: 0 request, 1 response, -1 none
  reqBus, respBus,        \* slot counter, held message (<<>> or <<m>>), candidate_index
  cycle,                  \* cycle stamp of the agents, saturating at MaxCycle
  phase,                  \* bus cycle modulo each latency; only TDM looks at it
  rxSeq,                  \* s_rx_delivery_seq
  pushed,                 \* history: number of messages pushed so far
  log,                    \* history: requests and invalidations in broadcast order, numbered
  seen,                   \* history: those each agent has taken, in its order
  sent                    \* history: data responses in delivery order

ifVars  == <<rxReq, rxResp, rxSvc, selector>>
txVars  == <<txReq, txResp, txSvc>>
busVars == <<reqBus, respBus, cycle, phase, rxSeq, log, sent>>
vars    == <<txReq, txResp, txSvc, rxReq, rxResp, rxSvc, selector,
             reqBus, respBus, cycle, phase, rxSeq, pushed, log, seen, sent>>

ReqKinds == {"Demand", "PutM"}        \* Demand: GetS/GetM, no data
Msg == [id : Nat, kind : ReqKinds \cup {"INV", "Data"}, owner : Agents,
        to : SUBSET Agents, cycle : Nat]

isDemandRequest(m) == m.kind = "Demand"

Idle == [slot |-> 0, held |-> <<>>, idx |-> 0]
Empty == [a \in Agents |-> <<>>]

Init ==
  /\ txReq = Empty /\ txResp = Empty /\ txSvc = Empty
  /\ rxReq = Empty /\ rxResp = Empty /\ rxSvc = Empty
  /\ selector = [a \in Agents |-> -1]
  /\ reqBus = Idle /\ respBus = Idle
  /\ cycle = 0
  /\ phase = [req |-> 0, resp |-> 0]
  /\ rxSeq = 0
  /\ pushed = 0
  /\ log = <<>> /\ sent = <<>>
  /\ seen = Empty

-----------------------------------------------------------------------------
(* Agents: pushMessage, peekMessage and popFrontMessage.                    *)

New(kind, owner, to) ==
  [id |-> pushed + 1, kind |-> kind, owner |-> owner, to |-> to, cycle |-> cycle]

PushRequest(a, kind) ==
  /\ pushed < MaxMsgs
  /\ a # LLC
  /\ Len(txReq[a]) < BufMax
  /\ txReq' = [txReq EXCEPT ![a] = Append(@, New(kind, a, {LLC}))]
  /\ pushed' = pushed + 1
  /\ UNCHANGED <<txResp, txSvc, ifVars, busVars, seen>>

\* A data response: to the requester alone, or also to the LLC (Data2Both).
PushResponse(a, owner, both) ==
  /\ pushed < MaxMsgs
  /\ a # owner /\ (both => owner # LLC)
  /\ Len(txResp[a]) < BufMax
  /\ txResp' = [txResp EXCEPT ![a] =
                  Append(@, New("Data", owner, IF both THEN {LLC, owner} ELSE {owner}))]
  /\ pushed' = pushed + 1
  /\ UNCHANGED <<txReq, txSvc, ifVars, busVars, seen>>

PushService ==
  /\ pushed < MaxMsgs
  /\ Len(txSvc[LLC]) < BufMax
  /\ txSvc' = [txSvc EXCEPT ![LLC] = Append(@, New("INV", LLC, {LLC}))]
  /\ pushed' = pushed + 1
  /\ UNCHANGED <<txReq, txResp, ifVars, busVars, seen>>

\* Mutant of ServiceFirst: the service channel has unconditional priority.
ServiceAlwaysFirst(a) == rxSvc[a] # <<>>

\* TripleBusInterface::peekMessage: the service head goes first only when the bus
\* delivered it before the request head.
ServiceFirst(a) ==
  rxSvc[a] # <<>> /\ (rxReq[a] = <<>> \/ Head(rxSvc[a]).seq < Head(rxReq[a]).seq)

\* BusInterface::peekMessage: alternate between requests and responses.
RequestFirst(a) ==
  rxReq[a] # <<>> /\ (selector[a] # 0 \/ rxResp[a] = <<>>)

PeekChoice(a) ==
  IF ServiceFirst(a) THEN "service"
  ELSE IF RequestFirst(a) THEN "request"
  ELSE IF rxResp[a] # <<>> THEN "response" ELSE "none"

\* The selector after a peek; a service message leaves it alone.
SelectorAfter(a, choice) ==
  CASE choice = "request"  -> 0
    [] choice = "response" -> 1
    [] choice = "none"     -> -1
    [] OTHER               -> selector[a]

\* One intake: peek, accept, pop.
Intake(a) ==
  LET choice == PeekChoice(a) IN
  /\ choice # "none" \/ selector[a] # -1
  /\ selector' = [selector EXCEPT ![a] = SelectorAfter(a, choice)]
  /\ rxSvc'  = IF choice = "service"  THEN [rxSvc EXCEPT ![a] = Tail(@)]  ELSE rxSvc
  /\ rxReq'  = IF choice = "request"  THEN [rxReq EXCEPT ![a] = Tail(@)]  ELSE rxReq
  /\ rxResp' = IF choice = "response" THEN [rxResp EXCEPT ![a] = Tail(@)] ELSE rxResp
  /\ seen' = CASE choice = "service" -> [seen EXCEPT ![a] = Append(@, Head(rxSvc[a]).m)]
               [] choice = "request" -> [seen EXCEPT ![a] = Append(@, Head(rxReq[a]).m)]
               [] OTHER              -> seen
  /\ UNCHANGED <<txVars, busVars, pushed>>

\* The LLC's processing queue is full: a demand request is peeked and left in place.
RefuseDemand ==
  /\ PeekChoice(LLC) = "request"
  /\ isDemandRequest(Head(rxReq[LLC]).m)
  /\ selector' = [selector EXCEPT ![LLC] = 0]
  /\ UNCHANGED <<txVars, rxReq, rxResp, rxSvc, busVars, pushed, seen>>

-----------------------------------------------------------------------------
(* The bus: one clock cycle is busStep.                                     *)

\* Mutant of responseBackpressured: one slot too cautious.
BackpressuredOneEarly == \E a \in Agents : BufMax - Len(txResp[a]) <= Reserve + 1

responseBackpressured == \E a \in Agents : BufMax - Len(txResp[a]) <= Reserve

\* What slot 0 elects when nothing is held.
Election(bus, tx, aligned) ==
  IF bus.slot = 0 /\ bus.held = <<>>
  THEN elect(Arbiter, tx, Cand, bus.idx, aligned)
  ELSE [grant |-> {}, idx |-> bus.idx]

\* The held message once the election is done.
HeldAfter(bus, tx, e) ==
  IF e.grant = {} THEN bus.held
  ELSE LET g == CHOOSE p \in e.grant : TRUE IN <<tx[g[1]][g[2]]>>

erase(s, k) == [j \in 1 .. (Len(s) - 1) |-> IF j < k THEN s[j] ELSE s[j + 1]]

\* Mutant of WithoutElected: the elected message also stays in its buffer.
ElectedLeftBehind(tx, e) == [a \in Agents |-> tx[a]]

\* The arbiter removes the elected message from its buffer.
WithoutElected(tx, e) ==
  [a \in Agents |-> IF \E p \in e.grant : p[1] = a
                    THEN erase(tx[a], (CHOOSE p \in e.grant : p[1] = a)[2])
                    ELSE tx[a]]

\* The request buffer of an interface has room.
canAcceptRX(a) == Len(rxReq[a]) < BufMax

\* Mutant of canBroadcast: only the LLC's buffer is looked at.
canBroadcastToLLC(m) == isDemandRequest(m) => canAcceptRX(LLC)

\* BusController::broadcast accepts a demand only if every receiver has room.
canBroadcast(m) == isDemandRequest(m) => \A a \in Agents : canAcceptRX(a)

\* requestBusStep as a function: the new bus record, the TX buffers, and what is
\* broadcast this cycle (<<>> or one message).
requestBusStep ==
  LET e    == Election(reqBus, txReq, phase.req = 0)
      held == HeldAfter(reqBus, txReq, e)
      last == held # <<>> /\ reqBus.slot = ReqLatency - 1
      out  == IF last /\ canBroadcast(held[1]) THEN held ELSE <<>>
  IN  IF responseBackpressured THEN [bus |-> reqBus, tx |-> txReq, out |-> <<>>]
      ELSE [tx  |-> WithoutElected(txReq, e),
            out |-> out,
            bus |-> [idx  |-> e.idx,
                     held |-> IF out = <<>> THEN held ELSE <<>>,
                     slot |-> IF last THEN (IF out = <<>> THEN reqBus.slot ELSE 0)
                              ELSE IF held # <<>> THEN reqBus.slot + 1 ELSE 0]]

responseBusStep ==
  LET e    == Election(respBus, txResp, phase.resp = 0)
      held == HeldAfter(respBus, txResp, e)
      last == held # <<>> /\ respBus.slot = RespLatency - 1
  IN  [tx  |-> WithoutElected(txResp, e),
       out |-> IF last THEN held ELSE <<>>,
       bus |-> [idx  |-> e.idx,
                held |-> IF last THEN <<>> ELSE held,
                slot |-> IF last \/ held = <<>> THEN 0 ELSE respBus.slot + 1]]

\* serviceBusStep: the head of the first nonempty service buffer.
serviceSenders == {a \in Agents : txSvc[a] # <<>> /\ \A b \in 1 .. (a - 1) : txSvc[b] = <<>>}
serviceBusStep ==
  LET out == IF serviceSenders = {} THEN <<>>
             ELSE <<Head(txSvc[CHOOSE a \in serviceSenders : TRUE])>>
  IN  [out |-> out,
       tx  |-> [a \in Agents |-> IF a \in serviceSenders THEN Tail(txSvc[a]) ELSE txSvc[a]]]

\* Deliver out to every RX buffer.  The receivers of one broadcast draw consecutive
\* numbers; numbers are only compared inside one interface, so all copies carry the
\* first of them.
Stamped(out, seq) == [k \in DOMAIN out |-> [m |-> out[k], seq |-> seq]]
Broadcast(rx, out, seq) == [a \in Agents |-> rx[a] \o Stamped(out, seq)]

\* BusController::send: one copy per destination (the list never repeats one).
Send(rx, out) ==
  [a \in Agents |-> IF out # <<>> /\ a \in out[1].to THEN Append(rx[a], out[1]) ELSE rx[a]]

busStep ==
  \E req \in {requestBusStep}, rsp \in {responseBusStep}, svc \in {serviceBusStep} :
  LET seq1 == rxSeq + N * Len(req.out)
      seq2 == seq1 + (IF rsp.out = <<>> THEN 0 ELSE Cardinality(rsp.out[1].to))
  IN  /\ txReq' = req.tx /\ reqBus' = req.bus
      /\ txResp' = rsp.tx /\ respBus' = rsp.bus
      /\ txSvc' = svc.tx
      /\ rxReq' = Broadcast(rxReq, req.out, rxSeq)
      /\ rxResp' = Send(rxResp, rsp.out)
      /\ rxSvc' = Broadcast(rxSvc, svc.out, seq2)
      /\ rxSeq' = seq2 + N * Len(svc.out)
      /\ log' = log \o Stamped(req.out, rxSeq) \o Stamped(svc.out, seq2)
      /\ sent' = sent \o rsp.out
      /\ cycle' = IF cycle < MaxCycle THEN cycle + 1 ELSE cycle
      /\ phase' = IF Arbiter # "TDM" THEN phase
                  ELSE [req |-> (phase.req + 1) % ReqLatency, resp |-> (phase.resp + 1) % RespLatency]
      /\ UNCHANGED <<selector, pushed, seen>>

-----------------------------------------------------------------------------
Next ==
  \/ \E a \in Agents, k \in ReqKinds : PushRequest(a, k)
  \/ \E a, o \in Agents, both \in BOOLEAN : PushResponse(a, o, both)
  \/ PushService
  \/ \E a \in Agents : Intake(a)
  \/ RefuseDemand
  \/ busStep

Spec == Init /\ [][Next]_vars

(***************************************************************************)
(* The clock steps the bus for ever, and every controller takes a message  *)
(* on each of its own cycles.                                              *)
(***************************************************************************)
Fairness == WF_vars(busStep) /\ \A a \in Agents : WF_vars(Intake(a))
FairSpec == Spec /\ Fairness

-----------------------------------------------------------------------------
(* Properties.                                                              *)

Entry == [m : Msg, seq : Nat]
BusState(latency) == [slot : 0 .. (latency - 1), held : Seq(Msg), idx : 0 .. (N - 1)]

\* Every variable has the type of the field it models; the slot counters stay
\* inside their slot and at most one message is held.
TypeOK ==
  /\ txReq \in [Agents -> Seq(Msg)]
  /\ txResp \in [Agents -> Seq(Msg)]
  /\ txSvc \in [Agents -> Seq(Msg)]
  /\ rxReq \in [Agents -> Seq(Entry)]
  /\ rxResp \in [Agents -> Seq(Msg)]
  /\ rxSvc \in [Agents -> Seq(Entry)]
  /\ selector \in [Agents -> {-1, 0, 1}]
  /\ reqBus \in BusState(ReqLatency) /\ Len(reqBus.held) <= 1
  /\ respBus \in BusState(RespLatency) /\ Len(respBus.held) <= 1
  /\ cycle \in Nat /\ rxSeq \in Nat /\ pushed \in Nat
  /\ phase \in [req : 0 .. (ReqLatency - 1), resp : 0 .. (RespLatency - 1)]
  /\ log \in Seq(Entry) /\ sent \in Seq(Msg)
  /\ seen \in [Agents -> Seq(Msg)]

\* Every controller observes requests and back-invalidations in the one order in
\* which the bus broadcast them, although they wait in two separate RX buffers
\* (docs/Architecture.md, TripleBusInterface::peekMessage).
SameOrder ==
  \A a \in Agents :
    /\ Len(seen[a]) <= Len(log)
    /\ \A k \in 1 .. Len(seen[a]) : seen[a][k] = log[k].m

\* Broadcast is all-or-nothing: what an agent has taken plus what waits in its RX
\* buffers is everything broadcast so far, and held demands keep the bound of the
\* request buffer (BusController::broadcast).
AtomicBroadcast ==
  \A a \in Agents :
    /\ Len(seen[a]) + Len(rxReq[a]) + Len(rxSvc[a]) = Len(log)
    /\ Cardinality({k \in DOMAIN rxReq[a] : isDemandRequest(rxReq[a][k].m)}) <= BufMax

\* The places a pushed message can be in before it is delivered, or its delivery.
At(place, msgs, id) == {<<place, k>> : k \in {j \in DOMAIN msgs : msgs[j].id = id}}
Places(id) ==
  (UNION {At(<<"req", a>>, txReq[a], id) \cup At(<<"resp", a>>, txResp[a], id)
            \cup At(<<"svc", a>>, txSvc[a], id) : a \in Agents})
  \cup At(<<"heldReq", 0>>, reqBus.held, id) \cup At(<<"heldResp", 0>>, respBus.held, id)
  \cup At(<<"log", 0>>, [k \in DOMAIN log |-> log[k].m], id) \cup At(<<"sent", 0>>, sent, id)

\* No message is dropped or delivered twice by the bus: each one pushed is queued,
\* held in a slot or delivered, and in one place only (requestBusStep,
\* responseBusStep, serviceBusStep and the arbiters).
NoLossNoDuplicate == \A id \in 1 .. pushed : Cardinality(Places(id)) = 1

\* Every request and invalidation pushed is eventually taken by every agent: no slot
\* timing, arbiter or back-pressure keeps one out for ever, so that again and again none
\* is queued, in the slot or waiting in a receive buffer.
EveryRequestObserved ==
  []<>(\A a \in Agents : /\ txReq[a] = <<>> /\ txSvc[a] = <<>> /\ reqBus.held = <<>>
                         /\ Len(seen[a]) = Len(log))
=============================================================================
