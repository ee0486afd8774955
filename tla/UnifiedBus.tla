----------------------------- MODULE UnifiedBus ------------------------------
(***************************************************************************)
(* The unified bus: requests and data share one link and one arbiter       *)
(* (UnifiedBusController over BusInterface).  A round elects a request,    *)
(* broadcasts it, elects a data response and sends it; message_available   *)
(* tells whether the round goes on.                                        *)
(*                                                                         *)
(* Agents are numbered in m_interfaces order: the LLC first, then the L1s, *)
(* which alone are candidates of the arbiter.                              *)
(***************************************************************************)
EXTENDS Integers, Sequences, FiniteSets, Arbiters

CONSTANTS
  N,           \* number of interfaces
  BufMax,      \* buffers_max_size
  ReqLatency,  \* m_request_latency
  RespLatency, \* m_response_latency
  Arbiter,     \* arbiter_type
  MaxMsgs      \* bound: messages the agents push in a behaviour

ASSUME UnifiedAssumption ==
  /\ N \in Nat /\ N > 1
  /\ BufMax \in Nat \ {0}
  /\ ReqLatency \in Nat \ {0} /\ RespLatency \in Nat \ {0}
  /\ Arbiter \in Kinds
  /\ MaxMsgs \in Nat

Agents == 1 .. N
LLC == 1
Period == ReqLatency + RespLatency
Cand == [k \in 1 .. (N - 1) |-> k + 1]

VARIABLES
  txReq, txResp,   \* m_tx_request_buffer, m_tx_response_buffer, per agent
  rxReq, rxResp,   \* the RX buffers
  clk,             \* clk_in_slot
  held,            \* elected_msg while message_available: <<>> or <<m>>
  idx,             \* the arbiter's candidate_index
  phase,           \* bus cycle modulo the arbiter's period; only TDM looks at it
  pushed,          \* history: number of messages pushed
  log,             \* history: requests broadcast, in order
  sent             \* history: data responses sent, in order

vars == <<txReq, txResp, rxReq, rxResp, clk, held, idx, phase, pushed, log, sent>>

Empty == [a \in Agents |-> <<>>]

Init ==
  /\ txReq = Empty /\ txResp = Empty /\ rxReq = Empty /\ rxResp = Empty
  /\ clk = 0 /\ held = <<>> /\ idx = 0 /\ phase = 0
  /\ pushed = 0 /\ log = <<>> /\ sent = <<>>

-----------------------------------------------------------------------------
(* The agents.  All messages carry one cycle stamp: ties go to the first    *)
(* interface.                                                               *)

Message(kind, owner, to, for) ==
  [id |-> pushed + 1, kind |-> kind, owner |-> owner, to |-> to, for |-> for, cycle |-> 0]

PushRequest(a, kind) ==
  /\ pushed < MaxMsgs /\ a # LLC /\ Len(txReq[a]) < BufMax
  /\ txReq' = [txReq EXCEPT ![a] = Append(@, Message(kind, a, {LLC}, 0))]
  /\ pushed' = pushed + 1
  /\ UNCHANGED <<txResp, rxReq, rxResp, clk, held, idx, phase, log, sent>>

\* A data message for the request is under way or delivered.
Answered(id) ==
  \/ \E a \in Agents : \E k \in DOMAIN txResp[a] : txResp[a][k].for = id
  \/ \E k \in DOMAIN held : held[k].for = id
  \/ \E k \in DOMAIN sent : sent[k].for = id

\* An agent that has taken a broadcast request answers it: an L1 its own PutM, with data
\* for the LLC; another agent a demand, with data for the L1 that asked.
PushResponse(a, m) ==
  /\ pushed < MaxMsgs /\ Len(txResp[a]) < BufMax
  /\ (a = m.owner) = (m.kind = "PutM")
  /\ ~Answered(m.id)
  /\ \A k \in DOMAIN rxReq[a] : rxReq[a][k] # m
  /\ txResp' = [txResp EXCEPT ![a] =
       Append(@, Message("Data", m.owner, {IF a = m.owner THEN LLC ELSE m.owner}, m.id))]
  /\ pushed' = pushed + 1
  /\ UNCHANGED <<txReq, rxReq, rxResp, clk, held, idx, phase, log, sent>>

\* A controller takes the head of one of its RX buffers.
TakeRequest(a) ==
  /\ rxReq[a] # <<>>
  /\ rxReq' = [rxReq EXCEPT ![a] = Tail(@)]
  /\ UNCHANGED <<txReq, txResp, rxResp, clk, held, idx, phase, pushed, log, sent>>
TakeResponse(a) ==
  /\ rxResp[a] # <<>>
  /\ rxResp' = [rxResp EXCEPT ![a] = Tail(@)]
  /\ UNCHANGED <<txReq, txResp, rxReq, clk, held, idx, phase, pushed, log, sent>>

-----------------------------------------------------------------------------
(* requestBusStep: the four branches on clk_in_slot, the first that applies. *)

\* forceElect: the candidate of the round, for TDM after the period's advance.
forceElect(bufs) ==
  LET next == IF Arbiter = "TDM" /\ phase = 0 THEN Advance(idx, 1, N - 1) ELSE idx
  IN  IF Arbiter = "FCFS" THEN FCFSElect(bufs, idx)
      ELSE [grant |-> electOldestOwned(bufs, Cand[next + 1]), idx |-> next]

\* The elected message leaves its buffer.
WithoutElected(tx, e) ==
  [a \in Agents |-> IF \E p \in e.grant : p[1] = a
                    THEN LET k == (CHOOSE p \in e.grant : p[1] = a)[2]
                         IN  SubSeq(tx[a], 1, k - 1) \o SubSeq(tx[a], k + 1, Len(tx[a]))
                    ELSE tx[a]]
Elected(tx, e) == IF e.grant = {} THEN <<>> ELSE LET g == CHOOSE p \in e.grant : TRUE IN <<tx[g[1]][g[2]]>>

canBroadcast(m) == m.kind = "Demand" => \A a \in Agents : Len(rxReq[a]) < BufMax

\* The slot counter after the step.
NextClk(available) == IF available = <<>> THEN 0 ELSE (clk + 1) % Period

ElectRequest ==
  /\ clk = 0
  /\ \E e \in {elect(Arbiter, txReq, Cand, idx, phase = 0)} :
       /\ held' = Elected(txReq, e)
       /\ txReq' = WithoutElected(txReq, e)
       /\ idx' = e.idx
  /\ UNCHANGED <<txResp, rxReq, rxResp, log, sent>>

\* What broadcast delivers; the caller does not look at its result.
Delivered == IF canBroadcast(held[1]) THEN held ELSE <<>>

BroadcastRequest ==
  /\ clk = ReqLatency - 1 /\ clk # 0
  /\ rxReq' = [a \in Agents |-> rxReq[a] \o Delivered]
  /\ log' = log \o Delivered
  /\ UNCHANGED <<held, txReq, txResp, rxResp, idx, sent>>

ElectResponse ==
  /\ clk = ReqLatency
  /\ \E e \in {forceElect(txResp)} :
       /\ held' = Elected(txResp, e)
       /\ txResp' = WithoutElected(txResp, e)
       /\ idx' = e.idx
  /\ UNCHANGED <<txReq, rxReq, rxResp, log, sent>>

SendResponse ==
  /\ clk = Period - 1 /\ clk # ReqLatency
  /\ rxResp' = [a \in Agents |-> IF a \in held[1].to THEN Append(rxResp[a], held[1]) ELSE rxResp[a]]
  /\ sent' = sent \o held
  /\ held' = <<>>
  /\ UNCHANGED <<txReq, txResp, rxReq, idx, log>>

Wait ==
  /\ clk \notin {0, ReqLatency - 1, ReqLatency, Period - 1}
  /\ UNCHANGED <<held, txReq, txResp, rxReq, rxResp, idx, log, sent>>

busStep ==
  /\ ElectRequest \/ BroadcastRequest \/ ElectResponse \/ SendResponse \/ Wait
  /\ clk' = NextClk(held')
  /\ phase' = IF Arbiter = "TDM" THEN (phase + 1) % Period ELSE phase
  /\ UNCHANGED pushed

Next ==
  \/ \E a \in Agents, k \in {"Demand", "PutM"} : PushRequest(a, k)
  \/ \E a \in Agents : \E k \in DOMAIN log : PushResponse(a, log[k])
  \/ \E a \in Agents : TakeRequest(a) \/ TakeResponse(a)
  \/ busStep

Spec == Init /\ [][Next]_vars

(***************************************************************************)
(* The clock steps the bus for ever and every controller drains its RX     *)
(* buffers.                                                                *)
(***************************************************************************)
FairSpec ==
  /\ Spec /\ WF_vars(busStep)
  /\ \A a \in Agents : WF_vars(TakeRequest(a)) /\ WF_vars(TakeResponse(a))

-----------------------------------------------------------------------------
(* Properties.                                                              *)

\* An agent's own requests are broadcast in the order it issued them, whatever the
\* arbiter: a write-back request never passes an earlier request of its cache.
RequestProgramOrder ==
  \A j, k \in DOMAIN log : j < k /\ log[j].owner = log[k].owner => log[j].id < log[k].id

\* Every request pushed is broadcast in the end: the arbiter's turns and the response
\* phases of the rounds starve no L1.
EveryRequestBroadcast ==
  \A id \in 1 .. MaxMsgs :
    (\E a \in Agents : \E k \in DOMAIN txReq[a] : txReq[a][k].id = id)
      ~> (\E k \in DOMAIN log : log[k].id = id)
=============================================================================
