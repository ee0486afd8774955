----------------------------- MODULE MemoryPath ------------------------------
(***************************************************************************)
(* The path between the LLC and main memory: the LLC's upper interface     *)
(* with the rollback of CacheController_End2End, the point-to-point link   *)
(* (Point2PointController), and the memory behind it, MainMemoryController *)
(* or MCsimInterface.  The clock runs the link, the LLC and the memory, in *)
(* this order.                                                             *)
(*                                                                         *)
(* The coherence protocol above is reduced to what it does here: a miss    *)
(* fetches an absent line, a fill of a full set evicts a line, whose       *)
(* write-back follows.  Addresses of one line are one element of Lines.    *)
(***************************************************************************)
EXTENDS Integers, Sequences, FiniteSets, Arbiters

CONSTANTS
  Lines,        \* cache lines
  NCores,       \* owners of requests: cores 1 .. NCores
  Ways,         \* lines the LLC holds
  Mshr,         \* num_mshr of the LLC
  TxMax,        \* buffers_max_size of the link's interfaces
  QueueMax,     \* processing_queue_size of MainMemoryController
  MemLatency,   \* m_memory_latency
  ReqLatency,   \* m_request_latency
  RespLatency,  \* m_response_latency
  Arbiter,      \* arbiter_type
  Memories,     \* the memories tried: "main", "mcsim" or "perfect" (perfect_llc)
  MaxFetches    \* bound: misses in a behaviour

ASSUME MemoryAssumption ==
  /\ Lines # {} /\ IsFiniteSet(Lines)
  /\ {NCores, Ways, Mshr, TxMax, QueueMax} \subseteq Nat \ {0}
  /\ MemLatency \in Nat /\ MaxFetches \in Nat
  /\ ReqLatency \in Nat /\ ReqLatency >= 2 /\ RespLatency \in Nat /\ RespLatency >= 2
  /\ Arbiter \in Kinds
  /\ Memories \subseteq {"main", "mcsim", "perfect"}

Cores == 1 .. NCores
LLC == NCores + 1
Cand == [k \in 1 .. LLC |-> k]       \* candidates_id: the L1 ids and the LLC id

VARIABLES
  memory,     \* which memory the system was built with
  line,       \* the LLC's view of each line: absent, fetching, present or evicting
  latest,     \* m_owner_of_latest_data, 0 for -1
  txReq,      \* TX request buffer of the LLC's upper interface
  txResp,     \* its TX response buffer: write-backs
  rxLLC,      \* its RX response buffer: fills
  lower,      \* clk_in_slot_lower, elected_msg_lower (held) and candidate_index
  upper,      \* clk_in_slot_upper, message_available_upper and elected_msg_upper
  rxMem,      \* RX response buffer of the memory's interface
  memQ,       \* m_processing_queue of the memory, with the cycles each entry waits
  dram,       \* m_pending_requests of MCsimInterface: reads inside MCsim
  out,        \* m_output_buffer of MCsimInterface
  memTx,      \* TX response buffer of the memory's interface
  clock,      \* whose cycle it is, and the link's cycle modulo the arbiter's period
  fresh,      \* nothing was pushed to the link yet in this cycle of the LLC
  fetches,    \* bound: misses so far
  fault       \* an exit(0) path was taken

llcVars  == <<line, latest, txReq, txResp, rxLLC, fresh, fetches>>
linkVars == <<lower, upper>>
memVars  == <<rxMem, memQ, dram, out, memTx>>
vars     == <<memory, line, latest, txReq, txResp, rxLLC, lower, upper, rxMem, memQ,
              dram, out, memTx, clock, fresh, fetches, fault>>

Period == ReqLatency + RespLatency

\* clk_in_slot_upper and message_available_upper have no initial value: the first
\* cycles run with whatever the memory held (modulo the latency, of either sign).
Init ==
  /\ memory \in Memories
  /\ line = [l \in Lines |-> "absent"]
  /\ latest = 0
  /\ txReq = <<>> /\ txResp = <<>> /\ rxLLC = <<>>
  /\ lower = [slot |-> 0, held |-> <<>>, idx |-> 0]
  /\ \E s \in (1 - RespLatency) .. RespLatency, available \in BOOLEAN :
       upper = [slot |-> s, available |-> available, held |-> <<>>]
  /\ rxMem = <<>> /\ memQ = <<>> /\ dram = <<>> /\ out = <<>> /\ memTx = <<>>
  /\ clock = [turn |-> "link", phase |-> 0]
  /\ fresh = TRUE /\ fetches = 0
  /\ fault = FALSE

Without(s, i) == [j \in 1 .. (Len(s) - 1) |-> IF j < i THEN s[j] ELSE s[j + 1]]

-----------------------------------------------------------------------------
(* The LLC.                                                                 *)

\* m_cache_cycle stamps messages; arbiters compare stamps, so a rank is enough.
Newest == LET all == {txReq[i].cycle : i \in DOMAIN txReq} \cup {txResp[i].cycle : i \in DOMAIN txResp}
          IN  IF all = {} THEN 0 ELSE CHOOSE c \in all : \A d \in all : d <= c
Stamp == IF fresh THEN Newest + 1 ELSE Newest

Read(l, o)      == [line |-> l, owner |-> o, wb |-> FALSE, cycle |-> Stamp]
WriteBack(l, o) == [line |-> l, owner |-> o, wb |-> TRUE, cycle |-> Stamp]
Fill(l, o)      == [line |-> l, owner |-> o]

Resident == {l \in Lines : line[l] = "present"}
Fetching == {l \in Lines : line[l] = "fetching"}

\* addRequests2ProcessingQueue: the head of the upper interface is looked at for its
\* owner and taken; its line is installed, and with no empty way another one leaves.
LLCIntake ==
  /\ clock.turn = "llc" /\ ~fault
  /\ IF rxLLC = <<>> THEN UNCHANGED <<line, latest, rxLLC>>
     ELSE LET m == Head(rxLLC) IN
          /\ latest' = m.owner
          /\ rxLLC' = Tail(rxLLC)
          /\ IF Cardinality(Resident) < Ways THEN line' = [line EXCEPT ![m.line] = "present"]
             ELSE \E v \in Resident : line' = [line EXCEPT ![m.line] = "present", ![v] = "evicting"]
  /\ clock' = [clock EXCEPT !.turn = "process"]
  /\ fresh' = TRUE
  /\ UNCHANGED <<memory, txReq, txResp, linkVars, memVars, fetches, fault>>

\* Mutant of rollback: only reads are looked for.
rollbackRequests(l) ==
  {<<1, i>> : i \in {j \in DOMAIN txReq : txReq[j].line = l}}

\* BusInterface::rollback: the first message of the line waiting to leave, requests
\* before responses, as <<buffer, position>>.
rollback(l) ==
  LET req  == {i \in DOMAIN txReq : txReq[i].line = l}
      resp == {i \in DOMAIN txResp : txResp[i].line = l}
      First(S) == CHOOSE i \in S : \A j \in S : i <= j
  IN  IF req # {} THEN {<<1, First(req)>>}
      ELSE IF resp # {} THEN {<<2, First(resp)>>} ELSE {}

\* Mutant of canAdmitRequest: misses are not bounded by the MSHRs.
NoMshrBound == TRUE

\* canAdmitRequest: a new miss needs a free MSHR.
canAdmitRequest == Cardinality(Fetching) < Mshr

\* sendBusRequest of a miss.  A write-back of the line that has not left yet is taken
\* back and becomes the fill; a perfect LLC makes the fill up; otherwise the read is
\* sent.
sendBusRequest(l, o) ==
  /\ line[l] = "absent" /\ canAdmitRequest /\ fetches < MaxFetches
  /\ \/ \E at \in rollback(l) :
          /\ fault' = (at[1] = 1)
          /\ txReq' = IF at[1] = 1 THEN Without(txReq, at[2]) ELSE txReq
          /\ txResp' = IF at[1] = 2 THEN Without(txResp, at[2]) ELSE txResp
          /\ rxLLC' = IF at[1] = 2 THEN Append(rxLLC, Fill(l, o)) ELSE rxLLC
          /\ fresh' = fresh
     \/ /\ rollback(l) = {} /\ memory = "perfect"
        /\ rxLLC' = Append(rxLLC, Fill(l, o))
        /\ UNCHANGED <<txReq, txResp, fresh, fault>>
     \/ /\ rollback(l) = {} /\ memory # "perfect"
        /\ fault' = (Len(txReq) >= TxMax)
        /\ txReq' = Append(txReq, Read(l, o))
        /\ fresh' = FALSE
        /\ UNCHANGED <<txResp, rxLLC>>
  /\ line' = [line EXCEPT ![l] = "fetching"]
  /\ fetches' = fetches + 1

Miss(l, o) ==
  /\ clock.turn = "process" /\ ~fault
  /\ sendBusRequest(l, o)
  /\ UNCHANGED <<memory, latest, linkVars, memVars, clock>>

\* performWriteBack of an evicted line, labelled with the owner of the latest fill; a
\* perfect LLC drops it.
performWriteBack(l) ==
  /\ clock.turn = "process" /\ ~fault
  /\ line[l] = "evicting"
  /\ line' = [line EXCEPT ![l] = "absent"]
  /\ IF memory = "perfect" THEN UNCHANGED <<txResp, fresh, fault>>
     ELSE /\ fault' = (Len(txResp) >= TxMax)
          /\ txResp' = Append(txResp, WriteBack(l, IF latest = 0 THEN LLC ELSE latest))
          /\ fresh' = FALSE
  /\ UNCHANGED <<memory, latest, txReq, rxLLC, linkVars, memVars, clock, fetches>>

EndLLC ==
  /\ clock.turn = "process" /\ ~fault
  /\ clock' = [clock EXCEPT !.turn = "memory"]
  /\ UNCHANGED <<memory, llcVars, linkVars, memVars, fault>>

-----------------------------------------------------------------------------
(* The link.                                                                *)

\* C's remainder: it has the sign of the dividend.
Rem(a, n) == IF a >= 0 THEN a % n ELSE -((-a) % n)

\* Mutant of SlotAfter: the slot is not reset when nothing is on the wire.
SlotNotReset(slot, available, latency) ==
  IF available THEN Rem(slot + 1, latency) ELSE slot

\* The slot counter after a cycle.
SlotAfter(slot, available, latency) == IF available THEN Rem(slot + 1, latency) ELSE 0

\* The arbiter is asked in slot 0, and only then.
Electing(slot) == slot = 0

\* lowerBusStep: in slot 0 the arbiter takes a read or a write-back; in the last slot
\* it reaches the memory.
lowerBusStep ==
  LET d == elect(Arbiter, <<txReq, txResp>>, Cand, lower.idx, clock.phase = 0)
      Taken(i) == {g[2] : g \in {h \in d.grant : h[1] = i}}
      Elected  == [k \in 1 .. Cardinality(d.grant) |-> LET g == CHOOSE h \in d.grant : TRUE
                                                       IN  <<txReq, txResp>>[g[1]][g[2]]]
      held == IF Electing(lower.slot) THEN Elected ELSE lower.held
      After(b, i) == IF ~Electing(lower.slot) \/ Taken(i) = {} THEN b ELSE Without(b, CHOOSE k \in Taken(i) : TRUE)
      sent == IF ~Electing(lower.slot) /\ lower.slot = ReqLatency - 1 THEN held ELSE <<>>
      slot == SlotAfter(lower.slot, held # <<>>, ReqLatency)
  IN  /\ txReq' = After(txReq, 1) /\ txResp' = After(txResp, 2)
      /\ lower' = [slot |-> slot, held |-> IF slot = 0 THEN <<>> ELSE held,
                   idx |-> IF Electing(lower.slot) THEN d.idx ELSE lower.idx]
      /\ rxMem' = rxMem \o sent

\* upperBusStep: in slot 0 the head of the memory's response buffer is taken; in the
\* last slot it reaches the LLC.  elected_msg_upper starts with no destination.
upperBusStep ==
  LET elects == upper.slot = 0
      held   == IF ~elects THEN upper.held ELSE IF memTx = <<>> THEN <<>> ELSE <<Head(memTx)>>
      available == IF elects THEN memTx # <<>> ELSE upper.available
      sent   == IF ~elects /\ upper.slot = RespLatency - 1 /\ available THEN held ELSE <<>>
      slot   == SlotAfter(upper.slot, available, RespLatency)
  IN  /\ memTx' = IF elects /\ memTx # <<>> THEN Tail(memTx) ELSE memTx
      /\ upper' = [slot |-> slot, available |-> available, held |-> IF slot = 0 THEN <<>> ELSE held]
      /\ rxLLC' = rxLLC \o sent

\* busStep: the lower half before the upper one.
busStep ==
  /\ clock.turn = "link" /\ ~fault
  /\ lowerBusStep
  /\ upperBusStep
  /\ clock' = [turn |-> "llc", phase |-> (clock.phase + 1) % (IF Arbiter = "TDM" THEN Period ELSE 1)]
  /\ UNCHANGED <<memory, line, latest, memQ, dram, out, fresh, fetches, fault>>

-----------------------------------------------------------------------------
(* The memory.                                                              *)

\* The memory's cycle is over: the waiting entries are one cycle older.
Older(q) == [i \in DOMAIN q |-> [q[i] EXCEPT !.wait = IF @ = 0 THEN 0 ELSE @ - 1]]

\* MainMemoryController::processLogic: one message is taken in unless the queue is
\* full, and the first whose latency has passed is served; reads are answered.
mainProcess ==
  /\ clock.turn = "memory" /\ memory # "mcsim" /\ ~fault
  /\ LET takes  == rxMem # <<>> /\ Len(memQ) < QueueMax
         q      == IF takes THEN Append(memQ, [m |-> Head(rxMem), wait |-> MemLatency]) ELSE memQ
         ripe   == {i \in DOMAIN q : q[i].wait = 0 /\ \A j \in 1 .. (i - 1) : q[j].wait # 0}
         answer == {q[i].m : i \in {j \in ripe : ~q[j].m.wb}}
     IN  /\ rxMem' = IF takes THEN Tail(rxMem) ELSE rxMem
         /\ memQ' = Older(IF ripe = {} THEN q ELSE Without(q, CHOOSE i \in ripe : TRUE))
         /\ memTx' = IF answer = {} THEN memTx
                     ELSE LET m == CHOOSE a \in answer : TRUE IN Append(memTx, Fill(m.line, m.owner))
         /\ fault' = (answer # {} /\ Len(memTx) >= TxMax)
  /\ clock' = [clock EXCEPT !.turn = "link"]
  /\ UNCHANGED <<memory, llcVars, linkVars, dram, out>>

\* Mutant of answered: every pending read of the core is dropped with the answered one.
AnsweredWithSiblings(done) ==
  IF done = 0 THEN dram ELSE SelectSeq(dram, LAMBDA m : m.owner # dram[done].owner)

\* read_callback: the first pending read of the address is answered.
answered(done) == IF done = 0 THEN dram ELSE Without(dram, done)

\* MCsimInterface::processLogic and the callbacks of MCsim's update: one message is
\* taken in, the first queued one is added to MCsim, one finished read leaves, and MCsim
\* may finish any read it holds (done: its position, 0 for none).
mcsimProcess(done) ==
  /\ clock.turn = "memory" /\ memory = "mcsim" /\ ~fault
  /\ LET q     == IF rxMem = <<>> THEN memQ ELSE Append(memQ, [m |-> Head(rxMem), wait |-> 0])
         added == IF q = <<>> THEN <<>> ELSE IF q[1].m.wb THEN <<>> ELSE <<q[1].m>>
     IN  /\ rxMem' = IF rxMem = <<>> THEN rxMem ELSE Tail(rxMem)
         /\ memQ' = IF q = <<>> THEN q ELSE Tail(q)
         /\ done \in {0} \cup DOMAIN dram
         /\ dram' = answered(done) \o added
  /\ out' = (IF out = <<>> THEN out ELSE Tail(out))
            \o (IF done = 0 THEN <<>> ELSE <<Fill(dram[done].line, dram[done].owner)>>)
  /\ memTx' = IF out = <<>> THEN memTx ELSE Append(memTx, Head(out))
  /\ fault' = (out # <<>> /\ Len(memTx) >= TxMax)
  /\ clock' = [clock EXCEPT !.turn = "link"]
  /\ UNCHANGED <<memory, llcVars, linkVars>>

Next ==
  \/ busStep
  \/ LLCIntake
  \/ \E l \in Lines : performWriteBack(l) \/ \E o \in Cores : Miss(l, o)
  \/ EndLLC
  \/ mainProcess
  \/ \E done \in 0 .. Len(dram) : mcsimProcess(done)

Spec == Init /\ [][Next]_vars

(***************************************************************************)
(* The clock never stops, the LLC finishes an eviction it has begun, and   *)
(* MCsim finishes every read it was given.                                 *)
(***************************************************************************)
FairSpec ==
  /\ Spec
  /\ WF_vars(Next) /\ SF_vars(EndLLC)
  /\ \A l \in Lines :
       /\ SF_vars(performWriteBack(l))
       /\ SF_vars(\E done \in DOMAIN dram : dram[done].line = l /\ mcsimProcess(done))

-----------------------------------------------------------------------------
(* Properties.                                                              *)

\* No buffer of the path overflows and the rollback never takes back a read: the exit
\* paths of sendBusRequest, performWriteBack and processLogic are not reached.
NoFault == ~fault

Count(s, P(_)) == Cardinality({i \in DOMAIN s : P(s[i])})
IsRead(m, l) == m.line = l /\ ~m.wb
IsWB(m, l)   == m.line = l /\ m.wb

\* Messages past the arbiter and not served by the memory yet, oldest first.
Downstream == [i \in DOMAIN memQ |-> memQ[i].m] \o rxMem \o lower.held

\* The LLC waits for a line exactly while its read, or the answer to it, is somewhere
\* on the way, and only once.
FetchConserved ==
  \A l \in Lines :
    LET reads == Count(txReq \o Downstream \o dram, LAMBDA m : IsRead(m, l))
        fills == Count(out \o memTx \o upper.held \o rxLLC, LAMBDA m : m.line = l)
    IN  reads + fills = (IF l \in Fetching THEN 1 ELSE 0)

\* Memory never serves a read of a line before an older write-back of it: while the
\* read is on its way no write-back of the line waits in the LLC's interface, and every
\* one past the arbiter is ahead of it.
WriteBackFirst ==
  \A l \in Lines :
    LET pending == \E i \in DOMAIN txReq : IsRead(txReq[i], l)
    IN  /\ pending \/ (\E i \in DOMAIN Downstream : IsRead(Downstream[i], l)) =>
             \A i \in DOMAIN txResp : ~IsWB(txResp[i], l)
        /\ \A i, j \in DOMAIN Downstream :
             IsRead(Downstream[i], l) /\ IsWB(Downstream[j], l) => j < i

\* Every miss is filled.
FetchAnswered == \A l \in Lines : line[l] = "fetching" ~> line[l] = "present"
=============================================================================
