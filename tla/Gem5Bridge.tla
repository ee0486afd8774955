----------------------------- MODULE Gem5Bridge ------------------------------
(***************************************************************************)
(* The gem5 front end: one bridge (gem5/octopus.cc) per core, the          *)
(* ExternalCPU behind it, the direct link to its L1, and the tick that     *)
(* runs Octopus inside gem5.                                               *)
(*                                                                         *)
(* gem5 acts between ticks: a CPU port offers a packet, which is refused,  *)
(* answered at once, or submitted.  Within a tick each core's link,        *)
(* ExternalCPU and L1 step in turn (their order of registration), and then *)
(* every bridge retries one refused port.  The L1 is the environment: it   *)
(* takes requests, commits them in any order (a load may hit while an      *)
(* older store waits for its upgrade) and is full now and then.            *)
(*                                                                         *)
(* A packet reads or writes a set of bytes; a data operation is an entry   *)
(* of the bridge's history.                                                *)
(***************************************************************************)
EXTENDS Integers, Sequences, FiniteSets

CONSTANTS
  NBridges,    \* bridges, one per L1
  NPorts,      \* CPU ports of a bridge
  Shapes,      \* bound: the [op, bytes] a port may offer; op "read", "write" or "device"
  Credits,     \* processing_queue_size of the L1
  LinkMax,     \* buffers_max_size of the direct link
  MaxPackets   \* bound: packets offered in a behaviour

ASSUME BridgeAssumption ==
  /\ NBridges \in Nat \ {0} /\ NPorts \in Nat \ {0}
  /\ Credits \in Nat \ {0} /\ LinkMax \in Nat \ {0}
  /\ MaxPackets \in Nat

Bridges == 1 .. NBridges
Ports == 1 .. NPorts

VARIABLES
  br,        \* bridge and ExternalCPU, per core
  link,      \* direct link, per core: TX and RX of both directions
  l1,        \* environment: requests the L1 holds, and whether its MSHRs or its
             \* write-back registers are full
  pc,        \* where the tick is: "gem5" between ticks
  offered,   \* history: packets offered
  panicked   \* a panic_if of a callback has fired

vars == <<br, link, l1, pc, offered, panicked>>

Between == [at |-> "gem5", b |-> 0, moved |-> FALSE]

Init ==
  /\ br = [b \in Bridges |->
             [pending  |-> {},                       \* pending_requests
              nextSeq  |-> 1,                        \* order of acceptance, here also msg_id
              queue    |-> <<>>,                     \* ExternalCPU's m_processing_queue
              kept     |-> [p \in Ports |-> <<>>],   \* needRetry, and the refused packet
              data     |-> <<>>]]                    \* history: data operations
  /\ link = [b \in Bridges |-> [txDown |-> <<>>, rxDown |-> <<>>, txUp |-> <<>>, rxUp |-> <<>>]]
  /\ l1 = [b \in Bridges |-> [held |-> {}, full |-> FALSE]]
  /\ pc = Between
  /\ offered = 0 /\ panicked = FALSE

-----------------------------------------------------------------------------
(* The bridge's operations, as functions of the state s of bridge b.        *)

\* Mutant of demandAdmissionBlocked: one request more than the queue holds.
BlockedOneLate(b, outstanding) == outstanding > Credits \/ l1[b].full

\* CacheController::demandAdmissionBlocked: the queue's bound, the MSHRs, the write-back
\* registers.
demandAdmissionBlocked(b, outstanding) == outstanding >= Credits \/ l1[b].full

\* ExternalCPU::isBlocked asks the L1.
isBlocked(b, outstanding) == demandAdmissionBlocked(b, outstanding)

\* Every accepted request holds a credit until its response is sent.
portBlocked(b, s) == isBlocked(b, Cardinality(s.pending))

\* ExternalCPU::addRequest: the request, under a new id, waits in the processing queue.
addRequest(s) == Append(s.queue, [dir |-> "request", id |-> s.nextSeq])

\* The new entry of pending_requests.
submit(s, pkt) ==
  [s EXCEPT !.pending = @ \cup {[id |-> s.nextSeq, pkt |-> pkt, committed |-> FALSE,
                                 dataDone |-> FALSE, completionArrived |-> FALSE]},
            !.nextSeq = @ + 1,
            !.queue = addRequest(s)]

\* One retry per unblock: the first port that was refused sends its packet again, and it
\* is accepted.
retryBlockedPorts(b, s) ==
  LET waiting == {p \in Ports : s.kept[p] # <<>>} IN
  IF portBlocked(b, s) \/ waiting = {} THEN s
  ELSE LET p == CHOOSE q \in waiting : \A r \in waiting : q <= r
       IN  submit([s EXCEPT !.kept[p] = <<>>], s.kept[p][1])

\* respond: the entry and its credit go, the packet goes to its port, and the credit may
\* let a refused packet in.
respond(b, s, e) ==
  retryBlockedPorts(b, [s EXCEPT !.pending = @ \ {e}])

\* Mutant of blockedByOlderWrite: only reads wait.
WritesNotHeldBack(s, e) ==
  e.pkt.op = "read" /\ \E o \in s.pending : /\ o.id < e.id /\ ~o.dataDone /\ o.pkt.op = "write"
                                            /\ o.pkt.bytes \cap e.pkt.bytes # {}

\* An older write of the bridge to one of the bytes has not been performed.
blockedByOlderWrite(s, e) ==
  \E o \in s.pending : /\ o.id < e.id /\ ~o.dataDone /\ o.pkt.op = "write"
                       /\ o.pkt.bytes \cap e.pkt.bytes # {}

Entry(s, id) == CHOOSE e \in s.pending : e.id = id
With(s, e, f) == [s EXCEPT !.pending = (@ \ {e}) \cup {f}]

\* The data operation itself, and the response if the completion came before it.
performData(b, s, e) ==
  LET f == [e EXCEPT !.dataDone = TRUE]
      t == [With(s, e, f) EXCEPT !.data = Append(@, [id |-> e.id, pkt |-> e.pkt])]
  IN  IF e.completionArrived THEN respond(b, t, f) ELSE t

\* onCommit: the L1 has serialised the request.  The callers have ruled out an unknown one.
Unknown(s, id) == \A e \in s.pending : e.id # id

\* Mutant of onCommit: a held back request is not marked committed.
HeldBackUnmarked(b, s, id) ==
  LET e == Entry(s, id)
      c == [e EXCEPT !.committed = TRUE]
  IN  IF blockedByOlderWrite(s, e) THEN s ELSE performData(b, With(s, e, c), c)

\* An operation an older write holds back is performed later, by releaseHeldBack.
onCommit(b, s, id) ==
  LET e == Entry(s, id)
      c == [e EXCEPT !.committed = TRUE]
      t == With(s, e, c)
  IN  IF blockedByOlderWrite(t, c) THEN t ELSE performData(b, t, c)

\* What releaseHeldBack may perform now.
Released(s) == {e \in s.pending : e.committed /\ ~e.dataDone /\ ~blockedByOlderWrite(s, e)}

\* cacheSimCallback: the completion of a request.
cacheSimCallback(b, s, id) ==
  LET e == Entry(s, id)
  IN  IF e.dataDone THEN respond(b, s, e)
      ELSE With(s, e, [e EXCEPT !.completionArrived = TRUE])

-----------------------------------------------------------------------------
(* gem5, between two ticks.                                                 *)

\* bypass: devices and uncacheable requests are answered at once and leave no trace.
bypass(s) == s

\* accessTiming: invalidations and cleans are answered at once too; a refused packet
\* stays with its sender.
accessTiming(b, s, p, pkt) ==
  CASE pkt.op = "device"  -> bypass(s)
    [] pkt.op # "device" /\ portBlocked(b, s) -> [s EXCEPT !.kept[p] = <<pkt>>]
    [] OTHER -> submit(s, pkt)

\* recvTimingReq: a port whose last packet was not refused offers another.
Offer(b, p) ==
  /\ pc = Between /\ offered < MaxPackets
  /\ br[b].kept[p] = <<>>
  /\ \E sh \in Shapes :
       br' = [br EXCEPT ![b] =
                accessTiming(b, @, p, [n |-> offered + 1, op |-> sh.op, bytes |-> sh.bytes])]
  /\ offered' = offered + 1
  /\ UNCHANGED <<link, l1, pc, panicked>>

-----------------------------------------------------------------------------
(* One tick.                                                                *)

Stage(at, b) == [at |-> at, b |-> b, moved |-> FALSE]

\* Mutant of Running: the clock stops when nothing is pending.
RunningOnPendingOnly == \E b \in Bridges : br[b].pending # {}

\* num_pending_req counts the entries of all bridges; anyPortNeedsRetry.
Running ==
  \/ \E b \in Bridges : br[b].pending # {}
  \/ \E b \in Bridges, p \in Ports : br[b].kept[p] # <<>>

tick ==
  /\ pc = Between /\ Running
  /\ pc' = Stage("link", 1)
  /\ UNCHANGED <<br, link, l1, offered, panicked>>

\* DirectController::controllerStep: one request and one response cross if there is room.
Cross(k, tx, rx) ==
  IF k[tx] = <<>> \/ Len(k[rx]) >= LinkMax THEN k
  ELSE [k EXCEPT ![tx] = Tail(@), ![rx] = Append(@, Head(k[tx]))]
controllerStep(b) ==
  /\ pc.at = "link" /\ pc.b = b
  /\ link' = [link EXCEPT ![b] = Cross(Cross(@, "txDown", "rxDown"), "txUp", "rxUp")]
  /\ pc' = Stage("intake", b)
  /\ UNCHANGED <<br, l1, offered, panicked>>

\* ExternalCPU::addRequests2ProcessingQueue: every response that has arrived.
addRequests2ProcessingQueue(b) ==
  /\ pc.at = "intake" /\ pc.b = b
  /\ br' = [br EXCEPT ![b].queue = @ \o [k \in DOMAIN link[b].rxUp |->
                                            [dir |-> "response", id |-> link[b].rxUp[k]]]]
  /\ link' = [link EXCEPT ![b].rxUp = <<>>]
  /\ pc' = Stage("cpu", b)
  /\ UNCHANGED <<l1, offered, panicked>>

\* The loop of ExternalCPU::processLogic.  A request goes to the link ...
SendRequest(b) ==
  /\ pc.at = "cpu" /\ pc.b = b
  /\ br[b].queue # <<>> /\ Head(br[b].queue).dir = "request"
  /\ Len(link[b].txDown) < LinkMax
  /\ link' = [link EXCEPT ![b].txDown = Append(@, Head(br[b].queue).id)]
  /\ br' = [br EXCEPT ![b].queue = Tail(@)]
  /\ UNCHANGED <<l1, pc, offered, panicked>>

\* ... a response calls the bridge back; one for a request it does not know, or has not
\* seen committed, is a panic ...
Complete(b) ==
  /\ pc.at = "cpu" /\ pc.b = b /\ ~panicked
  /\ br[b].queue # <<>> /\ Head(br[b].queue).dir = "response"
  /\ LET id == Head(br[b].queue).id
         s  == [br[b] EXCEPT !.queue = Tail(@)]
     IN  /\ panicked' = (Unknown(s, id) \/ ~Entry(s, id).committed)
         /\ br' = [br EXCEPT ![b] = IF panicked' THEN s ELSE cacheSimCallback(b, s, id)]
  /\ UNCHANGED <<link, l1, pc, offered>>

\* ... and an empty queue or a full link ends the cycle.
EndOfCpu(b) ==
  /\ pc.at = "cpu" /\ pc.b = b
  /\ br[b].queue # <<>> => Head(br[b].queue).dir = "request" /\ Len(link[b].txDown) >= LinkMax
  /\ pc' = Stage("l1", b)
  /\ UNCHANGED <<br, link, l1, offered, panicked>>

\* The L1 takes one request a cycle, and its miss may use up the MSHRs.
L1Take(b) ==
  /\ pc.at = "l1" /\ pc.b = b /\ link[b].rxDown # <<>> /\ ~pc.moved
  /\ link' = [link EXCEPT ![b].rxDown = Tail(@)]
  /\ \E full \in {TRUE, l1[b].full} :
       l1' = [l1 EXCEPT ![b] = [held |-> @.held \cup {Head(link[b].rxDown)}, full |-> full]]
  /\ pc' = [pc EXCEPT !.moved = TRUE]
  /\ UNCHANGED <<br, offered, panicked>>

\* ExternalCPU::commit hands the L1's commit to the bridge.
commit(b, id) == [br EXCEPT ![b] = onCommit(b, @, id)]

\* hitAction, removePendingAndRespond: commit, then push the response.
L1Commit(b) ==
  /\ pc.at = "l1" /\ pc.b = b /\ ~panicked
  /\ \E id \in l1[b].held, full \in BOOLEAN :
       /\ l1' = [l1 EXCEPT ![b] = [held |-> @.held \ {id}, full |-> full]]
       /\ panicked' = (Unknown(br[b], id) \/ Entry(br[b], id).committed)
       /\ br' = IF panicked' THEN br ELSE commit(b, id)
       /\ link' = [link EXCEPT ![b].txUp = Append(@, id)]
  /\ pc' = [at |-> "release", b |-> b, moved |-> TRUE]
  /\ UNCHANGED offered

\* The rest of the commit, releaseHeldBack: oldest first, until every operation held back
\* waits for a write.  An operation performed frees younger ones only, and a read frees
\* none, so performData's recursion does the same.
releaseHeldBack(b) ==
  /\ pc.at = "release" /\ pc.b = b
  /\ \/ /\ Released(br[b]) = {}
        /\ pc' = [pc EXCEPT !.at = "l1"] /\ br' = br
     \/ /\ \E e \in Released(br[b]) :
             /\ \A f \in Released(br[b]) : e.id <= f.id
             /\ br' = [br EXCEPT ![b] = performData(b, @, e)]
        /\ pc' = pc
  /\ UNCHANGED <<link, l1, offered, panicked>>

\* The L1 is done for this cycle: it did something, or had nothing to do and may have
\* drained its write-back registers.
L1End(b) ==
  /\ pc.at = "l1" /\ pc.b = b
  /\ pc.moved \/ (l1[b].held = {} /\ link[b].rxDown = <<>>)
  /\ \E full \in {FALSE, l1[b].full} : l1' = [l1 EXCEPT ![b].full = full]
  /\ pc' = IF b < NBridges THEN Stage("link", b + 1) ELSE Stage("retry", 1)
  /\ UNCHANGED <<br, link, offered, panicked>>

\* The end of the tick: every bridge retries.
Retry(b) ==
  /\ pc.at = "retry" /\ pc.b = b
  /\ br' = [br EXCEPT ![b] = retryBlockedPorts(b, @)]
  /\ pc' = IF b < NBridges THEN Stage("retry", b + 1) ELSE Between
  /\ UNCHANGED <<link, l1, offered, panicked>>

Clocked ==
  \/ tick
  \/ \E b \in Bridges :
       \/ controllerStep(b) \/ addRequests2ProcessingQueue(b)
       \/ SendRequest(b) \/ Complete(b) \/ EndOfCpu(b)
       \/ L1Take(b) \/ L1Commit(b) \/ releaseHeldBack(b) \/ L1End(b)
       \/ Retry(b)

Next == (\E b \in Bridges, p \in Ports : Offer(b, p)) \/ Clocked

Spec == Init /\ [][Next]_vars

(***************************************************************************)
(* gem5 schedules the tick at every clock edge, so a tick that may begin   *)
(* begins and one under way goes on; an L1 that is clocked again and again *)
(* drains its write-back registers.                                        *)
(***************************************************************************)
TickGoesOn ==
  /\ pc # Between \/ Running
  /\ pc' \in [at : {"gem5", "link", "intake", "cpu", "l1", "release", "retry"}, b : 0 .. NBridges,
             moved : BOOLEAN]

FairSpec ==
  /\ Spec
  /\ WF_pc(TickGoesOn)
  /\ \A b \in Bridges : SF_vars(L1End(b) /\ ~l1'[b].full)

-----------------------------------------------------------------------------
(* Properties.                                                              *)

\* Commit and completion come once each, for a request the bridge still holds, and in this
\* order: no panic_if of onCommit and cacheSimCallback fires, although a held back operation
\* is performed and answered from another request's commit.
NoPanic == ~panicked

\* Bytes of one core are accessed in the order of acceptance as far as writes go: when an
\* access has been performed, every older write to one of its bytes accepted on its bridge
\* has been performed before it (blockedByOlderWrite, releaseHeldBack), however the L1
\* reorders the commits.
OlderWritesFirst ==
  \A b \in Bridges :
    /\ \A i, j \in DOMAIN br[b].data :
         LET x == br[b].data[i] w == br[b].data[j] IN
         j > i /\ w.id < x.id /\ w.pkt.op = "write" => w.pkt.bytes \cap x.pkt.bytes = {}
    /\ \A i \in DOMAIN br[b].data, w \in br[b].pending :
         w.id < br[b].data[i].id /\ w.pkt.op = "write" /\ ~w.dataDone
           => w.pkt.bytes \cap br[b].data[i].pkt.bytes = {}

\* The credits bound every queue on the way to the L1 and back, so that the link never
\* refuses a request (m_link_full_holds) nor a response (exit in hitAction).
CreditsBoundLink ==
  \A b \in Bridges :
    Len(br[b].queue) + Len(link[b].txDown) + Len(link[b].rxDown) + Len(link[b].txUp)
      + Len(link[b].rxUp) + Cardinality(l1[b].held) <= Credits

\* Every packet offered is answered in the end: no retry is missed and the tick does not
\* stop while a port waits.
EveryPacketAnswered ==
  []<>(\A b \in Bridges : br[b].pending = {} /\ \A p \in Ports : br[b].kept[p] = <<>>)
=============================================================================
