------------------------------ MODULE Snooping ------------------------------
(***************************************************************************)
(* One cache line of the snooping system: the L1 controllers               *)
(* (CacheController with MSIProtocol, or CacheControllerExclusive with     *)
(* MESIProtocol), the inclusive LLC (CacheController_End2End with          *)
(* LLCMSIProtocol or LLCMESIProtocol) and the TripleBus between them,      *)
(* driven by the clock in the order ClockManager calls them: the bus,      *)
(* every L1, the LLC.                                                      *)
(*                                                                         *)
(* A controller's cycle is an intake, then the handling of ready messages  *)
(* one at a time until none is left.  Other lines appear only through what *)
(* they do to this one: their fills evict it, and at the LLC they keep the *)
(* data array busy so that a hit's answer is parked.                       *)
(*                                                                         *)
(* The RX request and service buffers of an interface are one sequence in  *)
(* broadcast order: that this is what the controllers observe is theorem   *)
(* BusOrdered of TripleBusProofs.                                          *)
(***************************************************************************)
EXTENDS Integers, Sequences, FiniteSets, MESITables

CONSTANTS
  Protocols,     \* coherence protocols to run: "MSI", "MESI"
  NCores,        \* number of L1s
  ReqLatency,    \* m_request_latency of the bus
  RespLatency,   \* m_response_latency of the bus
  MaxOps,        \* bound: loads and stores each core issues
  L1Evicts,      \* bound: evictions of the line at each L1
  LLCEvicts,     \* bound: evictions of the line at the LLC
  Fcfs,          \* request arbiter: FCFSArbiter, or any order that keeps each L1's own
  MaxRefusals,   \* bound: cycles in which the LLC's queue, full of other lines, refuses
                 \* a demand of this one
  Full           \* bound: times each agent's MSHRs are all taken by other lines

ASSUME SnoopAssumption ==
  /\ Protocols \subseteq {"MSI", "MESI"}
  /\ NCores \in Nat \ {0}
  /\ ReqLatency \in Nat \ {0} /\ RespLatency \in Nat \ {0}
  /\ MaxOps \in Nat /\ L1Evicts \in Nat /\ LLCEvicts \in Nat
  /\ MaxRefusals \in Nat /\ Full \in [1 .. NCores + 1 -> Nat]
  /\ Fcfs \in BOOLEAN

Cores == 1 .. NCores
LLC == NCores + 1
Agents == 1 .. LLC
Bus == 0

VARIABLES
  protocol,  \* the protocol of this system
  st,        \* coherence state of the line in each cache
  loc,       \* where the cache holds it: "none", "mshr", "array" or "pwb"
  owner,     \* the LLC's owner_id (0 for -1)
  queue,     \* m_processing_queue, per cache
  pending,   \* m_pending_requests of the line, per cache
  saved,     \* m_saved_requests_for_wb of the line, per L1
  toIssue,   \* the line's address is in m_pwb_pending_issue, per cache
  parked,    \* LLC hits that wait for the data array (m_array_ops)
  mem,       \* owners of the LLC's outstanding memory reads
  tx,        \* TX buffers: tx.req the L1s' requests, in the order they were pushed,
             \* tx.resp per agent, tx.inv of the LLC
  bus,       \* bus.req, bus.resp: slot counter and held message
  rx,        \* requests and invalidations delivered to each agent, in bus order
  rxResp,    \* data responses delivered to each agent
  selector,  \* m_buffer_selector of each agent's interface
  turn,      \* who the clock runs now: the bus or an agent
  looping,   \* the running controller has done its intake
  left,      \* bounds: CPU operations and evictions still allowed
  fault      \* an exit(0) path of the controllers was taken

lineVars == <<st, loc, owner, pending, saved, toIssue, parked, mem>>
busVars  == <<bus, rx, rxResp, selector>>
vars     == <<protocol, st, loc, owner, queue, pending, saved, toIssue, parked, mem, tx, bus,
              rx, rxResp, selector, turn, looping, left, fault>>

BusRequests == {"GetS", "GetM", "PutM"}

\* A bus message: its kind and its owner.  In a processing queue it also carries
\* the side it came from.
Msg(k, o) == [k |-> k, o |-> o]
From(side, m) == [src |-> side, k |-> m.k, o |-> m.o]

\* A data response, whether it is exclusive (complementary_value 2), and the agents it
\* is addressed to.
Response(o, x, to) == [k |-> IF x THEN "EData" ELSE "Data", o |-> o, to |-> to]
isData(m) == m.k \in {"Data", "EData"}

\* The clock runs the bus, the L1s in the order they were built, the LLC.
NextTurn(a) == IF a = LLC THEN Bus ELSE a + 1

EmptyAt(S) == [a \in S |-> <<>>]
Idle == [slot |-> 0, held |-> <<>>]

Init ==
  /\ protocol \in Protocols
  /\ st = [a \in Agents |-> IF a = LLC THEN "N" ELSE "I"]
  /\ loc = [a \in Agents |-> "none"]
  /\ owner = 0
  /\ queue = EmptyAt(Agents) /\ pending = EmptyAt(Agents) /\ saved = EmptyAt(Cores)
  /\ toIssue = [a \in Agents |-> FALSE]
  /\ parked = <<>> /\ mem = <<>>
  /\ tx = [req |-> <<>>, resp |-> EmptyAt(Agents), inv |-> <<>>]
  /\ bus = [req |-> Idle, resp |-> Idle]
  /\ rx = EmptyAt(Agents) /\ rxResp = EmptyAt(Agents)
  /\ selector = [a \in Agents |-> -1]
  /\ turn = Bus /\ looping = FALSE
  /\ left = [ops |-> [c \in Cores |-> MaxOps], refusals |-> MaxRefusals,
             evicts |-> [a \in Agents |-> IF a = LLC THEN LLCEvicts ELSE L1Evicts],
             full |-> Full]
  /\ fault = FALSE

-----------------------------------------------------------------------------
(* The bus.                                                                 *)

\* The requests an arbiter may elect.  The L1s push in the order of their interfaces,
\* so the oldest stamp, ties to the first interface, is the first one pushed.
ElectableRequests ==
  IF Fcfs THEN DOMAIN tx.req \cap {1}
  ELSE {i \in DOMAIN tx.req : \A j \in 1 .. (i - 1) : tx.req[j].o # tx.req[i].o}

\* What may be on the wire this cycle (from: the position or agent elected, 0 for
\* none): the held message, or an elected one.  Responses: the head of any buffer.
Wire(b, elections) ==
  IF b.slot # 0 \/ b.held # <<>> THEN {[from |-> 0, held |-> b.held]}
  ELSE IF elections = {} THEN {[from |-> 0, held |-> <<>>]} ELSE elections

RequestWire == Wire(bus.req, {[from |-> i, held |-> <<tx.req[i]>>] : i \in ElectableRequests})
ResponseWire ==
  Wire(bus.resp, {[from |-> a, held |-> <<Head(tx.resp[a])>>] : a \in {b \in Agents : tx.resp[b] # <<>>}})

Without(s, i) == [j \in 1 .. (Len(s) - 1) |-> IF j < i THEN s[j] ELSE s[j + 1]]

LastSlot(b, w, latency) == w.held # <<>> /\ b.slot = latency - 1
BusAfter(b, w, latency) ==
  IF w.held = <<>> \/ LastSlot(b, w, latency) THEN Idle
  ELSE [slot |-> b.slot + 1, held |-> w.held]

\* One cycle of the bus: a request is broadcast, data is sent to its destinations,
\* an invalidation is broadcast, in this order.
BusStep ==
  /\ turn = Bus /\ ~fault
  /\ \E w \in RequestWire, d \in ResponseWire :
       LET reqOut  == IF LastSlot(bus.req, w, ReqLatency) THEN w.held ELSE <<>>
           respOut == IF LastSlot(bus.resp, d, RespLatency) THEN d.held ELSE <<>>
           invOut  == IF tx.inv = <<>> THEN <<>> ELSE <<Head(tx.inv)>>
       IN  /\ tx' = [req  |-> IF w.from = 0 THEN tx.req ELSE Without(tx.req, w.from),
                     resp |-> [a \in Agents |-> IF a = d.from THEN Tail(tx.resp[a]) ELSE tx.resp[a]],
                     inv  |-> IF tx.inv = <<>> THEN <<>> ELSE Tail(tx.inv)]
           /\ bus' = [req  |-> BusAfter(bus.req, w, ReqLatency),
                      resp |-> BusAfter(bus.resp, d, RespLatency)]
           /\ rx' = [a \in Agents |-> rx[a] \o reqOut \o invOut]
           /\ rxResp' = [a \in Agents |->
                IF respOut # <<>> /\ a \in respOut[1].to
                THEN Append(rxResp[a], Msg(respOut[1].k, respOut[1].o)) ELSE rxResp[a]]
  /\ turn' = 1
  /\ UNCHANGED <<protocol, lineVars, queue, selector, looping, left, fault>>

-----------------------------------------------------------------------------
(* Intake: addRequests2ProcessingQueue and checkReplacements.               *)

\* Mutant of Peek: a response is handed out only in its turn, after a request.
ResponseInTurnOnly(a) ==
  IF rx[a] # <<>> /\ (Head(rx[a]).k = "INV" \/ selector[a] # 0 \/ rxResp[a] = <<>>) THEN "bus"
  ELSE IF rxResp[a] # <<>> /\ selector[a] = 0 THEN "resp" ELSE "none"

\* TripleBusInterface::peekMessage over the merged buffer.
Peek(a) ==
  IF rx[a] # <<>> /\ (Head(rx[a]).k = "INV" \/ selector[a] # 0 \/ rxResp[a] = <<>>) THEN "bus"
  ELSE IF rxResp[a] # <<>> THEN "resp" ELSE "none"

SelectorAfter(a, choice) ==
  IF choice = "none" THEN -1
  ELSE IF choice = "resp" THEN 1
  ELSE IF Head(rx[a]).k = "INV" THEN selector[a] ELSE 0

Peeked(a, choice) ==
  IF choice = "bus" THEN <<Head(rx[a])>>
  ELSE IF choice = "resp" THEN <<Head(rxResp[a])>> ELSE <<>>

\* popFrontMessage of the peeked message.
Pop(a, choice) ==
  /\ rx' = IF choice = "bus" THEN [rx EXCEPT ![a] = Tail(@)] ELSE rx
  /\ rxResp' = IF choice = "resp" THEN [rxResp EXCEPT ![a] = Tail(@)] ELSE rxResp

Sided(side, msgs) == [i \in DOMAIN msgs |-> From(side, msgs[i])]
Replacement(a) == IF toIssue[a] THEN <<From("self", Msg("Replacement", a))>> ELSE <<>>

\* Another line's fill evicts this one: it moves to the write-back buffer.
Evict(a, evict) ==
  /\ evict => loc[a] = "array" /\ left.evicts[a] > 0
  /\ loc' = IF evict THEN [loc EXCEPT ![a] = "pwb"] ELSE loc
  /\ toIssue' = [toIssue EXCEPT ![a] = evict]

\* The interface would hand out a response if one were there.
ResponseNext(a) == IF rx[a] = <<>> THEN TRUE ELSE Head(rx[a]).k # "INV" /\ selector[a] = 0

\* An L1 takes a bus message, or another line's data whose fill evicts this line,
\* and possibly an operation of its core.
L1Intake(c) ==
  /\ turn = c /\ c # LLC /\ ~looping /\ ~fault
  /\ \E evict \in BOOLEAN, cpu \in {<<>>, <<"Load">>, <<"Store">>} :
       LET choice == IF evict THEN "none" ELSE Peek(c)
           upper  == Sided("up", Peeked(c, choice))
           lower  == [i \in DOMAIN cpu |-> From("low", Msg(cpu[i], c))]
       IN  /\ Evict(c, evict)
           /\ evict => ResponseNext(c)
           /\ cpu # <<>> => left.ops[c] > 0
           /\ Pop(c, choice)
           /\ selector' = [selector EXCEPT ![c] = IF evict THEN 1 ELSE SelectorAfter(c, choice)]
           /\ queue' = [queue EXCEPT ![c] = upper \o @ \o lower \o Replacement(c)]
           /\ left' = [left EXCEPT !.ops[c] = @ - Len(cpu),
                                   !.evicts[c] = IF evict THEN @ - 1 ELSE @]
  /\ looping' = TRUE
  /\ UNCHANGED <<protocol, st, owner, pending, saved, parked, mem, tx, bus, turn, fault>>

isDemand(a, m) ==
  m.src = "low" /\ m.k \in (IF a = LLC THEN {"GetS", "GetM"} ELSE {"Load", "Store"})

\* Answers of hits that waited for the LLC's data array.
Answers(hits) == [i \in DOMAIN hits |-> Response(hits[i].o, hits[i].x, {hits[i].o})]

\* arrayElect: the position of the waiting access that runs this cycle, whichever the
\* arbiter picks among the owners, or 0 while the array is busy.
arrayElect == {0} \cup DOMAIN parked

\* The LLC runs one parked hit, takes memory data (or another line's fill evicts this
\* line), takes one bus message (a full queue leaves a demand where it is), and issues
\* the replacement of an evicted line, whose parked hits then run at once.
LLCIntake(arrives) ==
  /\ turn = LLC /\ ~looping /\ ~fault
  /\ \E evict \in BOOLEAN, refuse \in BOOLEAN, fire \in arrayElect :
       LET choice  == Peek(LLC)
           lower   == Sided("low", Peeked(LLC, choice))
           refused == refuse /\ choice = "bus" /\ isDemand(LLC, lower[1])
           taken   == IF refused THEN <<>> ELSE lower
           upper   == IF arrives THEN <<From("up", Msg("Data", mem[1]))>> ELSE <<>>
           fired   == IF fire = 0 THEN <<>> ELSE <<parked[fire]>>
           rest    == [i \in 1 .. (Len(parked) - Len(fired)) |->
                         IF i < fire \/ fire = 0 THEN parked[i] ELSE parked[i + 1]]
           flushed == IF toIssue[LLC] THEN rest ELSE <<>>
       IN  /\ arrives => mem # <<>>
           /\ ~(arrives /\ evict)
           /\ refuse => refused /\ left.refusals > 0
           /\ Evict(LLC, evict)
           /\ Pop(LLC, IF refused THEN "none" ELSE choice)
           /\ selector' = [selector EXCEPT ![LLC] = SelectorAfter(LLC, choice)]
           /\ queue' = [queue EXCEPT ![LLC] = upper \o @ \o taken \o Replacement(LLC)]
           /\ mem' = IF arrives THEN Tail(mem) ELSE mem
           /\ parked' = IF toIssue[LLC] THEN <<>> ELSE rest
           /\ tx' = [tx EXCEPT !.resp[LLC] = @ \o Answers(fired \o flushed)]
           /\ left' = [left EXCEPT !.evicts[LLC] = IF evict THEN @ - 1 ELSE @,
                                   !.refusals = IF refuse THEN @ - 1 ELSE @]
  /\ looping' = TRUE
  /\ UNCHANGED <<protocol, st, owner, pending, saved, bus, turn, fault>>

-----------------------------------------------------------------------------
(* Handling of one message: getFirstReady and the row of its event.         *)

\* MESIProtocol::readEvent: exclusive data is an event of its own.
OwnDataEvent(m) == IF m.k = "EData" THEN "OwnData_Execlusive" ELSE "OwnData"

\* MSIProtocol::readEvent.
L1Event(c, m) ==
  IF m.src = "low" \/ m.src = "self" THEN m.k
  ELSE CASE isData(m)   -> OwnDataEvent(m)
         [] m.k = "INV"  -> "Invalidation"
         [] m.k = "GetS" -> IF m.o = c THEN "Own_GetS" ELSE "Other_GetS"
         [] m.k = "GetM" -> IF m.o = c THEN "Own_GetM" ELSE "Other_GetM"
         [] m.k = "PutM" -> IF m.o = c THEN "Own_PutM" ELSE "Other_PutM"

\* LLCMSIProtocol::readEvent.
LLCEvent(m) ==
  CASE m.src = "self" -> "Replacement"
    [] m.src = "up"   -> "Data_fromUpperInterface"
    [] m.src = "low" /\ isData(m) -> "Data_fromLowerInterface"
    [] m.src = "low" /\ m.k = "INV"  -> "Own_Invalidation"
    [] m.src = "low" /\ m.k = "PutM" -> IF m.o = owner THEN "PutM_fromOwner" ELSE "PutM_fromNonOwner"
    [] OTHER -> m.k

CellOf(a, m) ==
  IF a = LLC THEN LLCCellOf(protocol, st[a], LLCEvent(m))
  ELSE L1CellOf(protocol, st[a], L1Event(a, m))

\* The per-line gate: a demand or an invalidation waits for older ones of the line.
Gated(a, m) == isDemand(a, m) \/ m.k = "INV"
Ready(a, i) ==
  LET m == queue[a][i] IN
  /\ Gated(a, m) => \A j \in 1 .. (i - 1) : ~Gated(a, queue[a][j])
  /\ m.src = "up" \/ isData(m) \/ ~isStall(CellOf(a, m))
FirstReady(a) ==
  LET ready == {i \in DOMAIN queue[a] : Ready(a, i)}
  IN  {i \in ready : \A j \in ready : i <= j}

\* The isDataValid column: the L1 state I and the LLC state N hold no line.
isValid(a, s) == s # (IF a = LLC THEN "N" ELSE "I")

\* updateCacheLine: an invalid line leaves its register, data moves a line from the
\* MSHR to the array, and a line not held yet is entered in the MSHR.
LocAfter(a, m, next) ==
  IF ~isValid(a, next) THEN "none"
  ELSE IF isData(m) THEN (IF loc[a] = "mshr" THEN "array" ELSE loc[a])
  ELSE IF loc[a] = "none" THEN "mshr" ELSE loc[a]

\* Data arrives for a line no register holds (updateLineData fails), or the line is
\* read while no bytes are there (dataArrayReadFailed).
UpdateFails(a, m, next) == isValid(a, next) /\ isData(m) /\ loc[a] = "none"
ReadFails(a, m) == ~isData(m) /\ loc[a] \notin {"array", "pwb"}

\* BaseController::performWriteBack: a cache's own line goes to the LLC, anything else to
\* the core that asked.
Destination(c, o) == IF o = c THEN LLC ELSE o

\* Mutant of Supply: the LLC gets no copy of the data a GetS asked for.
SupplyRequesterOnly(c, m, both) ==
  LET o == IF saved[c] = <<>> THEN m.o ELSE saved[c][1].o
  IN  Response(o, FALSE, {saved[c][i].o : i \in 2 .. Len(saved[c])} \cup {Destination(c, o)})

\* performWriteBack of an L1: the destinations of the data it supplies.  A parked
\* request is answered first; a parked GetS also has the LLC waiting for the data.
Supply(c, m, both) ==
  LET s    == saved[c]
      o    == IF s = <<>> THEN m.o ELSE s[1].o
      copy == both \/ (s # <<>> /\ s[1].k = "GetS")
  IN  Response(o, FALSE, (IF copy THEN {LLC} ELSE {}) \cup {s[i].o : i \in 2 .. Len(s)}
                  \cup {Destination(c, o)})

\* MESIProtocol::handleAction: REMOVE_SAVED_REQ.
removesSaved(acts) == "removeSavedReq" \in acts

\* Requests saved for a write-back: saveReqForWriteBack parks one, a supply answers them,
\* removedSaveRequest drops them (the LLC has answered them itself).
SavedAfter(c, m, acts) ==
  IF removesSaved(acts) \/ acts \cap {"Data2Req", "Data2Both"} # {} THEN <<>>
  ELSE IF "SaveReq" \in acts THEN Append(saved[c], Msg(m.k, m.o)) ELSE saved[c]

\* LLCMESIProtocol::handleAction: exclusive data is sent as SendData sends it, marked.
Exclusive(acts) == "SendExeclusiveData" \in acts
sendsData(acts) == Exclusive(acts) \/ "SendData" \in acts

\* An invalidation goes out on the service channel.
sendInvalidationMessage(acts) == IF "IssueInv" \in acts THEN <<Msg("INV", LLC)>> ELSE <<>>

\* canAdmitRequest fails: a demand would open a miss and other lines hold every MSHR.
\* It goes back to the end of the queue and the controller's cycle is over.
AdmitFails(a) ==
  /\ turn = a /\ looping /\ ~fault
  /\ left.full[a] > 0
  /\ loc[a] = "none" /\ pending[a] = <<>>
  /\ \E i \in FirstReady(a) :
       /\ isDemand(a, queue[a][i])
       /\ queue' = [queue EXCEPT ![a] = Append(Without(@, i), @[i])]
  /\ left' = [left EXCEPT !.full[a] = @ - 1]
  /\ turn' = NextTurn(a) /\ looping' = FALSE
  /\ UNCHANGED <<protocol, lineVars, tx, busVars, fault>>

\* processLogic of an L1: run the row of the first ready message.
L1Process(c) ==
  /\ turn = c /\ c # LLC /\ looping /\ ~fault
  /\ \E i \in FirstReady(c) :
       LET m     == queue[c][i]
           cell  == CellOf(c, m)
           next  == getNextState(st[c], cell)
           acts  == cell.acts
           sends == acts \cap BusRequests
           gives == acts \cap {"Data2Req", "Data2Both"}
           ends  == "Hit" \in acts /\ m.src = "up"     \* REMOVE_PENDING
       IN  /\ queue' = [queue EXCEPT ![c] = Without(@, i)]
           /\ st' = [st EXCEPT ![c] = next]
           /\ loc' = [loc EXCEPT ![c] = LocAfter(c, m, next)]
           /\ pending' = [pending EXCEPT ![c] =
                IF ends THEN <<>> ELSE IF acts \cap {"GetS", "GetM"} # {} THEN Append(@, m) ELSE @]
           /\ saved' = [saved EXCEPT ![c] = SavedAfter(c, m, acts)]
           /\ tx' = [tx EXCEPT
                !.req = IF sends = {} THEN @ ELSE Append(@, Msg(CHOOSE k \in sends : TRUE, c)),
                !.resp[c] = IF gives = {} THEN @ ELSE Append(@, Supply(c, m, "Data2Both" \in gives))]
           /\ fault' = \/ "Fault" \in acts
                       \/ ends /\ pending[c] = <<>>
                       \/ "Hit" \in acts /\ ReadFails(c, m)
                       \/ gives # {} /\ ReadFails(c, m)
                       \/ UpdateFails(c, m, next)
  /\ UNCHANGED <<protocol, owner, toIssue, parked, mem, busVars, turn, looping, left>>

\* processLogic of the LLC: a hit's answer may wait for the array (park).
LLCProcess(park) ==
  /\ turn = LLC /\ looping /\ ~fault
  /\ \E i \in FirstReady(LLC) :
       LET m    == queue[LLC][i]
           cell == CellOf(LLC, m)
           next == getNextState(st[LLC], cell)
           acts == cell.acts
           answer == [o |-> m.o, x |-> Exclusive(acts)]
           hit  == sendsData(acts) /\ m.src = "low"     \* HIT_Action
           ends == sendsData(acts) /\ m.src = "up"      \* REMOVE_PENDING
       IN  /\ park => hit /\ loc[LLC] = "array"
           /\ queue' = [queue EXCEPT ![LLC] = Without(@, i)]
           /\ st' = [st EXCEPT ![LLC] = next]
           /\ loc' = [loc EXCEPT ![LLC] = LocAfter(LLC, m, next)]
           /\ owner' = IF "SetOwner" \in acts THEN m.o
                       ELSE IF "ClearOwner" \in acts \/ next = "N" THEN 0 ELSE owner
           /\ pending' = [pending EXCEPT ![LLC] =
                IF ends THEN <<>> ELSE IF "GetData" \in acts THEN Append(@, m) ELSE @]
           /\ mem' = IF "GetData" \in acts THEN Append(mem, m.o) ELSE mem
           /\ parked' = IF park THEN Append(parked, answer) ELSE parked
           /\ tx' = [tx EXCEPT
                !.resp[LLC] = @ \o Answers(IF hit /\ ~park THEN <<answer>>
                                           ELSE IF ends THEN [j \in DOMAIN pending[LLC] |-> answer]
                                           ELSE <<>>),
                !.inv = @ \o sendInvalidationMessage(acts)]
           /\ fault' = \/ acts \cap {"Fault", "Stall"} # {}
                       \/ ends /\ pending[LLC] = <<>>
                       \/ (hit \/ "WriteBack" \in acts) /\ ReadFails(LLC, m)
                       \/ UpdateFails(LLC, m, next)
  /\ UNCHANGED <<protocol, saved, toIssue, busVars, turn, looping, left>>

\* Nothing is ready: the controller's cycle is over and the clock runs the next one.
EndCycle(a) ==
  /\ turn = a /\ looping /\ ~fault /\ FirstReady(a) = {}
  /\ turn' = NextTurn(a) /\ looping' = FALSE
  /\ UNCHANGED <<protocol, lineVars, queue, tx, busVars, left, fault>>

Next ==
  \/ BusStep
  \/ \E c \in Cores : L1Intake(c) \/ L1Process(c)
  \/ \E arrives \in BOOLEAN : LLCIntake(arrives)
  \/ \E park \in BOOLEAN : LLCProcess(park)
  \/ \E a \in Agents : AdmitFails(a) \/ EndCycle(a)

Spec == Init /\ [][Next]_vars

(***************************************************************************)
(* The clock never stops, so some step is always taken.  Memory answers a  *)
(* read after a finite number of cycles, and the data array, once it has   *)
(* served what is ahead, runs a parked hit.                                *)
(***************************************************************************)
FairSpec ==
  /\ Spec
  /\ WF_vars(Next)
  /\ SF_vars(LLCIntake(TRUE))
  /\ SF_vars(LLCIntake(FALSE) /\ parked # <<>> /\ Len(parked') < Len(parked))

-----------------------------------------------------------------------------
(* Properties.                                                              *)

\* No exit path of the controllers and protocols is reached: no message meets a
\* Fault cell, no fill finds its request gone, no supplier finds its bytes gone.
NoFault == ~fault

\* Requests and invalidations broadcast that an agent has not handled yet.
Unhandled(a) ==
  {rx[a][i] : i \in DOMAIN rx[a]}
  \cup {Msg(queue[a][i].k, queue[a][i].o) :
          i \in {j \in DOMAIN queue[a] : queue[a][j].src = (IF a = LLC THEN "low" ELSE "up")}}

\* The caches of the line are coherent in bus order: one cache at most may write it,
\* and a cache that can still read beside a writer has not yet taken the request or
\* the invalidation, already broadcast, that will take its copy away.
Coherent ==
  \A w, r \in Cores :
    w # r /\ st[w] \in WritableIn[protocol] =>
      /\ st[r] \notin WritableIn[protocol]
      /\ st[r] \in ReadableIn[protocol] => \E m \in Unhandled(r) : m.k = "INV" \/ (m.k = "GetM" /\ m.o # r)

\* Data messages on their way to an agent.
DataFor(a) ==
  UNION {{<<"tx", b, i>> : i \in {j \in DOMAIN tx.resp[b] : a \in tx.resp[b][j].to}} : b \in Agents}
  \cup {<<"bus", 0, i>> : i \in {j \in DOMAIN bus.resp.held : a \in bus.resp.held[j].to}}
  \cup {<<"rx", a, i>> : i \in DOMAIN rxResp[a]}
  \cup {<<"queue", a, i>> : i \in {j \in DOMAIN queue[a] : isData(queue[a][j]) /\ (a = LLC => queue[a][j].src = "low")}}

\* A request is answered once: no two data messages are ever on their way to one
\* cache (a hit parked for the array included), and an L1 that is sent data has a
\* request open for it.
OneAnswer ==
  /\ Cardinality(DataFor(LLC)) <= 1
  /\ \A c \in Cores :
       /\ Cardinality(DataFor(c)) + Cardinality({i \in DOMAIN parked : parked[i].o = c}) <= 1
       /\ DataFor(c) # {} => pending[c] # <<>>

\* Nothing is in flight anywhere and no request is open.
Quiescent ==
  /\ \A a \in Agents : queue[a] = <<>> /\ pending[a] = <<>> /\ rx[a] = <<>> /\ rxResp[a] = <<>>
                        /\ tx.resp[a] = <<>> /\ ~toIssue[a]
  /\ tx.req = <<>> /\ tx.inv = <<>> /\ bus.req.held = <<>> /\ bus.resp.held = <<>> /\ mem = <<>> /\ parked = <<>>

\* At rest the LLC's view of the line is the L1s': it names the one L1 in M or E as owner,
\* and otherwise no L1 is in M or E; nothing is left in a transient state, an MSHR or a
\* write-back buffer, and no request is left saved.
Settled ==
  Quiescent =>
    /\ \A c \in Cores : /\ st[c] \in {"I", "S", "E", "M"}
                        /\ loc[c] = (IF st[c] = "I" THEN "none" ELSE "array")
                        /\ saved[c] = <<>>
                        /\ st[c] \in {"E", "M"} <=> (st[LLC] \in {"M", "EorM"} /\ owner = c)
                        /\ st[LLC] \in {"N", "I"} => st[c] = "I"
    /\ st[LLC] \in {"N", "I", "S", "IorS", "M", "EorM"}
    /\ loc[LLC] = (IF st[LLC] = "N" THEN "none" ELSE "array")
    /\ st[LLC] \in {"M", "EorM"} => owner # 0

\* Every load and store is answered and every eviction completes: once the cores stop
\* issuing, the system comes to rest and stays there.
ComesToRest == <>[]Quiescent
=============================================================================
