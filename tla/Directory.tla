------------------------------ MODULE Directory ------------------------------
(***************************************************************************)
(* One cache line under the directory protocols: the L1s                   *)
(* (CacheControllerDirectory with MSIDirectory, MESIDirectory or           *)
(* MOESIDirectory) and the home at the LLC (CacheControllerDirectory with  *)
(* LLCMSIDirectory, LLCMESIDirectory or LLCMOESIDirectory), over the       *)
(* TripleBus or the mesh.  Protocol and transport are chosen in Init.      *)
(*                                                                         *)
(* The transport keeps what the controllers can observe of it.  TripleBus: *)
(* the L1s' requests are broadcast in the order they were pushed           *)
(* (FCFSArbiter), the home's messages in theirs, each to all its           *)
(* destinations at once, and a controller takes both in broadcast order;   *)
(* data of each sender is delivered in its order.  Mesh: one ordered link  *)
(* per pair of nodes and class of message.  Delays are arbitrary.          *)
(*                                                                         *)
(* A controller's cycle is an intake, then the handling of ready messages  *)
(* one at a time until none is left.                                       *)
(***************************************************************************)
EXTENDS Integers, FiniteSets, SequencesExt, DirectoryTables

CONSTANTS
  NCores,   \* number of L1s
  Configs   \* the configurations Init chooses from: a protocol, an interconnect, and the
            \* bounds on each core's operations and on the evictions of each cache

ASSUME DirectoryAssumption ==
  /\ NCores \in Nat \ {0}
  /\ \A g \in Configs :
       /\ g.proto \in {"MSI", "MESI", "MOESI"} /\ g.transport \in {"bus", "mesh"}
       /\ g.ops \in [1 .. NCores -> Nat] /\ g.evicts \in [1 .. NCores + 1 -> Nat]

Cores == 1 .. NCores
LLC == NCores + 1
Agents == 1 .. LLC

VARIABLES
  proto,      \* protocol_type and fsm_filename of the configuration
  transport,  \* bus_type or interconnect_type of the configuration
  st,         \* coherence state of the line in each cache
  loc,        \* where the cache holds it: "none", "mshr", "array" or "pwb"
  owner,      \* the home's owner_id (0 for -1)
  sharers,    \* m_sharers of the line, at the home
  acks,       \* m_ack_counters of the line, per L1 (0 for no counter)
  queue,      \* m_processing_queue, per cache
  pending,    \* m_pending_requests of the line, per cache: the requests not answered
  saved,      \* m_saved_requests_for_wb of the line, per L1: their owners
  toIssue,    \* the line's address is in m_pwb_pending_issue, per cache
  mem,        \* requesters of the home's outstanding memory reads
  net,        \* messages in flight, per channel
  rx,         \* messages at each interface: .ctl without data, .data with
  left,       \* bounds: operations and evictions still allowed
  fault       \* an exit(0) path of the controllers was taken

config == <<proto, transport>>
vars == <<proto, transport, st, loc, owner, sharers, acks, queue, pending, saved, toIssue,
          mem, net, rx, left, fault>>

\* A message: its kind, its owner, the agent that sent it, its count of
\* acknowledgements, and in a processing queue the side it came from and whether it
\* was ready when it was pushed.
Msg(k, o1, f, n) == [k |-> k, o |-> o1, f |-> f, n |-> n]
DataKinds == {"Data", "EData", "PutM", "PutO", "InvAckData"}
hasData(m) == m.k \in DataKinds

\* The channel a message takes.
Channels == (Agents \cup {0}) \X (Agents \cup {0}) \X BOOLEAN
Channel(from, to, data) ==
  IF transport = "mesh" THEN <<from, to, data>>
  ELSE <<IF data \/ from = LLC THEN from ELSE 0, 0, data>>

Init ==
  /\ \E g \in Configs : /\ proto = g.proto /\ transport = g.transport
                        /\ left = [ops |-> g.ops, evicts |-> g.evicts]
  /\ st = [a \in Agents |-> IF a = LLC THEN "N" ELSE "I"]
  /\ loc = [a \in Agents |-> "none"]
  /\ owner = 0 /\ sharers = <<>> /\ acks = [c \in Cores |-> 0]
  /\ queue = [a \in Agents |-> <<>>] /\ pending = [a \in Agents |-> <<>>]
  /\ saved = [c \in Cores |-> <<>>]
  /\ toIssue = [a \in Agents |-> FALSE]
  /\ mem = <<>>
  /\ net = [c \in Channels |-> <<>>]
  /\ rx = [a \in Agents |-> [ctl |-> <<>>, data |-> <<>>]]
  /\ fault = FALSE

-----------------------------------------------------------------------------
(* The interconnect.                                                        *)

\* pushMessage of a list of <<message, destinations>>: one packet on the bus, a copy
\* on every link of the mesh.  Nothing is sent to an empty list of destinations.
PushOne(n, f, packet) ==
  LET m == packet[1] to == packet[2] IN
  IF to = {} THEN n
  ELSE [c \in Channels |->
         IF c \in {Channel(f, t, hasData(m)) : t \in to}
         THEN Append(n[c], [m |-> m, to |-> IF transport = "mesh" THEN {c[2]} ELSE to])
         ELSE n[c]]
Push(f, packets) == net' = FoldLeft(LAMBDA n, p : PushOne(n, f, p), net, packets)

\* The head of a channel reaches every one of its destinations.
Deliver(c) ==
  /\ ~fault /\ net[c] # <<>>
  /\ LET p == Head(net[c]) IN
     /\ net' = [net EXCEPT ![c] = Tail(@)]
     /\ rx' = [a \in Agents |->
          IF a \notin p.to THEN rx[a]
          ELSE IF hasData(p.m) THEN [rx[a] EXCEPT !.data = Append(@, p.m)]
          ELSE [rx[a] EXCEPT !.ctl = Append(@, p.m)]]
  /\ UNCHANGED <<config, st, loc, owner, sharers, acks, queue, pending, saved, toIssue, mem,
                 left, fault>>

-----------------------------------------------------------------------------
(* Events, and which queued message is handled next.                        *)

\* Mutant: counted after the decrement.
LastAckEarly(c) == acks[c] = 0

\* The acknowledgement that completes the count.
lastAck(c) == acks[c] = 1

\* MSIDirectory::readEvent.
MSIEvent(c, m) ==
  CASE m.src = "up" /\ m.k = "Data" /\ m.f # LLC -> "DataFromOwner"
    [] m.src = "up" /\ m.k = "Data" /\ m.f = LLC ->
         IF m.n = 0 \/ (acks[c] # 0 /\ acks[c] + m.n = 0) THEN "Data_zeroAck" ELSE "Data_nonZeroAck"
    [] m.src = "up" /\ m.k = "InvAck" -> IF lastAck(c) THEN "lastInvAck" ELSE "InvAck"
    [] OTHER -> m.k

\* MESIDirectory::readEvent: exclusive data, or as MSI.
MESIEvent(c, m) == IF m.k = "EData" THEN "Data_execlusive" ELSE MSIEvent(c, m)

\* MOESIDirectory::readEvent: counts of their own, or as MESI.
MOESIEvent(c, m) ==
  CASE m.k = "AckCount" -> IF m.n = 0 THEN "AckCount_zero" ELSE "AckCount"
    [] m.k = "Data" /\ m.f # LLC ->
         IF m.n # 0 /\ ~(acks[c] # 0 /\ acks[c] + m.n = 0)
         THEN "DataFromOwner_nonZeroAck" ELSE "DataFromOwner"
    [] OTHER -> MESIEvent(c, m)

L1Event(c, m) ==
  CASE proto = "MSI" -> MSIEvent(c, m) [] proto = "MESI" -> MESIEvent(c, m) [] OTHER -> MOESIEvent(c, m)

lastOne == Len(sharers) = 1
fromOwner(m) == m.o = owner

\* LLCMSIDirectory::readEvent.
LLCMSIEvent(m) ==
  CASE m.src = "self" -> "Replacement"
    [] m.src = "up" -> "Data_fromUpperInterface"
    [] m.src = "low" /\ m.k = "PutM" ->
         IF fromOwner(m) THEN "PutM_Data_fromOwner" ELSE "PutM_Data_fromNonOwner"
    [] m.src = "low" /\ m.k \in {"Data", "InvAckData"} -> "Data_fromLowerInterface"
    [] m.src = "low" /\ m.k = "PutS" ->
         IF lastOne /\ sharers[1] = m.o THEN "last_PutS" ELSE "PutS"
    [] m.src = "low" /\ m.k = "InvAck" -> IF lastOne THEN "last_InvAck" ELSE "InvAck"
    [] OTHER -> m.k

\* LLCMESIDirectory::readEvent: PutE, or as MSI.
LLCMESIEvent(m) ==
  IF m.k = "PutE" THEN (IF fromOwner(m) THEN "PutE_fromOwner" ELSE "PutE_fromNonOwner")
  ELSE LLCMSIEvent(m)

\* LLCMOESIDirectory::readEvent: PutO, an owner's GetM and the last holder's data, or
\* as MESI.
LLCMOESIEvent(m) ==
  CASE m.k = "PutO" -> IF ~fromOwner(m) THEN "PutO_Data_fromNonOwner"
                       ELSE IF lastOne THEN "last_PutO_fromOwner" ELSE "PutO_Data_fromOwner"
    [] m.k = "InvAckData" /\ lastOne -> "Data_fromLowerInterface_lastAck"
    [] m.k = "GetM" /\ fromOwner(m) -> "GetM_fromOwner"
    [] OTHER -> LLCMESIEvent(m)

LLCEvent(m) ==
  CASE proto = "MSI" -> LLCMSIEvent(m) [] proto = "MESI" -> LLCMESIEvent(m) [] OTHER -> LLCMOESIEvent(m)

CellOf(a, m) ==
  IF a = LLC THEN LLCCell(proto, st[a], LLCEvent(m)) ELSE L1Cell(proto, st[a], L1Event(a, m))

\* Message::isDemandRequest and isInvalidation (InvM has its code), the kinds the
\* per-line gate keeps in order.
isDemand(a, m) ==
  m.src = "low" /\ m.k \in (IF a = LLC THEN {"GetS", "GetM"} ELSE {"Load", "Store"})
Gated(a, m) == isDemand(a, m) \/ m.k = "InvM"

\* getFirstReady with getRequestState of the L1s and of the home.
Ready(a, i) ==
  LET m == queue[a][i] IN
  /\ Gated(a, m) => \A j \in 1 .. (i - 1) : ~Gated(a, queue[a][j])
  /\ \/ m.ready
     \/ a = LLC /\ hasData(m)
     \/ ~isStall(CellOf(a, m))
FirstReady(a) ==
  {i \in DOMAIN queue[a] : Ready(a, i) /\ \A j \in 1 .. (i - 1) : ~Ready(a, j)}

-----------------------------------------------------------------------------
(* Intake: addRequests2ProcessingQueue and checkReplacements.               *)

Queued(m, side, ready) ==
  [k |-> m.k, o |-> m.o, f |-> m.f, n |-> m.n, src |-> side, ready |-> ready]

\* A message for an L1: data goes to the front, anything else to the back, ready if
\* its row does not stall now.
TakeUpper(c, m, q) ==
  IF hasData(m) THEN <<Queued(m, "up", TRUE)>> \o q
  ELSE Append(q, Queued(m, "up", ~isStall(CellOf(c, Queued(m, "up", FALSE)))))

Replacement(a) ==
  IF toIssue[a] THEN <<Queued(Msg("Replacement", a, a, 0), "self", FALSE)>> ELSE <<>>

\* What the interface hands out: the oldest message of either class.
Offers(a) == {x \in {"ctl", "data"} : rx[a][x] # <<>>}
Peek(a) == IF Offers(a) = {} THEN {"none"} ELSE Offers(a)
Taken(a, x) == IF x = "none" THEN <<>> ELSE <<Head(rx[a][x])>>
Pop(a, x) == rx' = IF x = "none" THEN rx ELSE [rx EXCEPT ![a][x] = Tail(@)]

L1Intake(c) ==
  /\ c # LLC /\ ~fault /\ FirstReady(c) = {}
  /\ \E x \in Peek(c), cpu \in {<<>>, <<"Load">>, <<"Store">>} :
       LET upper == Taken(c, x)
           after == IF upper = <<>> THEN queue[c] ELSE TakeUpper(c, upper[1], queue[c])
           lower == [i \in DOMAIN cpu |-> Queued(Msg(cpu[i], c, c, 0), "low", FALSE)]
       IN  /\ x # "none" \/ cpu # <<>> \/ toIssue[c]
           /\ cpu # <<>> => left.ops[c] > 0
           /\ Pop(c, x)
           /\ queue' = [queue EXCEPT ![c] = after \o lower \o Replacement(c)]
           /\ left' = [left EXCEPT !.ops[c] = @ - Len(cpu)]
  /\ toIssue' = [toIssue EXCEPT ![c] = FALSE]
  /\ UNCHANGED <<config, st, loc, owner, sharers, acks, pending, saved, mem, net, fault>>

\* The home takes memory data, which goes to the front, and one message of an L1.
LLCIntake ==
  /\ ~fault /\ FirstReady(LLC) = {}
  /\ \E x \in Peek(LLC), arrives \in BOOLEAN :
       LET lower == Taken(LLC, x)
           upper == IF arrives THEN <<Queued(Msg("Data", mem[1], 0, 0), "up", TRUE)>> ELSE <<>>
       IN  /\ x # "none" \/ arrives \/ toIssue[LLC]
           /\ arrives => mem # <<>>
           /\ Pop(LLC, x)
           /\ mem' = IF arrives THEN Tail(mem) ELSE mem
           /\ queue' = [queue EXCEPT ![LLC] = upper \o @
                          \o [i \in DOMAIN lower |-> Queued(lower[i], "low", FALSE)]
                          \o Replacement(LLC)]
  /\ toIssue' = [toIssue EXCEPT ![LLC] = FALSE]
  /\ UNCHANGED <<config, st, loc, owner, sharers, acks, pending, saved, net, left, fault>>

\* Another line's fill evicts this one: it moves to the write-back buffer.
Evict(a) ==
  /\ ~fault /\ loc[a] = "array" /\ left.evicts[a] > 0
  /\ loc' = [loc EXCEPT ![a] = "pwb"]
  /\ toIssue' = [toIssue EXCEPT ![a] = TRUE]
  /\ left' = [left EXCEPT !.evicts[a] = @ - 1]
  /\ UNCHANGED <<config, st, owner, sharers, acks, queue, pending, saved, mem, net, rx, fault>>

-----------------------------------------------------------------------------
(* Handling of one message.                                                 *)

isValidState(a, s) == s # IF a = LLC THEN "N" ELSE "I"

\* updateCacheLine: an invalid line is dropped, data moves a line from the MSHR to the
\* array, and a line not held yet is entered in the MSHR.
LocAfter(a, m, next) ==
  IF ~isValidState(a, next) THEN "none"
  ELSE IF hasData(m) THEN (IF loc[a] = "mshr" THEN "array" ELSE loc[a])
  ELSE IF loc[a] = "none" THEN "mshr" ELSE loc[a]
UpdateFails(a, m, next) == isValidState(a, next) /\ hasData(m) /\ loc[a] = "none"
ReadFails(a, m) == ~hasData(m) /\ loc[a] \notin {"array", "pwb"}

\* setACKNumber, decrementACK, and the reset with the answer that completes the count.
AcksAfter(c, m, acts) ==
  IF "Ack_dec" \in acts THEN acks[c] - 1
  ELSE IF acts \cap {"AckNum_set", "SetAck"} # {} THEN acks[c] + m.n
  ELSE IF "Hit" \in acts /\ hasData(m) /\ acks[c] + m.n = 0 THEN 0
  ELSE acks[c]

\* The data messages MOESIDirectory adds to MSI's (PutO, and the count carried on with
\* a forwarded GetM's data).
MOESIDataKind(acts) == IF "PutO_Data" \in acts THEN "PutO" ELSE "Data"
MOESICount(m, acts) == IF proto = "MOESI" /\ "Data2Req" \in acts /\ m.k = "Fwd_GetM" THEN m.n ELSE 0

\* performWriteBack of an L1: the parked request is answered first; data this L1 owns
\* goes to the home.
WriteBacks(c, m, acts) ==
  LET o1   == IF saved[c] = <<>> THEN (IF acts \cap {"Data2Req", "Data2Both"} = {} THEN c ELSE m.o)
              ELSE saved[c][1]
      to   == {IF o1 = c THEN LLC ELSE o1} \cup (IF "Data2Both" \in acts THEN {LLC} ELSE {})
              \cup {saved[c][i] : i \in 2 .. Len(saved[c])}
      kind == IF "PutM_Data" \in acts THEN "PutM"
              ELSE IF "InvAck_Data" \in acts THEN "InvAckData" ELSE MOESIDataKind(acts)
  IN  IF acts \cap {"PutM_Data", "PutO_Data", "InvAck_Data", "Data2Req", "Data2Both"} = {}
      THEN <<>> ELSE << <<Msg(kind, o1, c, MOESICount(m, acts)), to>> >>

\* sendBusRequest of an L1; MESIDirectory adds PutE.
Requests == {"GetS", "GetM", "PutS"}
MESIRequests == Requests \cup {"PutE"}
BusMessages(c, m, acts) ==
  LET k == acts \cap MESIRequests IN
  IF k # {} THEN << <<Msg(CHOOSE x \in k : TRUE, c, c, 0), {LLC}>> >>
  ELSE IF "InvAck2Req" \in acts THEN << <<Msg("InvAck", c, c, 0), {m.o}>> >>
  ELSE <<>>

\* Requests that wait for this cache's data: SaveReq adds one, a supply answers them.
SavedAfter(c, m, acts) ==
  IF "SaveReq" \in acts THEN Append(saved[c], m.o)
  ELSE IF WriteBacks(c, m, acts) # <<>> THEN <<>> ELSE saved[c]

\* stall: the message goes back to wait for its line.
stalled(m) == [m EXCEPT !.ready = FALSE]

\* processLogic of an L1.
L1Process(c) ==
  /\ c # LLC /\ ~fault
  /\ \E i \in FirstReady(c) :
       LET m     == queue[c][i]
           cell  == CellOf(c, m)
           next  == getNextState(st[c], cell)
           acts  == cell.acts
           rest  == RemoveAt(queue[c], i)
           gives == WriteBacks(c, m, acts)
           ends  == "Hit" \in acts /\ m.src = "up"
       IN  /\ fault' = \/ "Fault" \in acts
                       \/ gives # <<>> /\ ReadFails(c, m)
                       \/ UpdateFails(c, m, next)
                       \/ ends /\ pending[c] = <<>>
           /\ queue' = [queue EXCEPT ![c] =
                IF isStall(cell) THEN Append(rest, stalled(m)) ELSE rest]
           /\ st' = [st EXCEPT ![c] = next]
           /\ loc' = IF isStall(cell) THEN loc ELSE [loc EXCEPT ![c] = LocAfter(c, m, next)]
           /\ acks' = [acks EXCEPT ![c] = AcksAfter(c, m, acts)]
           /\ pending' = [pending EXCEPT ![c] =
                IF acts \cap {"GetS", "GetM"} # {} THEN Append(@, m.k) ELSE IF ends THEN <<>> ELSE @]
           /\ saved' = [saved EXCEPT ![c] = SavedAfter(c, m, acts)]
           /\ Push(c, gives \o BusMessages(c, m, acts))
  /\ UNCHANGED <<config, owner, sharers, toIssue, mem, rx, left>>

Without(s, x) ==
  IF x \in ToSet(s) THEN RemoveAt(s, CHOOSE i \in DOMAIN s : s[i] = x /\ \A j \in 1 .. (i - 1) : s[j] # x)
  ELSE s

SharerForgotten(m, acts) ==
  IF "SetOwner" \in acts THEN <<m.o>>
  ELSE IF "DecSharers" \in acts THEN Without(sharers, m.o)
  ELSE sharers

\* setSharers, incrementSharers, decrementSharers.
SharersAfter(m, acts) ==
  IF "SetOwner" \in acts THEN <<m.o>>
  ELSE IF "IncSharers" \in acts THEN Append(sharers, m.o)
  ELSE IF "DecSharers" \in acts THEN Without(sharers, m.o)
  ELSE sharers

OwnerAfter(m, acts) ==
  IF "SetOwner" \in acts THEN m.o ELSE IF "ClearOwner" \in acts THEN 0 ELSE owner

\* The directory entry the row leaves; a line that is no longer held has no owner.
HomeLine(m, acts, next) ==
  [owner |-> IF isValidState(LLC, next) THEN OwnerAfter(m, acts) ELSE 0,
   sharers |-> SharersAfter(m, acts)]

\* Mutant: the requester counts itself.
AllSharers(m) == Len(sharers)

\* The sharers an acknowledgement count stands for.
Others(m) == Len(Without(sharers, m.o))

When(acts, a, packet) == IF a \in acts THEN <<packet>> ELSE <<>>

\* The home's sendForwardMessage of a request to the owner, with the number of sharers
\* that will acknowledge, which only MOESI uses.
Forward(k, m) ==
  <<Msg(k, m.o, LLC, Len(SelectSeq(sharers, LAMBDA s : s \notin {m.o, owner}))), {owner}>>

\* LLCMSIDirectory::handleAction: the messages of the home.
LLCMSIMessages(m, acts) ==
  When(acts, "SendData", <<Msg("Data", m.o, LLC, IF OwnerAfter(m, acts) = 0 THEN 0 ELSE Others(m)), {m.o}>>)
  \o When(acts, "PutAck", <<Msg("Put_Ack", LLC, LLC, 0), {m.o}>>)
  \o When(acts, "FwdGetS", Forward("Fwd_GetS", m))
  \o When(acts, "SendInv", <<Msg("Inv", m.o, LLC, 0), ToSet(sharers) \ {m.o}>>)
  \o When(acts, "FwdGetM", Forward("Fwd_GetM", m))

\* LLCMESIDirectory::handleAction adds exclusive data.
LLCMESIMessages(m, acts) ==
  LLCMSIMessages(m, acts) \o When(acts, "SendEData", <<Msg("EData", m.o, LLC, 0), {m.o}>>)

\* LLCMOESIDirectory::handleAction sends the count to an owner that upgrades and the
\* recall of an owned line, and leaves the owner out of the invalidated.
LLCMOESIMessages(m, acts) ==
  LET old == IF m.o # LLC THEN {owner} ELSE {} IN
  LLCMESIMessages(m, acts \ {"SendInv", "FwdGetM"})
  \o When(acts, "sendAckC", <<Msg("AckCount", LLC, LLC, Others(m)), {m.o}>>)
  \o When(acts, "SendInv", <<Msg("Inv", m.o, LLC, 0), (ToSet(sharers) \ {m.o}) \ old>>)
  \o When(acts, "FwdGetM", Forward("Fwd_GetM", m))
  \o When(acts, "SendInvM", <<Msg("InvM", m.o, LLC, 0), {owner}>>)

HomeMessages(m, acts) ==
  CASE proto = "MSI" -> LLCMSIMessages(m, acts)
    [] proto = "MESI" -> LLCMESIMessages(m, acts)
    [] OTHER -> LLCMOESIMessages(m, acts)

\* processLogic of the home.
LLCProcess ==
  /\ ~fault
  /\ \E i \in FirstReady(LLC) :
       LET m     == queue[LLC][i]
           cell  == CellOf(LLC, m)
           next  == getNextState(st[LLC], cell)
           acts  == cell.acts
           gives == acts \cap {"SendData", "SendEData"} # {}
           ends  == gives /\ m.src = "up"
       IN  /\ fault' = \/ acts \cap {"Fault", "Stall"} # {}
                       \/ gives /\ ReadFails(LLC, m)
                       \/ UpdateFails(LLC, m, next)
                       \/ ends /\ pending[LLC] = <<>>
                       \/ "SendInv" \in acts /\ sharers = <<>>
                       \/ acts \cap {"FwdGetS", "FwdGetM", "SendInvM"} # {} /\ owner = 0
           /\ queue' = [queue EXCEPT ![LLC] = RemoveAt(@, i)]
           /\ st' = [st EXCEPT ![LLC] = next]
           /\ loc' = [loc EXCEPT ![LLC] = LocAfter(LLC, m, next)]
           /\ owner' = HomeLine(m, acts, next).owner
           /\ sharers' = HomeLine(m, acts, next).sharers
           /\ pending' = [pending EXCEPT ![LLC] =
                IF "GetData" \in acts THEN Append(@, m.o) ELSE IF ends THEN <<>> ELSE @]
           /\ mem' = IF "GetData" \in acts THEN Append(mem, m.o) ELSE mem
           /\ Push(LLC, HomeMessages(m, acts))
  /\ UNCHANGED <<config, acks, saved, toIssue, rx, left>>

-----------------------------------------------------------------------------
\* Nothing is in flight, queued or unanswered, and no cache is between two states.
Stable == {"N", "I", "S", "E", "M", "O"}
Quiet ==
  /\ \A a \in Agents : queue[a] = <<>> /\ rx[a].ctl = <<>> /\ rx[a].data = <<>> /\ pending[a] = <<>>
  /\ \A a \in Agents : ~toIssue[a] /\ st[a] \in Stable
  /\ \A c \in Channels : net[c] = <<>>
  /\ mem = <<>>

\* What a turn of the clock does: the interconnect moves a message or a controller
\* takes or handles one.
Work ==
  \/ \E c \in Channels : Deliver(c)
  \/ \E c \in Cores : L1Intake(c) \/ L1Process(c)
  \/ LLCIntake \/ LLCProcess

Next == Work \/ (\E a \in Agents : Evict(a))

Spec == Init /\ [][Next]_vars

\* The clock keeps running, and memory answers; nothing is assumed of the order in
\* which channels and controllers are served, or of evictions.
FairSpec == Spec /\ WF_vars(Work)

-----------------------------------------------------------------------------
(* Properties.                                                              *)

\* No controller meets a cell its table calls a fault, a stall it cannot hold, data for
\* a line it does not track, an answer nobody waits for, or an empty sharer list to
\* invalidate (the exit(0) paths of handleAction and the actions it returns).
NoFault == ~fault

\* The copies of messages that have been pushed and not yet handled, each with the
\* agent it is for.
Copies ==
  UNION {{<<c, i, d, net[c][i].m>> : d \in net[c][i].to} : <<c, i>> \in
           UNION {{c} \X DOMAIN net[c] : c \in Channels}}
  \cup UNION {{<< <<x>>, i, a, rx[a][x][i]>> : i \in DOMAIN rx[a][x]} :
           <<a, x>> \in Agents \X {"ctl", "data"}}
  \cup UNION {{<< <<"queue">>, i, a, queue[a][i]>> : i \in DOMAIN queue[a]} : a \in Agents}

\* The count of acknowledgements a copy brings to core c: in its data, in the
\* AckCount, or (MOESI) through the owner that has still to supply the data.
Promise(c, copy) ==
  LET m == copy[4] IN
  IF \/ m.k \in {"Data", "AckCount"} /\ copy[3] = c
     \/ m.k = "Fwd_GetM" /\ m.o = c /\ proto = "MOESI"
  THEN m.n ELSE 0

\* The acknowledgements a core is told to wait for are exactly those on their way to
\* it and those the sharers still have to send, whatever overtakes what: setACKNumber
\* and decrementACK, in either order, end at zero (m_ack_counters).
AckConservation ==
  \A c \in Cores :
    acks[c] + MapThenSumSet(LAMBDA copy : Promise(c, copy), Copies)
      = Cardinality({copy \in Copies : \/ copy[4].k = "InvAck" /\ copy[3] = c
                                       \/ copy[4].k = "Inv" /\ copy[4].o = c})

-----------------------------------------------------------------------------
(* The promise of the protocol: the specification of CoherentLine.          *)

\* What a core may do with its copy: the accesses its table answers without a request.
PermOf(s) ==
  IF "Hit" \in L1Cell(proto, s, "Store").acts THEN "write"
  ELSE IF "Hit" \in L1Cell(proto, s, "Load").acts THEN "read" ELSE "none"

\* When all is quiet the home knows every copy: its owner is the one core that may
\* write, every core with a copy is in its sharer list or is its owner, and a line it
\* calls unshared has no copy (owner_id and m_sharers against the L1s' states).
DirectoryExact ==
  Quiet /\ ~fault =>
    /\ \A c \in Cores : PermOf(st[c]) = "write" => owner = c
    /\ \A c \in Cores : isValidState(c, st[c]) => c = owner \/ c \in ToSet(sharers)
    /\ st[LLC] \in {"N", "I"} => \A c \in Cores : ~isValidState(c, st[c])

Abs == INSTANCE CoherentLine
         WITH Core <- Cores,
              perm <- [c \in Cores |-> PermOf(st[c])],
              want <- {c \in Cores : pending[c] # <<>>}

\* The directory protocol implements the promise: write permission excludes every
\* other copy at every moment, and no core gains permission it did not ask for.
Implements == Abs!AbsSpec

\* Every miss is answered, every eviction is acknowledged and every stalled message is
\* taken up again: once the cores stop issuing, all comes to rest.
Settles == <>[]Quiet
=============================================================================
