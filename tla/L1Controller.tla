---------------------------- MODULE L1Controller ----------------------------
(***************************************************************************)
(* One L1 controller and all its lines: the processing queue               *)
(* (FRFCFS_Buffer), the intake and the loop of BaseController and          *)
(* CacheController, its data array and line interlock, the MSHR            *)
(* and the write-back registers of CacheDataHandler_COTS, with the MSI     *)
(* table of the snooping preset.                                           *)
(*                                                                         *)
(* Snooping follows one line through every cache; this module follows      *)
(* every line through one cache.  The bus is the environment: it returns   *)
(* what a request is owed (its own broadcast, then data) and snoops lines  *)
(* at will.  Data sent to other caches leaves no trace here.               *)
(***************************************************************************)
EXTENDS Integers, Sequences, FiniteSets, MSITables

CONSTANTS
  Lines,            \* cache lines, all of one set
  Ways,             \* ways of the set
  PqSize,           \* pq_size, -1 for unbounded
  NumMshr,          \* num_mshr, -1 for unbounded
  Arrays,           \* data arrays: "instant" (no latency), "occupancy" or "pipelined"
  Ports,            \* m_data_array_ports: accesses the pipelined array starts in a cycle
  ArrayLatency,     \* m_data_access_latency of the other two
  StoresCarryData,  \* a store brings its bytes (ExternalCPU), or none (CPU traces)
  MaxDemands,       \* bound: loads and stores issued
  MaxSnoops         \* bound: requests and invalidations of others

ASSUME L1Assumption ==
  /\ IsFiniteSet(Lines)
  /\ Ways \in Nat \ {0}
  /\ PqSize \in Nat \cup {-1} /\ NumMshr \in Nat \cup {-1}
  /\ Arrays \subseteq {"instant", "occupancy", "pipelined"}
  /\ Ports \in Nat \ {0} /\ ArrayLatency \in Nat \ {0}
  /\ StoresCarryData \in BOOLEAN
  /\ MaxDemands \in Nat /\ MaxSnoops \in Nat

VARIABLES
  queue,      \* m_buffer of the processing queue
  dirty,      \* m_dirty
  st,         \* coherence state of each line
  reg,        \* where it is held: "none", "mshr", "array" or "pwb"
  pending,    \* m_pending_requests: the demands waiting for each line
  toIssue,    \* m_pwb_pending_issue
  owed,       \* environment: bus messages each line's requests will still cause
  looping,    \* the intake of this cycle is done
  array,      \* the kind of data array: fixed by the configuration
  ops,        \* m_array_ops: messages deferred until the array has served them
  started,    \* m_array_admitted_this_cycle of the pipelined array
  busy,       \* cycles until m_ready_cycle of the occupancy array
  snoops,     \* bound: snoops left
  issued,     \* history: demands taken from the core so far
  retried,    \* history: demands put back because no MSHR was free
  dropped,    \* history: demands whose put-back met a full queue
  served,     \* history: demands in the order the FSM ran them
  answered    \* history: demands answered to the core

vars == <<queue, dirty, st, reg, pending, toIssue, owed, looping, array, ops,
          started, busy, snoops, issued, retried, dropped, served, answered>>

\* A queued message; id numbers the core's demands and is 0 for others.
Element(k, l, id, up) == [k |-> k, line |-> l, id |-> id, ready |-> up]

CpuOps == {"Load", "Store"}
FromBus(m) == m.k \notin CpuOps \cup {"Replacement"}
Snooped == {"Other_GetS", "Other_GetM", "Invalidation"}

\* Message::isDemandRequest: from the core, without data.
isDemandRequest(m) == m.k = "Load" \/ (m.k = "Store" /\ ~StoresCarryData)

Init ==
  /\ queue = <<>> /\ dirty = TRUE
  /\ st = [l \in Lines |-> "I"] /\ reg = [l \in Lines |-> "none"]
  /\ pending = [l \in Lines |-> <<>>] /\ toIssue = <<>>
  /\ owed = [l \in Lines |-> <<>>]
  /\ looping = FALSE
  /\ array \in Arrays /\ ops = <<>> /\ started = 0 /\ busy = 0
  /\ snoops = MaxSnoops /\ issued = 0 /\ retried = {} /\ dropped = {}
  /\ served = <<>> /\ answered = <<>>

-----------------------------------------------------------------------------
(* FRFCFS_Buffer.                                                           *)

InsertAt(s, p, e) == SubSeq(s, 1, p) \o <<e>> \o SubSeq(s, p + 1, Len(s))

\* Mutant of Erase: the first element goes, whichever was returned.
EraseFirst(s, i) == Tail(s)

Erase(s, i) == SubSeq(s, 1, i - 1) \o SubSeq(s, i + 1, Len(s))

\* A bus message enters as Ready, behind the last one of the bus and ahead of the rest.
pushFrontOrdered(s, e) ==
  InsertAt(s, CHOOSE p \in 0 .. Len(s) : /\ p = 0 \/ FromBus(s[p])
                                         /\ \A q \in (p + 1) .. Len(s) : ~FromBus(s[q]), e)

\* pushBack of a NonReady element finds room.
HasRoom(s) == PqSize = -1 \/ Len(s) < PqSize
pushBack(s, e) == IF HasRoom(s) THEN Append(s, e) ELSE s

\* Every push marks the queue dirty.
DirtyAfter(q) == dirty \/ q # queue

\* Mutant of lineHasDeferredOp: the interlock is left off while accesses are deferred.
InterlockOff(l) == FALSE

\* The line interlock: a message to a line with a deferred access waits in its place.
lineHasDeferredOp(l) == \E o \in DOMAIN ops : ops[o].msg.line = l
Held(m) == lineHasDeferredOp(m.line)

\* The per-line gate and the coherence stall.
Gated(m) == isDemandRequest(m) \/ m.k = "Invalidation"
BlockedByOlder(i) ==
  Gated(queue[i]) /\ \E j \in 1 .. (i - 1) : Gated(queue[j]) /\ queue[j].line = queue[i].line
Ready(i) ==
  /\ ~Held(queue[i])
  /\ ~BlockedByOlder(i)
  /\ queue[i].ready \/ ~isStall(L1Cell(st[queue[i].line], queue[i].k))

\* getFirstReady: {} or the position returned; a clean queue is not scanned.
Scan == {i \in DOMAIN queue : Ready(i) /\ \A j \in 1 .. (i - 1) : ~Ready(j)}
FirstReady == IF dirty THEN Scan ELSE {}

-----------------------------------------------------------------------------
(* The data array.  A deferred access waits for a port, then for the        *)
(* latency of the pipelined array, and is due when no cycle is left.        *)

NoPort == -1
DataArrayOp(m) == [msg |-> m, left |-> NoPort]
Due == {o \in DOMAIN ops : ops[o].left = 0}

\* arrayElect and arrayAdmit: the oldest waiting accesses take the ports left when n
\* have started.
Elected(seq, n) ==
  {o \in DOMAIN seq : /\ seq[o].left = NoPort
                      /\ Cardinality({p \in 1 .. o : seq[p].left = NoPort}) + n <= Ports}
arrayAdmit(seq, n) ==
  [o \in DOMAIN seq |->
     IF o \in Elected(seq, n) THEN [seq[o] EXCEPT !.left = ArrayLatency] ELSE seq[o]]

\* pipelineStep, at the start of the next cycle: a cycle has passed for the accesses under
\* way and the ports are free again.
pipelineStep ==
  LET passed == [o \in DOMAIN ops |->
                   IF ops[o].left > 0 THEN [ops[o] EXCEPT !.left = @ - 1] ELSE ops[o]]
  IN  /\ ops' = arrayAdmit(passed, 0)
      /\ started' = Cardinality(Elected(passed, 0))
      /\ busy' = busy

\* updateCycle and isReady: the array is free once m_ready_cycle is reached.
updateCycle == IF busy = 0 THEN 0 ELSE busy - 1
isReady == busy = 0

\* processDataArrayBuffer, at the start of the next cycle: when the array is free, the
\* oldest access runs.
processDataArrayBuffer ==
  /\ busy' = updateCycle
  /\ ops' = [o \in DOMAIN ops |->
               IF o = 1 /\ isReady' THEN [ops[o] EXCEPT !.left = 0] ELSE ops[o]]
  /\ started' = started

CycleStarts == IF array = "pipelined" THEN pipelineStep ELSE processDataArrayBuffer

\* needsDataArray: the row reads or writes the line's bytes.
needsDataArray(m) ==
  L1Cell(st[m.line], m.k).acts \cap {"Hit", "Data2Req", "Data2Both"} # {}

\* messageTouchesArray: so do bytes from below, which are written to the pipelined array
\* whatever the row.
messageTouchesArray(m) == needsDataArray(m) \/ m.k = "OwnData"

\* deferForDataArray, with line_interlock on.  A line in a write-back register has left
\* the pipelined array; the occupancy array defers only while it is busy.
Defers(m) ==
  \/ array = "pipelined" /\ reg[m.line] # "pwb" /\ messageTouchesArray(m)
  \/ array = "occupancy" /\ ~isReady /\ needsDataArray(m)

\* The row reaches the array: a fill writes the line, other rows read or modify it unless
\* the message itself brings the bytes.
AccessesArray(m, next) ==
  IF m.k = "OwnData" THEN isValidState(next) ELSE needsDataArray(m)

\* checkReadinessOfCache grants the access, and it closes the occupancy array.
BusyAfter(m, next) ==
  IF array = "occupancy" /\ AccessesArray(m, next) THEN ArrayLatency ELSE busy

-----------------------------------------------------------------------------
(* One cycle: the due accesses, the intake, then the loop of processLogic.  *)

\* The bus message taken this cycle, none, or a snoop.
BusChoices ==
  {<<>>} \cup {<<[line |-> l, k |-> Head(owed[l])]>> : l \in {x \in Lines : owed[x] # <<>>}}
         \cup (IF snoops = 0 THEN {} ELSE {<<[line |-> l, k |-> k]>> : l \in Lines, k \in Snooped})
CpuChoices ==
  {<<>>} \cup (IF issued = MaxDemands THEN {}
               ELSE {<<[line |-> l, k |-> k]>> : l \in Lines, k \in CpuOps})

\* The demand the core offers finds the queue full and stays in the link.
Refused(s, cpu) ==
  cpu # <<>> /\ ~HasRoom(s) /\ isDemandRequest(Element(cpu[1].k, cpu[1].line, 0, FALSE))

\* Mutant of Replacements: a clean victim needs no write-back.
DirtyVictimsOnly ==
  IF toIssue = <<>> \/ st[Head(toIssue)] # "M" THEN <<>>
  ELSE <<Element("Replacement", Head(toIssue), 0, FALSE)>>

\* checkReplacements: the oldest eviction not issued yet, past the queue's bound.
Replacements ==
  IF toIssue = <<>> THEN <<>> ELSE <<Element("Replacement", Head(toIssue), 0, FALSE)>>

\* pipelineFlushLine: the accesses of the line that is replaced are due at once.
pipelineFlushLine ==
  [o \in DOMAIN ops |->
     IF toIssue # <<>> /\ ops[o].msg.line = Head(toIssue) THEN [ops[o] EXCEPT !.left = 0]
     ELSE ops[o]]

\* addRequests2ProcessingQueue and checkReplacements: one message of the bus, one of
\* the core, one replacement.
Intake ==
  /\ ~looping /\ Due = {}
  /\ \E up \in BusChoices, cpu \in CpuChoices :
       LET q1 == IF up = <<>> THEN queue
                 ELSE pushFrontOrdered(queue, Element(up[1].k, up[1].line, 0, TRUE))
           q2 == IF cpu = <<>> THEN q1
                 ELSE Append(q1, Element(cpu[1].k, cpu[1].line, issued + 1, FALSE))
           q3 == q2 \o Replacements
           snooped == up # <<>> /\ up[1].k \in Snooped
       IN  /\ ~Refused(q1, cpu)
           /\ queue' = q3
           /\ dirty' = DirtyAfter(q3)
           /\ issued' = issued + Len(cpu)
           /\ toIssue' = IF toIssue = <<>> THEN <<>> ELSE Tail(toIssue)
           /\ owed' = IF up = <<>> \/ snooped THEN owed ELSE [owed EXCEPT ![up[1].line] = Tail(@)]
           /\ snoops' = IF snooped THEN snoops - 1 ELSE snoops
  /\ ops' = pipelineFlushLine
  /\ looping' = TRUE
  /\ UNCHANGED <<st, reg, pending, array, started, busy, retried, dropped, served,
                 answered>>

\* canAdmitRequest: a demand for a line the cache knows nothing of needs a free MSHR.
Outstanding == Cardinality({l \in Lines : pending[l] # <<>>})

\* Mutant of canAdmitRequest: the last MSHR is never given out.
LastMshrUnused(m) ==
  \/ ~isDemandRequest(m)
  \/ reg[m.line] # "none"
  \/ pending[m.line] # <<>>
  \/ NumMshr = -1 \/ Outstanding + 1 < NumMshr

canAdmitRequest(m) ==
  \/ ~isDemandRequest(m)
  \/ reg[m.line] # "none"
  \/ pending[m.line] # <<>>
  \/ NumMshr = -1 \/ Outstanding < NumMshr

\* No MSHR is free: the request goes to the end of the queue, unless that is full, and
\* the cycle is over.
AdmitFails ==
  /\ looping /\ Due = {}
  /\ \E i \in FirstReady :
       /\ ~canAdmitRequest(queue[i])
       /\ queue' = pushBack(Erase(queue, i), queue[i])
       /\ retried' = retried \cup {queue[i].id}
       /\ dropped' = IF HasRoom(Erase(queue, i)) THEN dropped ELSE dropped \cup {queue[i].id}
  /\ looping' = FALSE /\ CycleStarts
  /\ UNCHANGED <<dirty, st, reg, pending, toIssue, owed, array, snoops, issued, served,
                 answered>>

\* deferForDataArray and arrayEnqueue: the message leaves the queue and may start at once.
Defer ==
  /\ looping /\ Due = {}
  /\ \E i \in FirstReady :
       LET waiting == Append(ops, DataArrayOp(queue[i]))
       IN  /\ canAdmitRequest(queue[i]) /\ Defers(queue[i])
           /\ queue' = Erase(queue, i)
           /\ IF array = "pipelined"
                THEN /\ ops' = arrayAdmit(waiting, started)
                     /\ started' = started + Cardinality(Elected(waiting, started))
                ELSE ops' = waiting /\ started' = started
  /\ UNCHANGED <<dirty, st, reg, pending, toIssue, owed, looping, array, busy, snoops, issued,
                 retried, dropped, served, answered>>

\* What a bus request of the line is owed.
OwedFor(acts) ==
  IF "GetS" \in acts THEN <<"Own_GetS", "OwnData">>
  ELSE IF "GetM" \in acts THEN <<"Own_GetM", "OwnData">>
  ELSE IF "PutM" \in acts THEN <<"Own_PutM">> ELSE <<>>

\* updateCacheLine.  Data for a line in the MSHR moves it to the array, and if no way is
\* free some resident line goes to the write-back registers and is queued for issue.
Fills(m, next) == m.k = "OwnData" /\ isValidState(next) /\ reg[m.line] = "mshr"
Resident == {l \in Lines : reg[l] = "array"}

Victims(m, next) ==
  IF Fills(m, next) /\ Cardinality(Resident) >= Ways THEN {<<v>> : v \in Resident} ELSE {<<>>}
RegAfter(m, next, victim) ==
  [l \in Lines |->
     IF victim = <<l>> THEN "pwb"
     ELSE IF l # m.line THEN reg[l]
     ELSE IF ~isValidState(next) THEN "none"
     ELSE IF Fills(m, next) THEN "array"
     ELSE IF reg[l] = "none" THEN "mshr" ELSE reg[l]]

\* The rows that end in exit(0): a Fault cell, or a fill whose request is gone.  No step
\* is taken from there, so TLC's deadlock check looks for them.
exits(m, cell) ==
  \/ "Fault" \in cell.acts
  \/ "Hit" \in cell.acts /\ FromBus(m) /\ pending[m.line] = <<>>

\* processRequest and the controller actions of its row.
processRequest(m) ==
  LET cell   == L1Cell(st[m.line], m.k)
      next   == getNextState(st[m.line], cell)
      hit    == "Hit" \in cell.acts
      opens  == cell.acts \cap {"GetS", "GetM"} # {}
  IN  /\ ~exits(m, cell)
      /\ st' = [st EXCEPT ![m.line] = next]
      /\ \E victim \in Victims(m, next) :
           /\ reg' = RegAfter(m, next, victim)
           /\ toIssue' = toIssue \o victim
      /\ owed' = [owed EXCEPT ![m.line] = @ \o OwedFor(cell.acts)]
      /\ pending' = [pending EXCEPT ![m.line] =
           IF hit /\ FromBus(m) THEN <<>> ELSE IF opens THEN Append(@, m.id) ELSE @]
      /\ answered' = IF ~hit THEN answered
                     ELSE answered \o (IF FromBus(m) THEN pending[m.line] ELSE <<m.id>>)
      /\ busy' = BusyAfter(m, next)
      /\ served' = IF m.k \in CpuOps THEN Append(served, [line |-> m.line, id |-> m.id])
                   ELSE served

\* processLogic runs the message it popped.
Process ==
  /\ looping /\ Due = {}
  /\ \E i \in FirstReady :
       /\ canAdmitRequest(queue[i]) /\ ~Defers(queue[i])
       /\ queue' = Erase(queue, i)
       /\ processRequest(queue[i])
  /\ UNCHANGED <<dirty, looping, array, ops, started, snoops, issued, retried,
                 dropped>>

\* Mutant of pipelineFire: the queue is not rescanned.
FireNotNoted ==
  /\ \E o \in Due :
       /\ \A p \in Due : o <= p
       /\ ops' = Erase(ops, o)
       /\ queue' = queue /\ processRequest(ops[o].msg)
  /\ UNCHANGED <<dirty, looping, array, started, snoops, issued, retried,
                 dropped>>

\* pipelineFire of the oldest due access: its row runs on the line's present state; if
\* that stalls, the message goes to the end of the queue, past its bound.
pipelineFire ==
  /\ \E o \in Due :
       LET m == ops[o].msg
       IN  /\ \A p \in Due : o <= p
           /\ ops' = Erase(ops, o)
           /\ IF isStall(L1Cell(st[m.line], m.k))
                THEN /\ queue' = Append(queue, [m EXCEPT !.ready = FALSE])
                     /\ UNCHANGED <<st, reg, toIssue, owed, pending, busy, answered, served>>
                ELSE queue' = queue /\ processRequest(m)
  /\ dirty' = TRUE
  /\ UNCHANGED <<looping, array, started, snoops, issued, retried, dropped>>

\* getFirstReady returns nothing: the scan leaves the queue clean.
EndCycle ==
  /\ looping /\ Due = {} /\ FirstReady = {}
  /\ dirty' = FALSE
  /\ looping' = FALSE /\ CycleStarts
  /\ UNCHANGED <<queue, st, reg, pending, toIssue, owed, array, snoops, issued, retried,
                 dropped, served, answered>>

Next == Intake \/ AdmitFails \/ Defer \/ Process \/ pipelineFire \/ EndCycle

Spec == Init /\ [][Next]_vars

(***************************************************************************)
(* The clock runs the controller for ever and the bus delivers what it     *)
(* owes.                                                                   *)
(***************************************************************************)
FairSpec ==
  /\ Spec /\ WF_vars(Next)
  /\ \A l \in Lines : SF_vars(Intake /\ Len(owed'[l]) < Len(owed[l]))

-----------------------------------------------------------------------------
(* Properties.                                                              *)

\* The rescan skip loses nothing: while the queue is marked clean no queued message is
\* ready, the ones held behind a deferred access included, so getFirstReady may return
\* without looking (FRFCFS_Buffer, m_dirty).
CleanMeansIdle == ~dirty => Scan = {}

\* No eviction is forgotten: a line in a write-back register waits for its replacement
\* message to be issued, has it queued, or has its PutM queued, deferred or on the bus
\* (m_pwb_pending_issue: orphaned entries would never drain).
NoOrphanEviction ==
  \A l \in Lines : reg[l] = "pwb" =>
    \/ \E i \in DOMAIN toIssue : toIssue[i] = l
    \/ \E i \in DOMAIN queue : queue[i].line = l /\ queue[i].k \in {"Replacement", "Own_PutM"}
    \/ \E o \in DOMAIN ops : ops[o].msg.line = l /\ ops[o].msg.k = "Own_PutM"
    \/ \E i \in DOMAIN owed[l] : owed[l][i] = "Own_PutM"

\* Copies of a demand: queued, deferred, waiting for its line, or answered.
Copies(id) ==
  {<<"queue", i>> : i \in {j \in DOMAIN queue : queue[j].id = id}}
  \cup {<<"ops", o>> : o \in {p \in DOMAIN ops : ops[p].msg.id = id}}
  \cup (UNION {{<<l, i>> : i \in {j \in DOMAIN pending[l] : pending[l][j] = id}} : l \in Lines})
  \cup {<<"answered", i>> : i \in {j \in DOMAIN answered : answered[j] = id}}

\* A demand the controller has taken is never lost and never answered twice
\* (processLogic, addtoPendingRequests, removePendingAndRespond, deferForDataArray), but for
\* one put back after it met a full MSHR: replacements and messages the interlock holds may
\* have filled the queue, and processLogic ignores that pushBack refuses it.
DemandConserved == \A id \in (1 .. issued) \ dropped : Cardinality(Copies(id)) = 1

\* Per-line FCFS: the core's loads and stores to one line are run in the order the
\* controller took them (FRFCFS_Buffer, m_line_mask).  One is passed only after it met a
\* full MSHR and went to the end of the queue (processLogic).
SameLineOrder ==
  \A i, j \in DOMAIN served :
    i < j /\ served[i].line = served[j].line /\ served[i].id > served[j].id
      => served[j].id \in retried

\* Every load and store the controller takes and does not drop is answered: again and
\* again, nothing it has taken is left unanswered.
EveryDemandAnswered == []<>(Len(answered) + Cardinality(dropped) = issued)
=============================================================================
