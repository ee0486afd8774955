--------------------------- MODULE DramController ---------------------------
(***************************************************************************)
(* MCsim's MemoryController and MemoryDevice, for every memory system of   *)
(* src/MCsim/system: requests enter by addRequest(), every DRAM cycle runs *)
(* the request scheduler, puts the commands it generated into the command  *)
(* queues, sends at most one command and moves the data on the bus.  The   *)
(* device checks timing and never the row: that a column access meets its  *)
(* row open is up to the schedulers.                                       *)
(***************************************************************************)
EXTENDS DramCommands

CONSTANTS
  Systems,      \* the memory systems (.ini files) Init chooses from
  Offered,      \* the requests made: [core, addr, write]
  BankOf, RowOf, \* the address mapping
  MaxRequests   \* bound on the requests of a behaviour

ASSUME ControllerConstants ==
  /\ MaxRequests \in Nat /\ \A x \in Systems : x.gene \in {"DDR3", "DDR4"}
  /\ \A o \in Offered : /\ o.core \in Cores /\ o.write \in BOOLEAN
                        /\ BankOf[o.addr] \in Banks /\ RowOf[o.addr] \in Rows

VARIABLES
  sys,      \* the memory system in use
  rq,       \* request queues and request scheduler
  cq,       \* command queues and command scheduler
  dev,      \* the device: open rows, timing, read data, posted commands
  reads,    \* pendingReadRequest
  writes,   \* pendingWriteRequest
  data,     \* sendDataBuffer with sendDataCounter
  bus,      \* the command sent in the last cycle
  count,    \* requests made
  stamp,    \* arrival time: cycles that saw an arrival
  fresh,    \* a request arrived since the last cycle
  cstamp,   \* arrival time of commands: cycles that enqueued some
  clk       \* parity of the DRAM clock

vars == <<sys, rq, cq, dev, reads, writes, data, bus, count, stamp, fresh, cstamp, clk>>

(* SetKey: a memory system is its schedulers and generator, named by       *)
(* RequestScheduler, CommandGenerator and CommandScheduler, and the shape  *)
(* of its queues, by ReqPerREQ, CmdPerREQ and WriteQueue.                  *)
SetKeys(name, gene, req, gen, cmd, perReq, perCmd, writeQ) ==
  [name |-> name, gene |-> gene, req |-> req, gen |-> gen, cmd |-> cmd, perReq |-> perReq,
   perCmd |-> perCmd, writeQ |-> writeQ]

(* Rows closed, no timer running, nothing on its way.                      *)
DeviceInit ==
  [row |-> [b \in Banks |-> NoRow], wait |-> [b \in Banks |-> NoWait],
   rank |-> NoWait, reads |-> <<>>, posted |-> <<>>]

Init ==
  /\ sys \in Systems
  /\ rq \in {SchedulerInit(drain) : drain \in IF sys.writeQ THEN BOOLEAN ELSE {FALSE}}
  /\ cq \in {CommandInit(sys, heap) : heap \in IF sys.cmd = "Round" THEN Heaps ELSE {NoHeap}}
  /\ dev = DeviceInit
  /\ reads = <<>> /\ writes = <<>> /\ data = <<>> /\ bus = NoCommand
  /\ count = 0 /\ stamp = 0 /\ fresh = FALSE /\ cstamp = 0 /\ clk = 0

(* addRequest: map the address, insert, remember for the answer.           *)
addressMapping(o) == [bank |-> BankOf[o.addr], row |-> RowOf[o.addr]]
addRequest(o) ==
  LET a == addressMapping(o)
      r == [id |-> count + 1, core |-> o.core, addr |-> o.addr, bank |-> a.bank,
            row |-> a.row, write |-> o.write, arrive |-> stamp, parts |-> Burst]
  IN  /\ count < MaxRequests
      /\ rq' = insertRequest(rq, sys, r)
      /\ IF r.write THEN writes' = Append(writes, r) /\ UNCHANGED reads
                    ELSE reads' = Append(reads, r) /\ UNCHANGED writes
      /\ count' = count + 1 /\ fresh' = TRUE
      /\ UNCHANGED <<sys, cq, dev, data, bus, stamp, cstamp, clk>>

(* What the request schedulers read of the command queues: a bank without  *)
(* commands is free.  The one queue of a system with requestor buffers has *)
(* number 0 and its own buffer, which they look at, is never used.         *)
Sensed(s) ==
  [s EXCEPT !.free = IF sys.perCmd THEN {0} ELSE {b \in Banks : cq.q[b] = <<>>},
            !.empty = \A x \in Queues(sys) : cq.q[x] = <<>>,
            !.full = ~sys.perCmd /\ \E b \in Banks : Len(cq.q[b]) >= 2]

(* enqueueCommand for everything the generator left.                       *)
enqueueCommand(k, gen) ==
  FoldLeft(LAMBDA t, c : insertCommand(t, sys, [c EXCEPT !.at = cstamp]), k, gen)

(* Device: a command takes effect, rows and timing, and a read brings data *)
(* rl cycles later; a posted one waits rcd first.                          *)
RowAfter(c, row) == CASE ClassOf(c) = "ACT" -> c.row [] c.type \in {"PRE", "RDA", "WRA"} -> NoRow
                      [] OTHER -> row
generateData(d, c) ==
  IF ClassOf(c) = "RD" THEN [d EXCEPT !.reads = Append(@, [core |-> c.core, addr |-> c.addr,
                                                           wait |-> Speed[sys.gene].rl])]
  ELSE d
Apply(d, c) ==
  generateData([d EXCEPT !.row[c.bank] = RowAfter(c, @),
                         !.wait[c.bank] = MaxEach(@, BankTiming(Speed[sys.gene], c)),
                         !.rank = MaxEach(@, RankTiming(sys.gene, c))], c)
receiveFromBus(d, c) ==
  CASE c = NoCommand -> d
    [] c # NoCommand /\ c.post -> [d EXCEPT !.posted = Append(@, [cmd |-> c, wait |-> Speed[sys.gene].rcd])]
    [] OTHER -> Apply(d, c)

(* Answers go to the first pending request of the requestor and address;   *)
(* one of several bursts is only made shorter.                             *)
Answer(q, x) ==
  LET i == SelectInSeq(q, LAMBDA r : r.core = x.core /\ r.addr = x.addr)
  IN  CASE i = 0 -> q
        [] i # 0 /\ q[i].parts = 1 -> RemoveAt(q, i)
        [] OTHER -> [q EXCEPT ![i].parts = @ - 1]
Soon(q) == [i \in 1 .. Len(q) |-> [q[i] EXCEPT !.wait = IF @ > 0 THEN @ - 1 ELSE 0]]

(* update, the data half: the written data leave wl cycles after their    *)
(* command, at most one a cycle.                                           *)
sendData(c) ==
  LET q == IF c # NoCommand /\ ClassOf(c) = "WR"
           THEN Append(data, [core |-> c.core, addr |-> c.addr,
                              wait |-> Speed[sys.gene].wl + IF c.post THEN Speed[sys.gene].rcd - 1 ELSE 0])
           ELSE data
      out == q # <<>> /\ Head(q).wait = 0
  IN  /\ writes' = IF out THEN Answer(writes, Head(q)) ELSE writes
      /\ data' = Soon(IF out THEN Tail(q) ELSE q)

(* MemoryDevice::update: data of the oldest read, then the oldest posted   *)
(* command, each when its counter is spent.                                *)
Timers(d) == [d EXCEPT !.wait = [b \in Banks |-> Tick(d.wait[b])], !.rank = Tick(@)]
DeviceUpdate(d) ==
  LET rd == Soon(d.reads)
      in == rd # <<>> /\ Head(rd).wait = 0
      po == Soon(d.posted)
      act == po # <<>> /\ Head(po).wait = 0
      t == [d EXCEPT !.reads = IF in THEN Tail(rd) ELSE rd,
                     !.posted = IF act THEN Tail(po) ELSE po]
  IN  /\ reads' = IF in THEN Answer(reads, Head(rd)) ELSE reads
      /\ dev' = Timers(IF act THEN Apply(t, [Head(po).cmd EXCEPT !.post = FALSE]) ELSE t)

(* One DRAM cycle: MemorySystem::update, the controller and the device.    *)
update ==
  \E s \in requestSchedule(Sensed(rq), sys) :
    LET gen == s.gen
        k == commandSchedule([enqueueCommand(cq, gen) EXCEPT !.sent = NoCommand], dev, sys)
        c == k.sent
    IN  /\ rq' = [s EXCEPT !.gen = <<>>, !.free = {}, !.empty = TRUE, !.full = FALSE]
        /\ cq' = [k EXCEPT !.timer = [x \in Queues(sys) |-> Tick(k.timer[x])],
                           !.sent = NoCommand]
        /\ bus' = c
        /\ sendData(c)
        /\ DeviceUpdate(receiveFromBus(dev, c))
        /\ stamp' = IF fresh THEN stamp + 1 ELSE stamp
        /\ cstamp' = IF gen = <<>> THEN cstamp ELSE cstamp + 1
        /\ fresh' = FALSE
        /\ clk' = 1 - clk
        /\ UNCHANGED <<sys, count>>

Next == (\E o \in Offered : addRequest(o)) \/ update

(* The simulator's clock never stops: update is always enabled and always  *)
(* taken again.                                                            *)
Ticks == clk' = 1 - clk
Spec == Init /\ [][Next]_vars /\ WF_clk(Ticks)

-----------------------------------------------------------------------------
(* Where an access of requestor c to address a can be: in a request queue, *)
(* as a column access in a command queue, on the data bus.                 *)
Waiting(q, c, a, w) == Cardinality({i \in 1 .. Len(q) :
  q[i].core = c /\ q[i].addr = a /\ q[i].write = w})
CasOf(w) == IF w THEN {"WR", "WRA"} ELSE {"RD", "RDA"}
Queued(q, c, a, w) == Cardinality({i \in 1 .. Len(q) :
  q[i].core = c /\ q[i].addr = a /\ q[i].type \in CasOf(w)})
InFlight(q, c, a) == Cardinality({i \in 1 .. Len(q) : q[i].core = c /\ q[i].addr = a})
Everywhere(c, a, w) ==
  LET posted == [i \in 1 .. Len(dev.posted) |-> dev.posted[i].cmd]
  IN  Waiting(rq.general, c, a, w) + Waiting(rq.writeQ, c, a, w)
        + SumFunction([x \in Cores |-> Waiting(rq.buf[x], c, a, w)
                                           + Waiting(rq.sub[x], c, a, w)])
        + SumFunction([x \in Queues(sys) |-> Queued(cq.q[x], c, a, w)])
        + IF w THEN InFlight(data, c, a)
          ELSE InFlight(dev.reads, c, a) + Queued(posted, c, a, w)

(* Every request not yet answered is in exactly one place between its      *)
(* arrival and its data, and nothing else is: no access is lost between    *)
(* the queues, sent twice, or answered to the wrong requestor or address   *)
(* (MemoryController's matching in receiveData and sendData).              *)
AccessConserved ==
  \A o \in Offered :
    Everywhere(o.core, o.addr, o.write)
      = Waiting(IF o.write THEN writes ELSE reads, o.core, o.addr, o.write)

(* MEDUSA's writes leave the row table behind; the buffers per requestor   *)
(* of ORP, ROC and Round let two requestors interleave their commands to a bank,  *)
(* which those systems rely on never being shared (a compile time option   *)
(* of AddressMapping.cpp that the build does not set).                     *)
LosesRow == {"MEDUSA", "ORP", "ROC", "Round"}

(* A column access is sent to a bank whose open row is its own: the row    *)
(* table, the generators and the schedulers agree with the device, which   *)
(* does not check.                                                         *)
RowOpen ==
  [][clk' # clk /\ sys.name \notin LosesRow /\ IsCas(bus')
       => dev.row[bus'.bank] = bus'.row]_vars

(* FRFCFS and FRFCFS_cap skip the request behind one just taken out of the *)
(* buffer, and the write queues of FRFCFS_Batch and MEDUSA are passed by   *)
(* reads without a look at their addresses.                                *)
Overtakes == {"FRFCFS", "FRFCFS_cap", "FRFCFS_Batch", "MEDUSA"}

(* Older accesses of the requestor to the address, not sent yet.           *)
Unsent(c) ==
  {r \in UNION {Range(rq.general), Range(rq.writeQ), UNION {Range(rq.buf[x]) : x \in Cores},
                UNION {Range(cq.q[x]) : x \in Queues(sys)}} :
     r.core = c.core /\ r.addr = c.addr /\ r.id < c.id}

(* A requestor's accesses to one address reach the device in the order it  *)
(* made them, so a line written back and fetched again is fetched after.   *)
OwnOrder ==
  [][clk' # clk /\ sys.name \notin Overtakes /\ IsCas(bus') => Unsent(bus') = {}]_vars

(* MEDUSA keeps writes below the low watermark, ORP and ROC serve bank 0   *)
(* only (bankFlag has one entry), nothing feeds RROF's queues.             *)
Unserving == {"MEDUSA", "ORP", "ROC", "Round", "RROF"}

(* Every request is answered: no scheduler starves a requestor, a bank, a  *)
(* row or a type of access, and no blocked command blocks for ever.        *)
Answered ==
  sys.name \notin Unserving => <>[](reads = <<>> /\ writes = <<>>)
=============================================================================
