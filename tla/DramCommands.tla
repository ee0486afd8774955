---------------------------- MODULE DramCommands ----------------------------
(***************************************************************************)
(* The command half of the MCsim DRAM controller: the command queues, the  *)
(* timers that say when the front of a queue is ready, the timing check of *)
(* the device and the command schedulers.  One call of commandSchedule()   *)
(* is an operator from the scheduler's state `k' and the device `d' to the *)
(* state it leaves, with the command it sent in k.sent.                    *)
(***************************************************************************)
EXTENDS DramRequests

CONSTANTS
  Speed,   \* speed entry of each device generation, in cycles
  Heaps    \* what the fields that CommandScheduler_Round never initialises may hold

(* rcd, rp, ras, rtp and wr act within a bank; ccd, rtw, wtr and rrd       *)
(* between the banks of the rank, ccdl, wtrl and rrdl between those of a   *)
(* bank group; rl and wl lead from a command to the end of its data; cwl,  *)
(* wtrn and faw are the entries Round asks for by name.                    *)
ASSUME TimingConstants ==
  /\ {"DDR3", "DDR4"} \subseteq DOMAIN Speed
  /\ \A g \in DOMAIN Speed :
       {Speed[g][x] : x \in {"rcd", "rp", "ras", "rtp", "wr", "ccd", "rtw", "wtr", "rrd",
                             "ccdl", "wtrl", "rrdl", "rl", "wl", "cwl", "wtrn", "faw"}} \subseteq Nat \ {0}
  /\ Heaps \subseteq [service: SUBSET Cores, considered: SUBSET (Cores \cup {NCores}),
                      jump: BOOLEAN, count: 0 .. 3]

(* RD and RDA, WR and WRA have the same constraints; what differs is what  *)
(* they impose on the next activation.                                     *)
Class == {"RD", "WR", "ACT", "PRE"}
ClassOf(c) == CASE c.type \in {"RD", "RDA"} -> "RD" [] c.type \in {"WR", "WRA"} -> "WR"
                [] c.type \in {"ACT", "ACT_R", "ACT_W"} -> "ACT" [] OTHER -> c.type
IsCas(c) == c.type \in {"RD", "RDA", "WR", "WRA"}

(* command_timing(command, type): cycles a command imposes on the later    *)
(* commands of its queue, the same code for either device.  The rows of a  *)
(* bank: precharge and activation.                                         *)
RowCommandTiming(t, c) ==
  IF c.type = "PRE" THEN [x \in Class |-> IF x = "ACT" THEN t.rp ELSE 0]
  ELSE [x \in Class |-> CASE x = "ACT" -> t.ras + t.rp [] x = "PRE" -> t.ras [] OTHER -> t.rcd]

(* The columns of a row: reads and writes, with and without precharge.     *)
CasTiming(t, c) ==
  CASE c.type = "RD" -> [x \in Class |-> CASE x = "RD" -> t.ccd [] x = "WR" -> t.rtw
                             [] x = "PRE" -> t.rtp [] OTHER -> 1]
    [] c.type = "WR" -> [x \in Class |-> CASE x = "RD" -> t.wtr [] x = "WR" -> t.ccd
                             [] x = "PRE" -> t.wr [] OTHER -> 1]
    [] c.type = "RDA" -> [x \in Class |-> IF x = "ACT" THEN t.rtp + t.rp ELSE 1]
    [] c.type = "WRA" -> [x \in Class |-> IF x = "ACT" THEN t.wr + t.rp ELSE 1]

command_timing(t, c) == IF IsCas(c) THEN CasTiming(t, c) ELSE RowCommandTiming(t, c)

MaxEach(t, u) == [x \in Class |-> IF t[x] > u[x] THEN t[x] ELSE u[x]]
Tick(t) == [x \in Class |-> IF t[x] > 0 THEN t[x] - 1 ELSE 0]
NoWait == [x \in Class |-> 0]

(* The device's own tables (init_timing).  What a command imposes on the   *)
(* whole channel and rank: distance of column accesses and activations,    *)
(* and the turn-around of the data bus.                                    *)
RankTimingDDR3(t, c) ==
  CASE ClassOf(c) = "RD" -> [NoWait EXCEPT !["RD"] = t.ccd, !["WR"] = t.rtw]
    [] ClassOf(c) = "WR" -> [NoWait EXCEPT !["RD"] = t.wtr, !["WR"] = t.ccd]
    [] ClassOf(c) = "ACT" -> [NoWait EXCEPT !["ACT"] = t.rrd]
    [] OTHER -> NoWait
(* DDR4 has longer distances within a bank group, and convert_addr places  *)
(* every bank in group 0.                                                  *)
GroupTimingDDR4(t, c) ==
  CASE ClassOf(c) = "RD" -> [NoWait EXCEPT !["RD"] = t.ccdl]
    [] ClassOf(c) = "WR" -> [NoWait EXCEPT !["RD"] = t.wtrl, !["WR"] = t.ccdl]
    [] ClassOf(c) = "ACT" -> [NoWait EXCEPT !["ACT"] = t.rrdl]
    [] OTHER -> NoWait
RankTimingDDR4(t, c) == MaxEach(RankTimingDDR3(t, c), GroupTimingDDR4(t, c))
RankTiming(g, c) == IF g = "DDR3" THEN RankTimingDDR3(Speed[g], c) ELSE RankTimingDDR4(Speed[g], c)

(* And on the bank it goes to, the same in both generations.               *)
BankTiming(t, c) ==
  CASE ClassOf(c) = "ACT" -> [RD |-> t.rcd, WR |-> t.rcd, ACT |-> t.ras + t.rp, PRE |-> t.ras]
    [] c.type = "RD" -> [NoWait EXCEPT !["PRE"] = t.rtp]
    [] c.type = "WR" -> [NoWait EXCEPT !["PRE"] = t.wr]
    [] c.type = "RDA" -> [NoWait EXCEPT !["ACT"] = t.rtp + t.rp]
    [] c.type = "WRA" -> [NoWait EXCEPT !["ACT"] = t.wr + t.rp]
    [] OTHER -> [NoWait EXCEPT !["ACT"] = t.rp]

(* One queue per bank (CommandQueue=0001), or one queue with a buffer per  *)
(* requestor (0000 and CmdPerREQ=1).                                       *)
Queues(sys) == IF sys.perCmd THEN Cores ELSE Banks
QueueOf(sys, c) == IF sys.perCmd THEN c.core ELSE c.bank

(* The order in which the schedulers visit the queues: banks ascending,    *)
(* requestors in order of first use.                                       *)
QueueOrder(k, sys) == IF sys.perCmd THEN k.users ELSE [i \in 1 .. NBanks |-> i - 1]

NoCommand == [type |-> "NONE", id |-> 0, core |-> 0, addr |-> 0, bank |-> 0, row |-> 0,
              post |-> FALSE, at |-> 0]

(* Fields of CommandScheduler_Round.  Order and OrderPRE name requestors,  *)
(* gap is clock - lastCAScounter, since is time_issued_first_ACT, entry    *)
(* NCores of considered any entry of the array that no requestor uses.     *)
NoHeap == [service |-> {}, considered |-> {}, jump |-> FALSE, count |-> 0]
RoundInit(heap) ==
  [order |-> <<>>, pre |-> [i \in 1 .. 8 |-> i - 1], close |-> {}, first |-> TRUE,
   cas |-> 0, act |-> 0, gap |-> 1, since |-> 0, service |-> heap.service,
   considered |-> heap.considered, jump |-> heap.jump, count |-> heap.count]

(* Fields of CommandQueue and of the schedulers.  fifo and cas hold fronts *)
(* already taken up (pending), pa and ca are the second level registers of *)
(* ROC, served, type, ptr, block, round, start, prev, act and faw the      *)
(* schedulers' own variables of those names, and r those of Round.         *)
CommandInit(sys, heap) ==
  [q |-> [x \in Queues(sys) |-> <<>>], users |-> <<>>,
   timer |-> [x \in Queues(sys) |-> NoWait], sent |-> NoCommand,
   fifo |-> <<>>, cas |-> <<>>, pa |-> NoCommand, ca |-> NoCommand, pend |-> {},
   served |-> {}, type |-> IF sys.cmd = "ReOrder" THEN "WR" ELSE "RD",
   ptr |-> 0, block |-> FALSE, round |-> {}, start |-> FALSE, prev |-> "WRA", act |-> 0,
   faw |-> <<>>, r |-> RoundInit(heap)]

insertCommand(k, sys, c) ==
  LET x == QueueOf(sys, c)
  IN  [k EXCEPT !.q[x] = Append(@, c),
                !.users = IF sys.perCmd /\ ~Contains(@, c.core) THEN Append(@, c.core) ELSE @]

isReady(k, x) == k.timer[x][ClassOf(Head(k.q[x]))] = 0
(* command_check: the timing of the device, and only that.  A posted       *)
(* command is always accepted.                                             *)
isIssuable(d, c) ==
  \/ c.post
  \/ d.rank[ClassOf(c)] = 0 /\ d.wait[c.bank][ClassOf(c)] = 0

sendCommand(k, sys, c) ==
  LET x == QueueOf(sys, c)
  IN  [k EXCEPT !.q[x] = Tail(@), !.timer[x] = MaxEach(@, command_timing(Speed[sys.gene], c)),
                !.sent = c]

Fronts(k, sys) == LET o == QueueOrder(k, sys)
                  IN  [i \in 1 .. Len(o) |-> IF k.q[o[i]] = <<>> THEN NoCommand
                                             ELSE Head(k.q[o[i]])]
(* The fronts that are ready and issuable, in the order visited.           *)
Candidates(k, d, sys) ==
  SelectSeq(Fronts(k, sys), LAMBDA c : /\ c # NoCommand
                                       /\ isReady(k, QueueOf(sys, c))
                                       /\ isIssuable(d, c))
SendIf(k, sys, c) == IF c = NoCommand THEN k ELSE sendCommand(k, sys, c)

-----------------------------------------------------------------------------
(* The schedulers.                                                         *)

(* FCFS: the first candidate; between requestors the oldest, last on ties. *)
FCFSCommand(k, d, sys) ==
  LET s == Candidates(k, d, sys)
  IN  SendIf(k, sys, CASE s = <<>> -> NoCommand
                       [] s # <<>> /\ ~sys.perCmd -> Head(s)
                       [] OTHER -> FoldLeft(LAMBDA b, c : IF b.at >= c.at THEN c ELSE b,
                                            Head(s), s))

(* FRFCFS: a column access replaces only a younger choice, an activation   *)
(* any precharge, and otherwise the older of a kind is kept.               *)
FRBetter(b, c) ==
  CASE IsCas(c) -> c.at < b.at
    [] c.type = "ACT" -> b.type = "PRE" \/ (b.type = "ACT" /\ c.at < b.at)
    [] OTHER -> b.type = "PRE" /\ c.at < b.at
FRFCFSCommand(k, d, sys) ==
  LET s == Candidates(k, d, sys)
  IN  SendIf(k, sys, IF s = <<>> THEN NoCommand
                     ELSE FoldLeft(LAMBDA b, c : IF FRBetter(b, c) THEN c ELSE b, Head(s), s))

(* RTMem: the oldest ready column access if issuable, else the oldest      *)
(* other ready command if issuable.                                        *)
RTMemCommand(k, d, sys) ==
  LET ready == SelectSeq(Fronts(k, sys), LAMBDA c : c # NoCommand /\ isReady(k, c.bank))
      Oldest(s) == IF s = <<>> THEN NoCommand
                   ELSE FoldLeft(LAMBDA b, c : IF c.at < b.at THEN c ELSE b, Head(s), s)
      cas == Oldest(SelectSeq(ready, IsCas))
      other == Oldest(SelectSeq(ready, LAMBDA c : ~IsCas(c)))
  IN  SendIf(k, sys, CASE cas # NoCommand /\ isIssuable(d, cas) -> cas
                       [] ~(cas # NoCommand /\ isIssuable(d, cas))
                            /\ other # NoCommand /\ isIssuable(d, other) -> other
                       [] OTHER -> NoCommand)

(* Fronts that are ready and not yet taken up.                             *)
NewFronts(k, sys) ==
  SelectSeq(Fronts(k, sys), LAMBDA c : /\ c # NoCommand
                                       /\ QueueOf(sys, c) \notin k.pend
                                       /\ isReady(k, QueueOf(sys, c)))
Taken(s, sys) == {QueueOf(sys, s[i]) : i \in 1 .. Len(s)}
\* Mutant: a queue with commands left stays marked as taken up.
ReleaseForgotten(k, sys, c) ==
  LET t == sendCommand(k, sys, c) IN [t EXCEPT !.pend = {x \in @ : t.q[x] # <<>>}]

Release(k, sys, c) == [sendCommand(k, sys, c) EXCEPT !.pend = @ \ {QueueOf(sys, c)}]

(* DCmc: a FIFO of ready commands whose first issuable one is sent; a      *)
(* column access does not pass a blocked one.                              *)
DCmcCommand(k, d, sys) ==
  LET new == NewFronts(k, sys)
      t == [k EXCEPT !.fifo = @ \o new, !.pend = @ \cup Taken(new, sys)]
      f == t.fifo
      Can(i) == /\ isIssuable(d, f[i])
                /\ IsCas(f[i]) => \A j \in 1 .. i - 1 : ~IsCas(f[j])
      Ok == {i \in 1 .. Len(f) : Can(i)}
      i0 == CHOOSE i \in Ok : \A j \in Ok : i <= j
  IN  IF Ok = {} THEN t ELSE [Release(t, sys, f[i0]) EXCEPT !.fifo = RemoveAt(@, i0)]

(* ORP: the same FIFO, fed from the buffers of the requestors.             *)
ORPCommand(k, d, sys) == DCmcCommand(k, d, sys)

(* MAG: round robin from ptr; a ready column access that is not issuable   *)
(* stops the pointer at its queue until it is.  With nothing sent and no   *)
(* block, the loop for the other class of requestors retries the command   *)
(* looked at last, without asking whether it is ready.                     *)
MAGStep(t, d) ==
  LET c == IF t.k.q[t.k.ptr] = <<>> THEN NoCommand ELSE Head(t.k.q[t.k.ptr])
      ready == c # NoCommand /\ (t.k.block \/ isReady(t.k, t.k.ptr))
      send == ready /\ isIssuable(d, c)
      block == IF t.k.block THEN ~send ELSE ready /\ ~send /\ IsCas(c)
  IN  [k |-> [t.k EXCEPT !.block = block,
                         !.ptr = IF block THEN @ ELSE (@ + 1) % NBanks],
       pick |-> IF send THEN c ELSE NoCommand,
       last |-> IF c = NoCommand THEN t.last ELSE c]
MAGCommand(k, d, sys) ==
  LET t == FoldLeft(LAMBDA u, i : IF u.pick # NoCommand \/ (i > 1 /\ u.k.block) THEN u
                                  ELSE MAGStep(u, d),
                    [k |-> k, pick |-> NoCommand, last |-> NoCommand], Upto(NBanks))
      retry == /\ t.pick = NoCommand /\ ~t.k.block
               /\ t.last # NoCommand /\ isIssuable(d, t.last)
  IN  SendIf(t.k, sys, IF retry THEN t.last ELSE t.pick)

OtherType(x) == IF x = "RD" THEN "WR" ELSE "RD"
FirstOf(I) == IF I = {} THEN 0 ELSE CHOOSE i \in I : \A j \in I : i <= j

(* ReOrder: one column access per bank and round, bundled by type; a new   *)
(* round when every column access in the registers is of a served bank,    *)
(* the other type when none of the current one is unserved.                *)
ReOrderCommand(k, d, sys) ==
  LET new == NewFronts(k, sys)
      f == k.fifo \o new
      Unserved == {i \in 1 .. Len(f) : IsCas(f[i]) /\ f[i].bank \notin k.served}
      type == IF Unserved # {} /\ \A i \in Unserved : f[i].type # k.type
              THEN OtherType(k.type) ELSE k.type
      served == IF f # <<>> /\ Unserved = {} THEN {} ELSE k.served
      Issue(T) == {i \in 1 .. Len(f) : f[i].type = T /\ isIssuable(d, f[i])}
      cas == FirstOf({i \in Issue(type) : f[i].bank \notin served})
      act == FirstOf(Issue("ACT"))
      i0 == CASE cas # 0 -> cas [] cas = 0 /\ act # 0 -> act
              [] OTHER -> FirstOf(Issue("PRE"))
      t == [k EXCEPT !.fifo = f, !.pend = @ \cup Taken(new, sys), !.type = type,
                     !.served = served]
  IN  IF i0 = 0 THEN t
      ELSE [Release(t, sys, f[i0]) EXCEPT !.fifo = RemoveAt(@, i0),
              !.served = IF IsCas(f[i0]) THEN @ \cup {f[i0].bank} ELSE @]

(* RankReOrder: column accesses of queues not served in this round wait in *)
(* one buffer, the others in another; only the first column access of the  *)
(* current type is tried.                                                  *)
RankReOrderCommand(k, d, sys) ==
  LET HasType == \E i \in 1 .. Len(k.cas) : k.cas[i].type = k.type
      type == IF k.cas # <<>> /\ ~HasType THEN OtherType(k.type) ELSE k.type
      served == IF k.cas = <<>> THEN {} ELSE k.served
      new == SelectSeq(NewFronts(k, sys), LAMBDA c : IsCas(c) => c.bank \notin served)
      cas == k.cas \o SelectSeq(new, IsCas)
      pre == k.fifo \o SelectSeq(new, LAMBDA c : ~IsCas(c))
      t == [k EXCEPT !.cas = cas, !.fifo = pre, !.pend = @ \cup Taken(new, sys),
                     !.type = type, !.served = served]
      i0 == FirstOf({i \in 1 .. Len(cas) : cas[i].type = type})
      j0 == FirstOf({j \in 1 .. Len(pre) : isIssuable(d, pre[j])})
  IN  CASE i0 # 0 /\ isIssuable(d, cas[i0]) ->
             [Release(t, sys, cas[i0]) EXCEPT !.cas = RemoveAt(@, i0),
                !.served = @ \cup {cas[i0].bank}]
        [] ~(i0 # 0 /\ isIssuable(d, cas[i0])) /\ j0 # 0 ->
             [Release(t, sys, pre[j0]) EXCEPT !.fifo = RemoveAt(@, j0)]
        [] OTHER -> t

(* ROC: FIFOs feed two registers; a blocked column access holds back no    *)
(* activation.  The flag of requestor 0 is also read as that of the one    *)
(* queue: while requestor 0 is taken up no other front is.                 *)
ROCTake(k, d, sys) ==
  LET new == IF 0 \in k.pend THEN <<>> ELSE NewFronts(k, sys)
      cas == k.cas \o SelectSeq(new, IsCas)
      pre == k.fifo \o SelectSeq(new, LAMBDA c : ~IsCas(c))
      j0 == IF k.pa # NoCommand THEN 0
            ELSE FirstOf({j \in 1 .. Len(pre) : isIssuable(d, pre[j])})
      takeCas == k.ca = NoCommand /\ cas # <<>>
  IN  [k EXCEPT !.pend = @ \cup Taken(new, sys),
         !.fifo = IF j0 = 0 THEN pre ELSE RemoveAt(pre, j0),
         !.pa = IF j0 = 0 THEN @ ELSE pre[j0],
         !.cas = IF takeCas THEN Tail(cas) ELSE cas,
         !.ca = IF takeCas THEN Head(cas) ELSE @]
ROCSend(t, d, sys) ==
  LET Can(c) == c # NoCommand /\ isIssuable(d, c)
  IN  CASE Can(t.ca) -> [Release(t, sys, t.ca) EXCEPT !.ca = NoCommand]
        [] ~Can(t.ca) /\ Can(t.pa) -> [Release(t, sys, t.pa) EXCEPT !.pa = NoCommand]
        [] OTHER -> t
ROCCommand(k, d, sys) == ROCSend(ROCTake(k, d, sys), d, sys)

(* getTiming by name.  get_constraints answers 0 to names it does not      *)
(* know: tBUS in both generations (it knows tBus), tRRD in DDR4.           *)
get_constraints(g) ==
  [tRCD |-> Speed[g].rcd, tRTW |-> Speed[g].rtw, tWL |-> Speed[g].cwl, tWTR |-> Speed[g].wtrn,
   tBUS |-> 0, tRRD |-> IF g = "DDR3" THEN Speed[g].rrd ELSE 0, tFAW |-> Speed[g].faw]
Larger(x, y) == IF x > y THEN x ELSE y
Down(x) == IF x > 0 THEN x - 1 ELSE 0
UpTo(x, bound) == IF x < bound THEN x + 1 ELSE bound

(* PipeCAS: a round is a snapshot of the queues with a column access of    *)
(* the round's type, taken when the activation counter is zero; it ends    *)
(* when each of them was served.  The type changes when the other waits.   *)
CasIn(q) == {q[i].type : i \in {j \in 1 .. Len(q) : IsCas(q[j])}}
RoundType(k, Idle) ==
  IF k.round = {} /\ \E x \in Idle : CasIn(k.q[x]) \ {k.prev} # {}
  THEN IF k.prev = "RDA" THEN "WRA" ELSE "RDA" ELSE k.prev
PipeCASRound(k, sys) ==
  LET Idle == {x \in Banks : x \notin k.pend /\ k.q[x] # <<>>}
      start == k.start \/ (k.round = {} /\ Idle # {})
      round == IF start /\ k.round = {} /\ k.act = 0
               THEN {x \in Idle : RoundType(k, Idle) \in CasIn(k.q[x])} ELSE k.round
      new == SelectSeq(NewFronts(k, sys), LAMBDA c : c.bank \in round \ k.served)
  IN  [k EXCEPT !.round = round, !.start = start, !.cas = @ \o SelectSeq(new, IsCas),
                !.fifo = @ \o SelectSeq(new, LAMBDA c : ~IsCas(c)),
                !.pend = @ \cup Taken(new, sys)]

(* An activation before a column access; the window of four activations    *)
(* holds back the snapshot of the next round.                              *)
PipeCASSend(t, d, sys) ==
  LET n == get_constraints(sys.gene)
      faw == Append(t.faw, n.tFAW)
      act == t.round # {} /\ t.fifo # <<>> /\ isIssuable(d, Head(t.fifo))
      cas == t.round # {} /\ t.cas # <<>> /\ isIssuable(d, Head(t.cas))
  IN  CASE act -> [Release(t, sys, Head(t.fifo)) EXCEPT !.fifo = Tail(@), !.faw = faw,
                     !.act = IF Len(faw) = 4 THEN Larger(n.tRRD, Head(faw)) ELSE n.tRRD]
        [] ~act /\ cas -> [Release(t, sys, Head(t.cas)) EXCEPT !.cas = Tail(@),
                             !.served = @ \cup {Head(t.cas).bank}, !.prev = Head(t.cas).type]
        [] OTHER -> t
RoundDone(u) ==
  IF u.round # {} /\ u.round \subseteq u.served
  THEN [u EXCEPT !.round = {}, !.start = FALSE, !.served = {}] ELSE u
Counted(u) ==
  LET faw == [i \in 1 .. Len(u.faw) |-> u.faw[i] - 1]
  IN  [u EXCEPT !.act = Down(@), !.faw = IF faw # <<>> /\ Head(faw) = 0 THEN Tail(faw) ELSE faw]
PipeCASCommand(k, d, sys) == Counted(RoundDone(PipeCASSend(PipeCASRound(k, sys), d, sys)))

(* Round: rounds of one type.                                              *)
RoundCCD == 4
WriteToRead(n) == n.tWL + n.tBUS + n.tWTR

ActOf(type) == IF type = "RD" THEN "ACT_R" ELSE "ACT_W"
(* tempqueue has the fronts of the requestors taken up.                    *)
Temp(k, c) == Head(k.q[c])
TakenOf(k, types) == {c \in k.pend : Temp(k, c).type \in types}

(* Ready fronts are taken up; a requestor enters Order with its activation *)
(* or, when its row was open, with its column access.                      *)
RoundTake(k, sys) ==
  LET n == get_constraints(sys.gene)
      new == NewFronts(k, sys)
      act == SelectSeq(new, LAMBDA c : ClassOf(c) = "ACT")
      in == SelectSeq(new, LAMBDA c : ClassOf(c) = "ACT" \/ (IsCas(c) /\ c.core \notin k.r.close))
  IN  [k EXCEPT !.pend = @ \cup Taken(new, sys),
         !.r.close = @ \cup Taken(act, sys),
         !.r.order = @ \o [i \in 1 .. Len(in) |-> in[i].core],
         !.r.cas = Down(@), !.r.act = Down(@), !.r.since = UpTo(@, n.tFAW)]

clean_buffers(r) ==
  [r EXCEPT !.service = {}, !.considered = {}, !.count = 0, !.act = 0, !.first = TRUE]

(* With nothing accepted any more, a waiting command of the other type     *)
(* turns the round, else one of the type starts it anew.                   *)
RoundSwitch(k, sys) ==
  LET n == get_constraints(sys.gene)
      other == OtherType(k.type)
      Turning == TakenOf(k, {other, ActOf(other)})
      last == Temp(k, CHOOSE c \in Turning : \A d \in Turning : d <= c).type
      late == k.r.gap >= (IF other = "WR" THEN n.tRTW ELSE WriteToRead(n))
      turned == [clean_buffers(k.r) EXCEPT !.jump = FALSE,
                   !.act = IF late /\ last = ActOf(other) THEN n.tRRD ELSE 0,
                   !.cas = CASE other = "RD" -> 0
                             [] other = "WR" /\ ~late -> n.tRTW - k.r.gap
                             [] OTHER -> IF last = "WR" THEN RoundCCD ELSE 0]
  IN  CASE k.r.considered # {} -> k
        [] k.r.considered = {} /\ Turning # {} -> [k EXCEPT !.type = other, !.r = turned]
        [] k.r.considered = {} /\ Turning = {} /\ ~k.r.jump
             /\ TakenOf(k, {k.type, ActOf(k.type)}) # {} ->
             [k EXCEPT !.r = [clean_buffers(k.r) EXCEPT !.jump = FALSE]]
        [] OTHER -> [k EXCEPT !.r.jump = FALSE]

(* blockACT: the accepted column accesses would be over before one whose   *)
(* activation is sent now.  Both branches count waiting reads.             *)
RoundBlocks(k, sys) ==
  LET Unserved == Range(k.r.order) \ k.r.service
      Accepted == Unserved \cap k.r.considered
      Reads == (Unserved \ k.r.considered) \cap TakenOf(k, {"RD"})
  IN  /\ k.r.act = 0 /\ ~k.r.first
      /\ Accepted \cap TakenOf(k, {ActOf(k.type)}) = {}
      /\ (Cardinality(Accepted) + Cardinality(Reads)) * RoundCCD + k.r.cas
           < get_constraints(sys.gene).tRCD + 1

(* Accepting: what waits of the type and is not served in this round.      *)
RoundAccept(k, block) ==
  [k EXCEPT !.r.considered = IF block THEN @ ELSE
     @ \cup ((Range(k.r.order) \ k.r.service) \cap TakenOf(k, {k.type, ActOf(k.type)}))]

(* send_precedure: a precharge moves its requestor back in OrderPRE, an    *)
(* activation counts towards the window of four, a column access takes its *)
(* requestor out of Order and out of the round.                            *)
SentAct(r, n) ==
  CASE r.count = 0 -> [r EXCEPT !.first = FALSE, !.since = 0, !.act = n.tRRD, !.count = 1]
    [] r.count = 3 /\ r.since < n.tFAW ->
         [r EXCEPT !.first = FALSE, !.since = 0, !.act = n.tFAW - r.since, !.count = 0]
    [] r.count = 3 /\ r.since >= n.tFAW -> [r EXCEPT !.first = FALSE]
    [] OTHER -> [r EXCEPT !.first = FALSE, !.act = n.tRRD, !.count = @ + 1]
Drop(s, c) == SelectSeq(s, LAMBDA x : x # c)
SentCas(r, c) ==
  [r EXCEPT !.order = Drop(@, c), !.gap = 0, !.cas = RoundCCD, !.first = FALSE,
            !.close = @ \ {c}, !.service = @ \cup {c}, !.considered = @ \ {c}]
send_precedure(k, sys, c) ==
  LET cmd == Temp(k, c)
      t == Release(k, sys, cmd)
  IN  CASE cmd.type = "PRE" -> [t EXCEPT !.r.pre = Append(Drop(@, c), c)]
        [] ClassOf(cmd) = "ACT" -> [t EXCEPT !.r = SentAct(@, get_constraints(sys.gene))]
        [] OTHER -> [t EXCEPT !.r = SentCas(@, c)]

(* Sending: the first activation of the type, then the first accepted      *)
(* column access, then a precharge in turn.                                *)
RoundPick(k, d, block) ==
  LET Can(c, type) == c \in TakenOf(k, {type}) /\ isIssuable(d, Temp(k, c))
      acts == SelectSeq(k.r.order, LAMBDA c : ~block /\ c \notin k.r.service /\ Can(c, ActOf(k.type)))
      cas == SelectSeq(k.r.order, LAMBDA c : /\ c \in k.r.considered \ k.r.service
                                             /\ Can(c, k.type))
      pres == SelectSeq(k.r.pre, LAMBDA c : Can(c, "PRE"))
  IN  acts \o cas \o pres
RoundCommand(k, d, sys) ==
  LET t == RoundSwitch(RoundTake(k, sys), sys)
      block == RoundBlocks(t, sys)
      u == RoundAccept(t, block)
      pick == RoundPick(u, d, block)
      v == IF pick = <<>> THEN u ELSE send_precedure(u, sys, Head(pick))
      n == get_constraints(sys.gene)
  IN  [v EXCEPT !.r.gap = UpTo(@, Larger(n.tRTW, WriteToRead(n)))]

(* RROF serves rounds over the requestors of RequestorsQueues: none.       *)
RROFCommand(k, d, sys) == k

commandSchedule(k, d, sys) ==
  CASE sys.cmd = "FCFS" -> FCFSCommand(k, d, sys)
    [] sys.cmd = "FRFCFS" -> FRFCFSCommand(k, d, sys)
    [] sys.cmd = "RTMem" -> RTMemCommand(k, d, sys)
    [] sys.cmd = "DCmc" -> DCmcCommand(k, d, sys)
    [] sys.cmd = "ORP" -> ORPCommand(k, d, sys)
    [] sys.cmd = "MAG" -> MAGCommand(k, d, sys)
    [] sys.cmd = "ReOrder" -> ReOrderCommand(k, d, sys)
    [] sys.cmd = "rankReOrder" -> RankReOrderCommand(k, d, sys)
    [] sys.cmd = "ROC" -> ROCCommand(k, d, sys)
    [] sys.cmd = "PipeCAS" -> PipeCASCommand(k, d, sys)
    [] sys.cmd = "Round" -> RoundCommand(k, d, sys)
    [] sys.cmd = "RROF" -> RROFCommand(k, d, sys)
=============================================================================
