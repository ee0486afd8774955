---------------------------- MODULE DramRequests ----------------------------
(***************************************************************************)
(* The request half of the MCsim DRAM controller: the request queues, the  *)
(* table of open rows, the command generators and the request schedulers a *)
(* memory system (src/MCsim/system/<name>/<name>.ini) picks from           *)
(* SchedulerRegister.  One call of requestSchedule() is an operator from   *)
(* the scheduler's state `s' to the set of states it can leave: a set,     *)
(* because some of the schedulers read outside their vectors.              *)
(***************************************************************************)
EXTENDS Naturals, Sequences, FiniteSets, SequencesExt

CONSTANTS
  NCores,         \* requestors, all of them hard real time (isHRT)
  NBanks,         \* banks of the one rank
  NRows,          \* rows of a bank
  Burst,          \* requestSize / dataBusWidth: column accesses per request
  LowWatermark, HighWatermark, \* of the write queue (4 and 10 in the code)
  TimeSlot,       \* length of a slot of RR, PMC and MCMC
  CapSize,        \* row hits in a row under FRFCFS_cap
  Threshold,      \* streak that blacklists a requestor under BLISS
  MarkingCap      \* marks per requestor and bank under PAR-BS

ASSUME RequestConstants ==
  /\ {NCores, NBanks, NRows, Burst, TimeSlot, CapSize, Threshold, MarkingCap}
       \subseteq Nat \ {0}
  /\ LowWatermark \in Nat \ {0} /\ HighWatermark \in Nat

Cores == 0 .. NCores - 1
Banks == 0 .. NBanks - 1
Rows == 0 .. NRows - 1

(* What bankTable holds for a bank without an entry, and the row number    *)
(* 1 << 20 that FRFCFS_cap writes to close a row.                          *)
NoRow == NRows

Request == [id: Nat, core: Cores, addr: Nat, bank: Banks, row: Rows, write: BOOLEAN,
            arrive: Nat, parts: 1 .. Burst]

(* The fields of RequestQueue, CommandGenerator and of the schedulers'     *)
(* classes, as the constructors leave them.  sw is not initialised.        *)
SchedulerInit(drain) ==
  [general |-> <<>>, buf |-> [c \in Cores |-> <<>>], order |-> <<>>,
   writeQ |-> <<>>, table |-> [b \in Banks |-> NoRow],
   first |-> [b \in Banks |-> TRUE], gen |-> <<>>,
   free |-> {}, empty |-> TRUE, full |-> FALSE, next |-> 0, slot |-> 0, sw |-> drain,
   cap |-> [b \in Banks |-> 0], last |-> NCores, streak |-> 0, black |-> {},
   marked |-> {}, count |-> 0, load |-> [c \in Cores |-> 0],
   sub |-> [c \in Cores |-> <<>>], fault |-> FALSE]

(* insertRequest: the write queue when the system has one, else one buffer *)
(* per requestor in order of first arrival, else the general buffer.       *)
insertRequest(s, sys, r) ==
  CASE sys.writeQ /\ r.write -> [s EXCEPT !.writeQ = Append(@, r)]
    [] ~(sys.writeQ /\ r.write) /\ sys.perReq ->
         [s EXCEPT !.buf[r.core] = Append(@, r),
                   !.order = IF Contains(@, r.core) THEN @ ELSE Append(@, r.core)]
    [] OTHER -> [s EXCEPT !.general = Append(@, r)]

-----------------------------------------------------------------------------
(* Command generators: the commands one request is cracked into.           *)

Cmd(type, r) == [type |-> type, id |-> r.id, core |-> r.core, addr |-> r.addr,
                 bank |-> r.bank, row |-> r.row, post |-> FALSE, at |-> 0]
OpenCas(r) == IF r.write THEN "WR" ELSE "RD"
CloseCas(r) == IF r.write THEN "WRA" ELSE "RDA"

(* Open page: nothing for a hit, an activation on the first use of a bank, *)
(* a precharge before it on later ones, then the column accesses.          *)
OpenCommands(s, r, open) ==
  (CASE open -> <<>>
     [] ~open /\ s.first[r.bank] -> <<Cmd("ACT", r)>>
     [] OTHER -> <<Cmd("PRE", r), Cmd("ACT", r)>>)
  \o [i \in 1 .. r.parts |-> Cmd(OpenCas(r), r)]
FirstAfter(s, r, open) == s.first[r.bank] /\ open
GenerateOpen(s, r, open) ==
  [s EXCEPT !.gen = @ \o OpenCommands(s, r, open),
            !.first[r.bank] = FirstAfter(s, r, open)]

(* Close page: every access activates and precharges by itself; a request  *)
(* of several bursts is spread over consecutive banks.                     *)
GenerateClose(s, r) ==
  LET At(i) == [r EXCEPT !.bank = (r.bank + i) % 16]
  IN  [s EXCEPT !.gen = @ \o FlattenSeq([i \in 1 .. r.parts |->
         <<Cmd("ACT", At(i - 1)), Cmd(CloseCas(r), At(i - 1))>>])]

(* The same, with the column access posted right behind its activation.    *)
GenerateMCMC(s, r) ==
  [s EXCEPT !.gen = @ \o <<Cmd("ACT", r), [Cmd(CloseCas(r), r) EXCEPT !.post = TRUE]>>]

(* PipeCAS closes the page for the hard real time requestors: all of them. *)
GeneratePipeCAS(s, r) ==
  [s EXCEPT !.gen = @ \o <<Cmd("ACT", r), Cmd(CloseCas(r), r)>>]

(* Round: the open page, with activations that say what they are for.      *)
ActType(r) == IF r.write THEN "ACT_W" ELSE "ACT_R"
RoundCommands(s, r, open) ==
  LET q == OpenCommands(s, r, open)
  IN  [i \in 1 .. Len(q) |-> IF q[i].type = "ACT" THEN [q[i] EXCEPT !.type = ActType(r)] ELSE q[i]]
GenerateRound(s, r, open) ==
  [s EXCEPT !.gen = @ \o RoundCommands(s, r, open),
            !.first[r.bank] = FirstAfter(s, r, open)]

commandGenerate(s, sys, r, open) ==
  CASE sys.gen = "OPEN" -> GenerateOpen(s, r, open)
    [] sys.gen = "CLOSE" -> GenerateClose(s, r)
    [] sys.gen = "MCMC" -> GenerateMCMC(s, r)
    [] sys.gen = "PipeCAS" -> GeneratePipeCAS(s, r)
    [] sys.gen = "ROUND" -> GenerateRound(s, r, open)

-----------------------------------------------------------------------------
(* What the schedulers share.                                              *)

\* Mutant: any open row counts as a hit.
AnyRowHits(s, r) == s.table[r.bank] # NoRow

isRowHit(s, r) == s.table[r.bank] = r.row
updateRowTable(s, r, row) == [s EXCEPT !.table[r.bank] = row]

(* isSchedulable, updateRowTable: crack the request, note its row.         *)
Serve(s, sys, r) ==
  updateRowTable(commandGenerate(s, sys, r, isRowHit(s, r)), r, r.row)

\* removeRequest: the request just looked at leaves the general buffer.
removeRequest(s, i) == [s EXCEPT !.general = RemoveAt(@, i)]

\* Mutant: the request stays in the buffer.
ServeIndexKept(s, sys, i) ==
  [Serve(s, sys, s.general[i]) EXCEPT !.free = @ \ {s.general[i].bank}]

(* The same for the request at an index of the general buffer, which       *)
(* removeRequest then takes out; the bank is no longer free.               *)
ServeIndex(s, sys, i) ==
  LET r == s.general[i]
  IN  removeRequest([Serve(s, sys, r) EXCEPT !.free = @ \ {r.bank}], i)
ServeHead(s, sys, c) ==
  LET r == Head(s.buf[c])
  IN  [Serve(s, sys, r) EXCEPT !.buf[c] = Tail(@), !.free = @ \ {r.bank}]

Upto(n) == [i \in 1 .. n |-> i]

(* The oldest row hit of the general buffer, else its head.                *)
scheduleFR(s) == SelectInSeq(s.general, LAMBDA r : isRowHit(s, r))
FRIndex(s) == IF scheduleFR(s) = 0 THEN 1 ELSE scheduleFR(s)

-----------------------------------------------------------------------------
(* The request schedulers.                                                 *)

(* FRFCFS: row hits to free banks first, then anything to a free bank.  A  *)
(* request taken out moves the next one under the index just passed, so    *)
(* that one is skipped in this pass.                                       *)
HitPass(s, sys) ==
  FoldLeft(LAMBDA t, i :
    IF i <= Len(t.general) /\ t.general[i].bank \in t.free /\ isRowHit(t, t.general[i])
    THEN ServeIndex(t, sys, i) ELSE t, s, Upto(Len(s.general)))
AnyPass(s, sys) ==
  FoldLeft(LAMBDA t, i :
    IF i <= Len(t.general) /\ t.general[i].bank \in t.free
    THEN ServeIndex(t, sys, i) ELSE t, s, Upto(Len(s.general)))
FRFCFS(s, sys) == {AnyPass(HitPass(s, sys), sys)}

(* FRFCFS_cap: CapSize hits in a row close the row in the table.           *)
ServeCapped(s, sys, i) ==
  LET r == s.general[i]
      t == [ServeIndex(s, sys, i) EXCEPT !.cap[r.bank] = @ + 1]
  IN  IF t.cap[r.bank] = CapSize THEN updateRowTable(t, r, NoRow) ELSE t
CapHitPass(s, sys) ==
  FoldLeft(LAMBDA t, i :
    IF i <= Len(t.general) /\ t.general[i].bank \in t.free /\ isRowHit(t, t.general[i])
    THEN ServeCapped(t, sys, i) ELSE t, s, Upto(Len(s.general)))
CapAnyPass(s, sys) ==
  FoldLeft(LAMBDA t, i :
    IF i <= Len(t.general) /\ t.general[i].bank \in t.free
    THEN [ServeIndex(t, sys, i) EXCEPT !.cap[t.general[i].bank] = 0]
    ELSE t, s, Upto(Len(s.general)))
FRFCFS_cap(s, sys) == {CapAnyPass(CapHitPass(s, sys), sys)}

(* FCFS: the head of the general buffer, or the requestors' oldest head,   *)
(* the later requestor on a tie.                                           *)
OldestHead(s) ==
  LET Arrive(k) == Head(s.buf[s.order[k]]).arrive
      Full == {k \in 1 .. Len(s.order) : s.buf[s.order[k]] # <<>>}
  IN  {k \in Full : \A j \in Full : \/ Arrive(k) < Arrive(j)
                                    \/ Arrive(k) = Arrive(j) /\ j <= k}
FCFS(s, sys) ==
  IF sys.perReq
  THEN IF OldestHead(s) = {} THEN {s}
       ELSE {ServeHead(s, sys, s.order[k]) : k \in OldestHead(s)}
  ELSE {IF s.general = <<>> THEN s ELSE ServeIndex(s, sys, 1)}

(* DIRECT: every requestor's head whose bank is free, from requestorIndex  *)
(* on; with a general buffer, the FR choice if its bank is free.           *)
ServeNext(s, sys) ==
  LET c == s.order[s.next + 1]
      t == IF s.buf[c] # <<>> /\ Head(s.buf[c]).bank \in s.free
           THEN ServeHead(s, sys, c) ELSE s
  IN  [t EXCEPT !.next = (@ + 1) % Len(s.order)]
DIRECT(s, sys) ==
  {IF sys.perReq
   THEN FoldLeft(LAMBDA t, i : ServeNext(t, sys), s, Upto(Len(s.order)))
   ELSE IF s.general # <<>> /\ s.general[FRIndex(s)].bank \in s.free
        THEN ServeIndex(s, sys, FRIndex(s)) ELSE s}

(* RR: at the start of a slot, the next requestor with a request, whose    *)
(* page is taken as closed.                                                *)
NextFull(s) ==
  LET n == Len(s.order)
      At(d) == s.order[((s.next + d) % n) + 1]
      Full == {d \in 0 .. n - 1 : s.buf[At(d)] # <<>>}
  IN  {d \in Full : \A e \in Full : d <= e}
CloseHead(s, sys, c) ==
  [commandGenerate(s, sys, Head(s.buf[c]), FALSE) EXCEPT !.buf[c] = Tail(@)]
RR(s, sys) ==
  {IF s.slot > 0 THEN [s EXCEPT !.slot = @ - 1]
   ELSE IF s.order = <<>> \/ NextFull(s) = {} THEN s
   ELSE LET d == CHOOSE x \in NextFull(s) : TRUE
            k == (s.next + d) % Len(s.order)
        IN  [CloseHead(s, sys, s.order[k + 1]) EXCEPT
               !.next = (k + 1) % Len(s.order), !.slot = TimeSlot - 1]}

(* RTMem is RR with an isSchedulable that refuses while any command queue  *)
(* holds two commands; the refused request still starts a slot.            *)
RTMem(s, sys) ==
  IF s.slot > 0 \/ s.order = <<>> \/ ~s.full THEN RR(s, sys)
  ELSE {IF NextFull(s) = {} THEN s
        ELSE LET d == CHOOSE x \in NextFull(s) : TRUE
             IN  [s EXCEPT !.next = (@ + d) % Len(s.order), !.slot = TimeSlot - 1]}

(* getSize(true, index) reads requestorOrder[index] without a bound: past  *)
(* its end the word found there may name any requestor or none.            *)
Requestors(s, index) ==
  CASE s.order = <<>> -> {NCores}
    [] s.order # <<>> /\ index < Len(s.order) -> {s.order[index + 1]}
    [] OTHER -> Cores \cup {NCores}

(* PMC: slots 0..7 in turn, as many as needed to find a request.           *)
PMCSlots == 8
PMCTry(t, sys, c) ==
  LET moved == [t EXCEPT !.next = (@ + 1) % PMCSlots]
  IN  IF c \in Cores /\ t.buf[c] # <<>>
      THEN [CloseHead(moved, sys, c) EXCEPT !.slot = TimeSlot - 1]
      ELSE moved
PMC(s, sys) ==
  IF s.slot > 0 THEN {[s EXCEPT !.slot = @ - 1]}
  ELSE FoldLeft(LAMBDA S, i :
         UNION {IF t.slot > 0 \/ t.gen # s.gen THEN {t}
                ELSE {PMCTry(t, sys, c) : c \in Requestors(t, t.next)} : t \in S},
         {s}, Upto(PMCSlots))

(* MCMC: one requestor per slot; its request is split into bursts that     *)
(* leave one per slot.                                                     *)
MCMCFill(s, k, c) ==
  IF s.sub[k] = <<>> /\ c \in Cores /\ s.buf[c] # <<>> /\ Head(s.buf[c]).bank \in s.free
  THEN LET r == Head(s.buf[c])
       IN  [s EXCEPT !.sub[k] = [i \in 1 .. r.parts |-> [r EXCEPT !.parts = 1]],
                     !.buf[c] = Tail(@)]
  ELSE s
MCMCSend(s, sys, k) ==
  IF s.sub[k] = <<>> THEN s
  ELSE [commandGenerate(s, sys, Head(s.sub[k]), FALSE) EXCEPT !.sub[k] = Tail(@)]
MCMC(s, sys) ==
  IF s.slot > 0 THEN {[s EXCEPT !.slot = @ - 1]}
  ELSE {[MCMCSend(MCMCFill(s, s.next, c), sys, s.next) EXCEPT
           !.slot = TimeSlot - 1, !.next = (@ + 1) % NCores]
          : c \in Requestors(s, s.next)}

\* Mutant: the youngest request is preferred.
Youngest(s) == Len(s.general)

(* BLISS: the first request that differs from the oldest one in being      *)
(* blacklisted, or that hits where the oldest one misses.                  *)
scheduleBLISS(s) ==
  LET q == s.general
      Better == {k \in 2 .. Len(q) :
        \/ (q[1].core \in s.black) # (q[k].core \in s.black)
        \/ ~isRowHit(s, q[1]) /\ isRowHit(s, q[k])}
  IN  IF Better = {} THEN 1 ELSE CHOOSE k \in Better : \A j \in Better : k <= j
BLISSStreak(s, c) ==
  CASE c = s.last /\ s.streak < Threshold -> [s EXCEPT !.streak = @ + 1]
    [] c = s.last /\ s.streak = Threshold ->
         [s EXCEPT !.black = @ \cup {c}, !.streak = 1]
    [] OTHER -> [s EXCEPT !.last = c, !.streak = 1]
(* clear_marking runs every 10000 calls: at any call, here.                *)
BLISS(s, sys) ==
  UNION {IF t.general = <<>> THEN {t}
         ELSE LET k == scheduleBLISS(t)
              IN  {ServeIndex(BLISSStreak(t, t.general[k].core), sys, k)}
           : t \in {s, [s EXCEPT !.black = {}]}}

(* PAR-BS: form_batch marks, for each requestor, its oldest request to the *)
(* lowest bank it uses, and counts it MarkingCap times.                    *)
Nominee(s, c) ==
  LET Of(b) == {k \in 1 .. Len(s.general) : s.general[k].core = c /\ s.general[k].bank = b}
      Used == {b \in Banks \cap (0 .. 7) : Of(b) # {}}
      b0 == CHOOSE b \in Used : \A d \in Used : b <= d
  IN  IF Used = {} THEN {}
      ELSE {s.general[k].id : k \in {i \in Of(b0) :
              \A j \in Of(b0) : \/ s.general[i].arrive < s.general[j].arrive
                                \/ s.general[i].arrive = s.general[j].arrive /\ i <= j}}
form_batch(s) ==
  LET Nominated == {c \in Cores : Nominee(s, c) # {}}
  IN  [s EXCEPT !.marked = @ \cup UNION {Nominee(s, c) : c \in Cores},
                !.count = @ + MarkingCap * Cardinality(Nominated),
                !.load = [c \in Cores |-> IF c \in Nominated
                    THEN MarkingCap * Cardinality({d \in Nominated : d <= c}) ELSE 0]]
(* BetterRequest of two requests, the second on a tie.  The total load is  *)
(* MarkingCap for every marked requestor, so it never decides.             *)
BetterRequest(s, r, t) ==
  CASE (r.id \in s.marked) # (t.id \in s.marked) -> r.id \in s.marked
    [] (r.id \in s.marked) = (t.id \in s.marked)
         /\ isRowHit(s, r) # isRowHit(s, t) -> isRowHit(s, r)
    [] OTHER -> s.load[r.core] < s.load[t.core]
PARBSIndex(s) ==
  FoldLeft(LAMBDA best, k :
    IF k > 1 /\ BetterRequest(s, s.general[k], s.general[best]) THEN k ELSE best,
    1, Upto(Len(s.general)))
PARBS(s, sys) ==
  LET t == IF s.count = 0 THEN form_batch(s) ELSE s
      k == PARBSIndex(t)
  IN  {IF t.general = <<>> THEN t
       ELSE [ServeIndex(t, sys, k) EXCEPT !.count = @ - 1,
               !.marked = @ \ {t.general[k].id}]}

(* FRFCFS_Batching: above the high watermark writes go first, one a cycle, *)
(* until the low one; else one FR read for every bank without commands,    *)
(* all tested against the flags taken on entry; with nothing else to do, a *)
(* write.                                                                  *)
highWatermark(s) == Len(s.writeQ) > HighWatermark
lowWatermark(s) == Len(s.writeQ) < LowWatermark
ServeWrite(s, sys) == [Serve(s, sys, Head(s.writeQ)) EXCEPT !.writeQ = Tail(@)]
BatchReads(s, sys) ==
  FoldLeft(LAMBDA t, i :
    IF t.general # <<>> /\ t.general[FRIndex(t)].bank \in s.free
    THEN ServeIndex(t, sys, FRIndex(t)) ELSE t, s, Upto(Cardinality(s.free)))
FRFCFS_Batching(s, sys) ==
  LET t == [s EXCEPT !.sw = (@ \/ highWatermark(s)) /\ ~lowWatermark(s)]
      u == BatchReads(t, sys)
  IN  {CASE t.sw -> ServeWrite(t, sys)
         [] ~t.sw /\ s.empty /\ u.gen = t.gen /\ t.writeQ # <<>> -> ServeWrite(u, sys)
         [] OTHER -> u}

(* MEDUSA: one read a cycle; without reads, above the high watermark the   *)
(* writes that hit, then writes down to the low watermark, at an index     *)
(* that moves on as the queue shrinks and so can pass its end.  The writes *)
(* do not update the row table.                                            *)
PopWrite(s, sys, i) ==
  [commandGenerate(s, sys, s.writeQ[i], isRowHit(s, s.writeQ[i])) EXCEPT
     !.writeQ = RemoveAt(@, i)]
WriteHits(s, sys) ==
  FoldLeft(LAMBDA t, i :
    IF i <= Len(t.writeQ) /\ isRowHit(t, t.writeQ[i]) THEN PopWrite(t, sys, i) ELSE t,
    s, Upto(Len(s.writeQ)))
DrainWrites(s, sys) ==
  FoldLeft(LAMBDA t, i :
    CASE t.fault \/ lowWatermark(t) -> t
      [] ~t.fault /\ ~lowWatermark(t) /\ i <= Len(t.writeQ) ->
           PopWrite(t, sys, i)
      [] OTHER -> [t EXCEPT !.fault = TRUE],
    s, Upto(Len(s.writeQ)))
MEDUSA(s, sys) ==
  IF s.order # <<>> /\ NextFull(s) # {}
  THEN {LET k == (s.next + d) % Len(s.order)
        IN  [ServeHead(s, sys, s.order[k + 1]) EXCEPT !.next = (k + 1) % Len(s.order)]
          : d \in NextFull(s)}
  ELSE {DrainWrites(IF highWatermark(s) THEN WriteHits(s, sys) ELSE s, sys)}

(* RROF serves the requestors in RequestorsQueues' round robin order;      *)
(* nothing calls RequestorsQueues::addRequest, so the order is empty.      *)
RROF(s, sys) == {s}

requestSchedule(s, sys) ==
  CASE sys.req = "FRFCFS" -> FRFCFS(s, sys)
    [] sys.req = "FRFCFS_cap" -> FRFCFS_cap(s, sys)
    [] sys.req = "FRFCFS_Batching" -> FRFCFS_Batching(s, sys)
    [] sys.req = "FCFS" -> FCFS(s, sys)
    [] sys.req = "DIRECT" -> DIRECT(s, sys)
    [] sys.req = "RR" -> RR(s, sys)
    [] sys.req = "RTMem" -> RTMem(s, sys)
    [] sys.req = "PMC" -> PMC(s, sys)
    [] sys.req = "MCMC" -> MCMC(s, sys)
    [] sys.req = "BLISS" -> BLISS(s, sys)
    [] sys.req = "PARBS" -> PARBS(s, sys)
    [] sys.req = "MEDUSA" -> MEDUSA(s, sys)
    [] sys.req = "RROF" -> RROF(s, sys)
=============================================================================
