------------------------- MODULE L1ControllerProofs --------------------------
(***************************************************************************)
(* Proofs about one L1 controller, for every set of lines, every bound and *)
(* every form of the data array: the rescan skip of the queue is sound, no *)
(* eviction is forgotten, a line's demands are handled in order, and every *)
(* demand is in exactly one place until it is answered or dropped.         *)
(***************************************************************************)
EXTENDS L1Controller, BufferLemmas

\* The line interlock depends on the deferred messages, not on how far their accesses are.
LEMMA HoldUnchanged ==
  ASSUME DOMAIN ops' = DOMAIN ops, \A o \in DOMAIN ops : ops'[o].msg = ops[o].msg
  PROVE  \A l : lineHasDeferredOp(l)' <=> lineHasDeferredOp(l)
BY DEF lineHasDeferredOp

\* Passing cycles, granting ports and making accesses due leave the deferred messages.
LEMMA CycleStartsKeepsMessages ==
  ASSUME CycleStarts
  PROVE  DOMAIN ops' = DOMAIN ops /\ \A o \in DOMAIN ops : ops'[o].msg = ops[o].msg
<1>1. CASE array = "pipelined"
  <2>1. pipelineStep
    BY <1>1 DEF CycleStarts
  <2> QED  BY <2>1 DEF pipelineStep, arrayAdmit
<1>2. CASE array # "pipelined"
  <2>1. processDataArrayBuffer
    BY <1>2 DEF CycleStarts
  <2>2. ops' = [o \in DOMAIN ops |->
                  IF o = 1 /\ isReady' THEN [ops[o] EXCEPT !.left = 0] ELSE ops[o]]
    BY <2>1 DEF processDataArrayBuffer
  <2> QED  BY <2>2
<1> QED  BY <1>1, <1>2

\* Making the accesses of an incoming line due leaves the deferred messages.
LEMMA FlushKeepsMessages ==
  ASSUME ops' = pipelineFlushLine
  PROVE  DOMAIN ops' = DOMAIN ops /\ \A o \in DOMAIN ops : ops'[o].msg = ops[o].msg
BY DEF pipelineFlushLine

\* A scan of the same queue over the same coherence states and the same held lines finds
\* the same message.
LEMMA ScanUnchanged ==
  ASSUME queue' = queue, st' = st, \A l : lineHasDeferredOp(l)' <=> lineHasDeferredOp(l)
  PROVE  Scan' = Scan
BY DEF Scan, Ready, Held, BlockedByOlder, Gated, isDemandRequest

\* A message is found only in a queue that is marked dirty.
LEMMA FoundMeansDirty ==
  ASSUME NEW i \in FirstReady
  PROVE  dirty
BY DEF FirstReady

\* The rescan skip of FRFCFS_Buffer::getFirstReady is sound: a queue marked clean holds
\* no ready message, whatever was pushed, popped or put back before.
THEOREM CleanQueueIdle == Spec => []CleanMeansIdle
<1>1. Init => CleanMeansIdle
  BY DEF Init, CleanMeansIdle
<1>2. CleanMeansIdle /\ [Next]_vars => CleanMeansIdle'
  <2> SUFFICES ASSUME CleanMeansIdle, [Next]_vars, ~dirty'
               PROVE  Scan' = {}
    BY DEF CleanMeansIdle
  <2>1. CASE Intake
    <3>1. queue' = queue /\ ~dirty
      <4>1. dirty' = DirtyAfter(queue')
        BY <2>1, Zenon DEF Intake
      <4> QED  BY <4>1, Zenon DEF DirtyAfter
    <3>2. st' = st /\ ops' = pipelineFlushLine
      BY <2>1 DEF Intake
    <3>3. \A l : lineHasDeferredOp(l)' <=> lineHasDeferredOp(l)
      BY <3>2, FlushKeepsMessages, HoldUnchanged
    <3>4. Scan' = Scan
      BY <3>1, <3>2, <3>3, ScanUnchanged
    <3> QED  BY <3>1, <3>4 DEF CleanMeansIdle
  <2>2. CASE AdmitFails
    <3>1. PICK i \in FirstReady : TRUE
      BY <2>2 DEF AdmitFails
    <3> QED  BY <2>2, <3>1, FoundMeansDirty DEF AdmitFails
  <2>3. CASE Defer
    <3>1. PICK i \in FirstReady : TRUE
      BY <2>3, Zenon DEF Defer
    <3>2. dirty' = dirty
      BY <2>3 DEF Defer
    <3> QED  BY <3>1, <3>2, FoundMeansDirty
  <2>4. CASE Process
    <3>1. PICK i \in FirstReady : TRUE
      BY <2>4 DEF Process
    <3>2. dirty' = dirty
      BY <2>4 DEF Process
    <3> QED  BY <3>1, <3>2, FoundMeansDirty
  <2>5. CASE pipelineFire
    BY <2>5 DEF pipelineFire
  <2>6. CASE EndCycle
    <3>1. Scan = {}
      BY <2>6 DEF EndCycle, FirstReady, CleanMeansIdle
    <3>2. queue' = queue /\ st' = st /\ CycleStarts
      BY <2>6 DEF EndCycle
    <3>3. \A l : lineHasDeferredOp(l)' <=> lineHasDeferredOp(l)
      BY <3>2, CycleStartsKeepsMessages, HoldUnchanged
    <3> QED  BY <3>1, <3>2, <3>3, ScanUnchanged
  <2>7. CASE UNCHANGED vars
    <3>1. queue' = queue /\ st' = st /\ dirty' = dirty /\ ops' = ops
      BY <2>7 DEF vars
    <3>2. \A l : lineHasDeferredOp(l)' <=> lineHasDeferredOp(l)
      BY <3>1, HoldUnchanged
    <3> QED  BY <3>1, <3>2, ScanUnchanged DEF CleanMeansIdle
  <2> QED  BY <2>1, <2>2, <2>3, <2>4, <2>5, <2>6, <2>7 DEF Next
<1> QED  BY <1>1, <1>2, PTL DEF Spec

-----------------------------------------------------------------------------
(* The coherence table.                                                     *)

\* What a message asks of the table.
BusKinds == {"Own_GetS", "Own_GetM", "Own_PutM", "OwnData"}
Events == CpuOps \cup {"Replacement"} \cup BusKinds \cup Snooped

\* The actions of the cells a table is written with.
LEMMA CellActs ==
  /\ Stall.acts = {"Stall"} /\ Fault.acts = {"Fault"} /\ Stay.acts = {}
  /\ \A s : To(s).acts = {}
  /\ \A a : Do(a).acts = a
  /\ \A a, s : DoTo(a, s).acts = a
<1>1. \A acts, next : Cell(acts, next).acts = acts
  BY DEF Cell
<1> QED  BY <1>1, Zenon DEF Stall, Stay, To, DoTo, Do, Fault

\* The next states of the cells a table is written with; "" keeps the state.
LEMMA CellNext ==
  /\ Stall.next = "" /\ Fault.next = "" /\ Stay.next = ""
  /\ \A s : To(s).next = s
  /\ \A a : Do(a).next = ""
  /\ \A a, s : DoTo(a, s).next = s
<1>1. \A acts, next : Cell(acts, next).next = next
  BY DEF Cell
<1> QED  BY <1>1, Zenon DEF Stall, Stay, To, DoTo, Do, Fault

\* The row of a cell issues a request to the bus.
Opens(cell) == "GetS" \in cell.acts \/ "GetM" \in cell.acts

\* No bus message and no replacement opens a request.
LEMMA OtherCell ==
  ASSUME NEW s \in L1States, NEW k \in Events \ CpuOps
  PROVE  ~Opens(L1Cell(s, k))
<1>1. /\ ~Opens(Stall) /\ ~Opens(Fault) /\ ~Opens(Stay) 
      /\ \A x : /\ ~Opens(To(x)) /\ ~Opens(DoTo({"Hit"}, x)) /\ ~Opens(DoTo({"SaveReq"}, x)) 
                /\ ~Opens(DoTo({"Data2Req"}, x)) /\ ~Opens(DoTo({"Data2Both"}, x)) /\ ~Opens(DoTo({"PutM"}, x))
                /\ ~Opens(DoTo({"Hit", "Data2Req"}, x)) /\ ~Opens(DoTo({"Hit", "Data2Both"}, x))
  BY CellActs DEF Opens
<1>2. ~Opens(L1Table[s][3]) /\ ~Opens(L1Table[s][4]) /\ ~Opens(L1Table[s][5])
  BY <1>1 DEF L1States, L1Table
<1>3. ~Opens(L1Table[s][6]) /\ ~Opens(L1Table[s][7]) /\ ~Opens(L1Table[s][8])
  BY <1>1 DEF L1States, L1Table
<1>4. ~Opens(L1Table[s][10]) /\ ~Opens(L1Table[s][11])
  BY <1>1 DEF L1States, L1Table
<1>5. L1Column[k] \in {3, 4, 5, 6, 7, 8, 10, 11}
  BY DEF L1Column, Events, CpuOps, BusKinds, Snooped
<1> QED  BY <1>2, <1>3, <1>4, <1>5 DEF L1Cell

\* A load or store that does not stall hits or opens a request.
LEMMA DemandCell ==
  ASSUME NEW s \in L1States, NEW k \in CpuOps, ~isStall(L1Cell(s, k))
  PROVE  "Hit" \in L1Cell(s, k).acts <=> ~Opens(L1Cell(s, k))
<1> DEFINE Good(cell) == isStall(cell) \/ ("Hit" \in cell.acts <=> ~Opens(cell))
<1>1. Good(Stall) /\ Good(Do({"Hit"})) /\ \A x : Good(DoTo({"GetS"}, x)) /\ Good(DoTo({"GetM"}, x))
  BY CellActs DEF Opens, isStall
<1> HIDE DEF Good
<1>2. Good(L1Table[s][1]) /\ Good(L1Table[s][2])
  BY <1>1 DEF L1States, L1Table
<1>3. Good(L1Cell(s, k))
  BY <1>2 DEF L1Cell, L1Column, CpuOps
<1> QED  BY <1>3 DEF Good

\* A replacement stalls, drops the line or writes it back, and touches no data.
LEMMA ReplacementCell ==
  ASSUME NEW s \in L1States
  PROVE  /\ L1Cell(s, "Replacement").acts \cap {"Hit", "Data2Req", "Data2Both"} = {}
         /\ \/ isStall(L1Cell(s, "Replacement"))
            \/ getNextState(s, L1Cell(s, "Replacement")) = "I"
            \/ L1Cell(s, "Replacement").acts = {"PutM"}
<1>1. L1Cell(s, "Replacement") = L1Table[s][3]
  BY DEF L1Cell, L1Column
<1>2. \/ L1Table[s][3] = Stall \/ L1Table[s][3] = To("I") \/ L1Table[s][3] = DoTo({"PutM"}, "MI_a")
      \/ L1Table[s][3] = Stay /\ s = "I"
  BY DEF L1States, L1Table
<1>3. \/ L1Table[s][3].acts = {"Stall"} \/ L1Table[s][3].acts = {} \/ L1Table[s][3].acts = {"PutM"}
  BY <1>2, CellActs
<1>4. L1Table[s][3].acts \cap {"Hit", "Data2Req", "Data2Both"} = {}
  BY <1>3
<1>5. \/ L1Table[s][3] = Stall \/ L1Table[s][3] = DoTo({"PutM"}, "MI_a")
      \/ L1Table[s][3].next = "I"
      \/ L1Table[s][3].next = "" /\ s = "I"
  BY <1>2, CellNext, Zenon
<1>6. CASE L1Table[s][3] = Stall \/ L1Table[s][3] = DoTo({"PutM"}, "MI_a")
  <2>1. isStall(L1Table[s][3]) \/ L1Table[s][3].acts = {"PutM"}
    BY <1>6, CellActs DEF isStall
  <2> QED  BY <1>1, <1>4, <2>1
<1>7. CASE \/ L1Table[s][3].next = "I"
           \/ L1Table[s][3].next = "" /\ s = "I"
  BY <1>1, <1>4, <1>7 DEF getNextState
<1> QED  BY <1>5, <1>6, <1>7

\* The broadcast of a write-back is never held back, and takes the line away.
LEMMA PutMCell ==
  ASSUME NEW s \in L1States
  PROVE  /\ ~isStall(L1Cell(s, "Own_PutM"))
         /\ \/ "Fault" \in L1Cell(s, "Own_PutM").acts
            \/ getNextState(s, L1Cell(s, "Own_PutM")) = "I"
<1>1. L1Cell(s, "Own_PutM") = L1Table[s][6]
  BY DEF L1Cell, L1Column
<1>2. L1Table[s][6] = Fault \/ L1Table[s][6] = To("I") \/ L1Table[s][6] = DoTo({"Data2Req"}, "I")
  BY DEF L1States, L1Table
<1>3. L1Table[s][6].acts = {"Fault"} \/ L1Table[s][6].acts = {} \/ L1Table[s][6].acts = {"Data2Req"}
  BY <1>2, CellActs
<1>4. ~isStall(L1Table[s][6])
  BY <1>3 DEF isStall
<1>5. "Fault" \in L1Table[s][6].acts \/ L1Table[s][6].next = "I"
  <2>0. To("I").next = "I" /\ DoTo({"Data2Req"}, "I").next = "I"
    BY CellNext
  <2>1. L1Table[s][6] = Fault \/ L1Table[s][6].next = "I"
    BY <1>2, <2>0
  <2>2. "Fault" \in Fault.acts
    BY CellActs
  <2> QED  BY <2>1, <2>2
<1> QED  BY <1>1, <1>4, <1>5 DEF getNextState

\* A cell of the L1 table leads to a state of the table.
LEMMA NextStateOf ==
  ASSUME NEW s \in L1States, NEW k \in Events
  PROVE  getNextState(s, L1Cell(s, k)) \in L1States
<1> DEFINE Good(cell) == cell.next \in L1States \cup {""}
<1>1. Good(Stall) /\ Good(Fault) /\ Good(Stay) /\ \A a : Good(Do(a))
  BY CellNext
<1>2. ASSUME NEW x \in L1States PROVE Good(To(x)) /\ \A a : Good(DoTo(a, x))
  <2>1. To(x).next = x /\ \A a : DoTo(a, x).next = x
    BY CellNext
  <2> QED  BY <2>1
<1> HIDE DEF Good
<1> DEFINE Reach(x) == Good(To(x)) /\ \A a : Good(DoTo(a, x))
<1>2a. /\ Reach("I") /\ Reach("IS_ad") /\ Reach("IS_d") /\ Reach("IS_a")
      /\ Reach("IS_dI") /\ Reach("IM_ad") /\ Reach("IM_d") /\ Reach("IM_a")
      /\ Reach("IM_dI") /\ Reach("IM_dS") /\ Reach("IM_dSI") /\ Reach("S")
      /\ Reach("SM_ad") /\ Reach("SM_d") /\ Reach("SM_a") /\ Reach("SM_dI")
      /\ Reach("SM_dS") /\ Reach("SM_dSI") /\ Reach("M") /\ Reach("MI_a")
      /\ Reach("MII_a") /\ Reach("II_a")
  BY <1>2 DEF L1States, L1Table
<1>3. Good(L1Table[s][1]) /\ Good(L1Table[s][2]) /\ Good(L1Table[s][3])
  BY <1>1, <1>2a DEF L1States, L1Table
<1>4. Good(L1Table[s][4]) /\ Good(L1Table[s][5]) /\ Good(L1Table[s][6])
  BY <1>1, <1>2a DEF L1States, L1Table
<1>5. Good(L1Table[s][7]) /\ Good(L1Table[s][8])
  BY <1>1, <1>2a DEF L1States, L1Table
<1>6. Good(L1Table[s][10]) /\ Good(L1Table[s][11])
  BY <1>1, <1>2a DEF L1States, L1Table
<1>7. L1Column[k] \in {1, 2, 3, 4, 5, 6, 7, 8, 10, 11}
  BY DEF L1Column, Events, CpuOps, BusKinds, Snooped
<1>8. Good(L1Cell(s, k))
  BY <1>3, <1>4, <1>5, <1>6, <1>7 DEF L1Cell
<1> QED  BY <1>8 DEF Good, getNextState

-----------------------------------------------------------------------------
(* The buffers of the controller.                                           *)

\* A demand has a number, and only messages of the bus enter as Ready.
Elem ==
  {m \in [k : Events, line : Lines, id : Nat, ready : BOOLEAN] :
     /\ m.k \in CpuOps <=> m.id # 0
     /\ m.k = "Replacement" \/ m.k \in CpuOps => ~m.ready}
Op == [msg : Elem, left : Int]
Served == [line : Lines, id : Nat]

L1Typed ==
  /\ queue \in Seq(Elem) /\ ops \in Seq(Op)
  /\ st \in [Lines -> L1States] /\ reg \in [Lines -> {"none", "mshr", "array", "pwb"}]
  /\ pending \in [Lines -> Seq(Nat)] /\ toIssue \in Seq(Lines)
  /\ owed \in [Lines -> Seq(BusKinds)]
  /\ issued \in Nat /\ served \in Seq(Served) /\ answered \in Seq(Nat)

\* The fields of a message.
LEMMA ElemFields ==
  ASSUME NEW m \in Elem
  PROVE  /\ m.k \in Events /\ m.line \in Lines /\ m.id \in Nat /\ m.ready \in BOOLEAN
         /\ m.k \in CpuOps <=> m.id # 0
         /\ m.k = "Replacement" \/ m.k \in CpuOps => ~m.ready
BY DEF Elem

\* Messages the intake builds.
LEMMA ElementTyped ==
  ASSUME NEW l \in Lines
  PROVE  /\ \A k \in BusKinds \cup Snooped, up \in BOOLEAN : Element(k, l, 0, up) \in Elem
         /\ \A k \in CpuOps, n \in Nat : n # 0 => Element(k, l, n, FALSE) \in Elem
         /\ Element("Replacement", l, 0, FALSE) \in Elem
<1>1. /\ BusKinds \cup Snooped \subseteq Events /\ CpuOps \subseteq Events /\ "Replacement" \in Events
      /\ "Replacement" \notin CpuOps /\ \A k \in BusKinds \cup Snooped : k \notin CpuOps /\ k # "Replacement"
  BY DEF Events, BusKinds, Snooped, CpuOps
<1>2. ASSUME NEW k \in Events, NEW n \in Nat, NEW up \in BOOLEAN, k \in CpuOps <=> n # 0,
             k = "Replacement" \/ k \in CpuOps => ~up
      PROVE  Element(k, l, n, up) \in Elem
  BY <1>2 DEF Element, Elem
<1> QED  BY <1>1, <1>2

\* A message put back from the array is no longer Ready.
LEMMA PutBackTyped ==
  ASSUME NEW m \in Elem
  PROVE  /\ [m EXCEPT !.ready = FALSE] \in Elem
         /\ [m EXCEPT !.ready = FALSE].k = m.k /\ [m EXCEPT !.ready = FALSE].line = m.line
         /\ [m EXCEPT !.ready = FALSE].id = m.id
BY DEF Elem

\* FRFCFS_Buffer::popElement takes one message out.
LEMMA EraseIsCut ==
  ASSUME NEW T, NEW s \in Seq(T), NEW i \in DOMAIN s
  PROVE  Erase(s, i) = Cut(s, i)
<1> DEFINE a == SubSeq(s, 1, i - 1)
           b == SubSeq(s, i + 1, Len(s))
<1>1. Len(s) \in Nat /\ i \in 1 .. Len(s)
  BY LenProperties
<1>2. a \in Seq(T) /\ Len(a) = i - 1 /\ \A j \in 1 .. (i - 1) : a[j] = s[j]
  BY <1>1, SubSeqProperties
<1>3. b \in Seq(T) /\ Len(b) = Len(s) - i /\ \A j \in 1 .. (Len(s) - i) : b[j] = s[i + j]
  BY <1>1, SubSeqProperties
<1> HIDE DEF a, b
<1>4. /\ a \o b \in Seq(T) /\ Len(a \o b) = Len(s) - 1 /\ DOMAIN (a \o b) = 1 .. (Len(s) - 1)
      /\ \A j \in 1 .. (i - 1) : (a \o b)[j] = a[j]
      /\ \A j \in 1 .. (Len(s) - i) : (a \o b)[(i - 1) + j] = b[j]
  BY <1>1, <1>2, <1>3, ConcatProperties, LenProperties
<1>5. ASSUME NEW j \in 1 .. (Len(s) - 1) PROVE (a \o b)[j] = IF j < i THEN s[j] ELSE s[j + 1]
  <2>1. CASE j < i
    BY <1>1, <1>2, <1>4, <2>1
  <2>2. CASE ~(j < i)
    <3>1. j - (i - 1) \in 1 .. (Len(s) - i) /\ (i - 1) + (j - (i - 1)) = j /\ i + (j - (i - 1)) = j + 1
      BY <1>1, <2>2
    <3>2. PICK k \in 1 .. (Len(s) - i) : (i - 1) + k = j /\ i + k = j + 1
      BY <3>1
    <3>3. (a \o b)[(i - 1) + k] = b[k] /\ b[k] = s[i + k]
      BY <1>3, <1>4
    <3> QED  BY <2>2, <3>2, <3>3
  <2> QED  BY <2>1, <2>2
<1>6. /\ Cut(s, i) \in Seq(T) /\ Len(Cut(s, i)) = Len(s) - 1
      /\ \A j \in 1 .. (Len(s) - 1) : Cut(s, i)[j] = IF j < i THEN s[j] ELSE s[j + 1]
  <2>1. Cut(s, i) \in Seq(T) /\ Len(Cut(s, i)) = Len(s) - 1
    BY CountCut
  <2> QED  BY <2>1 DEF Cut
<1>7. a \o b = Cut(s, i)
  BY <1>4, <1>5, <1>6, SeqEqual
<1> QED  BY <1>7 DEF Erase, a, b

\* What is left when message i is taken out, and in which order.
LEMMA EraseFacts ==
  ASSUME NEW T, NEW s \in Seq(T), NEW i \in DOMAIN s
  PROVE  /\ Erase(s, i) \in Seq(T) /\ Len(Erase(s, i)) = Len(s) - 1
         /\ \A j \in DOMAIN Erase(s, i) : Erase(s, i)[j] = IF j < i THEN s[j] ELSE s[j + 1]
         /\ \A j \in DOMAIN Erase(s, i) : \E k \in DOMAIN s : k # i /\ Erase(s, i)[j] = s[k]
         /\ \A k \in DOMAIN s : k # i => \E j \in DOMAIN Erase(s, i) : Erase(s, i)[j] = s[k]
         /\ \A S : NOf(Erase(s, i), S) = NOf(s, S) - (IF s[i] \in S THEN 1 ELSE 0)
<1>1. Erase(s, i) = Cut(s, i)
  BY EraseIsCut
<1>2. /\ Cut(s, i) \in Seq(T) /\ Len(Cut(s, i)) = Len(s) - 1
      /\ \A S : NOf(Cut(s, i), S) = NOf(s, S) - (IF s[i] \in S THEN 1 ELSE 0)
  BY CountCut
<1>3. DOMAIN Cut(s, i) = 1 .. (Len(s) - 1) /\ Len(s) \in Nat /\ DOMAIN s = 1 .. Len(s)
  BY LenProperties DEF Cut
<1>4. \A j \in 1 .. (Len(s) - 1) : Cut(s, i)[j] = IF j < i THEN s[j] ELSE s[j + 1]
  BY DEF Cut
<1>5. ASSUME NEW k \in DOMAIN s, k # i
      PROVE  \E j \in 1 .. (Len(s) - 1) : Cut(s, i)[j] = s[k]
  <2>1. CASE k < i
    BY <1>3, <1>4, <2>1
  <2>2. CASE k > i
    <3>1. k - 1 \in 1 .. (Len(s) - 1) /\ ~(k - 1 < i) /\ (k - 1) + 1 = k
      BY <1>3, <2>2
    <3> QED  BY <1>4, <3>1
  <2> QED  BY <1>3, <1>5, <2>1, <2>2
<1>6. ASSUME NEW j \in 1 .. (Len(s) - 1)
      PROVE  \E k \in DOMAIN s : k # i /\ Cut(s, i)[j] = s[k]
  <2>1. CASE j < i
    BY <1>3, <1>4, <2>1
  <2>2. CASE ~(j < i)
    <3>1. j + 1 \in DOMAIN s /\ j + 1 # i
      BY <1>3, <2>2
    <3> QED  BY <1>4, <2>2, <3>1
  <2> QED  BY <2>1, <2>2
<1> QED  BY <1>1, <1>2, <1>3, <1>4, <1>5, <1>6

\* What a buffer holds when a message was put in behind its first p.
LEMMA InsertFacts ==
  ASSUME NEW T, NEW s \in Seq(T), NEW p \in 0 .. Len(s), NEW e \in T
  PROVE  /\ InsertAt(s, p, e) \in Seq(T) /\ Len(InsertAt(s, p, e)) = Len(s) + 1
         /\ \A j \in DOMAIN InsertAt(s, p, e) :
              InsertAt(s, p, e)[j] = IF j <= p THEN s[j] ELSE IF j = p + 1 THEN e ELSE s[j - 1]
         /\ \A S : NOf(InsertAt(s, p, e), S) = NOf(s, S) + (IF e \in S THEN 1 ELSE 0)
<1> DEFINE a == SubSeq(s, 1, p)
           b == SubSeq(s, p + 1, Len(s))
           h == a \o <<e>>
           t == h \o b
<1>1. Len(s) \in Nat /\ DOMAIN s = 1 .. Len(s)
  BY LenProperties
<1>2. a \in Seq(T) /\ Len(a) = p /\ \A j \in 1 .. p : a[j] = s[j]
  BY <1>1, SubSeqProperties
<1>3. b \in Seq(T) /\ Len(b) = Len(s) - p /\ \A j \in 1 .. (Len(s) - p) : b[j] = s[p + j]
  <2>1. p + 1 \in 1 .. (Len(s) + 1) /\ Len(s) \in ((p + 1) - 1) .. Len(s)
    BY <1>1
  <2>2. /\ b \in Seq(T)
        /\ Len(b) = (IF p + 1 <= Len(s) THEN Len(s) - (p + 1) + 1 ELSE 0)
        /\ \A j \in 1 .. (Len(s) - (p + 1) + 1) : b[j] = s[(p + 1) + j - 1]
    BY <2>1, SubSeqProperties
  <2>3. /\ Len(s) - (p + 1) + 1 = Len(s) - p
        /\ \A j \in 1 .. (Len(s) - p) : (p + 1) + j - 1 = p + j
        /\ ~(p + 1 <= Len(s)) => Len(s) - p = 0
    <3> SUFFICES ASSUME NEW n \in Nat, NEW x \in 0 .. n
                 PROVE  /\ n - (x + 1) + 1 = n - x
                        /\ \A j \in 1 .. (n - x) : (x + 1) + j - 1 = x + j
                        /\ ~(x + 1 <= n) => n - x = 0
      BY <1>1
    <3>1. n - (x + 1) + 1 = n - x
      OBVIOUS
    <3>2. \A j \in 1 .. (n - x) : (x + 1) + j - 1 = x + j
      OBVIOUS
    <3>3. ~(x + 1 <= n) => n - x = 0
      OBVIOUS
    <3> QED  BY <3>1, <3>2, <3>3
  <2> HIDE DEF b
  <2> QED  BY <2>2, <2>3
<1> HIDE DEF a, b
<1>4. /\ h \in Seq(T) /\ Len(h) = p + 1 /\ h[p + 1] = e
      /\ \A j \in 1 .. p : h[j] = s[j]
  BY <1>1, <1>2, AppendIsConcat, AppendProperties, LenProperties
<1> HIDE DEF h
<1>5. /\ t \in Seq(T) /\ Len(t) = Len(s) + 1 /\ DOMAIN t = 1 .. (Len(s) + 1)
      /\ \A j \in 1 .. (p + 1) : t[j] = h[j]
      /\ \A j \in 1 .. (Len(s) - p) : t[(p + 1) + j] = b[j]
  BY <1>1, <1>3, <1>4, ConcatProperties, LenProperties
<1>6. t = InsertAt(s, p, e)
  BY DEF InsertAt, h, a, b
<1> HIDE DEF t
<1>7. ASSUME NEW j \in 1 .. (Len(s) + 1)
      PROVE  t[j] = IF j <= p THEN s[j] ELSE IF j = p + 1 THEN e ELSE s[j - 1]
  <2>1. CASE j <= p
    BY <1>1, <1>4, <1>5, <2>1
  <2>2. CASE j = p + 1
    BY <1>1, <1>4, <1>5, <2>2
  <2>3. CASE j > p + 1
    <3>1. /\ j - (p + 1) \in 1 .. (Len(s) - p) /\ (p + 1) + (j - (p + 1)) = j
          /\ p + (j - (p + 1)) = j - 1
      BY <1>1, <2>3
    <3>2. PICK k \in 1 .. (Len(s) - p) : (p + 1) + k = j /\ p + k = j - 1
      BY <3>1
    <3>3. t[(p + 1) + k] = b[k] /\ b[k] = s[p + k]
      BY <1>3, <1>5
    <3>4. ~(j <= p) /\ j # p + 1
      BY <1>1, <2>3
    <3> QED  BY <3>2, <3>3, <3>4
  <2> QED  BY <2>1, <2>2, <2>3
<1>8. p + 1 \in DOMAIN t /\ t[p + 1] = e
  BY <1>1, <1>5, <1>7
<1>9. Cut(t, p + 1) = s
  <2>1. \A j \in 1 .. Len(s) : Cut(t, p + 1)[j] = s[j]
    <3> SUFFICES ASSUME NEW j \in 1 .. Len(s) PROVE Cut(t, p + 1)[j] = s[j]
      OBVIOUS
    <3>1. Cut(t, p + 1)[j] = IF j < p + 1 THEN t[j] ELSE t[j + 1]
      BY <1>1, <1>5 DEF Cut
    <3>2. j \in 1 .. (Len(s) + 1) /\ j + 1 \in 1 .. (Len(s) + 1) /\ (j + 1) - 1 = j
      BY <1>1
    <3>3. CASE j < p + 1
      BY <1>1, <1>7, <3>1, <3>2, <3>3
    <3>4. CASE ~(j < p + 1)
      <4>1. ~(j + 1 <= p) /\ j + 1 # p + 1
        BY <1>1, <3>4
      <4> QED  BY <1>7, <3>1, <3>2, <3>4, <4>1
    <3> QED  BY <3>3, <3>4
  <2>2. Cut(t, p + 1) \in Seq(T) /\ Len(Cut(t, p + 1)) = Len(s)
    <3>1. (Len(s) + 1) - 1 = Len(s)
      BY <1>1
    <3>2. Cut(t, p + 1) \in Seq(T) /\ Len(Cut(t, p + 1)) = Len(t) - 1
      BY <1>5, <1>8, CountCut
    <3> QED  BY <1>5, <3>1, <3>2
  <2> QED  BY <2>1, <2>2, SeqEqual
<1>10. ASSUME NEW S PROVE NOf(t, S) = NOf(s, S) + (IF e \in S THEN 1 ELSE 0)
  <2>1. NOf(Cut(t, p + 1), S) = NOf(t, S) - (IF t[p + 1] \in S THEN 1 ELSE 0)
    BY <1>5, <1>8, CountCut
  <2>2. NOf(t, S) \in Nat
    BY <1>5, CountZero
  <2> QED  BY <1>8, <1>9, <2>1, <2>2
<1> QED  BY <1>5, <1>6, <1>7, <1>10

\* And when one was put in at its end.
LEMMA AppendFacts ==
  ASSUME NEW T, NEW s \in Seq(T), NEW e \in T
  PROVE  /\ Append(s, e) \in Seq(T) /\ Len(Append(s, e)) = Len(s) + 1
         /\ \A j \in DOMAIN Append(s, e) : Append(s, e)[j] = IF j <= Len(s) THEN s[j] ELSE e
         /\ \A S : NOf(Append(s, e), S) = NOf(s, S) + (IF e \in S THEN 1 ELSE 0)
<1>1. /\ Append(s, e) \in Seq(T) /\ Len(Append(s, e)) = Len(s) + 1
      /\ \A j \in 1 .. Len(s) : Append(s, e)[j] = s[j]
      /\ Append(s, e)[Len(s) + 1] = e
  BY AppendProperties
<1>2. Len(s) \in Nat /\ DOMAIN Append(s, e) = 1 .. (Len(s) + 1)
  BY <1>1, LenProperties
<1>3. \A S : NOf(Append(s, e), S) = NOf(s, S) + (IF e \in S THEN 1 ELSE 0)
  BY CountAppend
<1> QED  BY <1>1, <1>2, <1>3

-----------------------------------------------------------------------------
(* What the actions do to the buffers.                                      *)

\* The message of the bus, the demand of the core and the replacement the intake takes.
BusTaken(q) ==
  \/ q = queue /\ owed' = owed
  \/ \E l \in Lines, k \in BusKinds \cup Snooped, p \in 0 .. Len(queue) :
       /\ q = InsertAt(queue, p, Element(k, l, 0, TRUE))
       /\ \/ owed' = owed
          \/ owed[l] # <<>> /\ k = Head(owed[l]) /\ owed' = [owed EXCEPT ![l] = Tail(owed[l])]
CoreTaken(q, r) ==
  \/ r = q /\ issued' = issued
  \/ \E l \in Lines, k \in CpuOps :
       r = Append(q, Element(k, l, issued + 1, FALSE)) /\ issued' = issued + 1
VictimTaken(r) ==
  \/ toIssue = <<>> /\ toIssue' = <<>> /\ queue' = r
  \/ /\ toIssue # <<>> /\ toIssue' = Tail(toIssue)
     /\ queue' = Append(r, Element("Replacement", Head(toIssue), 0, FALSE))

\* pushFrontOrdered puts the message at one place and keeps the order of the others.
LEMMA PushFrontInserts ==
  ASSUME NEW s \in Seq(Elem), NEW e
  PROVE  \E p \in 0 .. Len(s) : pushFrontOrdered(s, e) = InsertAt(s, p, e)
<1> DEFINE Fits(p) == /\ p = 0 \/ FromBus(s[p])
                      /\ \A q \in (p + 1) .. Len(s) : ~FromBus(s[q])
           A == {0} \cup {p \in DOMAIN s : FromBus(s[p])}
<1>1. Len(s) \in Nat /\ DOMAIN s = 1 .. Len(s)
  BY LenProperties
<1>2. IsFiniteSet(A) /\ A \subseteq Int /\ A # {}
  <2>1. IsFiniteSet({p \in DOMAIN s : FromBus(s[p])})
    BY DomainFinite, FS_Subset
  <2>2. IsFiniteSet({0})
    BY FS_Singleton
  <2>3. IsFiniteSet(A)
    BY <2>1, <2>2, FS_Union
  <2>4. A \subseteq Int /\ 0 \in A
    BY <1>1
  <2> QED  BY <2>3, <2>4
<1>3. PICK p \in A : \A q \in A : q <= p
  BY <1>2, GreatestExists
<1>4. p \in 0 .. Len(s) /\ Fits(p)
  <2>1. p \in 0 .. Len(s) /\ (p = 0 \/ FromBus(s[p]))
    BY <1>1
  <2>2. ASSUME NEW q \in (p + 1) .. Len(s) PROVE ~FromBus(s[q])
    <3>1. q \in DOMAIN s /\ ~(q <= p)
      BY <1>1, <2>1
    <3> QED  BY <1>3, <3>1
  <2> QED  BY <2>1, <2>2
<1> DEFINE c == CHOOSE x \in 0 .. Len(s) : Fits(x)
<1>5. c \in 0 .. Len(s)
  BY <1>4
<1>6. pushFrontOrdered(s, e) = InsertAt(s, c, e)
  BY DEF pushFrontOrdered
<1> HIDE DEF c
<1> QED  BY <1>5, <1>6

\* An intake in its three steps: bus, core, evictions to issue.
LEMMA IntakeParts ==
  ASSUME L1Typed, Intake
  PROVE  \E q, r \in Seq(Elem) : BusTaken(q) /\ CoreTaken(q, r) /\ VictimTaken(r)
<1>1. PICK up \in BusChoices, cpu \in CpuChoices :
        LET q1 == IF up = <<>> THEN queue
                  ELSE pushFrontOrdered(queue, Element(up[1].k, up[1].line, 0, TRUE))
            q2 == IF cpu = <<>> THEN q1
                  ELSE Append(q1, Element(cpu[1].k, cpu[1].line, issued + 1, FALSE))
        IN  /\ queue' = q2 \o Replacements
            /\ issued' = issued + Len(cpu)
            /\ toIssue' = (IF toIssue = <<>> THEN <<>> ELSE Tail(toIssue))
            /\ owed' = IF up = <<>> \/ (up # <<>> /\ up[1].k \in Snooped) THEN owed
                       ELSE [owed EXCEPT ![up[1].line] = Tail(@)]
  BY Zenon DEF Intake
<1> DEFINE q == IF up = <<>> THEN queue
                ELSE pushFrontOrdered(queue, Element(up[1].k, up[1].line, 0, TRUE))
           r == IF cpu = <<>> THEN q
                ELSE Append(q, Element(cpu[1].k, cpu[1].line, issued + 1, FALSE))
<1>2. /\ queue' = r \o Replacements
      /\ issued' = issued + Len(cpu)
      /\ toIssue' = (IF toIssue = <<>> THEN <<>> ELSE Tail(toIssue))
      /\ owed' = IF up = <<>> \/ (up # <<>> /\ up[1].k \in Snooped) THEN owed
                 ELSE [owed EXCEPT ![up[1].line] = Tail(@)]
  BY <1>1, Zenon
<1>3. q \in Seq(Elem) /\ BusTaken(q)
  <2>1. CASE up = <<>>
    BY <1>2, <2>1 DEF BusTaken, L1Typed
  <2>2. ASSUME NEW l \in Lines, NEW k \in BusKinds \cup Snooped, up = <<[line |-> l, k |-> k]>>,
               \/ k \in Snooped
               \/ owed[l] # <<>> /\ k = Head(owed[l])
        PROVE  q \in Seq(Elem) /\ BusTaken(q)
    <3> DEFINE e == Element(k, l, 0, TRUE)
    <3>1. up # <<>> /\ up[1].line = l /\ up[1].k = k
      BY <2>2
    <3>2. q = pushFrontOrdered(queue, e)
      BY <3>1
    <3>3. e \in Elem
      BY ElementTyped
    <3> HIDE DEF e, q
    <3>4. queue \in Seq(Elem)
      BY DEF L1Typed
    <3>5. PICK p \in 0 .. Len(queue) : q = InsertAt(queue, p, e)
      BY <3>2, <3>4, PushFrontInserts
    <3>6. q \in Seq(Elem)
      BY <3>3, <3>4, <3>5, InsertFacts
    <3>7. owed' = owed \/ (owed[l] # <<>> /\ k = Head(owed[l]) /\ owed' = [owed EXCEPT ![l] = Tail(owed[l])])
      <4>1. CASE k \in Snooped
        BY <1>2, <3>1, <4>1
      <4>2. CASE k \notin Snooped
        BY <1>2, <2>2, <3>1, <4>2
      <4> QED  BY <4>1, <4>2
    <3> QED  BY <3>5, <3>6, <3>7 DEF BusTaken, e
  <2>3. CASE \E l \in Lines : owed[l] # <<>> /\ up = <<[line |-> l, k |-> Head(owed[l])]>>
    <3>1. PICK l \in Lines : owed[l] # <<>> /\ up = <<[line |-> l, k |-> Head(owed[l])]>>
      BY <2>3
    <3>2. owed[l] \in Seq(BusKinds)
      BY DEF L1Typed
    <3>3. Head(owed[l]) \in BusKinds
      BY <3>1, <3>2, HeadTailProperties
    <3> HIDE DEF q
    <3> QED  BY <2>2, <3>1, <3>3
  <2>4. CASE \E l \in Lines, k \in Snooped : up = <<[line |-> l, k |-> k]>>
    <3> HIDE DEF q
    <3> QED  BY <2>2, <2>4
  <2> HIDE DEF q
  <2> QED  BY <2>1, <2>3, <2>4 DEF BusChoices
<1> HIDE DEF q
<1>4. r \in Seq(Elem) /\ CoreTaken(q, r)
  <2>1. CASE cpu = <<>>
    <3>1. r = q /\ issued' = issued
      BY <1>2, <2>1 DEF L1Typed
    <3> QED  BY <1>3, <3>1 DEF CoreTaken
  <2>2. CASE \E l \in Lines, k \in CpuOps : cpu = <<[line |-> l, k |-> k]>>
    <3>1. PICK l \in Lines, k \in CpuOps : cpu = <<[line |-> l, k |-> k]>>
      BY <2>2
    <3>2. cpu # <<>> /\ cpu[1].k = k /\ cpu[1].line = l /\ Len(cpu) = 1
      BY <3>1
    <3>3. r = Append(q, Element(k, l, issued + 1, FALSE)) /\ issued' = issued + 1
      BY <1>2, <3>2
    <3>4. Element(k, l, issued + 1, FALSE) \in Elem
      <4>1. issued + 1 \in Nat /\ issued + 1 # 0
        BY DEF L1Typed
      <4> QED  BY <4>1, ElementTyped
    <3> HIDE DEF r
    <3>5. r \in Seq(Elem)
      <4> DEFINE e == Element(k, l, issued + 1, FALSE)
      <4>1. r = Append(q, e) /\ e \in Elem
        BY <3>3, <3>4
      <4> HIDE DEF e
      <4> QED  BY <1>3, <4>1, AppendProperties
    <3> QED  BY <3>3, <3>5 DEF CoreTaken
  <2>3. cpu = <<>> \/ \E l \in Lines, k \in CpuOps : cpu = <<[line |-> l, k |-> k]>>
    BY DEF CpuChoices
  <2> HIDE DEF r
  <2> QED  BY <2>1, <2>2, <2>3
<1> HIDE DEF r
<1>5. VictimTaken(r)
  <2>1. CASE toIssue = <<>>
    <3>1. queue' = r
      BY <1>2, <1>4, <2>1, ConcatEmptySeq DEF Replacements
    <3> QED  BY <1>2, <2>1, <3>1 DEF VictimTaken
  <2>2. CASE toIssue # <<>>
    <3> DEFINE e == Element("Replacement", Head(toIssue), 0, FALSE)
    <3>1. Head(toIssue) \in Lines
      BY <2>2, HeadTailProperties DEF L1Typed
    <3>2. e \in Elem
      BY <3>1, ElementTyped
    <3>3. queue' = r \o <<e>>
      BY <1>2, <2>2 DEF Replacements
    <3> HIDE DEF e
    <3>4. queue' = Append(r, e)
      BY <1>4, <3>2, <3>3, AppendIsConcat
    <3> QED  BY <1>2, <2>2, <3>4 DEF VictimTaken, e
  <2> QED  BY <2>1, <2>2
<1> QED  BY <1>3, <1>4, <1>5

\* The message the queue gives up.
LEMMA Taken ==
  ASSUME L1Typed, NEW i \in FirstReady
  PROVE  /\ i \in DOMAIN queue /\ queue[i] \in Elem
         /\ ~Held(queue[i]) /\ ~BlockedByOlder(i)
         /\ queue[i].ready \/ ~isStall(L1Cell(st[queue[i].line], queue[i].k))
         /\ queue[i].k \in CpuOps \cup {"Replacement"} => ~isStall(L1Cell(st[queue[i].line], queue[i].k))
<1>1. i \in Scan
  BY DEF FirstReady
<1>2. i \in DOMAIN queue /\ Ready(i)
  BY <1>1 DEF Scan
<1>3. queue[i] \in Elem
  BY <1>2, ElementOfSeq, LenProperties DEF L1Typed
<1> QED  BY <1>2, <1>3, ElemFields DEF Ready

\* Rewriting each deferred access keeps the sequence.
LEMMA AccessesTyped ==
  ASSUME L1Typed, ops' \in [DOMAIN ops -> Op]
  PROVE  ops' \in Seq(Op) /\ Len(ops') = Len(ops)
<1>1. Len(ops) \in Nat /\ DOMAIN ops = 1 .. Len(ops)
  BY LenProperties DEF L1Typed
<1> QED  BY <1>1

\* arrayAdmit grants ports and changes no message.
LEMMA AdmitTyped ==
  ASSUME NEW s \in Seq(Op), NEW n
  PROVE  /\ arrayAdmit(s, n) \in Seq(Op) /\ Len(arrayAdmit(s, n)) = Len(s)
         /\ \A o \in DOMAIN s : arrayAdmit(s, n)[o].msg = s[o].msg
<1>1. Len(s) \in Nat /\ DOMAIN s = 1 .. Len(s)
  BY LenProperties
<1>2. ASSUME NEW o \in DOMAIN s
      PROVE  arrayAdmit(s, n)[o] \in Op /\ arrayAdmit(s, n)[o].msg = s[o].msg
  <2>1. s[o] \in Op /\ ArrayLatency \in Int
    BY ElementOfSeq, LenProperties, L1Assumption
  <2>2. arrayAdmit(s, n)[o] = IF o \in Elected(s, n) THEN [s[o] EXCEPT !.left = ArrayLatency] ELSE s[o]
    BY DEF arrayAdmit
  <2> QED  BY <2>1, <2>2 DEF Op
<1>3. arrayAdmit(s, n) = [o \in 1 .. Len(s) |-> arrayAdmit(s, n)[o]]
  BY <1>1 DEF arrayAdmit
<1> QED  BY <1>1, <1>2, <1>3

\* A deferred access: its message and the cycles it has left.
LEMMA OpTyped ==
  ASSUME L1Typed, NEW o \in DOMAIN ops
  PROVE  ops[o] \in Op /\ ops[o].msg \in Elem /\ ops[o].left \in Int
<1>1. ops[o] \in Op
  BY ElementOfSeq, LenProperties DEF L1Typed
<1> QED  BY <1>1 DEF Op

\* A cycle of the data array keeps its accesses typed.
LEMMA CycleTyped ==
  ASSUME L1Typed, CycleStarts
  PROVE  ops' \in Seq(Op)
<1>0. \A o \in DOMAIN ops : \A n \in Int : [ops[o] EXCEPT !.left = n] \in Op
  BY OpTyped DEF Op
<1>1. CASE array = "pipelined"
  <2> DEFINE passed == [o \in DOMAIN ops |->
                          IF ops[o].left > 0 THEN [ops[o] EXCEPT !.left = @ - 1] ELSE ops[o]]
  <2>1. ops' = arrayAdmit(passed, 0)
    BY <1>1 DEF CycleStarts, pipelineStep
  <2>2. passed \in [DOMAIN ops -> Op]
    <3> SUFFICES ASSUME NEW o \in DOMAIN ops
                 PROVE  (IF ops[o].left > 0 THEN [ops[o] EXCEPT !.left = @ - 1] ELSE ops[o]) \in Op
      OBVIOUS
    <3>1. ops[o].left - 1 \in Int /\ ops[o] \in Op
      BY OpTyped
    <3> QED  BY <1>0, <3>1
  <2>3. passed \in Seq(Op)
    <3>1. Len(ops) \in Nat /\ DOMAIN ops = 1 .. Len(ops)
      BY LenProperties DEF L1Typed
    <3> HIDE DEF passed
    <3> QED  BY <2>2, <3>1
  <2> HIDE DEF passed
  <2> QED  BY <2>1, <2>3, AdmitTyped
<1>2. CASE array # "pipelined"
  <2>1. ops' = [o \in DOMAIN ops |->
                  IF o = 1 /\ isReady' THEN [ops[o] EXCEPT !.left = 0] ELSE ops[o]]
    BY <1>2 DEF CycleStarts, processDataArrayBuffer
  <2>2. ops' \in [DOMAIN ops -> Op]
    BY <1>0, <2>1, OpTyped
  <2> QED  BY <2>2, AccessesTyped
<1> QED  BY <1>1, <1>2

\* pipelineFlushLine keeps the accesses typed.
LEMMA FlushTyped ==
  ASSUME L1Typed, ops' = pipelineFlushLine
  PROVE  ops' \in Seq(Op)
<1>1. \A o \in DOMAIN ops : [ops[o] EXCEPT !.left = 0] \in Op /\ ops[o] \in Op
  BY OpTyped DEF Op
<1>2. ops' \in [DOMAIN ops -> Op]
  BY <1>1 DEF pipelineFlushLine
<1> QED  BY <1>2, AccessesTyped

\* Deferring message i: it leaves the queue and is the last of the deferred ones.
LEMMA DeferParts ==
  ASSUME L1Typed, Defer
  PROVE  \E i \in FirstReady :
           /\ Defers(queue[i]) /\ queue' = Erase(queue, i)
           /\ ops' \in Seq(Op) /\ Len(ops') = Len(ops) + 1
           /\ \A o \in DOMAIN ops : ops'[o].msg = ops[o].msg
           /\ ops'[Len(ops) + 1].msg = queue[i]
<1>1. PICK i \in FirstReady :
        LET waiting == Append(ops, DataArrayOp(queue[i]))
        IN  /\ Defers(queue[i]) /\ queue' = Erase(queue, i)
            /\ ops' = waiting \/ ops' = arrayAdmit(waiting, started)
  BY Zenon DEF Defer
<1> DEFINE e == DataArrayOp(queue[i])
           w == Append(ops, e)
<1>2. queue[i] \in Elem
  BY Taken
<1>3. e \in Op /\ e.msg = queue[i]
  BY <1>2 DEF DataArrayOp, Op, NoPort
<1>4. Defers(queue[i]) /\ queue' = Erase(queue, i) /\ (ops' = w \/ ops' = arrayAdmit(w, started))
  BY <1>1
<1> HIDE DEF e
<1>5. /\ w \in Seq(Op) /\ Len(w) = Len(ops) + 1 /\ ops \in Seq(Op)
      /\ \A o \in 1 .. Len(ops) : w[o] = ops[o]
      /\ w[Len(ops) + 1] = e
  BY <1>3, AppendProperties DEF L1Typed
<1>6. Len(ops) \in Nat /\ DOMAIN ops = 1 .. Len(ops) /\ DOMAIN w = 1 .. (Len(ops) + 1)
  BY <1>5, LenProperties
<1> HIDE DEF w
<1>7. /\ ops' \in Seq(Op) /\ Len(ops') = Len(ops) + 1
      /\ \A o \in DOMAIN w : ops'[o].msg = w[o].msg
  <2>1. CASE ops' = w
    BY <1>5, <2>1
  <2>2. CASE ops' = arrayAdmit(w, started)
    BY <1>5, <2>2, AdmitTyped
  <2> QED  BY <1>4, <2>1, <2>2
<1>8. /\ \A o \in DOMAIN ops : ops'[o].msg = ops[o].msg
      /\ ops'[Len(ops) + 1].msg = queue[i]
  BY <1>3, <1>5, <1>6, <1>7
<1> QED  BY <1>4, <1>7, <1>8

\* Putting a demand back.
LEMMA PutBackParts ==
  ASSUME L1Typed, AdmitFails
  PROVE  \E i \in FirstReady :
           /\ isDemandRequest(queue[i]) /\ retried' = retried \cup {queue[i].id}
           /\ \/ queue' = Append(Erase(queue, i), queue[i]) /\ dropped' = dropped
              \/ queue' = Erase(queue, i) /\ dropped' = dropped \cup {queue[i].id}
  BY DEF AdmitFails, pushBack, canAdmitRequest

\* A row of the table keeps every buffer of its type.
LEMMA RowTyped ==
  ASSUME L1Typed, NEW m \in Elem, processRequest(m)
  PROVE  /\ st' \in [Lines -> L1States] /\ reg' \in [Lines -> {"none", "mshr", "array", "pwb"}]
         /\ pending' \in [Lines -> Seq(Nat)] /\ toIssue' \in Seq(Lines)
         /\ owed' \in [Lines -> Seq(BusKinds)]
         /\ served' \in Seq(Served) /\ answered' \in Seq(Nat)
<1> DEFINE cell == L1Cell(st[m.line], m.k)
           next == getNextState(st[m.line], cell)
<1>0. m.k \in Events /\ m.line \in Lines /\ m.id \in Nat /\ st[m.line] \in L1States
  BY ElemFields DEF L1Typed
<1>1. next \in L1States
  BY <1>0, NextStateOf
<1>2. /\ st' = [st EXCEPT ![m.line] = next]
      /\ \E victim \in Victims(m, next) : reg' = RegAfter(m, next, victim) /\ toIssue' = toIssue \o victim
      /\ owed' = [owed EXCEPT ![m.line] = owed[m.line] \o OwedFor(cell.acts)]
      /\ \E p \in {<<>>, Append(pending[m.line], m.id), pending[m.line]} :
           pending' = [pending EXCEPT ![m.line] = p]
      /\ answered' \in {answered, answered \o pending[m.line], answered \o <<m.id>>}
      /\ served' \in {served, Append(served, [line |-> m.line, id |-> m.id])}
  BY DEF processRequest
<1> HIDE DEF cell, next
<1>3. st' \in [Lines -> L1States]
  BY <1>0, <1>1, <1>2 DEF L1Typed
<1>4. reg' \in [Lines -> {"none", "mshr", "array", "pwb"}] /\ toIssue' \in Seq(Lines)
  <2>1. PICK victim \in Victims(m, next) : reg' = RegAfter(m, next, victim) /\ toIssue' = toIssue \o victim
    BY <1>2
  <2>2. reg' \in [Lines -> {"none", "mshr", "array", "pwb"}]
    BY <2>1 DEF RegAfter, L1Typed
  <2>3. victim = <<>> \/ \E v \in Lines : victim = <<v>>
    BY DEF Victims, Resident
  <2>4. victim \in Seq(Lines)
    <3>1. <<>> \in Seq(Lines) /\ \A v \in Lines : <<v>> \in Seq(Lines)
      OBVIOUS
    <3> QED  BY <2>3, <3>1, Zenon
  <2>5. toIssue \in Seq(Lines)
    BY DEF L1Typed
  <2> QED  BY <2>1, <2>2, <2>4, <2>5, ConcatProperties
<1>5. owed' \in [Lines -> Seq(BusKinds)]
  <2>1. OwedFor(cell.acts) \in Seq(BusKinds)
    <3>1. OwedFor(cell.acts) \in {<<"Own_GetS", "OwnData">>, <<"Own_GetM", "OwnData">>, <<"Own_PutM">>, <<>>}
      BY DEF OwedFor
    <3>2. "Own_GetS" \in BusKinds /\ "Own_GetM" \in BusKinds /\ "Own_PutM" \in BusKinds /\ "OwnData" \in BusKinds
      BY DEF BusKinds
    <3>3. /\ <<"Own_GetS", "OwnData">> \in Seq(BusKinds) /\ <<"Own_GetM", "OwnData">> \in Seq(BusKinds)
          /\ <<"Own_PutM">> \in Seq(BusKinds) /\ <<>> \in Seq(BusKinds)
      BY <3>2
    <3> QED  BY <3>1, <3>3, Zenon
  <2>2. owed[m.line] \o OwedFor(cell.acts) \in Seq(BusKinds)
    BY <1>0, <2>1, ConcatProperties DEF L1Typed
  <2> QED  BY <1>2, <2>2 DEF L1Typed
<1>6. pending' \in [Lines -> Seq(Nat)]
  <2>1. pending[m.line] \in Seq(Nat)
    BY <1>0 DEF L1Typed
  <2>2. Append(pending[m.line], m.id) \in Seq(Nat) /\ <<>> \in Seq(Nat)
    BY <1>0, <2>1, AppendProperties
  <2>3. PICK p \in Seq(Nat) : pending' = [pending EXCEPT ![m.line] = p]
    BY <1>2, <2>1, <2>2
  <2> QED  BY <2>3 DEF L1Typed
<1>7. answered' \in Seq(Nat)
  <2>1. pending[m.line] \in Seq(Nat) /\ <<m.id>> \in Seq(Nat) /\ answered \in Seq(Nat)
    BY <1>0 DEF L1Typed
  <2>2. answered \o pending[m.line] \in Seq(Nat) /\ answered \o <<m.id>> \in Seq(Nat)
    BY <2>1, ConcatProperties
  <2> QED  BY <1>2, <2>1, <2>2
<1>8. served' \in Seq(Served)
  <2>1. [line |-> m.line, id |-> m.id] \in Served
    BY <1>0 DEF Served
  <2>2. served \in Seq(Served)
    BY DEF L1Typed
  <2>3. Append(served, [line |-> m.line, id |-> m.id]) \in Seq(Served)
    BY <2>1, <2>2, AppendProperties
  <2> QED  BY <1>2, <2>2, <2>3
<1> QED  BY <1>3, <1>4, <1>5, <1>6, <1>7, <1>8

\* An access that is due runs its row, or goes back to the queue.
LEMMA FireParts ==
  ASSUME L1Typed, pipelineFire
  PROVE  \E o \in DOMAIN ops :
           /\ ops[o].msg \in Elem /\ ops' = Erase(ops, o)
           /\ \/ /\ isStall(L1Cell(st[ops[o].msg.line], ops[o].msg.k))
                 /\ queue' = Append(queue, [ops[o].msg EXCEPT !.ready = FALSE])
                 /\ UNCHANGED <<st, reg, toIssue, owed, pending, answered, served>>
              \/ /\ ~isStall(L1Cell(st[ops[o].msg.line], ops[o].msg.k))
                 /\ queue' = queue /\ processRequest(ops[o].msg)
<1>1. PICK o \in Due :
        /\ ops' = Erase(ops, o)
        /\ \/ /\ isStall(L1Cell(st[ops[o].msg.line], ops[o].msg.k))
              /\ queue' = Append(queue, [ops[o].msg EXCEPT !.ready = FALSE])
              /\ UNCHANGED <<st, reg, toIssue, owed, pending, answered, served>>
           \/ /\ ~isStall(L1Cell(st[ops[o].msg.line], ops[o].msg.k))
              /\ queue' = queue /\ processRequest(ops[o].msg)
  BY Zenon DEF pipelineFire
<1>2. o \in DOMAIN ops
  BY DEF Due
<1>3. ops[o].msg \in Elem
  BY <1>2, OpTyped
<1> QED  BY <1>1, <1>2, <1>3

\* Every step keeps the buffers of their types.
LEMMA TypedStep == ASSUME L1Typed, [Next]_vars PROVE L1Typed'
<1>t. /\ queue \in Seq(Elem) /\ ops \in Seq(Op) /\ toIssue \in Seq(Lines)
      /\ owed \in [Lines -> Seq(BusKinds)] /\ issued \in Nat
  BY DEF L1Typed
<1>1. CASE Intake
  <2>1. PICK q, r \in Seq(Elem) : BusTaken(q) /\ CoreTaken(q, r) /\ VictimTaken(r)
    BY <1>1, IntakeParts
  <2>2. queue' \in Seq(Elem) /\ toIssue' \in Seq(Lines)
    <3>1. CASE toIssue = <<>>
      BY <2>1, <3>1 DEF VictimTaken
    <3>2. CASE toIssue # <<>>
      <4> DEFINE e == Element("Replacement", Head(toIssue), 0, FALSE)
      <4>1. Head(toIssue) \in Lines /\ Tail(toIssue) \in Seq(Lines)
        BY <1>t, <3>2, HeadTailProperties
      <4>2. e \in Elem
        BY <4>1, ElementTyped
      <4>3. queue' = Append(r, e) /\ toIssue' = Tail(toIssue)
        BY <2>1, <3>2 DEF VictimTaken
      <4> HIDE DEF e
      <4> QED  BY <4>1, <4>2, <4>3, AppendProperties
    <3> QED  BY <3>1, <3>2
  <2>3. owed' \in [Lines -> Seq(BusKinds)]
    <3>1. CASE owed' = owed
      BY <1>t, <3>1
    <3>2. CASE owed' # owed
      <4>1. PICK l \in Lines : owed[l] # <<>> /\ owed' = [owed EXCEPT ![l] = Tail(owed[l])]
        BY <2>1, <3>2 DEF BusTaken
      <4>2. Tail(owed[l]) \in Seq(BusKinds)
        BY <1>t, <4>1, HeadTailProperties
      <4> QED  BY <1>t, <4>1, <4>2
    <3> QED  BY <3>1, <3>2
  <2>4. issued' \in Nat
    <3>1. issued' = issued \/ issued' = issued + 1
      BY <2>1 DEF CoreTaken
    <3> QED  BY <1>t, <3>1
  <2>5. ops' = pipelineFlushLine /\ UNCHANGED <<st, reg, pending, served, answered>>
    BY <1>1 DEF Intake
  <2>6. ops' \in Seq(Op)
    BY <2>5, FlushTyped
  <2> QED  BY <2>2, <2>3, <2>4, <2>5, <2>6 DEF L1Typed
<1>2. CASE AdmitFails
  <2>1. PICK i \in FirstReady : queue' \in {Append(Erase(queue, i), queue[i]), Erase(queue, i)}
    BY <1>2, PutBackParts
  <2>2. i \in DOMAIN queue /\ queue[i] \in Elem
    BY Taken
  <2>3. Erase(queue, i) \in Seq(Elem)
    BY <1>t, <2>2, EraseFacts
  <2>4. queue' \in Seq(Elem)
    BY <2>1, <2>2, <2>3, AppendProperties
  <2>5. CycleStarts /\ UNCHANGED <<st, reg, pending, toIssue, owed, issued, served, answered>>
    BY <1>2 DEF AdmitFails
  <2> QED  BY <2>4, <2>5, CycleTyped DEF L1Typed
<1>3. CASE Defer
  <2>1. PICK i \in FirstReady : queue' = Erase(queue, i) /\ ops' \in Seq(Op)
    BY <1>3, DeferParts
  <2>2. queue' \in Seq(Elem)
    BY <1>t, <2>1, Taken, EraseFacts
  <2>3. UNCHANGED <<st, reg, pending, toIssue, owed, issued, served, answered>>
    BY <1>3 DEF Defer
  <2> QED  BY <2>1, <2>2, <2>3 DEF L1Typed
<1>4. CASE Process
  <2>1. PICK i \in FirstReady : queue' = Erase(queue, i) /\ processRequest(queue[i])
    BY <1>4 DEF Process
  <2>2. i \in DOMAIN queue /\ queue[i] \in Elem
    BY Taken
  <2>3. queue' \in Seq(Elem)
    BY <1>t, <2>1, <2>2, EraseFacts
  <2>4. ops' = ops /\ issued' = issued
    BY <1>4 DEF Process
  <2> QED  BY <1>t, <2>1, <2>2, <2>3, <2>4, RowTyped DEF L1Typed
<1>5. CASE pipelineFire
  <2>1. PICK o \in DOMAIN ops :
          /\ ops[o].msg \in Elem /\ ops' = Erase(ops, o)
          /\ \/ /\ queue' = Append(queue, [ops[o].msg EXCEPT !.ready = FALSE])
                /\ UNCHANGED <<st, reg, toIssue, owed, pending, answered, served>>
             \/ queue' = queue /\ processRequest(ops[o].msg)
    BY <1>5, FireParts
  <2>2. ops' \in Seq(Op)
    BY <1>t, <2>1, EraseFacts
  <2>3. issued' = issued
    BY <1>5 DEF pipelineFire
  <2>4. CASE queue' = queue /\ processRequest(ops[o].msg)
    BY <1>t, <2>1, <2>2, <2>3, <2>4, RowTyped DEF L1Typed
  <2>5. CASE /\ queue' = Append(queue, [ops[o].msg EXCEPT !.ready = FALSE])
             /\ UNCHANGED <<st, reg, toIssue, owed, pending, answered, served>>
    <3>1. queue' \in Seq(Elem)
      BY <1>t, <2>1, <2>5, PutBackTyped, AppendProperties
    <3> QED  BY <2>2, <2>3, <2>5, <3>1 DEF L1Typed
  <2> QED  BY <2>1, <2>4, <2>5
<1>6. CASE EndCycle
  <2>1. CycleStarts /\ UNCHANGED <<queue, st, reg, pending, toIssue, owed, issued, served, answered>>
    BY <1>6 DEF EndCycle
  <2> QED  BY <2>1, CycleTyped DEF L1Typed
<1>7. CASE UNCHANGED vars
  BY <1>7 DEF vars, L1Typed
<1> QED  BY <1>1, <1>2, <1>3, <1>4, <1>5, <1>6, <1>7 DEF Next

\* The controller starts well typed.
LEMMA TypedInit == ASSUME Init PROVE L1Typed
<1>1. "I" \in L1States
  BY DEF L1States, L1Table
<1> QED  BY <1>1 DEF Init, L1Typed

-----------------------------------------------------------------------------
(* Evictions.                                                               *)

\* What an evicted line is waiting for.
Queues(l) == \E i \in DOMAIN queue : queue[i].line = l /\ queue[i].k \in {"Replacement", "Own_PutM"}
DefersPutM(l) == \E o \in DOMAIN ops : ops[o].msg.line = l /\ ops[o].msg.k = "Own_PutM"
Lists(l) == \E i \in DOMAIN toIssue : toIssue[i] = l
Owes(l) == \E i \in DOMAIN owed[l] : owed[l][i] = "Own_PutM"

\* A row evicts a line only to the list of evictions, and moves on the eviction it runs
\* for.
LEMMA RowEvicts ==
  ASSUME L1Typed, NEW m \in Elem, processRequest(m), m.k = "Replacement" => ~isStall(L1Cell(st[m.line], m.k))
  PROVE  \A l \in Lines :
           /\ Lists(l) => Lists(l)'
           /\ Owes(l) => Owes(l)'
           /\ reg'[l] = "pwb" => \/ Lists(l)' \/ Owes(l)'
                                 \/ reg[l] = "pwb" /\ ~(m.line = l /\ m.k \in {"Replacement", "Own_PutM"})
<1> DEFINE cell == L1Cell(st[m.line], m.k)
           next == getNextState(st[m.line], cell)
<1>0. m.k \in Events /\ m.line \in Lines /\ st[m.line] \in L1States
  BY ElemFields DEF L1Typed
<1>1. /\ ~exits(m, cell)
      /\ \E victim \in Victims(m, next) : reg' = RegAfter(m, next, victim) /\ toIssue' = toIssue \o victim
      /\ owed' = [owed EXCEPT ![m.line] = owed[m.line] \o OwedFor(cell.acts)]
  BY DEF processRequest
<1>1a. "Fault" \notin cell.acts
  BY <1>1 DEF exits
<1>1b. m.k = "Own_PutM" => next = "I"
  BY <1>0, <1>1a, PutMCell
<1>1c. m.k = "Replacement" => next = "I" \/ cell.acts = {"PutM"}
  BY <1>0, ReplacementCell
<1> HIDE DEF cell, next
<1>2. PICK victim \in Victims(m, next) : reg' = RegAfter(m, next, victim) /\ toIssue' = toIssue \o victim
  BY <1>1
<1>3. victim = <<>> \/ \E v \in Lines : victim = <<v>>
  BY DEF Victims, Resident
<1>3a. victim \in Seq(Lines)
  <2>1. <<>> \in Seq(Lines) /\ \A v \in Lines : <<v>> \in Seq(Lines)
    OBVIOUS
  <2> QED  BY <1>3, <2>1, Zenon
<1>4. /\ toIssue' \in Seq(Lines) /\ Len(toIssue') = Len(toIssue) + Len(victim)
      /\ \A i \in 1 .. Len(toIssue) : toIssue'[i] = toIssue[i]
      /\ \A i \in 1 .. Len(victim) : toIssue'[Len(toIssue) + i] = victim[i]
      /\ Len(toIssue) \in Nat /\ DOMAIN toIssue = 1 .. Len(toIssue)
      /\ DOMAIN toIssue' = 1 .. (Len(toIssue) + Len(victim)) /\ Len(victim) \in Nat
  <2>1. toIssue \in Seq(Lines)
    BY DEF L1Typed
  <2>2. toIssue' \in Seq(Lines) /\ Len(toIssue') = Len(toIssue) + Len(victim)
    BY <1>2, <1>3a, <2>1, ConcatProperties
  <2>3. /\ \A i \in 1 .. Len(toIssue) : toIssue'[i] = toIssue[i]
        /\ \A i \in 1 .. Len(victim) : toIssue'[Len(toIssue) + i] = victim[i]
    BY <1>2, <1>3a, <2>1, ConcatProperties, LenProperties
  <2> QED  BY <1>3a, <2>1, <2>2, <2>3, LenProperties
<1>5. ASSUME NEW l \in Lines, Lists(l) PROVE Lists(l)'
  <2>1. PICK i \in 1 .. Len(toIssue) : toIssue[i] = l
    BY <1>4, <1>5 DEF Lists
  <2>2. i \in DOMAIN toIssue' /\ toIssue'[i] = l
    BY <1>4, <2>1
  <2> QED  BY <2>2 DEF Lists
<1>6. ASSUME NEW l \in Lines, victim = <<l>> PROVE Lists(l)'
  <2>1. Len(victim) = 1 /\ victim[1] = l
    BY <1>6
  <2>2. Len(toIssue) + 1 \in DOMAIN toIssue' /\ toIssue'[Len(toIssue) + 1] = l
    BY <1>4, <2>1
  <2> QED  BY <2>2 DEF Lists
<1>7. ASSUME NEW l \in Lines
      PROVE  /\ Owes(l) => Owes(l)'
             /\ l = m.line /\ cell.acts = {"PutM"} => Owes(l)'
  <2> DEFINE add == OwedFor(cell.acts)
  <2>1. CASE l # m.line
    <3>1. owed'[l] = owed[l]
      BY <1>1, <2>1 DEF L1Typed
    <3> QED  BY <2>1, <3>1 DEF Owes
  <2>2. CASE l = m.line
    <3>1. owed'[l] = owed[l] \o add /\ owed[l] \in Seq(BusKinds)
      BY <1>1, <2>2 DEF L1Typed
    <3>2. add \in Seq(BusKinds)
      <4>1. add \in {<<"Own_GetS", "OwnData">>, <<"Own_GetM", "OwnData">>, <<"Own_PutM">>, <<>>}
        BY DEF OwedFor
      <4>2. "Own_GetS" \in BusKinds /\ "Own_GetM" \in BusKinds /\ "Own_PutM" \in BusKinds /\ "OwnData" \in BusKinds
        BY DEF BusKinds
      <4>3. /\ <<"Own_GetS", "OwnData">> \in Seq(BusKinds) /\ <<"Own_GetM", "OwnData">> \in Seq(BusKinds)
            /\ <<"Own_PutM">> \in Seq(BusKinds) /\ <<>> \in Seq(BusKinds)
        BY <4>2
      <4> QED  BY <4>1, <4>3, Zenon
    <3>3. cell.acts = {"PutM"} => add = <<"Own_PutM">>
      BY DEF OwedFor
    <3> HIDE DEF add
    <3>4. /\ Len(owed[l]) \in Nat /\ Len(add) \in Nat
          /\ DOMAIN owed[l] = 1 .. Len(owed[l])
          /\ DOMAIN owed'[l] = 1 .. (Len(owed[l]) + Len(add))
          /\ \A i \in 1 .. Len(owed[l]) : owed'[l][i] = owed[l][i]
          /\ \A i \in 1 .. Len(add) : owed'[l][Len(owed[l]) + i] = add[i]
      BY <3>1, <3>2, ConcatProperties, LenProperties
    <3>5. Owes(l) => Owes(l)'
      <4> SUFFICES ASSUME NEW i \in 1 .. Len(owed[l]), owed[l][i] = "Own_PutM" PROVE Owes(l)'
        BY <3>4 DEF Owes
      <4>1. i \in DOMAIN owed'[l] /\ owed'[l][i] = "Own_PutM"
        BY <3>4
      <4> QED  BY <4>1 DEF Owes
    <3>6. ASSUME cell.acts = {"PutM"} PROVE Owes(l)'
      <4>1. Len(add) = 1 /\ add[1] = "Own_PutM"
        BY <3>3, <3>6
      <4>2. Len(owed[l]) + 1 \in DOMAIN owed'[l] /\ owed'[l][Len(owed[l]) + 1] = "Own_PutM"
        BY <3>4, <4>1
      <4> QED  BY <4>2 DEF Owes
    <3> QED  BY <3>5, <3>6
  <2> QED  BY <2>1, <2>2
<1>8. ASSUME NEW l \in Lines, reg'[l] = "pwb"
      PROVE  \/ Lists(l)' \/ Owes(l)'
             \/ reg[l] = "pwb" /\ ~(m.line = l /\ m.k \in {"Replacement", "Own_PutM"})
  <2>1. \/ victim = <<l>>
        \/ l # m.line /\ reg[l] = "pwb"
        \/ l = m.line /\ isValidState(next) /\ reg[l] = "pwb"
    BY <1>2, <1>8 DEF RegAfter
  <2>2. CASE l = m.line /\ isValidState(next) /\ reg[l] = "pwb" /\ m.k \in {"Replacement", "Own_PutM"}
    <3>1. next # "I"
      BY <2>2 DEF isValidState
    <3>2. cell.acts = {"PutM"}
      BY <1>1b, <1>1c, <2>2, <3>1
    <3> QED  BY <1>7, <2>2, <3>2
  <2> QED  BY <1>6, <2>1, <2>2
<1> QED  BY <1>5, <1>7, <1>8

\* No eviction is forgotten, for every set of lines, number of ways and kind of data array:
\* a line in a write-back register is listed for issue (m_pwb_pending_issue), has its
\* replacement queued, or its PutM owed by the bus, queued or deferred.
THEOREM EvictionsDrain == Spec => []NoOrphanEviction
<1>1. Init => L1Typed /\ NoOrphanEviction
  BY TypedInit DEF Init, NoOrphanEviction
<1>2. L1Typed /\ NoOrphanEviction /\ [Next]_vars => (L1Typed /\ NoOrphanEviction)'
  <2> SUFFICES ASSUME L1Typed, NoOrphanEviction, [Next]_vars PROVE NoOrphanEviction'
    BY TypedStep
  <2>t. queue \in Seq(Elem) /\ ops \in Seq(Op) /\ toIssue \in Seq(Lines)
    BY DEF L1Typed
  <2>0. \A l \in Lines : reg[l] = "pwb" => Lists(l) \/ Queues(l) \/ DefersPutM(l) \/ Owes(l)
    BY DEF NoOrphanEviction, Lists, Queues, DefersPutM, Owes
  <2> SUFFICES ASSUME NEW l \in Lines, reg'[l] = "pwb"
               PROVE  Lists(l)' \/ Queues(l)' \/ DefersPutM(l)' \/ Owes(l)'
    BY DEF NoOrphanEviction, Lists, Queues, DefersPutM, Owes
  <2>s. ASSUME \A o \in DOMAIN ops : o \in DOMAIN ops' /\ ops'[o].msg = ops[o].msg, DefersPutM(l)
        PROVE  DefersPutM(l)'
    BY <2>s DEF DefersPutM
  <2>1. CASE Intake
    <3>1. PICK q, r \in Seq(Elem) : BusTaken(q) /\ CoreTaken(q, r) /\ VictimTaken(r)
      BY <2>1, IntakeParts
    <3>2. reg' = reg /\ ops' = pipelineFlushLine
      BY <2>1 DEF Intake
    <3> DEFINE Has(s) == \E i \in DOMAIN s : s[i].line = l /\ s[i].k \in {"Replacement", "Own_PutM"}
    <3>3. ASSUME NEW s \in Seq(Elem), NEW e \in Elem
          PROVE  /\ Has(s) => Has(Append(s, e))
                 /\ e.line = l /\ e.k \in {"Replacement", "Own_PutM"} => Has(Append(s, e))
      <4>1. /\ Len(s) \in Nat /\ DOMAIN s = 1 .. Len(s) /\ DOMAIN Append(s, e) = 1 .. (Len(s) + 1)
            /\ \A j \in 1 .. Len(s) : Append(s, e)[j] = s[j]
            /\ Append(s, e)[Len(s) + 1] = e
        BY <3>3, AppendProperties, LenProperties
      <4>2. Has(s) => Has(Append(s, e))
        <5> SUFFICES ASSUME NEW i \in 1 .. Len(s), s[i].line = l, s[i].k \in {"Replacement", "Own_PutM"}
                     PROVE  Has(Append(s, e))
          BY <4>1
        <5>1. i \in DOMAIN Append(s, e) /\ Append(s, e)[i] = s[i]
          BY <4>1
        <5> QED  BY <5>1
      <4>3. e.line = l /\ e.k \in {"Replacement", "Own_PutM"} => Has(Append(s, e))
        <5>1. Len(s) + 1 \in DOMAIN Append(s, e)
          BY <4>1
        <5> QED  BY <4>1, <5>1
      <4> QED  BY <4>2, <4>3
    <3>4. /\ Has(queue) => Has(q)
          /\ Owes(l) => Owes(l)' \/ Has(q)
      <4>1. CASE q = queue /\ owed' = owed
        BY <4>1 DEF Owes
      <4>2. ASSUME NEW x \in Lines, NEW k \in BusKinds \cup Snooped, NEW p \in 0 .. Len(queue),
                   q = InsertAt(queue, p, Element(k, x, 0, TRUE)),
                   \/ owed' = owed
                   \/ owed[x] # <<>> /\ k = Head(owed[x]) /\ owed' = [owed EXCEPT ![x] = Tail(owed[x])]
            PROVE  /\ Has(queue) => Has(q)
                   /\ Owes(l) => Owes(l)' \/ Has(q)
        <5> DEFINE e == Element(k, x, 0, TRUE)
        <5>1. e \in Elem
          BY ElementTyped
        <5>2. e.line = x /\ e.k = k
          BY DEF Element
        <5>3. q = InsertAt(queue, p, e)
          BY <4>2
        <5> HIDE DEF e
        <5>4. /\ Len(q) = Len(queue) + 1
              /\ \A j \in DOMAIN q : q[j] = IF j <= p THEN queue[j] ELSE IF j = p + 1 THEN e ELSE queue[j - 1]
          <6>1. /\ Len(InsertAt(queue, p, e)) = Len(queue) + 1
                /\ \A j \in DOMAIN InsertAt(queue, p, e) :
                     InsertAt(queue, p, e)[j]
                       = IF j <= p THEN queue[j] ELSE IF j = p + 1 THEN e ELSE queue[j - 1]
            BY <2>t, <5>1, InsertFacts
          <6> QED  BY <5>3, <6>1
        <5>5. DOMAIN q = 1 .. (Len(queue) + 1) /\ Len(queue) \in Nat /\ DOMAIN queue = 1 .. Len(queue)
          BY <2>t, <5>4, LenProperties
        <5>6. Has(queue) => Has(q)
          <6> SUFFICES ASSUME NEW i \in 1 .. Len(queue), queue[i].line = l, queue[i].k \in {"Replacement", "Own_PutM"}
                       PROVE  Has(q)
            BY <5>5
          <6>1. CASE i <= p
            <7>1. i \in DOMAIN q /\ q[i] = queue[i]
              BY <5>4, <5>5, <6>1
            <7> QED  BY <7>1
          <6>2. CASE ~(i <= p)
            <7>1. i + 1 \in DOMAIN q /\ ~(i + 1 <= p) /\ i + 1 # p + 1 /\ (i + 1) - 1 = i
              BY <5>5, <6>2
            <7>2. q[i + 1] = queue[i]
              BY <5>4, <7>1
            <7> QED  BY <7>1, <7>2
          <6> QED  BY <6>1, <6>2
        <5>7. ASSUME Owes(l), ~Owes(l)' PROVE Has(q)
          <6>1. owed' # owed
            BY <5>7 DEF Owes
          <6>2. owed[x] # <<>> /\ k = Head(owed[x]) /\ owed' = [owed EXCEPT ![x] = Tail(owed[x])]
            BY <4>2, <6>1
          <6>3. x = l
            BY <5>7, <6>2 DEF Owes, L1Typed
          <6>4. /\ owed[l] \in Seq(BusKinds) /\ owed'[l] = Tail(owed[l])
            BY <6>2, <6>3 DEF L1Typed
          <6>5. /\ Len(owed[l]) \in Nat /\ DOMAIN owed[l] = 1 .. Len(owed[l]) /\ Head(owed[l]) = owed[l][1]
                /\ DOMAIN owed'[l] = 1 .. (Len(owed[l]) - 1)
                /\ \A j \in 1 .. (Len(owed[l]) - 1) : owed'[l][j] = owed[l][j + 1]
            <7>1. owed[l] # <<>> /\ owed[l] \in Seq(BusKinds)
              BY <6>2, <6>3, <6>4
            <7>2. Len(owed[l]) \in Nat /\ DOMAIN owed[l] = 1 .. Len(owed[l])
              BY <7>1, LenProperties
            <7>3. /\ Head(owed[l]) = owed[l][1]
                  /\ Tail(owed[l]) \in Seq(BusKinds) /\ Len(Tail(owed[l])) = Len(owed[l]) - 1
                  /\ \A j \in 1 .. Len(Tail(owed[l])) : Tail(owed[l])[j] = owed[l][j + 1]
              BY <7>1, HeadTailProperties
            <7>4. DOMAIN Tail(owed[l]) = 1 .. (Len(owed[l]) - 1)
              BY <7>3, LenProperties
            <7> QED  BY <6>4, <7>2, <7>3, <7>4
          <6>6. PICK i \in 1 .. Len(owed[l]) : owed[l][i] = "Own_PutM"
            BY <5>7, <6>5 DEF Owes
          <6>7. i = 1
            <7>1. i # 1 => i - 1 \in 1 .. (Len(owed[l]) - 1) /\ (i - 1) + 1 = i
              BY <6>5
            <7>2. i # 1 => i - 1 \in DOMAIN owed'[l] /\ owed'[l][i - 1] = "Own_PutM"
              BY <6>5, <6>6, <7>1
            <7> QED  BY <5>7, <7>2 DEF Owes
          <6>8. k = "Own_PutM" /\ e.line = l /\ e.k = "Own_PutM"
            BY <5>2, <6>2, <6>3, <6>5, <6>6, <6>7
          <6>9. p + 1 \in DOMAIN q /\ ~(p + 1 <= p)
            BY <5>5
          <6>10. q[p + 1] = e
            BY <5>4, <6>9
          <6> QED  BY <6>8, <6>9, <6>10
        <5> HIDE DEF Has
        <5> QED  BY <5>6, <5>7
      <4> HIDE DEF Has
      <4> QED  BY <3>1, <4>1, <4>2 DEF BusTaken
    <3>5. Has(q) => Has(r)
      <4>1. ASSUME NEW x \in Lines, NEW k \in CpuOps, r = Append(q, Element(k, x, issued + 1, FALSE))
            PROVE  Has(q) => Has(r)
        <5>1. Element(k, x, issued + 1, FALSE) \in Elem
          <6>1. issued + 1 \in Nat /\ issued + 1 # 0
            BY DEF L1Typed
          <6> QED  BY <6>1, ElementTyped
        <5> HIDE DEF Has
        <5> QED  BY <3>1, <3>3, <4>1, <5>1
      <4> HIDE DEF Has
      <4> QED  BY <3>1, <4>1 DEF CoreTaken
    <3>6. /\ Has(r) => Has(queue')
          /\ Lists(l) => Lists(l)' \/ Has(queue')
      <4>1. CASE toIssue = <<>>
        BY <3>1, <4>1 DEF VictimTaken, Lists
      <4>2. CASE toIssue # <<>>
        <5> DEFINE e == Element("Replacement", Head(toIssue), 0, FALSE)
        <5>1. /\ Head(toIssue) \in Lines /\ Head(toIssue) = toIssue[1]
              /\ Len(toIssue) \in Nat /\ DOMAIN toIssue = 1 .. Len(toIssue)
              /\ DOMAIN Tail(toIssue) = 1 .. (Len(toIssue) - 1)
              /\ \A j \in 1 .. (Len(toIssue) - 1) : Tail(toIssue)[j] = toIssue[j + 1]
          BY <2>t, <4>2, HeadTailProperties, LenProperties, EmptySeq
        <5>2. e \in Elem
          BY <5>1, ElementTyped
        <5>3. e.line = Head(toIssue) /\ e.k = "Replacement"
          BY DEF Element
        <5>4. queue' = Append(r, e) /\ toIssue' = Tail(toIssue)
          BY <3>1, <4>2 DEF VictimTaken
        <5> HIDE DEF e, Has
        <5>5. Has(r) => Has(queue')
          BY <3>1, <3>3, <5>2, <5>4
        <5>6. ASSUME Lists(l), ~Lists(l)' PROVE Has(queue')
          <6>1. PICK i \in 1 .. Len(toIssue) : toIssue[i] = l
            BY <5>1, <5>6 DEF Lists
          <6>2. i = 1
            <7>1. i # 1 => i - 1 \in 1 .. (Len(toIssue) - 1) /\ (i - 1) + 1 = i
              BY <5>1
            <7>2. i # 1 => i - 1 \in DOMAIN toIssue' /\ toIssue'[i - 1] = l
              BY <5>1, <5>4, <6>1, <7>1
            <7> QED  BY <5>6, <7>2 DEF Lists
          <6>3. e.line = l /\ e.k \in {"Replacement", "Own_PutM"}
            BY <5>1, <5>3, <6>1, <6>2
          <6> QED  BY <3>1, <3>3, <5>2, <5>4, <6>3
        <5> QED  BY <5>5, <5>6
      <4> HIDE DEF Has
      <4> QED  BY <4>1, <4>2
    <3>7. Queues(l) <=> Has(queue)
      BY DEF Queues
    <3>8. Queues(l)' <=> Has(queue')
      BY DEF Queues
    <3>9. DefersPutM(l) => DefersPutM(l)'
      BY <2>s, <3>2, FlushKeepsMessages
    <3> HIDE DEF Has
    <3> QED  BY <2>0, <3>2, <3>4, <3>5, <3>6, <3>7, <3>8, <3>9
  <2>2. CASE AdmitFails
    <3>1. PICK i \in FirstReady :
            isDemandRequest(queue[i]) /\ queue' \in {Append(Erase(queue, i), queue[i]), Erase(queue, i)}
      BY <2>2, PutBackParts
    <3>2. CycleStarts /\ UNCHANGED <<reg, toIssue, owed>>
      BY <2>2 DEF AdmitFails
    <3>3. i \in DOMAIN queue /\ queue[i] \in Elem
      BY Taken
    <3>4. queue[i].k \in CpuOps
      BY <3>1 DEF isDemandRequest, CpuOps
    <3>5. Queues(l) => Queues(l)'
      <4> SUFFICES ASSUME NEW j \in DOMAIN queue, queue[j].line = l, queue[j].k \in {"Replacement", "Own_PutM"}
                   PROVE  Queues(l)'
        BY DEF Queues
      <4> DEFINE s == Erase(queue, i)
      <4>1. j # i
        BY <3>4 DEF CpuOps
      <4>2. s \in Seq(Elem) /\ \E n \in DOMAIN s : s[n] = queue[j]
        BY <2>t, <3>3, <4>1, EraseFacts
      <4>3. queue' = s \/ queue' = Append(s, queue[i])
        BY <3>1
      <4> HIDE DEF s
      <4>4. PICK n \in DOMAIN s : s[n] = queue[j]
        BY <4>2
      <4>5. n \in DOMAIN queue' /\ queue'[n] = queue[j]
        <5>1. DOMAIN s = 1 .. Len(s) /\ Len(s) \in Nat
          BY <4>2, LenProperties
        <5>2. /\ DOMAIN Append(s, queue[i]) = 1 .. (Len(s) + 1)
              /\ \A x \in 1 .. Len(s) : Append(s, queue[i])[x] = s[x]
          BY <3>3, <4>2, <5>1, AppendProperties, LenProperties
        <5> QED  BY <4>3, <4>4, <5>1, <5>2
      <4> QED  BY <4>5 DEF Queues
    <3>6. DefersPutM(l) => DefersPutM(l)'
      BY <2>s, <3>2, CycleStartsKeepsMessages
    <3> QED  BY <2>0, <3>2, <3>5, <3>6 DEF Lists, Owes
  <2>3. CASE Defer
    <3>1. PICK i \in FirstReady :
            /\ Defers(queue[i]) /\ queue' = Erase(queue, i)
            /\ ops' \in Seq(Op) /\ Len(ops') = Len(ops) + 1
            /\ \A o \in DOMAIN ops : ops'[o].msg = ops[o].msg
            /\ ops'[Len(ops) + 1].msg = queue[i]
      BY <2>3, DeferParts
    <3>2. UNCHANGED <<reg, toIssue, owed>>
      BY <2>3 DEF Defer
    <3>3. i \in DOMAIN queue /\ queue[i] \in Elem
      BY Taken
    <3>4. queue[i].k # "Replacement"
      <4>1. ASSUME queue[i].k = "Replacement" PROVE FALSE
        <5>1. st[queue[i].line] \in L1States
          BY <3>3, ElemFields DEF L1Typed
        <5>2. ~needsDataArray(queue[i])
          BY <4>1, <5>1, ReplacementCell DEF needsDataArray
        <5> QED  BY <3>1, <4>1, <5>2 DEF Defers, messageTouchesArray
      <4> QED  BY <4>1
    <3>5. /\ DOMAIN ops = 1 .. Len(ops) /\ Len(ops) \in Nat /\ DOMAIN ops' = 1 .. (Len(ops) + 1)
      BY <2>t, <3>1, LenProperties
    <3>6. Queues(l) => Queues(l)' \/ DefersPutM(l)'
      <4> SUFFICES ASSUME NEW j \in DOMAIN queue, queue[j].line = l, queue[j].k \in {"Replacement", "Own_PutM"}
                   PROVE  Queues(l)' \/ DefersPutM(l)'
        BY DEF Queues
      <4>1. CASE j = i
        <5>1. Len(ops) + 1 \in DOMAIN ops' /\ queue[j].k = "Own_PutM"
          BY <3>4, <3>5, <4>1
        <5> QED  BY <3>1, <4>1, <5>1 DEF DefersPutM
      <4>2. CASE j # i
        <5>1. \E n \in DOMAIN Erase(queue, i) : Erase(queue, i)[n] = queue[j]
          BY <2>t, <3>3, <4>2, EraseFacts
        <5> QED  BY <3>1, <5>1 DEF Queues
      <4> QED  BY <4>1, <4>2
    <3>7. DefersPutM(l) => DefersPutM(l)'
      BY <2>s, <3>1, <3>5
    <3> QED  BY <2>0, <3>2, <3>6, <3>7 DEF Lists, Owes
  <2>4. CASE Process
    <3>1. PICK i \in FirstReady : queue' = Erase(queue, i) /\ processRequest(queue[i])
      BY <2>4 DEF Process
    <3>2. i \in DOMAIN queue /\ queue[i] \in Elem
          /\ (queue[i].k = "Replacement" => ~isStall(L1Cell(st[queue[i].line], queue[i].k)))
      BY Taken
    <3>3. /\ Lists(l) => Lists(l)'
          /\ Owes(l) => Owes(l)'
          /\ \/ Lists(l)' \/ Owes(l)'
             \/ reg[l] = "pwb" /\ ~(queue[i].line = l /\ queue[i].k \in {"Replacement", "Own_PutM"})
      BY <3>1, <3>2, RowEvicts
    <3>4. ops' = ops
      BY <2>4 DEF Process
    <3>5. ASSUME ~(queue[i].line = l /\ queue[i].k \in {"Replacement", "Own_PutM"}), Queues(l)
          PROVE  Queues(l)'
      <4>1. PICK j \in DOMAIN queue : queue[j].line = l /\ queue[j].k \in {"Replacement", "Own_PutM"}
        BY <3>5 DEF Queues
      <4>2. j # i
        BY <3>5, <4>1
      <4>3. \E n \in DOMAIN Erase(queue, i) : Erase(queue, i)[n] = queue[j]
        BY <2>t, <3>2, <4>2, EraseFacts
      <4> QED  BY <3>1, <4>1, <4>3 DEF Queues
    <3>6. DefersPutM(l) => DefersPutM(l)'
      BY <3>4 DEF DefersPutM
    <3> QED  BY <2>0, <3>3, <3>5, <3>6
  <2>5. CASE pipelineFire
    <3>1. PICK o \in DOMAIN ops :
            /\ ops[o].msg \in Elem /\ ops' = Erase(ops, o)
            /\ \/ /\ isStall(L1Cell(st[ops[o].msg.line], ops[o].msg.k))
                  /\ queue' = Append(queue, [ops[o].msg EXCEPT !.ready = FALSE])
                  /\ UNCHANGED <<st, reg, toIssue, owed, pending, answered, served>>
               \/ /\ ~isStall(L1Cell(st[ops[o].msg.line], ops[o].msg.k))
                  /\ queue' = queue /\ processRequest(ops[o].msg)
      BY <2>5, FireParts
    <3> DEFINE m == ops[o].msg
    <3>2. ASSUME ~(m.line = l /\ m.k = "Own_PutM"), DefersPutM(l)
          PROVE  DefersPutM(l)'
      <4>1. PICK n \in DOMAIN ops : ops[n].msg.line = l /\ ops[n].msg.k = "Own_PutM"
        BY <3>2 DEF DefersPutM
      <4>2. n # o
        BY <3>2, <4>1
      <4>3. \E j \in DOMAIN ops' : ops'[j] = ops[n]
        BY <2>t, <3>1, <4>2, EraseFacts
      <4> QED  BY <4>1, <4>3 DEF DefersPutM
    <3>3. CASE /\ isStall(L1Cell(st[m.line], m.k))
               /\ queue' = Append(queue, [m EXCEPT !.ready = FALSE])
               /\ UNCHANGED <<st, reg, toIssue, owed, pending, answered, served>>
      <4>1. m.k # "Own_PutM"
        <5>1. st[m.line] \in L1States
          BY <3>1, ElemFields DEF L1Typed
        <5> QED  BY <3>3, <5>1, PutMCell
      <4>2. Queues(l) => Queues(l)'
        <5> SUFFICES ASSUME NEW j \in DOMAIN queue, queue[j].line = l, queue[j].k \in {"Replacement", "Own_PutM"}
                     PROVE  Queues(l)'
          BY DEF Queues
        <5> DEFINE e == [m EXCEPT !.ready = FALSE]
        <5>1. e \in Elem
          BY <3>1, PutBackTyped
        <5> HIDE DEF e
        <5>2. queue' = Append(queue, e)
          BY <3>3 DEF e
        <5>3. j \in DOMAIN queue' /\ queue'[j] = queue[j]
          BY <2>t, <5>1, <5>2, AppendProperties, LenProperties
        <5> QED  BY <5>3 DEF Queues
      <4>3. reg' = reg /\ toIssue' = toIssue /\ owed' = owed
        BY <3>3
      <4>4. DefersPutM(l) => DefersPutM(l)'
        BY <3>2, <4>1
      <4> QED  BY <2>0, <4>2, <4>3, <4>4 DEF Lists, Owes
    <3>4. CASE ~isStall(L1Cell(st[m.line], m.k)) /\ queue' = queue /\ processRequest(m)
      <4>1. /\ Lists(l) => Lists(l)'
            /\ Owes(l) => Owes(l)'
            /\ \/ Lists(l)' \/ Owes(l)'
               \/ reg[l] = "pwb" /\ ~(m.line = l /\ m.k \in {"Replacement", "Own_PutM"})
        <5> HIDE DEF m
        <5>1. m \in Elem
          BY <3>1 DEF m
        <5> QED  BY <3>4, <5>1, RowEvicts
      <4>2. Queues(l) => Queues(l)'
        BY <3>4 DEF Queues
      <4> QED  BY <2>0, <3>2, <4>1, <4>2
    <3> QED  BY <3>1, <3>3, <3>4
  <2>6. CASE EndCycle
    <3>1. CycleStarts /\ UNCHANGED <<queue, reg, toIssue, owed>>
      BY <2>6 DEF EndCycle
    <3>2. DefersPutM(l) => DefersPutM(l)'
      BY <2>s, <3>1, CycleStartsKeepsMessages
    <3> QED  BY <2>0, <3>1, <3>2 DEF Lists, Owes, Queues
  <2>7. CASE UNCHANGED vars
    <3>1. UNCHANGED <<queue, ops, reg, toIssue, owed>>
      BY <2>7 DEF vars
    <3> QED  BY <2>0, <3>1 DEF Lists, Owes, Queues, DefersPutM
  <2> QED  BY <2>1, <2>2, <2>3, <2>4, <2>5, <2>6, <2>7 DEF Next
<1> QED  BY <1>1, <1>2, PTL DEF Spec

-----------------------------------------------------------------------------
(* The order of one line's demands.                                         *)

\* Demand m of line l, put behind demand n, met a full MSHR if it is the older one.
Late(m, l, n, R) == m.k \in CpuOps /\ m.line = l /\ n > m.id => m.id \in R

\* A buffer holds the demands of each line in the order they came, but for those of R.
InOrder(s, R) ==
  \A i, j \in DOMAIN s : i < j /\ s[i].k \in CpuOps => Late(s[j], s[i].line, s[i].id, R)

\* Demand n of line l has left the queue: it is deferred or has run.
Left(l, n) ==
  \/ \E k \in DOMAIN served : served[k].line = l /\ served[k].id = n
  \/ \E o \in DOMAIN ops : ops[o].msg.k \in CpuOps /\ ops[o].msg.line = l /\ ops[o].msg.id = n

\* One message of a line is deferred at a time, and a deferred demand will not stall: no
\* other message changes the state of its line meanwhile.
Interlock ==
  /\ \A o, p \in DOMAIN ops : ops[o].msg.line = ops[p].msg.line => o = p
  /\ \A o \in DOMAIN ops : ops[o].msg.k \in CpuOps
       => ~isStall(L1Cell(st[ops[o].msg.line], ops[o].msg.k))

\* The numbers given out so far.
Given ==
  /\ \A i \in DOMAIN queue : queue[i].id <= issued
  /\ \A l \in Lines, n \in Nat : Left(l, n) => n <= issued

\* What is still queued is not behind what has left, nor is what is deferred behind what
\* has run.
QueuedLate ==
  \A l \in Lines, n \in Nat : Left(l, n) => \A i \in DOMAIN queue : Late(queue[i], l, n, retried)
DeferredLate ==
  \A k \in DOMAIN served, o \in DOMAIN ops :
    Late(ops[o].msg, served[k].line, served[k].id, retried)

LineInv ==
  /\ InOrder(queue, retried) /\ QueuedLate /\ DeferredLate
  /\ SameLineOrder /\ Interlock /\ Given

\* Taking a message out, putting one in that is no demand, putting one in at the end that
\* is newer or excused: the order stays.
LEMMA OrderErase ==
  ASSUME NEW s \in Seq(Elem), NEW i \in DOMAIN s, NEW R, InOrder(s, R)
  PROVE  InOrder(Erase(s, i), R)
<1> DEFINE t == Erase(s, i)
           at == [j \in DOMAIN t |-> IF j < i THEN j ELSE j + 1]
<1>1. Len(s) \in Nat /\ DOMAIN s = 1 .. Len(s) /\ i \in 1 .. Len(s)
  BY LenProperties
<1>2. /\ t \in Seq(Elem) /\ Len(t) = Len(s) - 1
      /\ \A j \in DOMAIN t : t[j] = IF j < i THEN s[j] ELSE s[j + 1]
  BY EraseFacts
<1>3. DOMAIN t = 1 .. (Len(s) - 1)
  BY <1>2, LenProperties
<1> HIDE DEF t
<1>4. \A j \in DOMAIN t : at[j] \in DOMAIN s /\ t[j] = s[at[j]]
  BY <1>1, <1>2, <1>3
<1>5. \A j, k \in DOMAIN t : j < k => at[j] < at[k]
  BY <1>1, <1>3
<1> HIDE DEF at
<1>6. InOrder(t, R)
  <2> SUFFICES ASSUME NEW j \in DOMAIN t, NEW k \in DOMAIN t, j < k, t[j].k \in CpuOps
               PROVE  Late(t[k], t[j].line, t[j].id, R)
    BY DEF InOrder
  <2>1. at[j] \in DOMAIN s /\ at[k] \in DOMAIN s /\ at[j] < at[k] /\ t[j] = s[at[j]] /\ t[k] = s[at[k]]
    BY <1>4, <1>5
  <2>2. \A a, b \in DOMAIN s : a < b /\ s[a].k \in CpuOps => Late(s[b], s[a].line, s[a].id, R)
    BY DEF InOrder
  <2> QED  BY <2>1, <2>2
<1> QED  BY <1>6 DEF t

\* A bus message may go anywhere: order is a matter of the core's operations.
LEMMA OrderInsert ==
  ASSUME NEW s \in Seq(Elem), NEW p \in 0 .. Len(s), NEW e \in Elem, e.k \notin CpuOps,
         NEW R, InOrder(s, R)
  PROVE  InOrder(InsertAt(s, p, e), R)
<1> DEFINE t == InsertAt(s, p, e)
           at == [j \in DOMAIN t |-> IF j <= p THEN j ELSE j - 1]
<1>1. Len(s) \in Nat /\ DOMAIN s = 1 .. Len(s)
  BY LenProperties
<1>2. /\ t \in Seq(Elem) /\ Len(t) = Len(s) + 1
      /\ \A j \in DOMAIN t : t[j] = IF j <= p THEN s[j] ELSE IF j = p + 1 THEN e ELSE s[j - 1]
  BY InsertFacts
<1>3. DOMAIN t = 1 .. (Len(s) + 1)
  BY <1>2, LenProperties
<1> HIDE DEF t
<1>4. \A j \in DOMAIN t : j # p + 1 => at[j] \in DOMAIN s /\ t[j] = s[at[j]]
  BY <1>1, <1>2, <1>3
<1>5. \A j, k \in DOMAIN t : j < k /\ j # p + 1 /\ k # p + 1 => at[j] < at[k]
  BY <1>1, <1>3
<1> HIDE DEF at
<1>6. p + 1 \in DOMAIN t /\ t[p + 1] = e
  BY <1>1, <1>2, <1>3
<1>7. InOrder(t, R)
  <2> SUFFICES ASSUME NEW j \in DOMAIN t, NEW k \in DOMAIN t, j < k, t[j].k \in CpuOps
               PROVE  Late(t[k], t[j].line, t[j].id, R)
    BY DEF InOrder
  <2>1. CASE k = p + 1
    BY <1>6, <2>1 DEF Late
  <2>2. CASE k # p + 1
    <3>1. j # p + 1
      BY <1>6
    <3>2. at[j] \in DOMAIN s /\ at[k] \in DOMAIN s /\ at[j] < at[k] /\ t[j] = s[at[j]] /\ t[k] = s[at[k]]
      BY <1>4, <1>5, <2>2, <3>1
    <3>3. \A a, b \in DOMAIN s : a < b /\ s[a].k \in CpuOps => Late(s[b], s[a].line, s[a].id, R)
      BY DEF InOrder
    <3> QED  BY <3>2, <3>3
  <2> QED  BY <2>1, <2>2
<1> QED  BY <1>7 DEF t

\* An operation put last is younger than all before it, or is one put back.
LEMMA OrderAppend ==
  ASSUME NEW s \in Seq(Elem), NEW e \in Elem, NEW R, InOrder(s, R),
         \/ e.k \notin CpuOps \/ e.id \in R
         \/ \A i \in DOMAIN s : s[i].id <= e.id
  PROVE  InOrder(Append(s, e), R)
<1> DEFINE t == Append(s, e)
<1>1. Len(s) \in Nat /\ DOMAIN s = 1 .. Len(s)
  BY LenProperties
<1>2. /\ t \in Seq(Elem) /\ Len(t) = Len(s) + 1
      /\ \A j \in DOMAIN t : t[j] = IF j <= Len(s) THEN s[j] ELSE e
  BY AppendFacts
<1>3. DOMAIN t = 1 .. (Len(s) + 1)
  BY <1>2, LenProperties
<1> HIDE DEF t
<1>4. InOrder(t, R)
  <2> SUFFICES ASSUME NEW j \in DOMAIN t, NEW k \in DOMAIN t, j < k, t[j].k \in CpuOps
               PROVE  Late(t[k], t[j].line, t[j].id, R)
    BY DEF InOrder
  <2>1. j \in DOMAIN s /\ t[j] = s[j]
    BY <1>1, <1>2, <1>3
  <2>2. CASE k \in DOMAIN s
    <3>1. t[k] = s[k]
      BY <1>1, <1>2, <2>2
    <3> QED  BY <2>1, <2>2, <3>1 DEF InOrder
  <2>3. CASE k \notin DOMAIN s
    <3>1. t[k] = e
      BY <1>1, <1>2, <1>3, <2>3
    <3>2. s[j] \in Elem
      BY <2>1, ElementOfSeq, LenProperties
    <3>3. s[j].id \in Nat /\ e.id \in Nat
      BY <3>2, ElemFields
    <3>4. CASE \A i \in DOMAIN s : s[i].id <= e.id
      <4>1. ~(s[j].id > e.id)
        BY <2>1, <3>3, <3>4
      <4> QED  BY <2>1, <3>1, <4>1 DEF Late
    <3>5. CASE e.k \notin CpuOps \/ e.id \in R
      BY <3>1, <3>5 DEF Late
    <3> QED  BY <3>4, <3>5
  <2> QED  BY <2>2, <2>3
<1> QED  BY <1>4 DEF t

\* Order with more operations put back excepted.
LEMMA OrderMore ==
  ASSUME NEW s, NEW R, NEW T, R \subseteq T, InOrder(s, R)
  PROVE  InOrder(s, T)
BY DEF InOrder, Late

\* What the intake puts into the queue keeps it in order and is newer than all else.
LEMMA IntakeOrder ==
  ASSUME L1Typed, Intake, NEW R, InOrder(queue, R), \A i \in DOMAIN queue : queue[i].id <= issued
  PROVE  /\ InOrder(queue', R)
         /\ \A j \in DOMAIN queue' : \/ \E i \in DOMAIN queue : queue'[j] = queue[i]
                                     \/ queue'[j].k \notin CpuOps
                                     \/ queue'[j].id = issued'
         /\ \A j \in DOMAIN queue' : queue'[j].id <= issued'
         /\ issued <= issued'
<1> DEFINE From(s, n) == \A j \in DOMAIN s : \/ \E i \in DOMAIN queue : s[j] = queue[i]
                                             \/ s[j].k \notin CpuOps
                                             \/ s[j].id = n
           Old(s) == \A j \in DOMAIN s : \/ \E i \in DOMAIN queue : s[j] = queue[i]
                                         \/ s[j].k \notin CpuOps
           UpTo(s, n) == \A j \in DOMAIN s : s[j].id <= n
<1>t. queue \in Seq(Elem) /\ issued \in Nat /\ toIssue \in Seq(Lines)
  BY DEF L1Typed
<1>1. PICK q, r \in Seq(Elem) : BusTaken(q) /\ CoreTaken(q, r) /\ VictimTaken(r)
  BY IntakeParts
<1>a. ASSUME NEW s \in Seq(Elem), NEW e \in Elem, NEW n \in Nat, From(s, n), UpTo(s, n),
             e.k \notin CpuOps \/ e.id = n
      PROVE  From(Append(s, e), n) /\ UpTo(Append(s, e), n)
  <2>1. /\ DOMAIN Append(s, e) = 1 .. (Len(s) + 1) /\ Len(s) \in Nat /\ DOMAIN s = 1 .. Len(s)
        /\ \A j \in DOMAIN Append(s, e) : Append(s, e)[j] = IF j <= Len(s) THEN s[j] ELSE e
    <3>1. Append(s, e) \in Seq(Elem) /\ Len(Append(s, e)) = Len(s) + 1
      BY AppendFacts
    <3> QED  BY <3>1, AppendFacts, LenProperties
  <2>2. e.id <= n
    BY <1>a, ElemFields
  <2>3. \A j \in DOMAIN Append(s, e) : Append(s, e)[j] = e \/ (j \in DOMAIN s /\ Append(s, e)[j] = s[j])
    BY <2>1
  <2> QED  BY <1>a, <2>2, <2>3
<1>2. InOrder(q, R) /\ Old(q) /\ UpTo(q, issued)
  <2>1. CASE q = queue
    BY <2>1
  <2>2. ASSUME NEW l \in Lines, NEW k \in BusKinds \cup Snooped, NEW p \in 0 .. Len(queue),
               q = InsertAt(queue, p, Element(k, l, 0, TRUE))
        PROVE  InOrder(q, R) /\ Old(q) /\ UpTo(q, issued)
    <3> DEFINE e == Element(k, l, 0, TRUE)
    <3>1. e \in Elem /\ e.k = k /\ e.id = 0
      BY ElementTyped DEF Element
    <3>2. e.k \notin CpuOps
      BY <3>1 DEF CpuOps, BusKinds, Snooped
    <3>3. q = InsertAt(queue, p, e)
      BY <2>2
    <3> HIDE DEF e
    <3>4. InOrder(q, R)
      BY <1>t, <3>1, <3>2, <3>3, OrderInsert
    <3>5. \A j \in DOMAIN q : q[j] = IF j <= p THEN queue[j] ELSE IF j = p + 1 THEN e ELSE queue[j - 1]
      <4>0. queue \in Seq(Elem) /\ e \in Elem
        BY <1>t, <3>1
      <4> HIDE DEF From, UpTo, Old
      <4>1. /\ Len(InsertAt(queue, p, e)) = Len(queue) + 1
            /\ \A j \in DOMAIN InsertAt(queue, p, e) :
                 InsertAt(queue, p, e)[j] = IF j <= p THEN queue[j] ELSE IF j = p + 1 THEN e ELSE queue[j - 1]
        BY <4>0, InsertFacts
      <4> QED  BY <3>3, <4>1
    <3>6. DOMAIN q = 1 .. (Len(queue) + 1) /\ Len(queue) \in Nat /\ DOMAIN queue = 1 .. Len(queue)
      <4>1. Len(InsertAt(queue, p, e)) = Len(queue) + 1
        BY <1>t, <3>1, InsertFacts
      <4>2. Len(q) = Len(queue) + 1
        BY <3>3, <4>1
      <4> QED  BY <1>t, <1>1, <4>2, LenProperties
    <3>7. \A j \in DOMAIN q : q[j] = e \/ \E i \in DOMAIN queue : q[j] = queue[i]
      <4> SUFFICES ASSUME NEW j \in DOMAIN q PROVE q[j] = e \/ \E i \in DOMAIN queue : q[j] = queue[i]
        OBVIOUS
      <4>1. CASE j <= p
        <5>1. j \in DOMAIN queue /\ q[j] = queue[j]
          BY <3>5, <3>6, <4>1
        <5> QED  BY <5>1
      <4>2. CASE j = p + 1
        BY <3>5, <3>6, <4>2
      <4>3. CASE j > p + 1
        <5>1. j - 1 \in DOMAIN queue /\ q[j] = queue[j - 1]
          BY <3>5, <3>6, <4>3
        <5> QED  BY <5>1
      <4> QED  BY <3>6, <4>1, <4>2, <4>3
    <3>8. e.id <= issued
      BY <1>t, <3>1
    <3>9. Old(q)
      BY <3>2, <3>7
    <3>10. UpTo(q, issued)
      BY <3>7, <3>8
    <3> QED  BY <3>4, <3>9, <3>10
  <2> HIDE DEF From, UpTo, Old
  <2> QED  BY <1>1, <2>1, <2>2 DEF BusTaken
<1>3. InOrder(r, R) /\ From(r, issued') /\ UpTo(r, issued') /\ issued' \in Nat /\ issued <= issued'
  <2>1. CASE r = q /\ issued' = issued
    <3>1. From(q, issued) /\ issued <= issued
      BY <1>t, <1>2
    <3> QED  BY <1>t, <1>2, <2>1, <3>1
  <2>2. ASSUME NEW l \in Lines, NEW k \in CpuOps, r = Append(q, Element(k, l, issued + 1, FALSE)),
               issued' = issued + 1
        PROVE  InOrder(r, R) /\ From(r, issued') /\ UpTo(r, issued') /\ issued' \in Nat /\ issued <= issued'
    <3> DEFINE e == Element(k, l, issued + 1, FALSE)
    <3>1. issued + 1 \in Nat /\ issued + 1 # 0
      BY <1>t
    <3>2. e \in Elem /\ e.id = issued + 1
      BY <3>1, ElementTyped DEF Element
    <3>3. r = Append(q, e)
      BY <2>2
    <3> HIDE DEF e
    <3>4. \A i \in DOMAIN q : q[i].id <= e.id
      <4> SUFFICES ASSUME NEW i \in DOMAIN q PROVE q[i].id <= e.id
        OBVIOUS
      <4>1. q[i] \in Elem
        BY <1>1, ElementOfSeq, LenProperties
      <4>2. q[i].id \in Nat /\ q[i].id <= issued
        BY <1>2, <4>1, ElemFields
      <4> QED  BY <1>t, <3>2, <4>2
    <3>5. InOrder(r, R)
      BY <1>1, <1>2, <3>2, <3>3, <3>4, OrderAppend
    <3>6. From(q, issued + 1) /\ UpTo(q, issued + 1)
      <4>1. UpTo(q, issued + 1)
        BY <3>2, <3>4
      <4>2. From(q, issued + 1)
        BY <1>2
      <4> QED  BY <4>1, <4>2
    <3> HIDE DEF From, UpTo
    <3>7. From(r, issued + 1) /\ UpTo(r, issued + 1)
      BY <1>1, <1>a, <3>1, <3>2, <3>3, <3>6
    <3>8. issued + 1 = issued' /\ issued' \in Nat /\ issued <= issued'
      BY <1>t, <2>2, <3>1
    <3>9. From(r, issued') /\ UpTo(r, issued')
      BY <3>7, <3>8
    <3> QED  BY <3>5, <3>8, <3>9
  <2> HIDE DEF From, UpTo
  <2> QED  BY <1>1, <2>1, <2>2 DEF CoreTaken
<1>4. InOrder(queue', R) /\ From(queue', issued') /\ UpTo(queue', issued')
  <2>1. CASE toIssue = <<>>
    BY <1>1, <1>3, <2>1 DEF VictimTaken
  <2>2. CASE toIssue # <<>>
    <3> DEFINE e == Element("Replacement", Head(toIssue), 0, FALSE)
    <3>1. Head(toIssue) \in Lines
      BY <1>t, <2>2, HeadTailProperties
    <3>2. e \in Elem /\ e.k \notin CpuOps
      BY <3>1, ElementTyped DEF Element, CpuOps
    <3>3. queue' = Append(r, e)
      BY <1>1, <2>2 DEF VictimTaken
    <3> HIDE DEF e, From, UpTo
    <3> QED  BY <1>1, <1>3, <1>a, <3>2, <3>3, OrderAppend
  <2> QED  BY <2>1, <2>2
<1> QED  BY <1>3, <1>4

\* The message the scan returns passes no demand of its line but an excused one.
LEMMA Overtakes ==
  ASSUME ~StoresCarryData, L1Typed, NEW i \in FirstReady, queue[i].k \in CpuOps,
         NEW R, InOrder(queue, R)
  PROVE  \A j \in DOMAIN queue : j # i => Late(queue[j], queue[i].line, queue[i].id, R)
<1>1. i \in DOMAIN queue /\ ~BlockedByOlder(i)
  BY Taken
<1>2. Len(queue) \in Nat /\ DOMAIN queue = 1 .. Len(queue)
  BY LenProperties DEF L1Typed
<1> SUFFICES ASSUME NEW j \in DOMAIN queue, j # i, queue[j].k \in CpuOps, queue[j].line = queue[i].line
             PROVE  Late(queue[j], queue[i].line, queue[i].id, R)
  BY DEF Late
<1>3. Gated(queue[i]) /\ Gated(queue[j])
  BY DEF Gated, isDemandRequest, CpuOps
<1>4. CASE j < i
  <2>1. j \in 1 .. (i - 1)
    BY <1>1, <1>2, <1>4
  <2> QED  BY <1>1, <1>3, <2>1 DEF BlockedByOlder
<1>5. CASE i < j
  BY <1>1, <1>5 DEF InOrder
<1> QED  BY <1>1, <1>2, <1>4, <1>5

\* What a row leaves: the states of the other lines, and the order the demands ran in.
LEMMA RowRuns ==
  ASSUME L1Typed, NEW m \in Elem, processRequest(m)
  PROVE  /\ \A l \in Lines : l # m.line => st'[l] = st[l]
         /\ IF m.k \in CpuOps THEN served' = Append(served, [line |-> m.line, id |-> m.id])
            ELSE served' = served
<1>1. /\ st' = [st EXCEPT ![m.line] = getNextState(st[m.line], L1Cell(st[m.line], m.k))]
      /\ served' = IF m.k \in CpuOps THEN Append(served, [line |-> m.line, id |-> m.id]) ELSE served
  BY DEF processRequest
<1> QED  BY <1>1 DEF L1Typed

\* A demand that runs after all its line's earlier ones but the excused keeps the order.
LEMMA ServedAppend ==
  ASSUME SameLineOrder, NEW T, served \in Seq(T), NEW e \in T, served' = Append(served, e),
         retried \subseteq retried',
         \A k \in DOMAIN served : served[k].line = e.line /\ served[k].id > e.id => e.id \in retried'
  PROVE  SameLineOrder'
<1>1. /\ Len(served) \in Nat /\ DOMAIN served = 1 .. Len(served)
      /\ DOMAIN served' = 1 .. (Len(served) + 1)
      /\ \A k \in 1 .. Len(served) : served'[k] = served[k]
      /\ served'[Len(served) + 1] = e
  BY AppendProperties, LenProperties
<1> SUFFICES ASSUME NEW i \in DOMAIN served', NEW j \in DOMAIN served', i < j,
                    served'[i].line = served'[j].line, served'[i].id > served'[j].id
             PROVE  served'[j].id \in retried'
  BY DEF SameLineOrder
<1>2. i \in DOMAIN served /\ served'[i] = served[i]
  BY <1>1
<1>3. CASE j \in DOMAIN served
  <2>1. served'[j] = served[j]
    BY <1>1, <1>3
  <2> QED  BY <1>2, <1>3, <2>1 DEF SameLineOrder
<1>4. CASE j \notin DOMAIN served
  <2>1. served'[j] = e
    BY <1>1, <1>4
  <2> QED  BY <1>2, <2>1
<1> QED  BY <1>3, <1>4

\* A message still queued is no earlier demand than one that has run or is deferred.
LEMMA RanOrDeferred ==
  ASSUME L1Typed, LineInv
  PROVE  /\ \A k \in DOMAIN served : /\ served[k].line \in Lines /\ served[k].id \in Nat
                                     /\ Left(served[k].line, served[k].id)
         /\ \A o \in DOMAIN ops : ops[o].msg.k \in CpuOps => Left(ops[o].msg.line, ops[o].msg.id)
<1>1. \A k \in DOMAIN served : served[k] \in Served
  BY ElementOfSeq, LenProperties DEF L1Typed
<1> QED  BY <1>1 DEF Served, Left

\* What a step that runs nothing and defers nothing leaves as it was.
LEMMA NothingLeaves ==
  ASSUME LineInv, served' = served, st' = st, retried \subseteq retried',
         DOMAIN ops' = DOMAIN ops, \A o \in DOMAIN ops : ops'[o].msg = ops[o].msg
  PROVE  /\ \A l, n : Left(l, n)' <=> Left(l, n)
         /\ DeferredLate' /\ SameLineOrder' /\ Interlock'
<1>1. \A l, n : Left(l, n)' <=> Left(l, n)
  BY DEF Left
<1>2. DeferredLate'
  BY DEF LineInv, DeferredLate, Late
<1>3. SameLineOrder'
  BY DEF LineInv, SameLineOrder
<1>4. Interlock'
  BY DEF LineInv, Interlock
<1> QED  BY <1>1, <1>2, <1>3, <1>4

\* The intake puts in demands newer than all that left the queue.
LEMMA LineIntake ==
  ASSUME L1Typed, L1Typed', LineInv, Intake
  PROVE  LineInv'
<1>1. /\ served' = served /\ st' = st /\ retried' = retried
      /\ DOMAIN ops' = DOMAIN ops /\ \A o \in DOMAIN ops : ops'[o].msg = ops[o].msg
  BY FlushKeepsMessages DEF Intake
<1>2. /\ \A l, n : Left(l, n)' <=> Left(l, n)
      /\ DeferredLate' /\ SameLineOrder' /\ Interlock'
  BY <1>1, NothingLeaves
<1>3. InOrder(queue, retried) /\ QueuedLate /\ Given
  BY DEF LineInv
<1>4. \A i \in DOMAIN queue : queue[i].id <= issued
  BY <1>3 DEF Given
<1>5. /\ InOrder(queue', retried)
      /\ \A j \in DOMAIN queue' : \/ \E i \in DOMAIN queue : queue'[j] = queue[i]
                                  \/ queue'[j].k \notin CpuOps
                                  \/ queue'[j].id = issued'
      /\ \A j \in DOMAIN queue' : queue'[j].id <= issued'
      /\ issued <= issued'
  BY <1>3, <1>4, IntakeOrder
<1>6. issued \in Nat /\ issued' \in Nat
  BY DEF L1Typed
<1>7. Given'
  BY <1>2, <1>3, <1>5, <1>6 DEF Given
<1>8. QueuedLate'
  <2> SUFFICES ASSUME NEW l \in Lines, NEW n \in Nat, Left(l, n), NEW j \in DOMAIN queue'
               PROVE  Late(queue'[j], l, n, retried)
    BY <1>1, <1>2 DEF QueuedLate, Late
  <2>1. n <= issued /\ \A i \in DOMAIN queue : Late(queue[i], l, n, retried)
    BY <1>3 DEF Given, QueuedLate
  <2>2. CASE \E i \in DOMAIN queue : queue'[j] = queue[i]
    BY <2>1, <2>2
  <2>3. CASE queue'[j].k \notin CpuOps
    BY <2>3 DEF Late
  <2>4. CASE queue'[j].id = issued'
    <3>1. ~(n > queue'[j].id)
      BY <1>5, <1>6, <2>1, <2>4
    <3> QED  BY <3>1 DEF Late
  <2> QED  BY <1>5, <2>2, <2>3, <2>4
<1> QED  BY <1>1, <1>2, <1>5, <1>7, <1>8 DEF LineInv

\* A demand put back is excused from then on.
LEMMA LinePutBack ==
  ASSUME L1Typed, LineInv, AdmitFails
  PROVE  LineInv'
<1>1. PICK i \in FirstReady :
        /\ isDemandRequest(queue[i]) /\ retried' = retried \cup {queue[i].id}
        /\ \/ queue' = Append(Erase(queue, i), queue[i])
           \/ queue' = Erase(queue, i)
  BY PutBackParts DEF pushBack
<1> DEFINE m == queue[i]
           t == Erase(queue, i)
<1>2. i \in DOMAIN queue /\ m \in Elem /\ queue \in Seq(Elem)
  BY Taken DEF L1Typed
<1>3. CycleStarts /\ served' = served /\ st' = st /\ issued' = issued
  BY DEF AdmitFails
<1>4. /\ \A l, n : Left(l, n)' <=> Left(l, n)
      /\ DeferredLate' /\ SameLineOrder' /\ Interlock'
  BY <1>1, <1>3, CycleStartsKeepsMessages, NothingLeaves
<1>5. InOrder(queue, retried') /\ m.id \in retried' /\ retried \subseteq retried'
  BY <1>1, OrderMore DEF LineInv
<1>6. t \in Seq(Elem) /\ InOrder(t, retried')
  BY <1>2, <1>5, OrderErase, EraseFacts
<1>7. \A j \in DOMAIN t : \E k \in DOMAIN queue : t[j] = queue[k]
  BY <1>2, EraseFacts
<1>8. queue' = Append(t, m) \/ queue' = t
  BY <1>1
<1> HIDE DEF m, t
<1>9. InOrder(Append(t, m), retried')
  BY <1>2, <1>5, <1>6, OrderAppend
<1>10. \A j \in DOMAIN Append(t, m) : Append(t, m)[j] = m \/ \E k \in DOMAIN t : Append(t, m)[j] = t[k]
  <2>1. /\ Append(t, m) \in Seq(Elem) /\ Len(Append(t, m)) = Len(t) + 1
        /\ \A j \in DOMAIN Append(t, m) : Append(t, m)[j] = IF j <= Len(t) THEN t[j] ELSE m
    BY <1>2, <1>6, AppendFacts
  <2>2. DOMAIN Append(t, m) = 1 .. (Len(t) + 1) /\ Len(t) \in Nat /\ DOMAIN t = 1 .. Len(t)
    BY <1>6, <2>1, LenProperties
  <2> QED  BY <2>1, <2>2
<1>11. \E k \in DOMAIN queue : m = queue[k]
  BY <1>2 DEF m
<1>12. InOrder(queue', retried') /\ \A j \in DOMAIN queue' : \E k \in DOMAIN queue : queue'[j] = queue[k]
  <2>1. CASE queue' = t
    BY <1>6, <1>7, <2>1
  <2>2. CASE queue' = Append(t, m)
    <3>1. \A j \in DOMAIN Append(t, m) : \E k \in DOMAIN queue : Append(t, m)[j] = queue[k]
      BY <1>7, <1>10, <1>11
    <3> QED  BY <1>9, <2>2, <3>1
  <2> QED  BY <1>8, <2>1, <2>2
<1>13. QueuedLate'
  BY <1>4, <1>5, <1>12 DEF LineInv, QueuedLate, Late
<1>14. Given'
  BY <1>3, <1>4, <1>12 DEF LineInv, Given
<1> QED  BY <1>4, <1>12, <1>13, <1>14 DEF LineInv

\* The demand the scan returns is behind nothing that has run, is deferred or is queued.
LEMMA TakenInOrder ==
  ASSUME ~StoresCarryData, L1Typed, LineInv, NEW i \in FirstReady
  PROVE  /\ \A l \in Lines, n \in Nat : Left(l, n) => Late(queue[i], l, n, retried)
         /\ queue[i].k \in CpuOps => \A j \in DOMAIN Erase(queue, i) :
              Late(Erase(queue, i)[j], queue[i].line, queue[i].id, retried)
         /\ InOrder(Erase(queue, i), retried)
         /\ \A j \in DOMAIN Erase(queue, i) : \E k \in DOMAIN queue : Erase(queue, i)[j] = queue[k]
         /\ queue[i].id <= issued
<1>1. i \in DOMAIN queue /\ queue \in Seq(Elem)
  BY Taken DEF L1Typed
<1>2. InOrder(queue, retried) /\ QueuedLate /\ Given
  BY DEF LineInv
<1>3. \A j \in DOMAIN Erase(queue, i) : \E k \in DOMAIN queue : k # i /\ Erase(queue, i)[j] = queue[k]
  BY <1>1, EraseFacts
<1>4. InOrder(Erase(queue, i), retried)
  BY <1>1, <1>2, OrderErase
<1>5. ASSUME queue[i].k \in CpuOps, NEW j \in DOMAIN Erase(queue, i)
      PROVE  Late(Erase(queue, i)[j], queue[i].line, queue[i].id, retried)
  <2>1. PICK k \in DOMAIN queue : k # i /\ Erase(queue, i)[j] = queue[k]
    BY <1>3, <1>5
  <2>2. \A k1 \in DOMAIN queue : k1 # i => Late(queue[k1], queue[i].line, queue[i].id, retried)
    BY <1>2, <1>5, Overtakes
  <2> QED  BY <2>1, <2>2
<1> QED  BY <1>1, <1>2, <1>3, <1>4, <1>5 DEF QueuedLate, Given

\* The message deferred is the only one of its line, and is behind nothing.
LEMMA LineDefer ==
  ASSUME ~StoresCarryData, L1Typed, LineInv, Defer
  PROVE  LineInv'
<1>1. PICK i \in FirstReady :
        /\ queue' = Erase(queue, i)
        /\ ops' \in Seq(Op) /\ Len(ops') = Len(ops) + 1
        /\ \A o \in DOMAIN ops : ops'[o].msg = ops[o].msg
        /\ ops'[Len(ops) + 1].msg = queue[i]
  BY DeferParts
<1> DEFINE m == queue[i]
<1>2. served' = served /\ st' = st /\ retried' = retried /\ issued' = issued
  BY DEF Defer
<1>3. /\ m \in Elem /\ ~lineHasDeferredOp(m.line)
      /\ m.k \in CpuOps => ~isStall(L1Cell(st[m.line], m.k))
  BY Taken DEF Held
<1>4. /\ \A l \in Lines, n \in Nat : Left(l, n) => Late(m, l, n, retried)
      /\ m.k \in CpuOps => \A j \in DOMAIN queue' : Late(queue'[j], m.line, m.id, retried)
      /\ InOrder(queue', retried)
      /\ \A j \in DOMAIN queue' : \E k \in DOMAIN queue : queue'[j] = queue[k]
      /\ m.id <= issued
  BY <1>1, TakenInOrder
<1>5. /\ Len(ops) \in Nat /\ DOMAIN ops = 1 .. Len(ops)
      /\ DOMAIN ops' = 1 .. (Len(ops) + 1)
  BY <1>1, LenProperties DEF L1Typed
<1>6. /\ \A o \in DOMAIN ops' : \/ o \in DOMAIN ops /\ ops'[o].msg = ops[o].msg
                                \/ o = Len(ops) + 1 /\ ops'[o].msg = m
      /\ Len(ops) + 1 \notin DOMAIN ops
  BY <1>1, <1>5
<1> HIDE DEF m
<1>7. \A o \in DOMAIN ops : ops[o].msg.line # m.line
  BY <1>3 DEF lineHasDeferredOp
<1>8. ASSUME NEW l \in Lines, NEW n \in Nat, Left(l, n)'
      PROVE  Left(l, n) \/ (m.k \in CpuOps /\ m.line = l /\ m.id = n)
  <2>1. CASE \E k \in DOMAIN served : served[k].line = l /\ served[k].id = n
    BY <2>1 DEF Left
  <2>2. CASE \E o \in DOMAIN ops' : ops'[o].msg.k \in CpuOps /\ ops'[o].msg.line = l /\ ops'[o].msg.id = n
    BY <1>6, <2>2 DEF Left
  <2> QED  BY <1>2, <1>8, <2>1, <2>2 DEF Left
<1>9. QueuedLate'
  <2> SUFFICES ASSUME NEW l \in Lines, NEW n \in Nat, Left(l, n)', NEW j \in DOMAIN queue'
               PROVE  Late(queue'[j], l, n, retried)
    BY <1>2 DEF QueuedLate, Late
  <2>1. CASE Left(l, n)
    BY <1>4, <2>1 DEF LineInv, QueuedLate
  <2>2. CASE m.k \in CpuOps /\ m.line = l /\ m.id = n
    BY <1>4, <2>2
  <2> QED  BY <1>8, <2>1, <2>2
<1>10. DeferredLate'
  <2> SUFFICES ASSUME NEW k \in DOMAIN served, NEW o \in DOMAIN ops'
               PROVE  Late(ops'[o].msg, served[k].line, served[k].id, retried)
    BY <1>2 DEF DeferredLate, Late
  <2>1. CASE o \in DOMAIN ops /\ ops'[o].msg = ops[o].msg
    BY <2>1 DEF LineInv, DeferredLate
  <2>2. CASE ops'[o].msg = m
    BY <1>4, <2>2, RanOrDeferred
  <2> QED  BY <1>6, <2>1, <2>2
<1>11. SameLineOrder'
  BY <1>2 DEF LineInv, SameLineOrder
<1>12. Interlock'
  <2>1. ASSUME NEW o \in DOMAIN ops', NEW p \in DOMAIN ops', ops'[o].msg.line = ops'[p].msg.line
        PROVE  o = p
    <3>1. CASE o \in DOMAIN ops /\ p \in DOMAIN ops
      BY <1>1, <2>1, <3>1 DEF LineInv, Interlock
    <3>2. CASE ~(o \in DOMAIN ops /\ p \in DOMAIN ops)
      BY <1>6, <1>7, <2>1, <3>2
    <3> QED  BY <3>1, <3>2
  <2>2. ASSUME NEW o \in DOMAIN ops', ops'[o].msg.k \in CpuOps
        PROVE  ~isStall(L1Cell(st[ops'[o].msg.line], ops'[o].msg.k))
    <3>1. CASE ops'[o].msg = m
      BY <1>3, <2>2, <3>1 DEF m
    <3>2. CASE o \in DOMAIN ops /\ ops'[o].msg = ops[o].msg
      BY <2>2, <3>2 DEF LineInv, Interlock
    <3> QED  BY <1>6, <3>1, <3>2
  <2> QED  BY <1>2, <2>1, <2>2 DEF Interlock
<1>13. Given'
  <2>1. \A j \in DOMAIN queue' : queue'[j].id <= issued
    BY <1>4 DEF LineInv, Given
  <2>2. ASSUME NEW l \in Lines, NEW n \in Nat, Left(l, n)' PROVE n <= issued
    BY <1>4, <1>8, <2>2 DEF LineInv, Given
  <2> QED  BY <1>2, <2>1, <2>2 DEF Given
<1> QED  BY <1>2, <1>4, <1>9, <1>10, <1>11, <1>12, <1>13 DEF LineInv

\* Running a message that is behind nothing of its line, and beside no deferred one.
LEMMA LineRow ==
  ASSUME L1Typed, LineInv, NEW m \in Elem, processRequest(m), retried' = retried, issued' = issued,
         \A k \in DOMAIN served : Late(m, served[k].line, served[k].id, retried),
         m.id <= issued,
         \A o \in DOMAIN ops' : \E p \in DOMAIN ops : ops'[o].msg = ops[p].msg,
         \A o \in DOMAIN ops' : ops'[o].msg.line # m.line,
         \A o, p \in DOMAIN ops' : ops'[o].msg.line = ops'[p].msg.line => o = p,
         \A j \in DOMAIN queue' : \E k \in DOMAIN queue : queue'[j] = queue[k],
         m.k \in CpuOps => \A j \in DOMAIN queue' : Late(queue'[j], m.line, m.id, retried),
         InOrder(queue', retried)
  PROVE  LineInv'
<1> DEFINE e == [line |-> m.line, id |-> m.id]
<1>1. /\ \A l \in Lines : l # m.line => st'[l] = st[l]
      /\ m.k \in CpuOps => served' = Append(served, e)
      /\ m.k \notin CpuOps => served' = served
  BY RowRuns
<1>2. served \in Seq(Served) /\ e \in Served /\ e.line = m.line /\ e.id = m.id
  BY ElemFields DEF L1Typed, Served
<1> HIDE DEF e
<1>3. \A k \in DOMAIN served' : \/ k \in DOMAIN served /\ served'[k] = served[k]
                                \/ m.k \in CpuOps /\ served'[k] = e
  <2>1. CASE m.k \in CpuOps
    <3>1. /\ Append(served, e) \in Seq(Served) /\ Len(Append(served, e)) = Len(served) + 1
          /\ \A k \in DOMAIN Append(served, e) : Append(served, e)[k] = IF k <= Len(served) THEN served[k] ELSE e
      BY <1>2, AppendFacts
    <3>2. /\ DOMAIN Append(served, e) = 1 .. (Len(served) + 1)
          /\ Len(served) \in Nat /\ DOMAIN served = 1 .. Len(served)
      BY <1>2, <3>1, LenProperties
    <3>3. \A k \in DOMAIN Append(served, e) : \/ k \in DOMAIN served /\ Append(served, e)[k] = served[k]
                                             \/ Append(served, e)[k] = e
      BY <3>1, <3>2
    <3> QED  BY <1>1, <2>1, <3>3
  <2>2. CASE m.k \notin CpuOps
    BY <1>1, <2>2
  <2> QED  BY <2>1, <2>2
<1>4. ASSUME NEW l \in Lines, NEW n \in Nat, Left(l, n)'
      PROVE  Left(l, n) \/ (m.k \in CpuOps /\ m.line = l /\ m.id = n)
  <2>1. CASE \E k \in DOMAIN served' : served'[k].line = l /\ served'[k].id = n
    <3>1. PICK k \in DOMAIN served' : served'[k].line = l /\ served'[k].id = n
      BY <2>1
    <3> QED  BY <1>2, <1>3, <3>1 DEF Left
  <2>2. CASE \E o \in DOMAIN ops' : ops'[o].msg.k \in CpuOps /\ ops'[o].msg.line = l /\ ops'[o].msg.id = n
    <3>1. PICK o \in DOMAIN ops' : ops'[o].msg.k \in CpuOps /\ ops'[o].msg.line = l /\ ops'[o].msg.id = n
      BY <2>2
    <3>2. PICK p \in DOMAIN ops : ops'[o].msg = ops[p].msg
      OBVIOUS
    <3> QED  BY <3>1, <3>2 DEF Left
  <2> QED  BY <1>4, <2>1, <2>2 DEF Left
<1>5. QueuedLate'
  <2> SUFFICES ASSUME NEW l \in Lines, NEW n \in Nat, Left(l, n)', NEW j \in DOMAIN queue'
               PROVE  Late(queue'[j], l, n, retried)
    BY DEF QueuedLate, Late
  <2>1. CASE Left(l, n)
    <3>1. PICK k \in DOMAIN queue : queue'[j] = queue[k]
      OBVIOUS
    <3>2. Late(queue[k], l, n, retried)
      BY <2>1 DEF LineInv, QueuedLate
    <3> QED  BY <3>1, <3>2
  <2>2. CASE m.k \in CpuOps /\ m.line = l /\ m.id = n
    BY <2>2
  <2> QED  BY <1>4, <2>1, <2>2
<1>6. DeferredLate'
  <2> SUFFICES ASSUME NEW k \in DOMAIN served', NEW o \in DOMAIN ops'
               PROVE  Late(ops'[o].msg, served'[k].line, served'[k].id, retried)
    BY DEF DeferredLate, Late
  <2>1. PICK p \in DOMAIN ops : ops'[o].msg = ops[p].msg
    OBVIOUS
  <2>2. CASE k \in DOMAIN served /\ served'[k] = served[k]
    <3>1. Late(ops[p].msg, served[k].line, served[k].id, retried)
      BY <2>2 DEF LineInv, DeferredLate
    <3> QED  BY <2>1, <2>2, <3>1
  <2>3. CASE served'[k] = e
    <3>1. ops'[o].msg.line # served'[k].line
      BY <1>2, <2>3
    <3> QED  BY <3>1 DEF Late
  <2> QED  BY <1>3, <2>2, <2>3
<1>7. SameLineOrder'
  <2>1. CASE m.k \in CpuOps
    <3>1. served' = Append(served, e)
      BY <1>1, <2>1
    <3>2. \A k \in DOMAIN served : served[k].line = e.line /\ served[k].id > e.id => e.id \in retried'
      BY <1>2, <2>1 DEF Late
    <3>3. SameLineOrder /\ retried \subseteq retried'
      BY DEF LineInv
    <3> HIDE DEF LineInv
    <3> QED  BY <1>2, <3>1, <3>2, <3>3, ServedAppend
  <2>2. CASE m.k \notin CpuOps
    <3>1. served' = served
      BY <1>1, <2>2
    <3> QED  BY <3>1 DEF LineInv, SameLineOrder
  <2> QED  BY <2>1, <2>2
<1>8. Interlock'
  <2>1. ASSUME NEW o \in DOMAIN ops', ops'[o].msg.k \in CpuOps
        PROVE  ~isStall(L1Cell(st'[ops'[o].msg.line], ops'[o].msg.k))
    <3>1. PICK p \in DOMAIN ops : ops'[o].msg = ops[p].msg
      OBVIOUS
    <3>2. ~isStall(L1Cell(st[ops[p].msg.line], ops[p].msg.k))
      BY <2>1, <3>1 DEF LineInv, Interlock
    <3>3. ops[p].msg.line \in Lines /\ ops[p].msg.line # m.line
      BY <3>1, OpTyped, ElemFields
    <3>4. st'[ops[p].msg.line] = st[ops[p].msg.line]
      BY <1>1, <3>3
    <3> QED  BY <3>1, <3>2, <3>4
  <2> QED  BY <2>1 DEF Interlock
<1>9. Given'
  <2>1. \A j \in DOMAIN queue' : queue'[j].id <= issued
    BY DEF LineInv, Given
  <2>2. ASSUME NEW l \in Lines, NEW n \in Nat, Left(l, n)' PROVE n <= issued
    BY <1>4, <2>2 DEF LineInv, Given
  <2> QED  BY <2>1, <2>2 DEF Given
<1> QED  BY <1>5, <1>6, <1>7, <1>8, <1>9 DEF LineInv

\* Handling a message keeps the order of every line: the gate lets only the oldest
\* operation of a line through, and the next waits until it is answered or deferred.
LEMMA LineProcess ==
  ASSUME ~StoresCarryData, L1Typed, LineInv, Process
  PROVE  LineInv'
<1>1. PICK i \in FirstReady : queue' = Erase(queue, i) /\ processRequest(queue[i])
  BY DEF Process
<1> DEFINE m == queue[i]
<1>2. ops' = ops /\ retried' = retried /\ issued' = issued
  BY DEF Process
<1>3. m \in Elem /\ ~lineHasDeferredOp(m.line)
  BY Taken DEF Held
<1>4. /\ \A l \in Lines, n \in Nat : Left(l, n) => Late(m, l, n, retried)
      /\ m.k \in CpuOps => \A j \in DOMAIN queue' : Late(queue'[j], m.line, m.id, retried)
      /\ InOrder(queue', retried)
      /\ \A j \in DOMAIN queue' : \E k \in DOMAIN queue : queue'[j] = queue[k]
      /\ m.id <= issued
  BY <1>1, TakenInOrder
<1>5. processRequest(m)
  BY <1>1
<1> HIDE DEF m
<1>6. \A k \in DOMAIN served : Late(m, served[k].line, served[k].id, retried)
  BY <1>4, RanOrDeferred
<1>7. /\ \A o \in DOMAIN ops' : \E p \in DOMAIN ops : ops'[o].msg = ops[p].msg
      /\ \A o \in DOMAIN ops' : ops'[o].msg.line # m.line
      /\ \A o, p \in DOMAIN ops' : ops'[o].msg.line = ops'[p].msg.line => o = p
  BY <1>2, <1>3 DEF lineHasDeferredOp, LineInv, Interlock
<1> QED  BY <1>2, <1>3, <1>4, <1>5, <1>6, <1>7, LineRow

\* A due demand runs; only another message can stall and go back to the queue.
LEMMA LineFire ==
  ASSUME L1Typed, LineInv, pipelineFire
  PROVE  LineInv'
<1>1. PICK o \in DOMAIN ops :
        /\ ops[o].msg \in Elem /\ ops' = Erase(ops, o)
        /\ \/ /\ isStall(L1Cell(st[ops[o].msg.line], ops[o].msg.k))
              /\ queue' = Append(queue, [ops[o].msg EXCEPT !.ready = FALSE])
              /\ UNCHANGED <<st, reg, toIssue, owed, pending, answered, served>>
           \/ /\ ~isStall(L1Cell(st[ops[o].msg.line], ops[o].msg.k))
              /\ queue' = queue /\ processRequest(ops[o].msg)
  BY FireParts
<1> DEFINE m == ops[o].msg
<1>2. retried' = retried /\ issued' = issued
  BY DEF pipelineFire
<1>3. /\ ops \in Seq(Op) /\ ops' \in Seq(Op) /\ Len(ops) \in Nat /\ DOMAIN ops = 1 .. Len(ops)
      /\ \A j \in DOMAIN ops' : ops'[j] = IF j < o THEN ops[j] ELSE ops[j + 1]
      /\ DOMAIN ops' = 1 .. (Len(ops) - 1)
  <2>1. ops \in Seq(Op) /\ Len(ops) \in Nat /\ DOMAIN ops = 1 .. Len(ops)
    BY LenProperties DEF L1Typed
  <2>2. /\ Erase(ops, o) \in Seq(Op) /\ Len(Erase(ops, o)) = Len(ops) - 1
        /\ \A j \in DOMAIN Erase(ops, o) : Erase(ops, o)[j] = IF j < o THEN ops[j] ELSE ops[j + 1]
    <3> HIDE DEF m
    <3>1. \A T : \A s \in Seq(T) : \A i \in DOMAIN s :
            /\ Erase(s, i) \in Seq(T) /\ Len(Erase(s, i)) = Len(s) - 1
            /\ \A j \in DOMAIN Erase(s, i) : Erase(s, i)[j] = IF j < i THEN s[j] ELSE s[j + 1]
      BY EraseFacts
    <3> QED  BY <2>1, <3>1
  <2>3. DOMAIN Erase(ops, o) = 1 .. (Len(ops) - 1)
    BY <2>2, LenProperties
  <2> QED  BY <1>1, <2>1, <2>2, <2>3
<1>4. PICK at \in [DOMAIN ops' -> DOMAIN ops] :
        /\ \A j \in DOMAIN ops' : ops'[j].msg = ops[at[j]].msg /\ at[j] # o
        /\ \A j, k \in DOMAIN ops' : at[j] = at[k] => j = k
  <2> DEFINE at == [j \in DOMAIN ops' |-> IF j < o THEN j ELSE j + 1]
  <2>1. at \in [DOMAIN ops' -> DOMAIN ops]
    BY <1>3
  <2>2. \A j \in DOMAIN ops' : ops'[j].msg = ops[at[j]].msg /\ at[j] # o
    BY <1>3
  <2>3. \A j, k \in DOMAIN ops' : at[j] = at[k] => j = k
    BY <1>3
  <2> HIDE DEF at
  <2> QED  BY <2>1, <2>2, <2>3
<1>5. /\ \A j \in DOMAIN ops' : \E p \in DOMAIN ops : ops'[j].msg = ops[p].msg
      /\ \A j \in DOMAIN ops' : ops'[j].msg.line # m.line
      /\ \A j, k \in DOMAIN ops' : ops'[j].msg.line = ops'[k].msg.line => j = k
  <2>1. \A a, b \in DOMAIN ops : ops[a].msg.line = ops[b].msg.line => a = b
    BY DEF LineInv, Interlock
  <2> QED  BY <1>4, <2>1
<1>6. m \in Elem /\ (m.k \in CpuOps => ~isStall(L1Cell(st[m.line], m.k)))
  BY <1>1 DEF LineInv, Interlock
<1>7. m.k \in CpuOps => Left(m.line, m.id)
  BY RanOrDeferred
<1>8. m.k \in Events /\ m.line \in Lines /\ m.id \in Nat /\ (m.k \notin CpuOps => m.id = 0)
  <2>1. m.k \in CpuOps <=> m.id # 0
    BY <1>6 DEF Elem
  <2> QED  BY <1>6, <2>1, ElemFields
<1>9. m.id <= issued /\ issued \in Nat
  <2>1. m.k \in CpuOps => m.id <= issued
    BY <1>7, <1>8 DEF LineInv, Given
  <2>2. issued \in Nat
    BY DEF L1Typed
  <2> QED  BY <1>8, <2>1, <2>2
<1>10. \A k \in DOMAIN served : Late(m, served[k].line, served[k].id, retried)
  BY DEF LineInv, DeferredLate
<1>11. m.k \in CpuOps => \A j \in DOMAIN queue : Late(queue[j], m.line, m.id, retried)
  BY <1>7, <1>8 DEF LineInv, QueuedLate
<1>12. CASE queue' = queue /\ processRequest(m)
  <2>1. InOrder(queue, retried)
    BY DEF LineInv
  <2> HIDE DEF m
  <2> QED  BY <1>2, <1>5, <1>6, <1>9, <1>10, <1>11, <1>12, <2>1, LineRow
<1>13. CASE /\ isStall(L1Cell(st[m.line], m.k))
            /\ queue' = Append(queue, [m EXCEPT !.ready = FALSE])
            /\ served' = served /\ st' = st
  <2> DEFINE e == [m EXCEPT !.ready = FALSE]
  <2>1. m.k \notin CpuOps
    BY <1>6, <1>13
  <2>2. e \in Elem /\ e.k = m.k /\ e.id = m.id
    <3>1. e \in Elem
      BY <1>6, PutBackTyped
    <3>2. m \in [k : Events, line : Lines, id : Nat, ready : BOOLEAN]
      BY <1>6 DEF Elem
    <3> QED  BY <3>1, <3>2
  <2>3. queue' = Append(queue, e) /\ queue \in Seq(Elem)
    BY <1>13 DEF L1Typed
  <2> HIDE DEF e, m
  <2>4. InOrder(queue', retried)
    BY <2>1, <2>2, <2>3, OrderAppend DEF LineInv
  <2>5. \A j \in DOMAIN queue' : queue'[j] = e \/ \E k \in DOMAIN queue : queue'[j] = queue[k]
    <3>1. /\ Append(queue, e) \in Seq(Elem) /\ Len(Append(queue, e)) = Len(queue) + 1
          /\ \A j \in DOMAIN Append(queue, e) : Append(queue, e)[j] = IF j <= Len(queue) THEN queue[j] ELSE e
      BY <2>2, <2>3, AppendFacts
    <3>2. /\ DOMAIN Append(queue, e) = 1 .. (Len(queue) + 1) /\ Len(queue) \in Nat
          /\ DOMAIN queue = 1 .. Len(queue)
      BY <2>3, <3>1, LenProperties
    <3>3. \A j \in DOMAIN Append(queue, e) : Append(queue, e)[j] = e \/ \E k \in DOMAIN queue : Append(queue, e)[j] = queue[k]
      BY <3>1, <3>2
    <3> QED  BY <2>3, <3>3
  <2>6. \A l, n : Left(l, n)' => Left(l, n)
    BY <1>4, <1>13 DEF Left
  <2>7. QueuedLate'
    BY <1>2, <2>1, <2>2, <2>5, <2>6 DEF LineInv, QueuedLate, Late
  <2>8. DeferredLate'
    BY <1>2, <1>5, <1>13 DEF LineInv, DeferredLate, Late
  <2>9. SameLineOrder'
    BY <1>2, <1>13 DEF LineInv, SameLineOrder
  <2>10. Interlock'
    <3>1. ASSUME NEW j \in DOMAIN ops', ops'[j].msg.k \in CpuOps
          PROVE  ~isStall(L1Cell(st'[ops'[j].msg.line], ops'[j].msg.k))
      BY <1>4, <1>13, <3>1 DEF LineInv, Interlock
    <3> QED  BY <1>5, <3>1 DEF Interlock
  <2>11. Given'
    BY <1>2, <1>9, <2>2, <2>5, <2>6 DEF LineInv, Given
  <2> QED  BY <1>2, <2>4, <2>7, <2>8, <2>9, <2>10, <2>11 DEF LineInv
<1> QED  BY <1>1, <1>12, <1>13

\* The order holds in the first state.
LEMMA LineInit == ASSUME Init PROVE LineInv
<1>1. queue = <<>> /\ ops = <<>> /\ served = <<>>
  BY DEF Init
<1>2. DOMAIN queue = {} /\ DOMAIN ops = {} /\ DOMAIN served = {}
  BY <1>1
<1> QED  BY <1>2 DEF LineInv, InOrder, QueuedLate, DeferredLate, Left, SameLineOrder, Interlock, Given

\* Every step keeps it.
LEMMA LineStep ==
  ASSUME ~StoresCarryData, L1Typed, L1Typed', LineInv, [Next]_vars
  PROVE  LineInv'
<1>1. CASE EndCycle \/ UNCHANGED vars
  <2>1. /\ served' = served /\ st' = st /\ retried' = retried /\ queue' = queue /\ issued' = issued
        /\ DOMAIN ops' = DOMAIN ops /\ \A o \in DOMAIN ops : ops'[o].msg = ops[o].msg
    BY <1>1, CycleStartsKeepsMessages DEF EndCycle, vars
  <2>2. /\ \A l, n : Left(l, n)' <=> Left(l, n)
        /\ DeferredLate' /\ SameLineOrder' /\ Interlock'
    BY <2>1, NothingLeaves
  <2> QED  BY <2>1, <2>2 DEF LineInv, QueuedLate, Given
<1> QED  BY <1>1, LineIntake, LinePutBack, LineDefer, LineProcess, LineFire DEF Next

\* The core's loads and stores to one line run in the order the controller took them, for
\* any number of lines, ways, ports, MSHRs and queue places (FRFCFS_Buffer, m_line_mask, and
\* the line interlock of the data array), where stores bring no data: the gate does not
\* hold a store that brings its bytes.
THEOREM SameLineInOrder == ASSUME ~StoresCarryData PROVE Spec => []SameLineOrder
<1>1. Init => L1Typed /\ LineInv
  BY TypedInit, LineInit
<1>2. L1Typed /\ LineInv /\ [Next]_vars => (L1Typed /\ LineInv)'
  BY TypedStep, LineStep
<1>3. LineInv => SameLineOrder
  BY DEF LineInv
<1> QED  BY <1>1, <1>2, <1>3, PTL DEF Spec

-----------------------------------------------------------------------------
(* No demand is lost or answered twice.                                     *)

\* Where a demand can be, and how often demand id is there.
InQueue == <<"queue", 0>>
InOps == <<"ops", 0>>
InAnswered == <<"answered", 0>>
Waits(l) == <<"pending", l>>
Places == {InQueue, InOps, InAnswered} \cup {Waits(l) : l \in Lines}
Numbered(id) == {m \in Elem : m.id = id}
Only(id) == {id}
Deferred(id) == {x \in Op : x.msg.id = id}
Counts(q, o, a, w, id) ==
  [p \in Places |->
     CASE p[1] = "queue"    -> NOf(q, Numbered(id))
       [] p[1] = "ops"      -> NOf(o, Deferred(id))
       [] p[1] = "answered" -> NOf(a, Only(id))
       [] p[1] = "pending"  -> NOf(w[p[2]], Only(id))]
Tally(id) == Counts(queue, ops, answered, pending, id)

\* A tally that finds the demand in one place, once, or in none.
Single(f) == \E p \in Places : f[p] = 1 /\ \A q \in Places \ {p} : f[q] = 0
Zero(f) == \A p \in Places : f[p] = 0
Tallies == [Places -> Nat]
Keeps(f, g) == (Single(f) => Single(g)) /\ (Zero(f) => Zero(g))

\* The demands taken so far are in one place each, but for the dropped ones; the others
\* are nowhere.
Conserved ==
  \A id \in Nat \ {0} : IF id <= issued THEN id \in dropped \/ Single(Tally(id)) ELSE Zero(Tally(id))

\* The places.
LEMMA PlacesAre ==
  /\ InQueue \in Places /\ InOps \in Places /\ InAnswered \in Places
  /\ \A l \in Lines : Waits(l) \in Places
  /\ \A p \in Places : \/ p = InQueue \/ p = InOps \/ p = InAnswered
                       \/ \E l \in Lines : p = Waits(l)
  /\ InQueue # InOps /\ InQueue # InAnswered /\ InOps # InAnswered
  /\ \A l \in Lines : Waits(l) # InQueue /\ Waits(l) # InOps /\ Waits(l) # InAnswered
<1>1. /\ InQueue # InOps /\ InQueue # InAnswered /\ InOps # InAnswered
      /\ \A l \in Lines : Waits(l) # InQueue /\ Waits(l) # InOps /\ Waits(l) # InAnswered
  BY DEF InQueue, InOps, InAnswered, Waits
<1> QED  BY <1>1 DEF Places

\* Moving demands between the queue, the deferred ones, the answered ones and those that
\* wait for one line loses, repeats and creates none.
LEMMA MoveKeeps ==
  ASSUME NEW f \in Tallies, NEW g \in Tallies, NEW l \in Lines,
         \A x \in Lines \ {l} : g[Waits(x)] = f[Waits(x)],
         g[InQueue] + g[InOps] + g[InAnswered] + g[Waits(l)]
           = f[InQueue] + f[InOps] + f[InAnswered] + f[Waits(l)]
  PROVE  Keeps(f, g)
<1>0. \A a, b, c, d \in Nat :
        /\ a + b + c + d = 0 <=> a = 0 /\ b = 0 /\ c = 0 /\ d = 0
        /\ a + b + c + d = 1 => \/ a = 1 /\ b = 0 /\ c = 0 /\ d = 0
                                \/ a = 0 /\ b = 1 /\ c = 0 /\ d = 0
                                \/ a = 0 /\ b = 0 /\ c = 1 /\ d = 0
                                \/ a = 0 /\ b = 0 /\ c = 0 /\ d = 1
  OBVIOUS
<1> DEFINE Four == {InQueue, InOps, InAnswered, Waits(l)}
           Sum(h) == h[InQueue] + h[InOps] + h[InAnswered] + h[Waits(l)]
<1>1. \A r \in Places : f[r] \in Nat /\ g[r] \in Nat
  BY DEF Tallies
<1>2. Four \subseteq Places /\ \A r \in Places \ Four : g[r] = f[r]
  BY PlacesAre
<1>3. ASSUME NEW h \in Tallies
      PROVE  /\ Sum(h) = 0 <=> \A r \in Four : h[r] = 0
             /\ Sum(h) = 1 => \E r \in Four : h[r] = 1 /\ \A t \in Four \ {r} : h[t] = 0
             /\ \A r \in Four : h[r] = 1 /\ (\A t \in Four \ {r} : h[t] = 0) => Sum(h) = 1
  <2> DEFINE a == h[InQueue]
             b == h[InOps]
             c == h[InAnswered]
             d == h[Waits(l)]
  <2>1. a \in Nat /\ b \in Nat /\ c \in Nat /\ d \in Nat
    BY <1>2 DEF Tallies
  <2>2. Sum(h) = a + b + c + d
    OBVIOUS
  <2>4. Sum(h) = 0 <=> a = 0 /\ b = 0 /\ c = 0 /\ d = 0
    <3> HIDE DEF a, b, c, d, Sum
    <3> QED  BY <1>0, <2>1, <2>2
  <2>5. (\A r \in Four : h[r] = 0) <=> a = 0 /\ b = 0 /\ c = 0 /\ d = 0
    OBVIOUS
  <2>6. ASSUME Sum(h) = 1 PROVE \E r \in Four : h[r] = 1 /\ \A t \in Four \ {r} : h[t] = 0
    <3>1. \/ a = 1 /\ b = 0 /\ c = 0 /\ d = 0
          \/ a = 0 /\ b = 1 /\ c = 0 /\ d = 0
          \/ a = 0 /\ b = 0 /\ c = 1 /\ d = 0
          \/ a = 0 /\ b = 0 /\ c = 0 /\ d = 1
      <4> HIDE DEF a, b, c, d, Sum
      <4> QED  BY <1>0, <2>1, <2>2, <2>6
    <3> QED  BY <3>1
  <2>7. ASSUME NEW r \in Four, h[r] = 1, \A t \in Four \ {r} : h[t] = 0 PROVE Sum(h) = 1
    <3>1. \/ a = 1 /\ b = 0 /\ c = 0 /\ d = 0
          \/ a = 0 /\ b = 1 /\ c = 0 /\ d = 0
          \/ a = 0 /\ b = 0 /\ c = 1 /\ d = 0
          \/ a = 0 /\ b = 0 /\ c = 0 /\ d = 1
      BY <2>7, PlacesAre
    <3> QED  BY <2>2, <3>1
  <2> QED  BY <2>4, <2>5, <2>6, <2>7
<1>4. Sum(f) = Sum(g)
  OBVIOUS
<1> HIDE DEF Four, Sum
<1>5. ASSUME Single(f) PROVE Single(g)
  <2>1. PICK r \in Places : f[r] = 1 /\ \A t \in Places \ {r} : f[t] = 0
    BY <1>5 DEF Single
  <2>2. CASE r \notin Four
    <3>1. \A t \in Four : f[t] = 0
      BY <1>2, <2>1, <2>2
    <3>2. \A t \in Four : g[t] = 0
      BY <1>3, <1>4, <3>1
    <3>3. g[r] = 1 /\ \A t \in Places \ {r} : g[t] = 0
      BY <1>2, <2>1, <2>2, <3>2
    <3> QED  BY <3>3 DEF Single
  <2>3. CASE r \in Four
    <3>1. Sum(f) = 1
      <4>1. \A t \in Four \ {r} : f[t] = 0
        BY <1>2, <2>1
      <4> QED  BY <1>3, <2>1, <2>3, <4>1
    <3>2. PICK s \in Four : g[s] = 1 /\ \A t \in Four \ {s} : g[t] = 0
      BY <1>3, <1>4, <3>1
    <3>3. \A t \in Places \ Four : g[t] = 0
      BY <1>2, <2>1, <2>3
    <3>4. s \in Places /\ \A t \in Places \ {s} : g[t] = 0
      BY <1>2, <3>2, <3>3
    <3> QED  BY <3>2, <3>4 DEF Single
  <2> QED  BY <2>2, <2>3
<1>6. ASSUME Zero(f) PROVE Zero(g)
  <2>1. \A r \in Places : f[r] = 0
    BY <1>6 DEF Zero
  <2>2. \A r \in Four : g[r] = 0
    BY <1>2, <1>3, <1>4, <2>1
  <2> QED  BY <1>2, <2>1, <2>2 DEF Zero
<1> QED  BY <1>5, <1>6 DEF Keeps

\* The four buffers a tally is taken of.
Fours(q, o, a, w) ==
  q \in Seq(Elem) /\ o \in Seq(Op) /\ a \in Seq(Nat) /\ w \in [Lines -> Seq(Nat)]

\* What a tally shows.
LEMMA CountsShow ==
  ASSUME NEW q, NEW o, NEW a, NEW w, NEW id, Fours(q, o, a, w)
  PROVE  /\ Counts(q, o, a, w, id) \in Tallies
         /\ Counts(q, o, a, w, id)[InQueue] = NOf(q, Numbered(id))
         /\ Counts(q, o, a, w, id)[InOps] = NOf(o, Deferred(id))
         /\ Counts(q, o, a, w, id)[InAnswered] = NOf(a, Only(id))
         /\ \A l \in Lines : Counts(q, o, a, w, id)[Waits(l)] = NOf(w[l], Only(id))
<1> DEFINE Here(p) == CASE p[1] = "queue"    -> NOf(q, Numbered(id))
                        [] p[1] = "ops"      -> NOf(o, Deferred(id))
                        [] p[1] = "answered" -> NOf(a, Only(id))
                        [] p[1] = "pending"  -> NOf(w[p[2]], Only(id))
           f == Counts(q, o, a, w, id)
<1>1. /\ NOf(q, Numbered(id)) \in Nat /\ NOf(o, Deferred(id)) \in Nat
      /\ NOf(a, Only(id)) \in Nat /\ \A l \in Lines : NOf(w[l], Only(id)) \in Nat
  BY CountZero DEF Fours
<1>2. f = [p \in Places |-> Here(p)]
  BY DEF Counts
<1>3. /\ Here(InQueue) = NOf(q, Numbered(id))
      /\ Here(InOps) = NOf(o, Deferred(id))
      /\ Here(InAnswered) = NOf(a, Only(id))
      /\ \A l \in Lines : Here(Waits(l)) = NOf(w[l], Only(id))
  BY DEF InQueue, InOps, InAnswered, Waits
<1> HIDE DEF Here, f
<1>4. \A p \in Places : Here(p) \in Nat
  BY <1>1, <1>3, PlacesAre
<1>5. f \in Tallies /\ \A p \in Places : f[p] = Here(p)
  BY <1>2, <1>4 DEF Tallies
<1> QED  BY <1>3, <1>5, PlacesAre DEF f

\* A step that moves demands between the four buffers of a line.
LEMMA StepMoves ==
  ASSUME L1Typed, L1Typed', NEW id, NEW l \in Lines,
         \A x \in Lines \ {l} : pending'[x] = pending[x],
         NOf(queue', Numbered(id)) + NOf(ops', Deferred(id)) + NOf(answered', Only(id)) + NOf(pending'[l], Only(id))
           = NOf(queue, Numbered(id)) + NOf(ops, Deferred(id)) + NOf(answered, Only(id)) + NOf(pending[l], Only(id))
  PROVE  Keeps(Tally(id), Tally(id)')
<1> DEFINE f == Counts(queue, ops, answered, pending, id)
           g == Counts(queue', ops', answered', pending', id)
<1>1. /\ f \in Tallies
      /\ f[InQueue] = NOf(queue, Numbered(id)) /\ f[InOps] = NOf(ops, Deferred(id))
      /\ f[InAnswered] = NOf(answered, Only(id))
      /\ \A x \in Lines : f[Waits(x)] = NOf(pending[x], Only(id))
  <2>1. Fours(queue, ops, answered, pending)
    BY DEF L1Typed, Fours
  <2> QED  BY <2>1, CountsShow
<1>2. /\ g \in Tallies
      /\ g[InQueue] = NOf(queue', Numbered(id)) /\ g[InOps] = NOf(ops', Deferred(id))
      /\ g[InAnswered] = NOf(answered', Only(id))
      /\ \A x \in Lines : g[Waits(x)] = NOf(pending'[x], Only(id))
  <2>1. Fours(queue', ops', answered', pending')
    BY DEF L1Typed, Fours
  <2> QED  BY <2>1, CountsShow
<1>3. Tally(id) = f /\ Tally(id)' = g
  BY DEF Tally
<1> HIDE DEF f, g
<1>4. /\ \A x \in Lines \ {l} : g[Waits(x)] = f[Waits(x)]
      /\ g[InQueue] + g[InOps] + g[InAnswered] + g[Waits(l)]
           = f[InQueue] + f[InOps] + f[InAnswered] + f[Waits(l)]
  BY <1>1, <1>2
<1>5. Keeps(f, g)
  BY <1>1, <1>2, <1>4, MoveKeeps
<1> QED  BY <1>3, <1>5

\* A step that leaves the four counts.
LEMMA StepLeaves ==
  ASSUME L1Typed, L1Typed', NEW id,
         NOf(queue', Numbered(id)) = NOf(queue, Numbered(id)),
         NOf(ops', Deferred(id)) = NOf(ops, Deferred(id)),
         answered' = answered, pending' = pending
  PROVE  Keeps(Tally(id), Tally(id)')
<1>1. Tally(id)' = Tally(id)
  BY DEF Tally, Counts
<1> QED  BY <1>1 DEF Keeps

\* A demand that a row takes from the queue or the deferred ones is answered or waits for
\* its line; a message that is no demand answers those that wait, or leaves them.
LEMMA RowMoves ==
  ASSUME L1Typed, NEW m \in Elem, processRequest(m),
         m.k \in CpuOps => ~isStall(L1Cell(st[m.line], m.k))
  PROVE  /\ m.line \in Lines /\ m.id \in Nat
         /\ m.k \in CpuOps =>
              \/ answered' = Append(answered, m.id) /\ pending' = pending
              \/ answered' = answered /\ pending' = [pending EXCEPT ![m.line] = Append(pending[m.line], m.id)]
         /\ m.k \notin CpuOps =>
              /\ m.id = 0
              /\ \/ answered' = answered /\ pending' = pending
                 \/ answered' = answered \o pending[m.line] /\ pending' = [pending EXCEPT ![m.line] = <<>>]
<1> DEFINE cell == L1Cell(st[m.line], m.k)
           hit == "Hit" \in cell.acts
<1>1. m.line \in Lines /\ m.id \in Nat /\ m.k \in Events /\ st[m.line] \in L1States
  BY ElemFields DEF L1Typed
<1>2. m.k \notin CpuOps => m.id = 0
  BY <1>1 DEF Elem
<1>3. /\ pending' = [pending EXCEPT ![m.line] =
           IF hit /\ FromBus(m) THEN <<>> ELSE IF Opens(cell) THEN Append(pending[m.line], m.id)
           ELSE pending[m.line]]
      /\ answered' = IF ~hit THEN answered
                     ELSE answered \o (IF FromBus(m) THEN pending[m.line] ELSE <<m.id>>)
  <2>1. cell.acts \cap {"GetS", "GetM"} # {} <=> Opens(cell)
    BY DEF Opens
  <2> HIDE DEF FromBus
  <2> QED  BY <2>1 DEF processRequest
<1>4. pending = [pending EXCEPT ![m.line] = pending[m.line]]
  BY <1>1 DEF L1Typed
<1>5. CASE m.k \in CpuOps
  <2>1. ~FromBus(m)
    BY <1>5 DEF FromBus
  <2>2. hit <=> ~Opens(cell)
    BY <1>1, <1>5, DemandCell
  <2>3. answered \o <<m.id>> = Append(answered, m.id)
    BY <1>1, AppendIsConcat DEF L1Typed
  <2> HIDE DEF cell, hit
  <2> QED  BY <1>1, <1>3, <1>4, <1>5, <2>1, <2>2, <2>3
<1>6. CASE m.k \notin CpuOps
  <2>1. ~Opens(cell)
    BY <1>1, <1>6, OtherCell
  <2>2. FromBus(m) \/ ~hit
    <3>1. CASE m.k = "Replacement"
      BY <1>1, <3>1, ReplacementCell
    <3>2. CASE m.k # "Replacement"
      BY <1>6, <3>2 DEF FromBus
    <3> QED  BY <3>1, <3>2
  <2> HIDE DEF cell, hit
  <2> QED  BY <1>1, <1>2, <1>3, <1>4, <1>6, <2>1, <2>2
<1> QED  BY <1>5, <1>6

\* Deferred messages that stay the same are as many.
LEMMA SameMessages ==
  ASSUME NEW s \in Seq(Op), NEW t \in Seq(Op), DOMAIN t = DOMAIN s,
         \A o \in DOMAIN s : t[o].msg = s[o].msg, NEW id
  PROVE  NOf(t, Deferred(id)) = NOf(s, Deferred(id))
<1>1. \A o \in DOMAIN s : s[o] \in Op /\ t[o] \in Op
  BY ElementOfSeq, LenProperties
<1>2. \A o \in DOMAIN s : t[o] \in Deferred(id) <=> s[o] \in Deferred(id)
  BY <1>1 DEF Deferred
<1>3. Positions(t, Deferred(id)) = Positions(s, Deferred(id))
  BY <1>2 DEF Positions
<1> QED  BY <1>3 DEF NOf

\* A step that loses and repeats no demand, or drops one it had taken.
LEMMA KeepsConserved ==
  ASSUME Conserved, issued' = issued, dropped \subseteq dropped',
         \A id \in Nat \ {0} : \/ Keeps(Tally(id), Tally(id)')
                               \/ id <= issued /\ id \in dropped'
  PROVE  Conserved'
<1> SUFFICES ASSUME NEW id \in Nat \ {0}
             PROVE  IF id <= issued THEN id \in dropped' \/ Single(Tally(id)') ELSE Zero(Tally(id)')
  BY DEF Conserved, Single, Zero, Places
<1>1. IF id <= issued THEN id \in dropped \/ Single(Tally(id)) ELSE Zero(Tally(id))
  BY DEF Conserved
<1>2. CASE Keeps(Tally(id), Tally(id)')
  BY <1>1, <1>2 DEF Keeps
<1>3. CASE id <= issued /\ id \in dropped'
  BY <1>3
<1> QED  BY <1>2, <1>3

\* The intake puts the next demand into the queue, or none.
LEMMA IntakeCounts ==
  ASSUME L1Typed, Intake
  PROVE  \/ issued' = issued /\ \A id \in Nat \ {0} : NOf(queue', Numbered(id)) = NOf(queue, Numbered(id))
         \/ issued' = issued + 1 /\ \A id \in Nat \ {0} :
              NOf(queue', Numbered(id)) = NOf(queue, Numbered(id)) + (IF id = issued + 1 THEN 1 ELSE 0)
<1>t. queue \in Seq(Elem) /\ issued \in Nat /\ toIssue \in Seq(Lines)
  BY DEF L1Typed
<1>1. PICK q, r \in Seq(Elem) : BusTaken(q) /\ CoreTaken(q, r) /\ VictimTaken(r)
  BY IntakeParts
<1>2. \A id \in Nat \ {0} : NOf(q, Numbered(id)) = NOf(queue, Numbered(id))
  <2>1. CASE q = queue
    BY <2>1
  <2>2. ASSUME NEW l \in Lines, NEW k \in BusKinds \cup Snooped, NEW p \in 0 .. Len(queue),
               q = InsertAt(queue, p, Element(k, l, 0, TRUE))
        PROVE  \A id \in Nat \ {0} : NOf(q, Numbered(id)) = NOf(queue, Numbered(id))
    <3> DEFINE e == Element(k, l, 0, TRUE)
    <3>1. e \in Elem /\ e.id = 0
      BY ElementTyped DEF Element
    <3>2. q = InsertAt(queue, p, e)
      BY <2>2
    <3> HIDE DEF e
    <3>3. \A S : NOf(InsertAt(queue, p, e), S) = NOf(queue, S) + (IF e \in S THEN 1 ELSE 0)
      BY <1>t, <3>1, InsertFacts
    <3>4. \A id \in Nat \ {0} : e \notin Numbered(id)
      BY <3>1 DEF Numbered
    <3>5. \A id : NOf(queue, Numbered(id)) \in Nat
      BY <1>t, CountZero
    <3> QED  BY <3>2, <3>3, <3>4, <3>5
  <2> QED  BY <1>1, <2>1, <2>2 DEF BusTaken
<1>3. \/ issued' = issued /\ r = q
      \/ issued' = issued + 1 /\ \A id \in Nat \ {0} :
           NOf(r, Numbered(id)) = NOf(q, Numbered(id)) + (IF id = issued + 1 THEN 1 ELSE 0)
  <2>2. ASSUME NEW l \in Lines, NEW k \in CpuOps, r = Append(q, Element(k, l, issued + 1, FALSE))
        PROVE  \A id \in Nat \ {0} :
                 NOf(r, Numbered(id)) = NOf(q, Numbered(id)) + (IF id = issued + 1 THEN 1 ELSE 0)
    <3> DEFINE e == Element(k, l, issued + 1, FALSE)
    <3>1. issued + 1 \in Nat /\ issued + 1 # 0
      BY <1>t
    <3>2. e \in Elem /\ e.id = issued + 1
      BY <3>1, ElementTyped DEF Element
    <3>3. r = Append(q, e)
      BY <2>2
    <3> HIDE DEF e
    <3>4. \A S : NOf(Append(q, e), S) = NOf(q, S) + (IF e \in S THEN 1 ELSE 0)
      BY <1>1, <3>2, AppendFacts
    <3>5. \A id \in Nat \ {0} : e \in Numbered(id) <=> id = issued + 1
      BY <3>2 DEF Numbered
    <3> QED  BY <3>3, <3>4, <3>5
  <2> QED  BY <1>1, <2>2 DEF CoreTaken
<1>4. \A id \in Nat \ {0} : NOf(queue', Numbered(id)) = NOf(r, Numbered(id))
  <2>1. CASE toIssue = <<>>
    BY <1>1, <2>1 DEF VictimTaken
  <2>2. CASE toIssue # <<>>
    <3> DEFINE e == Element("Replacement", Head(toIssue), 0, FALSE)
    <3>1. Head(toIssue) \in Lines
      BY <1>t, <2>2, HeadTailProperties
    <3>2. e \in Elem /\ e.id = 0
      BY <3>1, ElementTyped DEF Element
    <3>3. queue' = Append(r, e)
      BY <1>1, <2>2 DEF VictimTaken
    <3> HIDE DEF e
    <3>4. \A S : NOf(Append(r, e), S) = NOf(r, S) + (IF e \in S THEN 1 ELSE 0)
      BY <1>1, <3>2, AppendFacts
    <3>5. \A id \in Nat \ {0} : e \notin Numbered(id)
      BY <3>2 DEF Numbered
    <3>6. \A id : NOf(r, Numbered(id)) \in Nat
      BY <1>1, CountZero
    <3> QED  BY <3>3, <3>4, <3>5, <3>6
  <2> QED  BY <2>1, <2>2
<1> QED  BY <1>2, <1>3, <1>4

\* An intake gives each new demand one place, and moves no other.
LEMMA ConserveIntake ==
  ASSUME L1Typed, L1Typed', Conserved, Intake
  PROVE  Conserved'
<1>1. /\ answered' = answered /\ pending' = pending /\ dropped' = dropped
      /\ DOMAIN ops' = DOMAIN ops /\ \A o \in DOMAIN ops : ops'[o].msg = ops[o].msg
  BY FlushKeepsMessages DEF Intake
<1>2. \A id : NOf(ops', Deferred(id)) = NOf(ops, Deferred(id))
  BY <1>1, SameMessages DEF L1Typed
<1>3. \A id : NOf(queue', Numbered(id)) = NOf(queue, Numbered(id)) => Keeps(Tally(id), Tally(id)')
  BY <1>1, <1>2, StepLeaves
<1>4. CASE issued' = issued /\ \A id \in Nat \ {0} : NOf(queue', Numbered(id)) = NOf(queue, Numbered(id))
  BY <1>1, <1>3, <1>4, KeepsConserved
<1>5. CASE issued' = issued + 1 /\ \A id \in Nat \ {0} :
             NOf(queue', Numbered(id)) = NOf(queue, Numbered(id)) + (IF id = issued + 1 THEN 1 ELSE 0)
  <2>0. issued \in Nat
    BY DEF L1Typed
  <2>n. PICK n \in Nat \ {0} : n = issued + 1
    BY <2>0
  <2>1. \A id : NOf(queue, Numbered(id)) \in Nat
    BY CountZero DEF L1Typed
  <2>2. \A id \in Nat \ {0} : id # issued + 1 => Keeps(Tally(id), Tally(id)')
    BY <1>3, <1>5, <2>1
  <2>3. Zero(Tally(n))
    BY <2>0, <2>n DEF Conserved
  <2>4. Single(Tally(n)')
    <3> DEFINE f == Counts(queue, ops, answered, pending, n)
               g == Counts(queue', ops', answered', pending', n)
    <3>1. /\ f[InQueue] = NOf(queue, Numbered(n)) /\ f[InOps] = NOf(ops, Deferred(n))
          /\ f[InAnswered] = NOf(answered, Only(n))
          /\ \A x \in Lines : f[Waits(x)] = NOf(pending[x], Only(n))
      <4>1. Fours(queue, ops, answered, pending)
        BY DEF L1Typed, Fours
      <4> QED  BY <4>1, CountsShow
    <3>2. /\ g[InQueue] = NOf(queue', Numbered(n)) /\ g[InOps] = NOf(ops', Deferred(n))
          /\ g[InAnswered] = NOf(answered', Only(n))
          /\ \A x \in Lines : g[Waits(x)] = NOf(pending'[x], Only(n))
      <4>1. Fours(queue', ops', answered', pending')
        BY DEF L1Typed, Fours
      <4> QED  BY <4>1, CountsShow
    <3>3. NOf(queue', Numbered(n)) = NOf(queue, Numbered(n)) + 1
      BY <1>5, <2>n
    <3>4. Zero(f)
      BY <2>3 DEF Tally
    <3> HIDE DEF f, g
    <3>5. g[InQueue] = 1 /\ \A p \in Places \ {InQueue} : g[p] = 0
      BY <1>1, <1>2, <3>1, <3>2, <3>3, <3>4, PlacesAre DEF Zero
    <3>6. Single(g)
      BY <3>5, PlacesAre DEF Single
    <3> QED  BY <3>6 DEF g, Tally, Single, Places
  <2> SUFFICES ASSUME NEW id \in Nat \ {0}
               PROVE  IF id <= issued + 1 THEN id \in dropped \/ Single(Tally(id)') ELSE Zero(Tally(id)')
    BY <1>1, <1>5 DEF Conserved, Single, Zero, Places
  <2>5. CASE id = n
    BY <2>n, <2>4, <2>5
  <2>6. CASE id # n
    <3>1. Keeps(Tally(id), Tally(id)')
      BY <2>n, <2>2, <2>6
    <3>2. IF id <= issued THEN id \in dropped \/ Single(Tally(id)) ELSE Zero(Tally(id))
      BY DEF Conserved
    <3>3. id <= issued + 1 <=> id <= issued
      BY <2>0, <2>n, <2>6
    <3> QED  BY <3>1, <3>2, <3>3 DEF Keeps
  <2> QED  BY <2>5, <2>6
<1> QED  BY <1>4, <1>5, IntakeCounts

\* Counts are numbers.
LEMMA CountsNat ==
  ASSUME L1Typed, NEW id
  PROVE  /\ NOf(queue, Numbered(id)) \in Nat /\ NOf(ops, Deferred(id)) \in Nat
         /\ NOf(answered, Only(id)) \in Nat /\ \A l \in Lines : NOf(pending[l], Only(id)) \in Nat
<1>1. /\ queue \in Seq(Elem) /\ ops \in Seq(Op) /\ answered \in Seq(Nat)
      /\ \A l \in Lines : pending[l] \in Seq(Nat)
  BY DEF L1Typed
<1> QED  BY <1>1, CountZero

\* What one buffer gives up and another gets leaves the sum.
LEMMA Sums ==
  \A q, o, a, b, d, a2, b2 \in Nat : a2 + b2 = a + b + d =>
    (q - d) + o + a2 + b2 = q + o + a + b /\ q + (o - d) + a2 + b2 = q + o + a + b
OBVIOUS

\* Taking message i out of the queue, or deferred message o out of the array, counts it
\* once less.
LEMMA TakenCounts ==
  ASSUME L1Typed, NEW id
  PROVE  /\ \A i \in DOMAIN queue : NOf(Erase(queue, i), Numbered(id)) =
              NOf(queue, Numbered(id)) - (IF queue[i].id = id THEN 1 ELSE 0)
         /\ \A o \in DOMAIN ops : NOf(Erase(ops, o), Deferred(id)) =
              NOf(ops, Deferred(id)) - (IF ops[o].msg.id = id THEN 1 ELSE 0)
<1>1. queue \in Seq(Elem) /\ ops \in Seq(Op)
  BY DEF L1Typed
<1>2. \A i \in DOMAIN queue : queue[i] \in Elem
  BY <1>1, ElementOfSeq, LenProperties
<1>3. \A o \in DOMAIN ops : ops[o] \in Op
  BY <1>1, ElementOfSeq, LenProperties
<1>4. ASSUME NEW i \in DOMAIN queue
      PROVE  NOf(Erase(queue, i), Numbered(id)) = NOf(queue, Numbered(id)) - (IF queue[i].id = id THEN 1 ELSE 0)
  <2>1. queue[i] \in Numbered(id) <=> queue[i].id = id
    BY <1>2 DEF Numbered
  <2>2. \A S : NOf(Erase(queue, i), S) = NOf(queue, S) - (IF queue[i] \in S THEN 1 ELSE 0)
    BY <1>1, EraseFacts
  <2> QED  BY <2>1, <2>2
<1>5. ASSUME NEW o \in DOMAIN ops
      PROVE  NOf(Erase(ops, o), Deferred(id)) = NOf(ops, Deferred(id)) - (IF ops[o].msg.id = id THEN 1 ELSE 0)
  <2>1. ops[o] \in Deferred(id) <=> ops[o].msg.id = id
    BY <1>3 DEF Deferred
  <2>2. \A S : NOf(Erase(ops, o), S) = NOf(ops, S) - (IF ops[o] \in S THEN 1 ELSE 0)
    BY <1>1, EraseFacts
  <2> QED  BY <2>1, <2>2
<1> QED  BY <1>4, <1>5

\* A demand put back stays in the queue, or is dropped.
LEMMA ConservePutBack ==
  ASSUME L1Typed, L1Typed', Conserved, AdmitFails
  PROVE  Conserved'
<1>1. PICK i \in FirstReady :
        \/ queue' = Append(Erase(queue, i), queue[i]) /\ dropped' = dropped
        \/ queue' = Erase(queue, i) /\ dropped' = dropped \cup {queue[i].id}
  BY PutBackParts
<1>2. /\ answered' = answered /\ pending' = pending /\ issued' = issued
      /\ DOMAIN ops' = DOMAIN ops /\ \A o \in DOMAIN ops : ops'[o].msg = ops[o].msg
  BY CycleStartsKeepsMessages DEF AdmitFails
<1>3. i \in DOMAIN queue /\ queue[i] \in Elem /\ queue \in Seq(Elem)
  BY Taken DEF L1Typed
<1>4. \A id : NOf(ops', Deferred(id)) = NOf(ops, Deferred(id))
  BY <1>2, SameMessages DEF L1Typed
<1>5. \A id : /\ NOf(Erase(queue, i), Numbered(id)) =
                   NOf(queue, Numbered(id)) - (IF queue[i].id = id THEN 1 ELSE 0)
              /\ NOf(queue, Numbered(id)) \in Nat
  BY <1>3, TakenCounts, CountZero
<1>6. \A id : NOf(queue', Numbered(id)) = NOf(queue, Numbered(id)) => Keeps(Tally(id), Tally(id)')
  BY <1>2, <1>4, StepLeaves
<1>7. CASE queue' = Append(Erase(queue, i), queue[i]) /\ dropped' = dropped
  <2>1. Erase(queue, i) \in Seq(Elem)
    BY <1>3, EraseFacts
  <2>2. \A S : NOf(Append(Erase(queue, i), queue[i]), S) =
                 NOf(Erase(queue, i), S) + (IF queue[i] \in S THEN 1 ELSE 0)
    BY <1>3, <2>1, AppendFacts
  <2>3. \A id : queue[i] \in Numbered(id) <=> queue[i].id = id
    BY <1>3 DEF Numbered
  <2>4. \A id : NOf(queue', Numbered(id)) = NOf(queue, Numbered(id))
    BY <1>5, <1>7, <2>2, <2>3
  <2> QED  BY <1>2, <1>6, <1>7, <2>4, KeepsConserved
<1>8. CASE queue' = Erase(queue, i) /\ dropped' = dropped \cup {queue[i].id}
  <2>1. ASSUME NEW id \in Nat \ {0}, id # queue[i].id PROVE Keeps(Tally(id), Tally(id)')
    <3>1. NOf(queue', Numbered(id)) = NOf(queue, Numbered(id))
      BY <1>5, <1>8, <2>1
    <3> QED  BY <1>6, <3>1
  <2>2. ASSUME NEW id \in Nat \ {0}, id = queue[i].id PROVE id <= issued
    <3>1. SUFFICES ASSUME ~(id <= issued) PROVE FALSE
      OBVIOUS
    <3>2. Zero(Tally(id))
      BY <3>1 DEF Conserved
    <3>3. Tally(id)[InQueue] = NOf(queue, Numbered(id))
      <4>1. Fours(queue, ops, answered, pending)
        BY DEF L1Typed, Fours
      <4> QED  BY <4>1, CountsShow DEF Tally
    <3>4. NOf(queue, Numbered(id)) = 0
      BY <3>2, <3>3, PlacesAre DEF Zero
    <3>5. queue[i] \notin Numbered(id)
      BY <1>3, <3>4, CountZero
    <3> QED  BY <1>3, <2>2, <3>5 DEF Numbered
  <2>3. \A id \in Nat \ {0} : Keeps(Tally(id), Tally(id)') \/ (id <= issued /\ id \in dropped')
    BY <1>8, <2>1, <2>2
  <2> QED  BY <1>2, <1>8, <2>3, KeepsConserved
<1> QED  BY <1>1, <1>7, <1>8

\* Deferring moves a demand from the queue to the array.
LEMMA ConserveDefer ==
  ASSUME L1Typed, L1Typed', Conserved, Defer
  PROVE  Conserved'
<1>1. PICK i \in FirstReady :
        /\ queue' = Erase(queue, i)
        /\ ops' \in Seq(Op) /\ Len(ops') = Len(ops) + 1
        /\ \A o \in DOMAIN ops : ops'[o].msg = ops[o].msg
        /\ ops'[Len(ops) + 1].msg = queue[i]
  BY DeferParts
<1>2. answered' = answered /\ pending' = pending /\ issued' = issued /\ dropped' = dropped
  BY DEF Defer
<1>3. i \in DOMAIN queue /\ queue[i] \in Elem /\ ops \in Seq(Op) /\ queue[i].line \in Lines
  BY Taken, ElemFields DEF L1Typed
<1>4. \A id : NOf(ops', Deferred(id)) = NOf(ops, Deferred(id)) + (IF queue[i].id = id THEN 1 ELSE 0)
  <2> TAKE id
  <2> DEFINE e == ops'[Len(ops) + 1]
             w == Append(ops, e)
  <2>1. /\ Len(ops) \in Nat /\ DOMAIN ops = 1 .. Len(ops)
        /\ DOMAIN ops' = 1 .. (Len(ops) + 1)
    BY <1>1, <1>3, LenProperties
  <2>2. e \in Op /\ e.msg = queue[i]
    BY <1>1, <2>1, ElementOfSeq
  <2> HIDE DEF e
  <2>3. /\ w \in Seq(Op) /\ Len(w) = Len(ops) + 1
        /\ \A j \in DOMAIN w : w[j] = IF j <= Len(ops) THEN ops[j] ELSE e
        /\ \A S : NOf(w, S) = NOf(ops, S) + (IF e \in S THEN 1 ELSE 0)
    BY <1>3, <2>2, AppendFacts
  <2>4. DOMAIN w = 1 .. (Len(ops) + 1)
    BY <2>3, LenProperties
  <2> HIDE DEF w
  <2>5. \A j \in DOMAIN w : ops'[j].msg = w[j].msg
    BY <1>1, <2>1, <2>2, <2>3, <2>4
  <2>6. NOf(ops', Deferred(id)) = NOf(w, Deferred(id))
    BY <1>1, <2>1, <2>3, <2>4, <2>5, SameMessages
  <2>7. e \in Deferred(id) <=> queue[i].id = id
    BY <2>2 DEF Deferred
  <2> QED  BY <2>3, <2>6, <2>7
<1>5. ASSUME NEW id \in Nat \ {0} PROVE Keeps(Tally(id), Tally(id)')
  <2>1. /\ NOf(queue', Numbered(id)) = NOf(queue, Numbered(id)) - (IF queue[i].id = id THEN 1 ELSE 0)
        /\ NOf(ops', Deferred(id)) = NOf(ops, Deferred(id)) + (IF queue[i].id = id THEN 1 ELSE 0)
    BY <1>1, <1>3, <1>4, TakenCounts
  <2>2. NOf(queue, Numbered(id)) \in Nat /\ NOf(ops, Deferred(id)) \in Nat
        /\ NOf(answered, Only(id)) \in Nat /\ NOf(pending[queue[i].line], Only(id)) \in Nat
    BY <1>3, CountsNat
  <2>3. NOf(queue', Numbered(id)) + NOf(ops', Deferred(id)) + NOf(answered', Only(id))
          + NOf(pending'[queue[i].line], Only(id))
        = NOf(queue, Numbered(id)) + NOf(ops, Deferred(id)) + NOf(answered, Only(id))
          + NOf(pending[queue[i].line], Only(id))
    BY <1>2, <2>1, <2>2
  <2> QED  BY <1>2, <1>3, <2>3, StepMoves
<1> QED  BY <1>2, <1>5, KeepsConserved

\* What a row does to the demands that wait and those that are answered.
LEMMA RowCounts ==
  ASSUME L1Typed, NEW m \in Elem, processRequest(m),
         m.k \in CpuOps => ~isStall(L1Cell(st[m.line], m.k)),
         NEW id \in Nat \ {0}
  PROVE  /\ m.line \in Lines
         /\ \A x \in Lines \ {m.line} : pending'[x] = pending[x]
         /\ NOf(answered', Only(id)) + NOf(pending'[m.line], Only(id)) =
              NOf(answered, Only(id)) + NOf(pending[m.line], Only(id)) + (IF m.id = id THEN 1 ELSE 0)
         /\ NOf(answered', Only(id)) \in Nat /\ NOf(pending'[m.line], Only(id)) \in Nat
<1>1. /\ m.line \in Lines /\ m.id \in Nat
      /\ m.k \in CpuOps =>
           \/ answered' = Append(answered, m.id) /\ pending' = pending
           \/ answered' = answered /\ pending' = [pending EXCEPT ![m.line] = Append(pending[m.line], m.id)]
      /\ m.k \notin CpuOps =>
           /\ m.id = 0
           /\ \/ answered' = answered /\ pending' = pending
              \/ answered' = answered \o pending[m.line] /\ pending' = [pending EXCEPT ![m.line] = <<>>]
  BY RowMoves
<1>2. PICK l \in Lines, n \in Nat : l = m.line /\ n = m.id
  BY <1>1
<1>3. answered \in Seq(Nat) /\ pending \in [Lines -> Seq(Nat)] /\ pending[l] \in Seq(Nat)
  BY DEF L1Typed
<1>4. /\ NOf(answered, Only(id)) \in Nat /\ NOf(pending[l], Only(id)) \in Nat
      /\ Append(answered, n) \in Seq(Nat) /\ Append(pending[l], n) \in Seq(Nat)
      /\ NOf(Append(answered, n), Only(id)) = NOf(answered, Only(id)) + (IF n = id THEN 1 ELSE 0)
      /\ NOf(Append(pending[l], n), Only(id)) = NOf(pending[l], Only(id)) + (IF n = id THEN 1 ELSE 0)
      /\ NOf(answered \o pending[l], Only(id)) = NOf(answered, Only(id)) + NOf(pending[l], Only(id))
      /\ NOf(<<>>, Only(id)) = 0
  <2>1. n \in Only(id) <=> n = id
    BY DEF Only
  <2>2. NOf(answered, Only(id)) \in Nat /\ NOf(pending[l], Only(id)) \in Nat
    BY <1>3, CountZero
  <2>3. \A s \in Seq(Nat) : /\ Append(s, n) \in Seq(Nat)
                            /\ NOf(Append(s, n), Only(id)) = NOf(s, Only(id)) + (IF n \in Only(id) THEN 1 ELSE 0)
    BY CountAppend
  <2>4. NOf(answered \o pending[l], Only(id)) = NOf(answered, Only(id)) + NOf(pending[l], Only(id))
    BY <1>3, CountConcat
  <2> QED  BY <1>3, <2>1, <2>2, <2>3, <2>4, CountNone
<1>5. \/ /\ NOf(answered', Only(id)) = NOf(answered, Only(id)) + (IF n = id THEN 1 ELSE 0)
         /\ NOf(pending'[l], Only(id)) = NOf(pending[l], Only(id)) /\ pending' = pending
      \/ /\ NOf(answered', Only(id)) = NOf(answered, Only(id))
         /\ NOf(pending'[l], Only(id)) = NOf(pending[l], Only(id)) + (IF n = id THEN 1 ELSE 0)
         /\ \A x \in Lines \ {l} : pending'[x] = pending[x]
      \/ /\ NOf(answered', Only(id)) = NOf(answered, Only(id)) + NOf(pending[l], Only(id)) /\ n # id
         /\ NOf(pending'[l], Only(id)) = 0
         /\ \A x \in Lines \ {l} : pending'[x] = pending[x]
      \/ n # id /\ answered' = answered /\ pending' = pending
  <2>1. \A v : [pending EXCEPT ![l] = v][l] = v /\ \A x \in Lines \ {l} : [pending EXCEPT ![l] = v][x] = pending[x]
    BY <1>3
  <2>2. CASE answered' = Append(answered, n) /\ pending' = pending
    BY <1>4, <2>2
  <2>3. CASE answered' = answered /\ pending' = [pending EXCEPT ![l] = Append(pending[l], n)]
    BY <1>4, <2>1, <2>3
  <2>4. CASE n = 0 /\ answered' = answered \o pending[l] /\ pending' = [pending EXCEPT ![l] = <<>>]
    BY <1>4, <2>1, <2>4
  <2>5. CASE n = 0 /\ answered' = answered /\ pending' = pending
    BY <2>5
  <2> QED  BY <1>1, <1>2, <2>2, <2>3, <2>4, <2>5
<1>6. /\ \A x \in Lines \ {l} : pending'[x] = pending[x]
      /\ NOf(answered', Only(id)) \in Nat /\ NOf(pending'[l], Only(id)) \in Nat
      /\ NOf(answered', Only(id)) + NOf(pending'[l], Only(id)) =
           NOf(answered, Only(id)) + NOf(pending[l], Only(id)) + (IF n = id THEN 1 ELSE 0)
  BY <1>4, <1>5
<1> QED  BY <1>1, <1>2, <1>6

\* Handling a message moves its demand to one other place, and no other demand.
LEMMA ConserveProcess ==
  ASSUME L1Typed, L1Typed', Conserved, Process
  PROVE  Conserved'
<1>1. PICK i \in FirstReady : queue' = Erase(queue, i) /\ processRequest(queue[i])
  BY DEF Process
<1>2. ops' = ops /\ issued' = issued /\ dropped' = dropped
  BY DEF Process
<1>3. /\ i \in DOMAIN queue /\ queue[i] \in Elem
      /\ queue[i].k \in CpuOps => ~isStall(L1Cell(st[queue[i].line], queue[i].k))
  BY Taken
<1>4. ASSUME NEW id \in Nat \ {0} PROVE Keeps(Tally(id), Tally(id)')
  <2>1. NOf(queue', Numbered(id)) = NOf(queue, Numbered(id)) - (IF queue[i].id = id THEN 1 ELSE 0)
    BY <1>1, <1>3, TakenCounts
  <2>2. NOf(queue, Numbered(id)) \in Nat /\ NOf(ops, Deferred(id)) \in Nat
    BY CountZero DEF L1Typed
  <2>3. PICK m \in Elem : m = queue[i]
    BY <1>3
  <2>4. /\ m.line \in Lines
        /\ \A x \in Lines \ {m.line} : pending'[x] = pending[x]
        /\ NOf(answered', Only(id)) + NOf(pending'[m.line], Only(id)) =
             NOf(answered, Only(id)) + NOf(pending[m.line], Only(id)) + (IF m.id = id THEN 1 ELSE 0)
        /\ NOf(answered', Only(id)) \in Nat /\ NOf(pending'[m.line], Only(id)) \in Nat
    BY <1>1, <1>3, <2>3, RowCounts
  <2>5. NOf(answered, Only(id)) \in Nat /\ NOf(pending[m.line], Only(id)) \in Nat
    BY <2>4, CountsNat
  <2>d. PICK d \in Nat : d = IF m.id = id THEN 1 ELSE 0
    OBVIOUS
  <2>e. /\ NOf(queue', Numbered(id)) = NOf(queue, Numbered(id)) - d
        /\ NOf(ops', Deferred(id)) = NOf(ops, Deferred(id))
        /\ NOf(answered', Only(id)) + NOf(pending'[m.line], Only(id)) =
             NOf(answered, Only(id)) + NOf(pending[m.line], Only(id)) + d
    BY <1>2, <2>1, <2>3, <2>4, <2>d
  <2>6. NOf(queue', Numbered(id)) + NOf(ops', Deferred(id)) + NOf(answered', Only(id))
          + NOf(pending'[m.line], Only(id))
        = NOf(queue, Numbered(id)) + NOf(ops, Deferred(id)) + NOf(answered, Only(id))
          + NOf(pending[m.line], Only(id))
    <3>1. NOf(answered', Only(id)) \in Nat /\ NOf(pending'[m.line], Only(id)) \in Nat
      BY <2>4
    <3>2. (NOf(queue, Numbered(id)) - d) + NOf(ops, Deferred(id)) + NOf(answered', Only(id))
            + NOf(pending'[m.line], Only(id))
          = NOf(queue, Numbered(id)) + NOf(ops, Deferred(id)) + NOf(answered, Only(id))
            + NOf(pending[m.line], Only(id))
      BY <2>2, <2>5, <2>e, <3>1, Sums
    <3> QED  BY <2>e, <3>2
  <2> QED  BY <2>4, <2>6, StepMoves
<1> QED  BY <1>2, <1>4, KeepsConserved

\* An access that is due moves its demand on, or a stalled message back to the queue.
LEMMA ConserveFire ==
  ASSUME L1Typed, L1Typed', Conserved, pipelineFire
  PROVE  Conserved'
<1>1. PICK o \in DOMAIN ops :
        /\ ops[o].msg \in Elem /\ ops' = Erase(ops, o)
        /\ \/ /\ isStall(L1Cell(st[ops[o].msg.line], ops[o].msg.k))
              /\ queue' = Append(queue, [ops[o].msg EXCEPT !.ready = FALSE])
              /\ UNCHANGED <<st, reg, toIssue, owed, pending, answered, served>>
           \/ /\ ~isStall(L1Cell(st[ops[o].msg.line], ops[o].msg.k))
              /\ queue' = queue /\ processRequest(ops[o].msg)
  BY FireParts
<1>2. issued' = issued /\ dropped' = dropped
  BY DEF pipelineFire
<1>3. PICK m \in Elem : m = ops[o].msg
  BY <1>1
<1>4. \/ queue' = Append(queue, [m EXCEPT !.ready = FALSE]) /\ pending' = pending /\ answered' = answered
      \/ queue' = queue /\ processRequest(m) /\ ~isStall(L1Cell(st[m.line], m.k))
  BY <1>1, <1>3
<1>5. m.line \in Lines /\ queue \in Seq(Elem)
  BY ElemFields DEF L1Typed
<1>6. ASSUME NEW id \in Nat \ {0} PROVE Keeps(Tally(id), Tally(id)')
  <2>1. NOf(ops', Deferred(id)) = NOf(ops, Deferred(id)) - (IF m.id = id THEN 1 ELSE 0)
    BY <1>1, <1>3, TakenCounts
  <2>2. /\ NOf(queue, Numbered(id)) \in Nat /\ NOf(ops, Deferred(id)) \in Nat
        /\ NOf(answered, Only(id)) \in Nat /\ NOf(pending[m.line], Only(id)) \in Nat
    BY <1>5, CountsNat
  <2>3. CASE queue' = Append(queue, [m EXCEPT !.ready = FALSE]) /\ pending' = pending /\ answered' = answered
    <3> DEFINE e == [m EXCEPT !.ready = FALSE]
    <3>1. e \in Elem /\ e.id = m.id
      <4>1. e \in Elem
        BY PutBackTyped
      <4>2. m \in [k : Events, line : Lines, id : Nat, ready : BOOLEAN]
        BY DEF Elem
      <4> QED  BY <4>1, <4>2
    <3>2. queue' = Append(queue, e)
      BY <2>3
    <3> HIDE DEF e
    <3>3. \A S : NOf(Append(queue, e), S) = NOf(queue, S) + (IF e \in S THEN 1 ELSE 0)
      BY <1>5, <3>1, AppendFacts
    <3>4. e \in Numbered(id) <=> m.id = id
      BY <3>1 DEF Numbered
    <3>5. NOf(queue', Numbered(id)) + NOf(ops', Deferred(id)) + NOf(answered', Only(id))
            + NOf(pending'[m.line], Only(id))
          = NOf(queue, Numbered(id)) + NOf(ops, Deferred(id)) + NOf(answered, Only(id))
            + NOf(pending[m.line], Only(id))
      BY <2>1, <2>2, <2>3, <3>2, <3>3, <3>4
    <3> QED  BY <1>5, <2>3, <3>5, StepMoves
  <2>4. CASE queue' = queue /\ processRequest(m) /\ ~isStall(L1Cell(st[m.line], m.k))
    <3>1. /\ \A x \in Lines \ {m.line} : pending'[x] = pending[x]
          /\ NOf(answered', Only(id)) + NOf(pending'[m.line], Only(id)) =
               NOf(answered, Only(id)) + NOf(pending[m.line], Only(id)) + (IF m.id = id THEN 1 ELSE 0)
          /\ NOf(answered', Only(id)) \in Nat /\ NOf(pending'[m.line], Only(id)) \in Nat
      BY <2>4, RowCounts
    <3>2. NOf(queue', Numbered(id)) + NOf(ops', Deferred(id)) + NOf(answered', Only(id))
            + NOf(pending'[m.line], Only(id))
          = NOf(queue, Numbered(id)) + NOf(ops, Deferred(id)) + NOf(answered, Only(id))
            + NOf(pending[m.line], Only(id))
      <4>1. PICK d \in Nat : d = IF m.id = id THEN 1 ELSE 0
        OBVIOUS
      <4>2. /\ NOf(ops', Deferred(id)) = NOf(ops, Deferred(id)) - d
            /\ NOf(queue', Numbered(id)) = NOf(queue, Numbered(id))
            /\ NOf(answered', Only(id)) + NOf(pending'[m.line], Only(id)) =
                 NOf(answered, Only(id)) + NOf(pending[m.line], Only(id)) + d
        BY <2>1, <2>4, <3>1, <4>1
      <4> QED  BY <2>2, <3>1, <4>1, <4>2, Sums
    <3> QED  BY <1>5, <3>1, <3>2, StepMoves
  <2> QED  BY <1>4, <2>3, <2>4
<1> QED  BY <1>2, <1>6, KeepsConserved

\* Nothing is anywhere before the first demand.
LEMMA ConserveInit == ASSUME Init PROVE Conserved
<1>1. /\ queue = <<>> /\ ops = <<>> /\ answered = <<>> /\ issued = 0
      /\ \A l \in Lines : pending[l] = <<>>
  BY DEF Init
<1>2. Fours(queue, ops, answered, pending)
  BY TypedInit DEF L1Typed, Fours
<1>3. ASSUME NEW id \in Nat \ {0} PROVE Zero(Tally(id))
  <2>1. /\ Tally(id)[InQueue] = NOf(queue, Numbered(id)) /\ Tally(id)[InOps] = NOf(ops, Deferred(id))
        /\ Tally(id)[InAnswered] = NOf(answered, Only(id))
        /\ \A l \in Lines : Tally(id)[Waits(l)] = NOf(pending[l], Only(id))
    BY <1>2, CountsShow DEF Tally
  <2>2. /\ Tally(id)[InQueue] = 0 /\ Tally(id)[InOps] = 0 /\ Tally(id)[InAnswered] = 0
        /\ \A l \in Lines : Tally(id)[Waits(l)] = 0
    BY <1>1, <2>1, CountNone
  <2> QED  BY <2>2, PlacesAre DEF Zero
<1> QED  BY <1>1, <1>3 DEF Conserved

\* Every step keeps each demand in its one place.
LEMMA ConserveStep ==
  ASSUME L1Typed, L1Typed', Conserved, [Next]_vars
  PROVE  Conserved'
<1>1. CASE EndCycle \/ UNCHANGED vars
  <2>1. /\ queue' = queue /\ answered' = answered /\ pending' = pending /\ issued' = issued /\ dropped' = dropped
        /\ DOMAIN ops' = DOMAIN ops /\ \A o \in DOMAIN ops : ops'[o].msg = ops[o].msg
    BY <1>1, CycleStartsKeepsMessages DEF EndCycle, vars
  <2>2. \A id : NOf(ops', Deferred(id)) = NOf(ops, Deferred(id))
    BY <2>1, SameMessages DEF L1Typed
  <2>3. \A id \in Nat \ {0} : Keeps(Tally(id), Tally(id)')
    BY <2>1, <2>2, StepLeaves
  <2> QED  BY <2>1, <2>3, KeepsConserved
<1> QED
  BY <1>1, ConserveIntake, ConservePutBack, ConserveDefer, ConserveProcess, ConserveFire DEF Next

\* A buffer with one of a set of messages has one position that holds it, and one with none
\* has no such position.
LEMMA OnePosition ==
  ASSUME NEW T, NEW s \in Seq(T), NEW S
  PROVE  /\ NOf(s, S) = 1 => \E i : Positions(s, S) = {i}
         /\ NOf(s, S) = 0 => Positions(s, S) = {}
<1>1. IsFiniteSet(Positions(s, S))
  BY PositionsFinite
<1> QED  BY <1>1, FS_Singleton, FS_EmptySet DEF NOf

\* A demand that is in one place, once, has one copy.
LEMMA OneCopy ==
  ASSUME L1Typed, NEW id, Single(Tally(id))
  PROVE  Cardinality(Copies(id)) = 1
<1> DEFINE Q == {j \in DOMAIN queue : queue[j].id = id}
           O == {o \in DOMAIN ops : ops[o].msg.id = id}
           A == {j \in DOMAIN answered : answered[j] = id}
           W(l) == {j \in DOMAIN pending[l] : pending[l][j] = id}
           f == Tally(id)
<1>1. Fours(queue, ops, answered, pending)
  BY DEF L1Typed, Fours
<1>2. /\ f[InQueue] = NOf(queue, Numbered(id)) /\ f[InOps] = NOf(ops, Deferred(id))
      /\ f[InAnswered] = NOf(answered, Only(id))
      /\ \A l \in Lines : f[Waits(l)] = NOf(pending[l], Only(id))
  BY <1>1, CountsShow DEF Tally
<1>3. /\ Q = Positions(queue, Numbered(id)) /\ O = Positions(ops, Deferred(id))
      /\ A = Positions(answered, Only(id)) /\ \A l \in Lines : W(l) = Positions(pending[l], Only(id))
  <2>1. /\ \A i \in DOMAIN queue : queue[i] \in Elem
        /\ \A o \in DOMAIN ops : ops[o] \in Op
    BY <1>1, ElementOfSeq, LenProperties DEF Fours
  <2>2. Q = Positions(queue, Numbered(id))
    BY <2>1 DEF Positions, Numbered
  <2>3. O = Positions(ops, Deferred(id))
    BY <2>1 DEF Positions, Deferred
  <2> QED  BY <2>2, <2>3 DEF Positions, Only
<1> HIDE DEF f
<1>4. /\ f[InQueue] = 1 => \E i : Q = {i}
      /\ f[InOps] = 1 => \E i : O = {i}
      /\ f[InAnswered] = 1 => \E i : A = {i}
      /\ \A l \in Lines : f[Waits(l)] = 1 => \E i : W(l) = {i}
      /\ f[InQueue] = 0 => Q = {}
      /\ f[InOps] = 0 => O = {}
      /\ f[InAnswered] = 0 => A = {}
      /\ \A l \in Lines : f[Waits(l)] = 0 => W(l) = {}
  <2>1. /\ queue \in Seq(Elem) /\ ops \in Seq(Op) /\ answered \in Seq(Nat)
        /\ \A l \in Lines : pending[l] \in Seq(Nat)
    BY <1>1 DEF Fours
  <2> HIDE DEF Q, O, A, W
  <2>2. (f[InQueue] = 1 => \E i : Q = {i}) /\ (f[InQueue] = 0 => Q = {})
    <3>1. /\ NOf(queue, Numbered(id)) = 1 => \E i : Positions(queue, Numbered(id)) = {i}
          /\ NOf(queue, Numbered(id)) = 0 => Positions(queue, Numbered(id)) = {}
      BY <2>1, OnePosition
    <3> QED  BY <1>2, <1>3, <3>1
  <2>3. (f[InOps] = 1 => \E i : O = {i}) /\ (f[InOps] = 0 => O = {})
    <3>1. /\ NOf(ops, Deferred(id)) = 1 => \E i : Positions(ops, Deferred(id)) = {i}
          /\ NOf(ops, Deferred(id)) = 0 => Positions(ops, Deferred(id)) = {}
      BY <2>1, OnePosition
    <3> QED  BY <1>2, <1>3, <3>1
  <2>4. (f[InAnswered] = 1 => \E i : A = {i}) /\ (f[InAnswered] = 0 => A = {})
    <3>1. /\ NOf(answered, Only(id)) = 1 => \E i : Positions(answered, Only(id)) = {i}
          /\ NOf(answered, Only(id)) = 0 => Positions(answered, Only(id)) = {}
      BY <2>1, OnePosition
    <3> QED  BY <1>2, <1>3, <3>1
  <2>5. ASSUME NEW l \in Lines
        PROVE  (f[Waits(l)] = 1 => \E i : W(l) = {i}) /\ (f[Waits(l)] = 0 => W(l) = {})
    <3>1. /\ NOf(pending[l], Only(id)) = 1 => \E i : Positions(pending[l], Only(id)) = {i}
          /\ NOf(pending[l], Only(id)) = 0 => Positions(pending[l], Only(id)) = {}
      BY <2>1, OnePosition
    <3> QED  BY <1>2, <1>3, <3>1
  <2> QED  BY <2>2, <2>3, <2>4, <2>5
<1>5. Copies(id) = {<<"queue", i>> : i \in Q} \cup {<<"ops", o>> : o \in O}
                   \cup (UNION {{<<l, i>> : i \in W(l)} : l \in Lines}) \cup {<<"answered", i>> : i \in A}
  BY Zenon DEF Copies
<1>6. PICK p \in Places : f[p] = 1 /\ \A q \in Places \ {p} : f[q] = 0
  BY DEF Single, f
<1>7. \A l \in Lines, k \in Lines : l # k => Waits(l) # Waits(k)
  BY DEF Waits
<1> HIDE DEF Q, O, A, W
<1>8. \E x : Copies(id) = {x}
  <2>1. CASE p = InQueue
    <3>1. O = {} /\ A = {} /\ \A l \in Lines : W(l) = {}
      BY <1>4, <1>6, <2>1, PlacesAre
    <3>2. PICK i : Q = {i}
      BY <1>4, <1>6, <2>1
    <3>3. Copies(id) = {<<"queue", i>>}
      BY <1>5, <3>1, <3>2
    <3> QED  BY <3>3
  <2>2. CASE p = InOps
    <3>1. Q = {} /\ A = {} /\ \A l \in Lines : W(l) = {}
      BY <1>4, <1>6, <2>2, PlacesAre
    <3>2. PICK i : O = {i}
      BY <1>4, <1>6, <2>2
    <3>3. Copies(id) = {<<"ops", i>>}
      BY <1>5, <3>1, <3>2
    <3> QED  BY <3>3
  <2>3. CASE p = InAnswered
    <3>1. Q = {} /\ O = {} /\ \A l \in Lines : W(l) = {}
      BY <1>4, <1>6, <2>3, PlacesAre
    <3>2. PICK i : A = {i}
      BY <1>4, <1>6, <2>3
    <3>3. Copies(id) = {<<"answered", i>>}
      BY <1>5, <3>1, <3>2
    <3> QED  BY <3>3
  <2>4. ASSUME NEW l \in Lines, p = Waits(l) PROVE \E x : Copies(id) = {x}
    <3>1. Q = {} /\ O = {} /\ A = {} /\ \A k \in Lines \ {l} : W(k) = {}
      BY <1>4, <1>6, <1>7, <2>4, PlacesAre
    <3>2. PICK i : W(l) = {i}
      BY <1>4, <1>6, <2>4
    <3>3. Copies(id) = {<<l, i>>}
      BY <1>5, <3>1, <3>2
    <3> QED  BY <3>3
  <2> QED  BY <1>6, <2>1, <2>2, <2>3, <2>4, PlacesAre
<1> QED  BY <1>8, FS_Singleton

\* A demand the controller has taken is queued, deferred, waiting for its line or answered,
\* and in one of these places only, unless it was dropped when no MSHR was free and the
\* queue was full: no row, deferral, put-back or answer loses or repeats one.
THEOREM DemandsAreConserved == Spec => []DemandConserved
<1>1. Init => L1Typed /\ Conserved
  BY TypedInit, ConserveInit
<1>2. L1Typed /\ Conserved /\ [Next]_vars => (L1Typed /\ Conserved)'
  BY TypedStep, ConserveStep
<1>3. L1Typed /\ Conserved => DemandConserved
  <2> SUFFICES ASSUME L1Typed, Conserved, NEW id \in (1 .. issued) \ dropped
               PROVE  Cardinality(Copies(id)) = 1
    BY DEF DemandConserved
  <2>1. id \in Nat \ {0} /\ id <= issued
    BY DEF L1Typed
  <2>2. Single(Tally(id))
    BY <2>1 DEF Conserved
  <2> QED  BY <2>2, OneCopy
<1> QED  BY <1>1, <1>2, <1>3, PTL DEF Spec
=============================================================================
