-------------------------- MODULE MemoryPathProofs ---------------------------
(***************************************************************************)
(* Proofs about the path between the LLC and the memory, for every set of  *)
(* lines, every arbiter, every latency and buffer size, and all three      *)
(* memories: a fetch is never lost, doubled or answered twice, and a read  *)
(* never overtakes an older write-back of its line.                        *)
(***************************************************************************)
EXTENDS MemoryPath, BufferLemmas

Reads      == [line : Lines, owner : Int, wb : {FALSE}, cycle : Int]
WriteBacks == [line : Lines, owner : Int, wb : {TRUE}, cycle : Int]
Msg        == Reads \cup WriteBacks
Fills      == [line : Lines, owner : Int]
Queued     == [m : Msg, wait : Nat]

\* The messages about line l.
ReadsOf(l)      == {m \in Reads : m.line = l}
WriteBacksOf(l) == {m \in WriteBacks : m.line = l}
FillsOf(l)      == {m \in Fills : m.line = l}
QueuedOf(S)     == {e \in Queued : e.m \in S}

LineStates == {"absent", "fetching", "present", "evicting"}

\* The types, with the wires: a message is on the lower one only after slot 0, on the
\* upper one only inside its slot.
TypeInv ==
  /\ line \in [Lines -> LineStates] /\ latest \in Int
  /\ txReq \in Seq(Reads) /\ txResp \in Seq(WriteBacks) /\ rxLLC \in Seq(Fills)
  /\ rxMem \in Seq(Msg) /\ memQ \in Seq(Queued) /\ dram \in Seq(Reads)
  /\ out \in Seq(Fills) /\ memTx \in Seq(Fills)
  /\ lower.held \in Seq(Msg) /\ Len(lower.held) <= 1
  /\ lower.slot \in 0 .. (ReqLatency - 1) /\ (lower.slot = 0 => lower.held = <<>>)
  /\ upper.held \in Seq(Fills) /\ Len(upper.held) <= 1 /\ upper.slot \in Int
  /\ upper.held # <<>> => upper.available /\ upper.slot \in 1 .. (RespLatency - 1)

\* How many reads, fills and write-backs of line l each buffer and each wire holds.
ReqReads(l)    == NOf(txReq, ReadsOf(l))
HeldReads(l)   == NOf(lower.held, ReadsOf(l))
RxReads(l)     == NOf(rxMem, ReadsOf(l))
QueuedReads(l) == NOf(memQ, QueuedOf(ReadsOf(l)))
DramReads(l)   == NOf(dram, ReadsOf(l))
OutFills(l)    == NOf(out, FillsOf(l))
TxFills(l)     == NOf(memTx, FillsOf(l))
WireFills(l)   == NOf(upper.held, FillsOf(l))
RxFills(l)     == NOf(rxLLC, FillsOf(l))
TxWBs(l)       == NOf(txResp, WriteBacksOf(l))
HeldWBs(l)     == NOf(lower.held, WriteBacksOf(l))
RxWBs(l)       == NOf(rxMem, WriteBacksOf(l))

\* How many reads and fills of line l are on the way.
WayDown(l)  == ReqReads(l) + HeldReads(l) + RxReads(l)
InMemory(l) == QueuedReads(l) + DramReads(l) + OutFills(l)
WayUp(l)    == TxFills(l) + WireFills(l) + RxFills(l)
OnTheWay(l) == WayDown(l) + InMemory(l) + WayUp(l)

Conserved(l) == OnTheWay(l) = (IF line[l] = "fetching" THEN 1 ELSE 0)

\* A write-back waits at the LLC only while its line is absent, once.
Waiting(l) ==
  /\ TxWBs(l) <= 1
  /\ TxWBs(l) > 0 => line[l] = "absent"

\* Past the arbiter no write-back of l is behind a read of l.
Sorted(l) ==
  /\ Ahead(memQ, QueuedOf(WriteBacksOf(l)), QueuedOf(ReadsOf(l)))
  /\ Ahead(rxMem, WriteBacksOf(l), ReadsOf(l))
InOrder(l) ==
  /\ Sorted(l)
  /\ QueuedReads(l) > 0 => RxWBs(l) = 0 /\ HeldWBs(l) = 0
  /\ RxReads(l) > 0 => HeldWBs(l) = 0

MemoryInv == TypeInv /\ \A l \in Lines : Conserved(l) /\ Waiting(l) /\ InOrder(l)

-----------------------------------------------------------------------------
\* The constants are numbers, and both latencies are 2 or more.
LEMMA Sizes ==
  /\ ReqLatency \in Nat /\ ReqLatency >= 2 /\ RespLatency \in Nat /\ RespLatency >= 2
  /\ MemLatency \in Nat /\ NCores \in Nat /\ LLC \in Int /\ Cores \subseteq Int
BY MemoryAssumption DEF LLC, Cores

\* The write-back taken back from a buffer leaves the others as they were.
LEMMA WithoutIsCut ==
  ASSUME NEW s, NEW i
  PROVE  Without(s, i) = Cut(s, i)
BY DEF Without, Cut

\* Reads and write-backs are told apart.
LEMMA Apart ==
  /\ \A l, k : ReadsOf(l) \cap WriteBacksOf(k) = {}
  /\ \A m \in Reads : m.cycle \in Int /\ m.line \in Lines /\ m.owner \in Int
  /\ \A m \in WriteBacks : m.cycle \in Int /\ m.line \in Lines /\ m.owner \in Int
BY DEF ReadsOf, WriteBacksOf, Reads, WriteBacks

\* The newest stamp is a number.
LEMMA StampNumber ==
  ASSUME TypeInv
  PROVE  Stamp \in Int
<1> DEFINE A == {txReq[i].cycle : i \in DOMAIN txReq}
           B == {txResp[i].cycle : i \in DOMAIN txResp}
<1>1. IsFiniteSet(A) /\ A \subseteq Int
  <2>1. IsFiniteSet(DOMAIN txReq)
    BY DomainFinite DEF TypeInv
  <2>2. A \subseteq Int
    BY Apart, ElementOfSeq, LenProperties DEF TypeInv
  <2>3. [i \in DOMAIN txReq |-> txReq[i].cycle] \in Surjection(DOMAIN txReq, A)
    BY DEF Surjection
  <2> QED  BY <2>1, <2>2, <2>3, FS_Surjection
<1>2. IsFiniteSet(B) /\ B \subseteq Int
  <2>1. IsFiniteSet(DOMAIN txResp)
    BY DomainFinite DEF TypeInv
  <2>2. B \subseteq Int
    BY Apart, ElementOfSeq, LenProperties DEF TypeInv
  <2>3. [i \in DOMAIN txResp |-> txResp[i].cycle] \in Surjection(DOMAIN txResp, B)
    BY DEF Surjection
  <2> QED  BY <2>1, <2>2, <2>3, FS_Surjection
<1> HIDE DEF A, B
<1>3. IsFiniteSet(A \cup B) /\ A \cup B \in SUBSET Int
  BY <1>1, <1>2, FS_Union
<1>4. A \cup B # {} => (CHOOSE c \in A \cup B : \A d \in A \cup B : d <= c) \in Int
  <2> HAVE A \cup B # {}
  <2>1. \E c \in A \cup B : \A d \in A \cup B : d <= c
    BY <1>3, GreatestExists
  <2> QED  BY <1>3, <2>1
<1>5. Newest \in Int
  <2>1. Newest = IF A \cup B = {} THEN 0 ELSE CHOOSE c \in A \cup B : \A d \in A \cup B : d <= c
    BY Zenon DEF Newest, A, B
  <2>2. 0 \in Int
    OBVIOUS
  <2> QED  BY <1>4, <2>1, <2>2, Zenon
<1> QED  BY <1>5 DEF Stamp

\* The slot counter runs from 0 to the last slot and back.
LEMMA RemFacts ==
  ASSUME NEW n \in Nat, n >= 2, NEW s \in 0 .. (n - 1)
  PROVE  /\ s = n - 1 => Rem(s + 1, n) = 0
         /\ s # n - 1 => Rem(s + 1, n) = s + 1 /\ s + 1 \in 1 .. (n - 1)
<1>1. Rem(s + 1, n) = (s + 1) % n
  BY DEF Rem
<1>2. CASE s = n - 1
  BY <1>1, <1>2
<1>3. CASE s # n - 1
  <2>1. s + 1 \in 1 .. (n - 1)
    BY <1>3
  <2>2. (s + 1) % n = s + 1
    BY <2>1
  <2> QED  BY <1>1, <1>3, <2>1, <2>2
<1> QED  BY <1>2, <1>3

\* One step of the lower wire: it idles or waits, it takes a read or a write-back off the
\* LLC's interface, or it hands its message to the memory.
LEMMA LowerFacts ==
  ASSUME TypeInv, lowerBusStep
  PROVE  /\ lower'.held \in Seq(Msg) /\ Len(lower'.held) <= 1
         /\ lower'.slot \in 0 .. (ReqLatency - 1) /\ (lower'.slot = 0 => lower'.held = <<>>)
         /\ \/ /\ txReq' = txReq /\ txResp' = txResp /\ lower'.held = lower.held /\ rxMem' = rxMem
            \/ /\ lower.held = <<>> /\ rxMem' = rxMem /\ txResp' = txResp
               /\ \E k \in DOMAIN txReq : txReq' = Cut(txReq, k) /\ lower'.held = <<txReq[k]>>
            \/ /\ lower.held = <<>> /\ rxMem' = rxMem /\ txReq' = txReq
               /\ \E k \in DOMAIN txResp : txResp' = Cut(txResp, k) /\ lower'.held = <<txResp[k]>>
            \/ /\ txReq' = txReq /\ txResp' = txResp /\ lower'.held = <<>>
               /\ lower.held # <<>> /\ rxMem' = Append(rxMem, lower.held[1])
<1> DEFINE bufs == <<txReq, txResp>>
           d == elect(Arbiter, bufs, Cand, lower.idx, clock.phase = 0)
           Taken(i) == {g[2] : g \in {h \in d.grant : h[1] = i}}
           Elected  == [k \in 1 .. Cardinality(d.grant) |-> LET g == CHOOSE h \in d.grant : TRUE
                                                            IN  bufs[g[1]][g[2]]]
           held == IF Electing(lower.slot) THEN Elected ELSE lower.held
           After(b, i) == IF ~Electing(lower.slot) \/ Taken(i) = {} THEN b
                          ELSE Without(b, CHOOSE k \in Taken(i) : TRUE)
           sent == IF ~Electing(lower.slot) /\ lower.slot = ReqLatency - 1 THEN held ELSE <<>>
           slot == SlotAfter(lower.slot, held # <<>>, ReqLatency)
<1>0. /\ txReq' = After(txReq, 1) /\ txResp' = After(txResp, 2)
      /\ lower'.slot = slot /\ lower'.held = (IF slot = 0 THEN <<>> ELSE held)
      /\ rxMem' = rxMem \o sent
  BY DEF lowerBusStep
<1>1. /\ txReq \in Seq(Reads) /\ txResp \in Seq(WriteBacks) /\ rxMem \in Seq(Msg)
      /\ lower.held \in Seq(Msg) /\ Len(lower.held) <= 1 /\ Len(lower.held) \in Nat
      /\ lower.slot \in 0 .. (ReqLatency - 1) /\ (lower.slot = 0 => lower.held = <<>>)
  BY LenProperties DEF TypeInv
<1>2. CASE lower.slot # 0
  <2>1. ~Electing(lower.slot) /\ held = lower.held /\ txReq' = txReq /\ txResp' = txResp
    BY <1>0, <1>2 DEF Electing
  <2>2. CASE lower.slot = ReqLatency - 1 /\ lower.held # <<>>
    <3>1. slot = 0
      BY <1>1, <2>1, <2>2, Sizes, RemFacts DEF SlotAfter
    <3>2. rxMem' = rxMem \o lower.held /\ lower'.held = <<>> /\ lower'.slot = 0
      BY <1>0, <2>1, <2>2, <3>1
    <3>3. lower.held = <<lower.held[1]>> /\ lower.held[1] \in Msg
      BY <1>1, <2>2, SlotHolds
    <3>4. rxMem \o lower.held = Append(rxMem, lower.held[1])
      BY <1>1, <3>3, AppendIsConcat
    <3> QED  BY <2>1, <2>2, <3>2, <3>4, Sizes
  <2>3. CASE lower.slot # ReqLatency - 1 /\ lower.held # <<>>
    <3>1. slot = lower.slot + 1 /\ slot # 0 /\ slot \in 0 .. (ReqLatency - 1)
      BY <1>1, <2>1, <2>3, Sizes, RemFacts DEF SlotAfter
    <3>2. rxMem' = rxMem /\ lower'.held = lower.held /\ lower'.slot = slot
      BY <1>0, <1>1, <2>1, <2>3, <3>1, ConcatEmptySeq
    <3> QED  BY <1>1, <2>1, <3>1, <3>2
  <2>4. CASE lower.held = <<>>
    <3>1. slot = 0
      BY <2>1, <2>4 DEF SlotAfter
    <3>2. rxMem' = rxMem /\ lower'.held = <<>> /\ lower'.slot = 0
      <4>1. sent = <<>>
        BY <2>1, <2>4
      <4> QED  BY <1>0, <1>1, <3>1, <4>1, ConcatEmptySeq
    <3> QED  BY <1>1, <2>1, <2>4, <3>2, Sizes
  <2> QED  BY <2>2, <2>3, <2>4
<1>3. CASE lower.slot = 0
  <2>1. Electing(lower.slot) /\ held = Elected /\ lower.held = <<>> /\ sent = <<>>
    BY <1>1, <1>3 DEF Electing
  <2>2. rxMem' = rxMem
    BY <1>0, <1>1, <2>1, ConcatEmptySeq
  <2>3. OneGrant(bufs, d.grant)
    <3>1. bufs \in Buffers(1 .. 2, Msg) /\ 1 .. 2 \in SUBSET Int
      BY <1>1 DEF Buffers, Msg
    <3>2. \A m \in Msg : m.cycle \in Int
      BY Apart DEF Msg
    <3>3. (clock.phase = 0) \in BOOLEAN
      OBVIOUS
    <3> HIDE DEF bufs
    <3> QED  BY <3>1, <3>2, <3>3, ElectOne
  <2> HIDE DEF d
  <2>4. CASE d.grant = {}
    <3>1. Taken(1) = {} /\ Taken(2) = {}
      BY <2>4
    <3>2. Elected = <<>>
      BY <2>4, FS_EmptySet
    <3>3. slot = 0
      BY <2>1, <3>2 DEF SlotAfter
    <3>4. txReq' = txReq /\ txResp' = txResp /\ lower'.slot = 0 /\ lower'.held = <<>>
      BY <1>0, <3>1, <3>3
    <3>5. 0 \in 0 .. (ReqLatency - 1) /\ <<>> \in Seq(Msg) /\ Len(<<>>) <= 1
      BY Sizes
    <3> QED  BY <2>1, <2>2, <3>4, <3>5
  <2>5. ASSUME NEW i \in {1, 2}, NEW k \in DOMAIN bufs[i], d.grant = {<<i, k>>}
        PROVE  /\ Taken(i) = {k} /\ \A j : j # i => Taken(j) = {}
               /\ lower'.held = <<bufs[i][k]>> /\ lower'.slot = 1
               /\ bufs[i][k] \in Msg /\ 1 \in 0 .. (ReqLatency - 1)
    <3>1. (CHOOSE h \in d.grant : TRUE) = <<i, k>>
      BY <2>5
    <3>2. Cardinality(d.grant) = 1
      BY <2>5, FS_Singleton
    <3>3. Elected = [j \in 1 .. 1 |-> bufs[i][k]]
      <4> DEFINE g == CHOOSE h \in d.grant : TRUE
      <4>1. g[1] = i /\ g[2] = k
        <5>1. g = <<i, k>>
          BY <3>1
        <5> HIDE DEF g
        <5> QED  BY <5>1
      <4>2. Elected = [j \in 1 .. Cardinality(d.grant) |-> bufs[g[1]][g[2]]]
        OBVIOUS
      <4> HIDE DEF g, Elected, bufs
      <4> QED  BY <3>2, <4>1, <4>2
    <3>4. Elected = <<bufs[i][k]>>
      BY <3>3
    <3>5. slot = 1 /\ 1 \in 0 .. (ReqLatency - 1)
      <4>1. held # <<>>
        BY <2>1, <3>4
      <4>2. Rem(0 + 1, ReqLatency) = 1 /\ 1 \in 0 .. (ReqLatency - 1)
        BY Sizes, RemFacts
      <4> HIDE DEF held
      <4> QED  BY <1>3, <4>1, <4>2 DEF SlotAfter
    <3>6. bufs[i][k] \in Msg
      BY <1>1, <2>5 DEF Msg
    <3>7. lower'.held = <<bufs[i][k]>> /\ lower'.slot = 1
      <4> HIDE DEF slot, Elected, bufs
      <4> QED  BY <1>0, <2>1, <3>4, <3>5
    <3>8. \A j : {h \in d.grant : h[1] = j} = IF j = i THEN {<<i, k>>} ELSE {}
      BY <2>5
    <3>9. Taken(i) = {k} /\ \A j : j # i => Taken(j) = {}
      <4>1. {g[2] : g \in {<<i, k>>}} = {k}
        OBVIOUS
      <4>2. {h \in d.grant : h[1] = i} = {<<i, k>>} /\ \A j : j # i => {h \in d.grant : h[1] = j} = {}
        BY <3>8
      <4>3. Taken(i) = {k}
        BY <4>1, <4>2, Zenon
      <4> QED  BY <4>2, <4>3
    <3> QED  BY <3>5, <3>6, <3>7, <3>9
  <2>6. CASE d.grant # {}
    <3>1. PICK i \in {1, 2} : \E k \in DOMAIN bufs[i] : d.grant = {<<i, k>>}
      <4>1. PICK i \in DOMAIN bufs : \E k \in DOMAIN bufs[i] : d.grant = {<<i, k>>}
        BY <2>3, <2>6 DEF OneGrant
      <4>2. DOMAIN bufs = {1, 2}
        OBVIOUS
      <4> QED  BY <4>1, <4>2, Zenon
    <3>2. PICK k \in DOMAIN bufs[i] : d.grant = {<<i, k>>}
      BY <3>1
    <3>3. CASE i = 1
      <4>1. Taken(1) = {k} /\ Taken(2) = {}
        BY <2>5, <3>2, <3>3
      <4> HIDE DEF Taken
      <4>2. txReq' = Cut(txReq, k) /\ txResp' = txResp
        BY <1>0, <2>1, <4>1, WithoutIsCut
      <4>3. /\ lower'.held = <<txReq[k]>> /\ lower'.slot = 1 /\ k \in DOMAIN txReq
            /\ txReq[k] \in Msg /\ 1 \in 0 .. (ReqLatency - 1)
        BY <2>5, <3>2, <3>3
      <4>4. lower'.held \in Seq(Msg) /\ Len(lower'.held) <= 1
        BY <4>3
      <4> QED  BY <2>1, <2>2, <4>2, <4>3, <4>4
    <3>4. CASE i = 2
      <4>1. Taken(2) = {k} /\ Taken(1) = {}
        BY <2>5, <3>2, <3>4
      <4> HIDE DEF Taken
      <4>2. txResp' = Cut(txResp, k) /\ txReq' = txReq
        BY <1>0, <2>1, <4>1, WithoutIsCut
      <4>3. /\ lower'.held = <<txResp[k]>> /\ lower'.slot = 1 /\ k \in DOMAIN txResp
            /\ txResp[k] \in Msg /\ 1 \in 0 .. (ReqLatency - 1)
        BY <2>5, <3>2, <3>4
      <4>4. lower'.held \in Seq(Msg) /\ Len(lower'.held) <= 1
        BY <4>3
      <4> QED  BY <2>1, <2>2, <4>2, <4>3, <4>4
    <3> QED  BY <3>1, <3>3, <3>4
  <2> QED  BY <2>4, <2>6
<1> QED  BY <1>2, <1>3

\* One step of the upper wire: it idles or waits, it takes the memory's next answer, or
\* it hands its message to the LLC.
LEMMA UpperFacts ==
  ASSUME TypeInv, upperBusStep
  PROVE  /\ upper'.held \in Seq(Fills) /\ Len(upper'.held) <= 1 /\ upper'.slot \in Int
         /\ upper'.held # <<>> => upper'.available /\ upper'.slot \in 1 .. (RespLatency - 1)
         /\ \/ memTx' = memTx /\ upper'.held = upper.held /\ rxLLC' = rxLLC
            \/ /\ upper.held = <<>> /\ rxLLC' = rxLLC
               /\ memTx # <<>> /\ memTx' = Tail(memTx) /\ upper'.held = <<Head(memTx)>>
            \/ /\ memTx' = memTx /\ upper'.held = <<>>
               /\ upper.held # <<>> /\ rxLLC' = Append(rxLLC, upper.held[1])
<1> DEFINE elects == upper.slot = 0
           held   == IF ~elects THEN upper.held ELSE IF memTx = <<>> THEN <<>> ELSE <<Head(memTx)>>
           available == IF elects THEN memTx # <<>> ELSE upper.available
           sent   == IF ~elects /\ upper.slot = RespLatency - 1 /\ available THEN held ELSE <<>>
           slot   == SlotAfter(upper.slot, available, RespLatency)
<1>0. /\ memTx' = (IF elects /\ memTx # <<>> THEN Tail(memTx) ELSE memTx)
      /\ upper'.slot = slot /\ upper'.available = available
      /\ upper'.held = (IF slot = 0 THEN <<>> ELSE held)
      /\ rxLLC' = rxLLC \o sent
  BY DEF upperBusStep
<1>1. /\ memTx \in Seq(Fills) /\ rxLLC \in Seq(Fills) /\ upper.slot \in Int
      /\ upper.held \in Seq(Fills) /\ Len(upper.held) <= 1
      /\ (upper.held # <<>> => upper.available /\ upper.slot \in 1 .. (RespLatency - 1))
      /\ <<>> \in Seq(Fills) /\ Len(<<>>) <= 1
  BY DEF TypeInv
<1>2. slot \in Int
  <2>1. \A a \in Int : Rem(a, RespLatency) \in Int
    BY Sizes DEF Rem
  <2> QED  BY <1>1, <2>1 DEF SlotAfter
<1>3. CASE elects /\ memTx # <<>>
  <2>1. upper.held = <<>> /\ available = TRUE /\ sent = <<>> /\ held = <<Head(memTx)>>
    BY <1>1, <1>3, Sizes
  <2>2. slot = 1 /\ 1 \in 1 .. (RespLatency - 1)
    <3>1. Rem(0 + 1, RespLatency) = 1 /\ 1 \in 1 .. (RespLatency - 1)
      BY Sizes, RemFacts
    <3> QED  BY <1>3, <2>1, <3>1 DEF SlotAfter
  <2>3. Head(memTx) \in Fills
    BY <1>1, <1>3, HeadTailProperties
  <2>4. rxLLC' = rxLLC
    BY <1>0, <1>1, <2>1, ConcatEmptySeq
  <2>5. upper'.held = <<Head(memTx)>> /\ upper'.slot = 1 /\ upper'.available = TRUE
    <3>1. upper'.available = TRUE
      BY <1>0, <2>1, Zenon
    <3> HIDE DEF held, slot
    <3> QED  BY <1>0, <2>1, <2>2, <3>1
  <2>6. <<Head(memTx)>> \in Seq(Fills) /\ Len(<<Head(memTx)>>) <= 1
    BY <2>3
  <2> QED  BY <1>0, <1>2, <1>3, <2>1, <2>2, <2>4, <2>5, <2>6
<1>4. CASE elects /\ memTx = <<>>
  <2>1. upper.held = <<>> /\ held = <<>> /\ sent = <<>>
    BY <1>1, <1>4, Sizes
  <2>2. rxLLC' = rxLLC
    BY <1>0, <1>1, <2>1, ConcatEmptySeq
  <2>3. upper'.held = <<>> /\ memTx' = memTx /\ upper'.slot = slot
    BY <1>0, <1>4, <2>1
  <2> QED  BY <1>1, <1>2, <2>1, <2>2, <2>3
<1>5. CASE ~elects /\ upper.held = <<>>
  <2>1. held = <<>> /\ sent = <<>>
    BY <1>5
  <2>2. rxLLC' = rxLLC
    BY <1>0, <1>1, <2>1, ConcatEmptySeq
  <2>3. upper'.held = <<>> /\ memTx' = memTx /\ upper'.slot = slot
    BY <1>0, <1>5, <2>1
  <2> QED  BY <1>1, <1>2, <1>5, <2>2, <2>3
<1>6. CASE ~elects /\ upper.held # <<>> /\ upper.slot # RespLatency - 1
  <2>1. held = upper.held /\ sent = <<>> /\ available = upper.available /\ upper.available
    BY <1>1, <1>6
  <2>2. slot \in 1 .. (RespLatency - 1) /\ slot # 0
    <3>1. upper.slot \in 0 .. (RespLatency - 1)
      BY <1>1, <1>6, Sizes
    <3>2. slot = Rem(upper.slot + 1, RespLatency)
      BY <2>1 DEF SlotAfter
    <3> QED  BY <1>6, <3>1, <3>2, Sizes, RemFacts
  <2>3. rxLLC' = rxLLC
    BY <1>0, <1>1, <2>1, ConcatEmptySeq
  <2>4. upper'.held = upper.held /\ memTx' = memTx /\ upper'.slot = slot /\ upper'.available
    BY <1>0, <1>6, <2>1, <2>2
  <2> QED  BY <1>1, <1>2, <2>2, <2>3, <2>4
<1>7. CASE ~elects /\ upper.held # <<>> /\ upper.slot = RespLatency - 1
  <2>1. held = upper.held /\ sent = upper.held /\ available = upper.available /\ upper.available
    BY <1>1, <1>7
  <2>2. slot = 0
    <3>1. upper.slot \in 0 .. (RespLatency - 1)
      BY <1>1, <1>7, Sizes
    <3>2. slot = Rem(upper.slot + 1, RespLatency)
      BY <2>1 DEF SlotAfter
    <3> QED  BY <1>7, <3>1, <3>2, Sizes, RemFacts
  <2>3. upper.held = <<upper.held[1]>> /\ upper.held[1] \in Fills
    BY <1>1, <1>7, SlotHolds
  <2>4. rxLLC' = Append(rxLLC, upper.held[1])
    <3>1. rxLLC' = rxLLC \o upper.held
      BY <1>0, <2>1
    <3> QED  BY <1>1, <2>3, <3>1, AppendIsConcat
  <2>5. upper'.held = <<>> /\ memTx' = memTx /\ upper'.slot = slot
    BY <1>0, <1>7, <2>2
  <2> QED  BY <1>1, <1>2, <1>7, <2>4, <2>5
<1> QED  BY <1>3, <1>4, <1>5, <1>6, <1>7

-----------------------------------------------------------------------------
\* Every count is a number.
LEMMA CountsNat ==
  ASSUME TypeInv, NEW l
  PROVE  /\ ReqReads(l) \in Nat /\ HeldReads(l) \in Nat /\ RxReads(l) \in Nat
         /\ QueuedReads(l) \in Nat /\ DramReads(l) \in Nat /\ OutFills(l) \in Nat
         /\ TxFills(l) \in Nat /\ WireFills(l) \in Nat /\ RxFills(l) \in Nat
         /\ TxWBs(l) \in Nat /\ HeldWBs(l) \in Nat /\ RxWBs(l) \in Nat
<1>1. /\ txReq \in Seq(Reads) /\ txResp \in Seq(WriteBacks) /\ rxLLC \in Seq(Fills)
      /\ rxMem \in Seq(Msg) /\ memQ \in Seq(Queued) /\ dram \in Seq(Reads)
      /\ out \in Seq(Fills) /\ memTx \in Seq(Fills)
      /\ lower.held \in Seq(Msg) /\ upper.held \in Seq(Fills)
  BY DEF TypeInv
<1>2. ReqReads(l) \in Nat /\ HeldReads(l) \in Nat /\ RxReads(l) \in Nat
  BY <1>1, CountZero DEF ReqReads, HeldReads, RxReads
<1>3. QueuedReads(l) \in Nat /\ DramReads(l) \in Nat /\ OutFills(l) \in Nat
  BY <1>1, CountZero DEF QueuedReads, DramReads, OutFills
<1>4. TxFills(l) \in Nat /\ WireFills(l) \in Nat /\ RxFills(l) \in Nat
  BY <1>1, CountZero DEF TxFills, WireFills, RxFills
<1>5. TxWBs(l) \in Nat /\ HeldWBs(l) \in Nat /\ RxWBs(l) \in Nat
  BY <1>1, CountZero DEF TxWBs, HeldWBs, RxWBs
<1> QED  BY <1>2, <1>3, <1>4, <1>5

\* While the line is not being fetched no read and no fill of it is anywhere; while it
\* is, there is one.
LEMMA AtMostOne ==
  ASSUME TypeInv, NEW l, Conserved(l)
  PROVE  /\ line[l] # "fetching" =>
              /\ ReqReads(l) = 0 /\ HeldReads(l) = 0 /\ RxReads(l) = 0 /\ QueuedReads(l) = 0
              /\ DramReads(l) = 0 /\ OutFills(l) = 0 /\ TxFills(l) = 0 /\ WireFills(l) = 0
              /\ RxFills(l) = 0
         /\ RxFills(l) >= 1 => line[l] = "fetching"
         /\ ReqReads(l) + HeldReads(l) + RxReads(l) + QueuedReads(l) >= 1 => line[l] = "fetching"
<1>1. OnTheWay(l) = (IF line[l] = "fetching" THEN 1 ELSE 0)
  BY DEF Conserved
<1>2. /\ ReqReads(l) \in Nat /\ HeldReads(l) \in Nat /\ RxReads(l) \in Nat
      /\ QueuedReads(l) \in Nat /\ DramReads(l) \in Nat /\ OutFills(l) \in Nat
      /\ TxFills(l) \in Nat /\ WireFills(l) \in Nat /\ RxFills(l) \in Nat
  BY CountsNat
<1>3. CASE line[l] = "fetching"
  BY <1>3
<1>4. CASE line[l] # "fetching"
  <2>1. WayDown(l) \in Nat /\ InMemory(l) \in Nat /\ WayUp(l) \in Nat
    BY <1>2 DEF WayDown, InMemory, WayUp
  <2>2. WayDown(l) = 0 /\ InMemory(l) = 0 /\ WayUp(l) = 0
    BY <1>1, <1>4, <2>1 DEF OnTheWay
  <2>3. ReqReads(l) = 0 /\ HeldReads(l) = 0 /\ RxReads(l) = 0
    BY <1>2, <2>2 DEF WayDown
  <2>4. QueuedReads(l) = 0 /\ DramReads(l) = 0 /\ OutFills(l) = 0
    BY <1>2, <2>2 DEF InMemory
  <2>5. TxFills(l) = 0 /\ WireFills(l) = 0 /\ RxFills(l) = 0
    BY <1>2, <2>2 DEF WayUp
  <2> QED  BY <2>3, <2>4, <2>5
<1> QED  BY <1>3, <1>4

\* The LLC installs a fill: the line was being fetched, and nothing else of it is under way.
LEMMA IntakeKeeps ==
  ASSUME MemoryInv, LLCIntake
  PROVE  MemoryInv'
<1>0. /\ UNCHANGED <<txReq, txResp, lower, upper, rxMem, memQ, dram, out, memTx>> /\ TypeInv
      /\ rxLLC \in Seq(Fills) /\ line \in [Lines -> LineStates]
  BY DEF LLCIntake, linkVars, memVars, MemoryInv, TypeInv
<1>01. ASSUME NEW l
       PROVE  /\ ReqReads(l)' = ReqReads(l) /\ HeldReads(l)' = HeldReads(l)
              /\ RxReads(l)' = RxReads(l) /\ QueuedReads(l)' = QueuedReads(l)
              /\ DramReads(l)' = DramReads(l) /\ OutFills(l)' = OutFills(l)
              /\ TxFills(l)' = TxFills(l) /\ WireFills(l)' = WireFills(l)
              /\ TxWBs(l)' = TxWBs(l) /\ HeldWBs(l)' = HeldWBs(l) /\ RxWBs(l)' = RxWBs(l)
  BY <1>0 DEF ReqReads, HeldReads, RxReads, QueuedReads, DramReads, OutFills, TxFills,
              WireFills, TxWBs, HeldWBs, RxWBs
<1>02. ASSUME NEW l \in Lines
       PROVE  Conserved(l) /\ Waiting(l) /\ InOrder(l) /\ InOrder(l)'
  <2>1. Conserved(l) /\ Waiting(l) /\ InOrder(l)
    BY DEF MemoryInv
  <2>2. Sorted(l)' <=> Sorted(l)
    BY <1>0 DEF Sorted
  <2> QED  BY <1>01, <2>1, <2>2 DEF InOrder
<1>1. CASE rxLLC = <<>>
  <2>1. UNCHANGED <<line, latest, rxLLC>>
    BY <1>1 DEF LLCIntake
  <2>2. TypeInv'
    BY <1>0, <2>1 DEF TypeInv
  <2>3. ASSUME NEW l \in Lines PROVE Conserved(l)' /\ Waiting(l)'
    <3>1. RxFills(l)' = RxFills(l)
      BY <2>1 DEF RxFills
    <3>2. OnTheWay(l)' = OnTheWay(l)
      BY <1>01, <3>1 DEF OnTheWay, WayDown, InMemory, WayUp
    <3> QED  BY <1>01, <1>02, <2>1, <3>2 DEF Conserved, Waiting
  <2> QED  BY <1>02, <2>2, <2>3 DEF MemoryInv
<1>2. CASE rxLLC # <<>>
  <2> DEFINE m == Head(rxLLC)
  <2>1. latest' = m.owner /\ rxLLC' = Tail(rxLLC)
    BY <1>2 DEF LLCIntake
  <2>2. m \in Fills /\ Tail(rxLLC) \in Seq(Fills) /\ m.line \in Lines /\ m.owner \in Int
    <3>1. m \in Fills /\ Tail(rxLLC) \in Seq(Fills)
      BY <1>0, <1>2, HeadTailProperties
    <3> QED  BY <3>1 DEF Fills
  <2>21. PICK k \in Lines : k = m.line
    BY <2>2
  <2>3. \A l : m \in FillsOf(l) <=> l = k
    BY <2>2, <2>21 DEF FillsOf
  <2>4. ASSUME NEW l
        PROVE  RxFills(l)' = RxFills(l) - (IF l = k THEN 1 ELSE 0)
    <3>1. NOf(Tail(rxLLC), FillsOf(l)) = NOf(rxLLC, FillsOf(l)) - (IF m \in FillsOf(l) THEN 1 ELSE 0)
      BY <1>0, <1>2, CountTail
    <3>2. (m \in FillsOf(l)) = (l = k)
      BY <2>3
    <3> HIDE DEF m
    <3> QED  BY <2>1, <3>1, <3>2 DEF RxFills
  <2> HIDE DEF m
  <2>5. line[k] = "fetching"
    <3>1. RxFills(k)' \in Nat
      BY <2>1, <2>2, CountZero DEF RxFills
    <3>2. RxFills(k)' = RxFills(k) - 1
      BY <2>4
    <3>3. RxFills(k) \in Nat
      BY <1>0, CountsNat
    <3>4. RxFills(k) >= 1
      BY <3>1, <3>2, <3>3
    <3> QED  BY <1>0, <1>02, <2>2, <3>4, AtMostOne
  <2>6. /\ line' \in [Lines -> LineStates] /\ line'[k] = "present"
        /\ \A l \in Lines : l # k =>
             line'[l] = line[l] \/ (line[l] = "present" /\ line'[l] = "evicting")
    <3>1. CASE Cardinality(Resident) < Ways
      <4>1. line' = [line EXCEPT ![k] = "present"]
        BY <1>2, <2>21, <3>1 DEF LLCIntake, m
      <4> QED  BY <1>0, <2>2, <4>1 DEF LineStates
    <3>2. CASE ~(Cardinality(Resident) < Ways)
      <4>1. PICK v \in Resident : line' = [line EXCEPT ![k] = "present", ![v] = "evicting"]
        BY <1>2, <2>21, <3>2 DEF LLCIntake, m
      <4>2. v \in Lines /\ line[v] = "present" /\ v # k
        BY <2>5 DEF Resident
      <4> QED  BY <1>0, <2>2, <4>1, <4>2 DEF LineStates
    <3> QED  BY <3>1, <3>2
  <2>7. TypeInv'
    BY <1>0, <2>1, <2>2, <2>6 DEF TypeInv
  <2>8. ASSUME NEW l \in Lines
        PROVE  Conserved(l)' /\ Waiting(l)'
    <3>1. OnTheWay(l)' = OnTheWay(l) - (IF l = k THEN 1 ELSE 0)
      <4>1. /\ ReqReads(l) \in Nat /\ HeldReads(l) \in Nat /\ RxReads(l) \in Nat
            /\ QueuedReads(l) \in Nat /\ DramReads(l) \in Nat /\ OutFills(l) \in Nat
            /\ TxFills(l) \in Nat /\ WireFills(l) \in Nat /\ RxFills(l) \in Nat
        BY <1>0, CountsNat
      <4>2. WayDown(l)' = WayDown(l) /\ InMemory(l)' = InMemory(l)
            /\ WayDown(l) \in Nat /\ InMemory(l) \in Nat
        BY <1>01, <4>1 DEF WayDown, InMemory
      <4>3. WayUp(l)' = WayUp(l) - (IF l = k THEN 1 ELSE 0) /\ WayUp(l) \in Nat
        BY <1>01, <2>4, <4>1 DEF WayUp
      <4> QED  BY <4>2, <4>3 DEF OnTheWay
    <3>2. Conserved(l) /\ Waiting(l)
      BY <1>02
    <3>3. Conserved(l)'
      <4>1. OnTheWay(l) = (IF line[l] = "fetching" THEN 1 ELSE 0)
        BY <3>2 DEF Conserved
      <4> QED  BY <2>5, <2>6, <3>1, <4>1 DEF Conserved
    <3>4. Waiting(l)'
      BY <1>01, <2>5, <2>6, <3>2 DEF Waiting
    <3> QED  BY <3>3, <3>4
  <2> QED  BY <1>02, <2>7, <2>8 DEF MemoryInv
<1> QED  BY <1>1, <1>2

\* What a step of the LLC that leaves the link and the memory alone keeps.
LEMMA BeyondUnchanged ==
  ASSUME UNCHANGED <<lower, upper, rxMem, memQ, dram, out, memTx>>, NEW l
  PROVE  /\ HeldReads(l)' = HeldReads(l) /\ RxReads(l)' = RxReads(l)
         /\ QueuedReads(l)' = QueuedReads(l) /\ DramReads(l)' = DramReads(l)
         /\ OutFills(l)' = OutFills(l) /\ TxFills(l)' = TxFills(l)
         /\ WireFills(l)' = WireFills(l)
         /\ InOrder(l) => InOrder(l)'
<1>1. /\ HeldReads(l)' = HeldReads(l) /\ RxReads(l)' = RxReads(l)
      /\ QueuedReads(l)' = QueuedReads(l) /\ DramReads(l)' = DramReads(l)
      /\ OutFills(l)' = OutFills(l) /\ TxFills(l)' = TxFills(l)
      /\ WireFills(l)' = WireFills(l) /\ HeldWBs(l)' = HeldWBs(l) /\ RxWBs(l)' = RxWBs(l)
  BY DEF HeldReads, RxReads, QueuedReads, DramReads, OutFills, TxFills, WireFills, HeldWBs, RxWBs
<1>2. Sorted(l)' <=> Sorted(l)
  BY DEF Sorted
<1> QED  BY <1>1, <1>2 DEF InOrder

\* A miss: nothing of the line is on the way, so only its waiting write-back can be rolled
\* back; that becomes the fill, or else one read, or one made-up fill, sets out.
LEMMA MissKeeps ==
  ASSUME MemoryInv, NEW l \in Lines, NEW o \in Cores, Miss(l, o)
  PROVE  MemoryInv'
<1>0. /\ UNCHANGED <<lower, upper, rxMem, memQ, dram, out, memTx, latest>> /\ TypeInv
      /\ rxLLC \in Seq(Fills) /\ line \in [Lines -> LineStates]
      /\ txReq \in Seq(Reads) /\ txResp \in Seq(WriteBacks)
      /\ line[l] = "absent" /\ line' = [line EXCEPT ![l] = "fetching"]
  BY DEF Miss, sendBusRequest, linkVars, memVars, MemoryInv, TypeInv
<1>1. ASSUME NEW k \in Lines
      PROVE  Conserved(k) /\ Waiting(k) /\ InOrder(k)
  BY DEF MemoryInv
<1>2. ReqReads(l) = 0 /\ RxFills(l) = 0
  BY <1>0, <1>1, AtMostOne
<1>3. {i \in DOMAIN txReq : txReq[i].line = l} = {}
  <2>1. \A i \in DOMAIN txReq : txReq[i] \notin ReadsOf(l)
    BY <1>0, <1>2, CountZero DEF ReqReads
  <2>2. \A i \in DOMAIN txReq : txReq[i] \in Reads
    BY <1>0, ElementOfSeq, LenProperties
  <2> QED  BY <2>1, <2>2 DEF ReadsOf
<1>4. {i \in DOMAIN txResp : txResp[i].line = l} = Positions(txResp, WriteBacksOf(l))
  <2>1. \A i \in DOMAIN txResp : txResp[i] \in WriteBacks
    BY <1>0, ElementOfSeq, LenProperties
  <2> QED  BY <2>1 DEF WriteBacksOf, Positions
<1>5. Fill(l, o) \in Fills /\ \A k : Fill(l, o) \in FillsOf(k) <=> k = l
  BY Sizes DEF Fill, Fills, FillsOf
<1>6. ASSUME TypeInv',
             \A k \in Lines : ReqReads(k)' + RxFills(k)' = ReqReads(k) + RxFills(k) + (IF k = l THEN 1 ELSE 0),
             \A k \in Lines : TxWBs(k)' = IF k = l THEN 0 ELSE TxWBs(k)
      PROVE  MemoryInv'
  <2> SUFFICES ASSUME NEW k \in Lines PROVE Conserved(k)' /\ Waiting(k)' /\ InOrder(k)'
    BY <1>6 DEF MemoryInv
  <2>1. OnTheWay(k)' = OnTheWay(k) + (IF k = l THEN 1 ELSE 0)
    <3>1. /\ ReqReads(k) \in Nat /\ HeldReads(k) \in Nat /\ RxReads(k) \in Nat
          /\ QueuedReads(k) \in Nat /\ DramReads(k) \in Nat /\ OutFills(k) \in Nat
          /\ TxFills(k) \in Nat /\ WireFills(k) \in Nat /\ RxFills(k) \in Nat
      BY <1>0, CountsNat
    <3>2. ReqReads(k)' \in Nat /\ RxFills(k)' \in Nat
      <4>1. txReq' \in Seq(Reads) /\ rxLLC' \in Seq(Fills)
        BY <1>6 DEF TypeInv
      <4> QED  BY <4>1, CountZero DEF ReqReads, RxFills
    <3>3. /\ HeldReads(k)' = HeldReads(k) /\ RxReads(k)' = RxReads(k)
          /\ QueuedReads(k)' = QueuedReads(k) /\ DramReads(k)' = DramReads(k)
          /\ OutFills(k)' = OutFills(k) /\ TxFills(k)' = TxFills(k)
          /\ WireFills(k)' = WireFills(k)
      BY <1>0, BeyondUnchanged
    <3>4. ReqReads(k)' + RxFills(k)' = ReqReads(k) + RxFills(k) + (IF k = l THEN 1 ELSE 0)
      BY <1>6
    <3>5. WayDown(k)' + WayUp(k)' = WayDown(k) + WayUp(k) + (IF k = l THEN 1 ELSE 0)
      BY <3>1, <3>2, <3>3, <3>4 DEF WayDown, WayUp
    <3>6. InMemory(k)' = InMemory(k) /\ InMemory(k) \in Nat
      BY <3>1, <3>3 DEF InMemory
    <3>7. WayDown(k) \in Nat /\ WayUp(k) \in Nat /\ WayDown(k)' \in Nat /\ WayUp(k)' \in Nat
      BY <3>1, <3>2, <3>3 DEF WayDown, WayUp
    <3> QED  BY <3>5, <3>6, <3>7 DEF OnTheWay
  <2>2. Conserved(k)'
    <3>1. OnTheWay(k) = (IF line[k] = "fetching" THEN 1 ELSE 0)
      BY <1>1 DEF Conserved
    <3> QED  BY <1>0, <2>1, <3>1 DEF Conserved
  <2>3. Waiting(k)'
    <3>1. Waiting(k)
      BY <1>1
    <3> QED  BY <1>0, <1>6, <3>1 DEF Waiting
  <2>4. InOrder(k)'
    BY <1>0, <1>1, BeyondUnchanged
  <2> QED  BY <2>2, <2>3, <2>4
<1>7. line' \in [Lines -> LineStates]
  BY <1>0 DEF LineStates
<1>8. ASSUME NEW k
      PROVE  NOf(Append(rxLLC, Fill(l, o)), FillsOf(k)) = RxFills(k) + (IF k = l THEN 1 ELSE 0)
             /\ Append(rxLLC, Fill(l, o)) \in Seq(Fills)
  <2>1. /\ Append(rxLLC, Fill(l, o)) \in Seq(Fills)
        /\ NOf(Append(rxLLC, Fill(l, o)), FillsOf(k))
             = NOf(rxLLC, FillsOf(k)) + (IF Fill(l, o) \in FillsOf(k) THEN 1 ELSE 0)
    BY <1>0, <1>5, CountAppend
  <2> QED  BY <1>5, <2>1 DEF RxFills
<1>9. CASE rollback(l) # {}
  <2>1. PICK at \in rollback(l) :
          /\ txReq' = IF at[1] = 1 THEN Without(txReq, at[2]) ELSE txReq
          /\ txResp' = IF at[1] = 2 THEN Without(txResp, at[2]) ELSE txResp
          /\ rxLLC' = IF at[1] = 2 THEN Append(rxLLC, Fill(l, o)) ELSE rxLLC
    BY <1>9 DEF Miss, sendBusRequest
  <2> DEFINE P == Positions(txResp, WriteBacksOf(l))
             First(S) == CHOOSE i \in S : \A j \in S : i <= j
  <2>2. rollback(l) = IF P # {} THEN {<<2, First(P)>>} ELSE {}
    BY <1>3, <1>4, Zenon DEF rollback
  <2>3. P # {} /\ at = <<2, First(P)>>
    BY <2>1, <2>2
  <2>4. IsFiniteSet(P) /\ P \subseteq 1 .. Len(txResp) /\ Cardinality(P) = 1
    <3>1. IsFiniteSet(P) /\ P \subseteq 1 .. Len(txResp) /\ Cardinality(P) \in Nat
      BY <1>0, PositionsFinite DEF NOf
    <3>2. Cardinality(P) # 0
      BY <2>3, <3>1, FS_EmptySet
    <3>3. Cardinality(P) <= 1
      BY <1>1 DEF Waiting, TxWBs, NOf
    <3> QED  BY <3>1, <3>2, <3>3
  <2>5. PICK x : P = {x}
    BY <2>4, FS_Singleton
  <2>6. First(P) = x /\ x \in DOMAIN txResp /\ txResp[x] \in WriteBacksOf(l)
    <3>1. x \in P /\ x \in Int
      BY <2>4, <2>5
    <3>2. First(P) = x
      BY <2>5, <3>1
    <3> QED  BY <3>1, <3>2 DEF Positions
  <2>7. txReq' = txReq /\ txResp' = Cut(txResp, x) /\ rxLLC' = Append(rxLLC, Fill(l, o))
    <3>1. at[1] = 2 /\ at[2] = x
      BY <2>3, <2>6
    <3> QED  BY <2>1, <3>1, WithoutIsCut
  <2> HIDE DEF P
  <2>8. ASSUME NEW k
        PROVE  /\ Cut(txResp, x) \in Seq(WriteBacks)
               /\ NOf(Cut(txResp, x), WriteBacksOf(k)) = TxWBs(k) - (IF k = l THEN 1 ELSE 0)
    <3>1. /\ Cut(txResp, x) \in Seq(WriteBacks)
          /\ NOf(Cut(txResp, x), WriteBacksOf(k))
               = NOf(txResp, WriteBacksOf(k)) - (IF txResp[x] \in WriteBacksOf(k) THEN 1 ELSE 0)
      BY <1>0, <2>6, CountCut
    <3>2. txResp[x] \in WriteBacksOf(k) <=> k = l
      BY <2>6 DEF WriteBacksOf
    <3> QED  BY <3>1, <3>2 DEF TxWBs
  <2>9. TypeInv'
    BY <1>0, <1>7, <1>8, <2>7, <2>8 DEF TypeInv
  <2>10. TxWBs(l) = 1
    BY <2>4 DEF TxWBs, NOf, P
  <2>11. ASSUME NEW k \in Lines
         PROVE  /\ ReqReads(k)' + RxFills(k)' = ReqReads(k) + RxFills(k) + (IF k = l THEN 1 ELSE 0)
                /\ TxWBs(k)' = IF k = l THEN 0 ELSE TxWBs(k)
    <3>1. ReqReads(k)' = ReqReads(k)
      BY <2>7 DEF ReqReads
    <3>2. RxFills(k)' = RxFills(k) + (IF k = l THEN 1 ELSE 0)
      BY <1>8, <2>7 DEF RxFills
    <3>3. TxWBs(k)' = TxWBs(k) - (IF k = l THEN 1 ELSE 0)
      BY <2>7, <2>8 DEF TxWBs
    <3>4. ReqReads(k) \in Nat /\ RxFills(k) \in Nat /\ TxWBs(k) \in Nat
      BY <1>0, CountsNat
    <3> QED  BY <2>10, <3>1, <3>2, <3>3, <3>4
  <2> QED  BY <1>6, <2>9, <2>11
<1>10. CASE rollback(l) = {}
  <2>1. TxWBs(l) = 0
    <3> DEFINE P == Positions(txResp, WriteBacksOf(l))
    <3>1. P = {}
      BY <1>3, <1>4, <1>10 DEF rollback
    <3> QED  BY <3>1, FS_EmptySet DEF TxWBs, NOf
  <2>2. CASE memory = "perfect"
    <3>1. UNCHANGED <<txReq, txResp>> /\ rxLLC' = Append(rxLLC, Fill(l, o))
      BY <1>10, <2>2 DEF Miss, sendBusRequest
    <3>2. TypeInv'
      BY <1>0, <1>7, <1>8, <3>1 DEF TypeInv
    <3>3. ASSUME NEW k \in Lines
          PROVE  /\ ReqReads(k)' + RxFills(k)' = ReqReads(k) + RxFills(k) + (IF k = l THEN 1 ELSE 0)
                 /\ TxWBs(k)' = IF k = l THEN 0 ELSE TxWBs(k)
      <4>1. ReqReads(k)' = ReqReads(k) /\ TxWBs(k)' = TxWBs(k)
        BY <3>1 DEF ReqReads, TxWBs
      <4>2. RxFills(k)' = RxFills(k) + (IF k = l THEN 1 ELSE 0)
        BY <1>8, <3>1 DEF RxFills
      <4>3. ReqReads(k) \in Nat /\ RxFills(k) \in Nat
        BY <1>0, CountsNat
      <4> QED  BY <2>1, <4>1, <4>2, <4>3
    <3> QED  BY <1>6, <3>2, <3>3
  <2>3. CASE memory # "perfect"
    <3>1. UNCHANGED <<txResp, rxLLC>> /\ txReq' = Append(txReq, Read(l, o))
      BY <1>10, <2>3 DEF Miss, sendBusRequest
    <3>2. Read(l, o) \in Reads /\ \A k : Read(l, o) \in ReadsOf(k) <=> k = l
      BY <1>0, Sizes, StampNumber DEF Read, Reads, ReadsOf
    <3>3. ASSUME NEW k
          PROVE  /\ Append(txReq, Read(l, o)) \in Seq(Reads)
                 /\ NOf(Append(txReq, Read(l, o)), ReadsOf(k)) = ReqReads(k) + (IF k = l THEN 1 ELSE 0)
      <4>1. /\ Append(txReq, Read(l, o)) \in Seq(Reads)
            /\ NOf(Append(txReq, Read(l, o)), ReadsOf(k))
                 = NOf(txReq, ReadsOf(k)) + (IF Read(l, o) \in ReadsOf(k) THEN 1 ELSE 0)
        BY <1>0, <3>2, CountAppend
      <4> QED  BY <3>2, <4>1 DEF ReqReads
    <3>4. TypeInv'
      BY <1>0, <1>7, <3>1, <3>3 DEF TypeInv
    <3>5. ASSUME NEW k \in Lines
          PROVE  /\ ReqReads(k)' + RxFills(k)' = ReqReads(k) + RxFills(k) + (IF k = l THEN 1 ELSE 0)
                 /\ TxWBs(k)' = IF k = l THEN 0 ELSE TxWBs(k)
      <4>1. RxFills(k)' = RxFills(k) /\ TxWBs(k)' = TxWBs(k)
        BY <3>1 DEF RxFills, TxWBs
      <4>2. ReqReads(k)' = ReqReads(k) + (IF k = l THEN 1 ELSE 0)
        BY <3>1, <3>3 DEF ReqReads
      <4>3. ReqReads(k) \in Nat /\ RxFills(k) \in Nat
        BY <1>0, CountsNat
      <4> QED  BY <2>1, <4>1, <4>2, <4>3
    <3> QED  BY <1>6, <3>4, <3>5
  <2> QED  BY <2>2, <2>3
<1> QED  BY <1>9, <1>10

\* An evicted line's write-back: none was waiting, the line was not absent.
LEMMA WriteBackKeeps ==
  ASSUME MemoryInv, NEW l \in Lines, performWriteBack(l)
  PROVE  MemoryInv'
<1>0. /\ UNCHANGED <<lower, upper, rxMem, memQ, dram, out, memTx, latest, txReq, rxLLC>> /\ TypeInv
      /\ line \in [Lines -> LineStates] /\ txResp \in Seq(WriteBacks) /\ latest \in Int
      /\ line[l] = "evicting" /\ line' = [line EXCEPT ![l] = "absent"]
  BY DEF performWriteBack, linkVars, memVars, MemoryInv, TypeInv
<1>1. ASSUME NEW k \in Lines
      PROVE  Conserved(k) /\ Waiting(k) /\ InOrder(k)
  BY DEF MemoryInv
<1>2. \A k \in Lines : TxWBs(k) \in Nat
  BY <1>0, CountsNat
<1>3. TxWBs(l) = 0
  BY <1>0, <1>1, <1>2 DEF Waiting
<1>4. line' \in [Lines -> LineStates]
  BY <1>0 DEF LineStates
<1>5. /\ txResp' \in Seq(WriteBacks)
      /\ \A k \in Lines : TxWBs(k)' = TxWBs(k) \/ (k = l /\ TxWBs(k)' = TxWBs(k) + 1)
  <2>1. CASE memory = "perfect"
    <3>1. txResp' = txResp
      BY <2>1 DEF performWriteBack
    <3> QED  BY <1>0, <3>1 DEF TxWBs
  <2>2. CASE memory # "perfect"
    <3> DEFINE w == WriteBack(l, IF latest = 0 THEN LLC ELSE latest)
    <3>1. txResp' = Append(txResp, w)
      BY <2>2 DEF performWriteBack
    <3>2. w \in WriteBacks /\ \A k : w \in WriteBacksOf(k) <=> k = l
      BY <1>0, Sizes, StampNumber DEF WriteBack, WriteBacks, WriteBacksOf
    <3> HIDE DEF w
    <3>3. txResp' \in Seq(WriteBacks)
      BY <1>0, <3>1, <3>2, AppendProperties
    <3>4. ASSUME NEW k \in Lines
          PROVE  TxWBs(k)' = TxWBs(k) \/ (k = l /\ TxWBs(k)' = TxWBs(k) + 1)
      <4>1. NOf(Append(txResp, w), WriteBacksOf(k))
              = NOf(txResp, WriteBacksOf(k)) + (IF w \in WriteBacksOf(k) THEN 1 ELSE 0)
        BY <1>0, <3>2, CountAppend
      <4>2. TxWBs(k)' = TxWBs(k) + (IF w \in WriteBacksOf(k) THEN 1 ELSE 0)
        BY <3>1, <4>1 DEF TxWBs
      <4> QED  BY <1>2, <3>2, <4>2
    <3> QED  BY <3>3, <3>4
  <2> QED  BY <2>1, <2>2
<1>6. TypeInv'
  BY <1>0, <1>4, <1>5 DEF TypeInv
<1>7. ASSUME NEW k \in Lines
      PROVE  Conserved(k)' /\ Waiting(k)' /\ InOrder(k)'
  <2>1. OnTheWay(k)' = OnTheWay(k)
    <3>1. /\ HeldReads(k)' = HeldReads(k) /\ RxReads(k)' = RxReads(k)
          /\ QueuedReads(k)' = QueuedReads(k) /\ DramReads(k)' = DramReads(k)
          /\ OutFills(k)' = OutFills(k) /\ TxFills(k)' = TxFills(k)
          /\ WireFills(k)' = WireFills(k)
      BY <1>0, BeyondUnchanged
    <3>2. ReqReads(k)' = ReqReads(k) /\ RxFills(k)' = RxFills(k)
      BY <1>0 DEF ReqReads, RxFills
    <3> QED  BY <3>1, <3>2 DEF OnTheWay, WayDown, InMemory, WayUp
  <2>2. Conserved(k)'
    <3>1. OnTheWay(k) = (IF line[k] = "fetching" THEN 1 ELSE 0)
      BY <1>1 DEF Conserved
    <3> QED  BY <1>0, <2>1, <3>1 DEF Conserved
  <2>3. Waiting(k)'
    <3>1. Waiting(k) /\ TxWBs(k) \in Nat
      BY <1>1, <1>2
    <3>2. TxWBs(k)' = TxWBs(k) \/ (k = l /\ TxWBs(k)' = TxWBs(k) + 1)
      BY <1>5
    <3>3. CASE k = l
      BY <1>0, <1>3, <3>2, <3>3 DEF Waiting
    <3>4. CASE k # l
      BY <1>0, <3>1, <3>2, <3>4 DEF Waiting
    <3> QED  BY <3>3, <3>4
  <2>4. InOrder(k)'
    BY <1>0, <1>1, BeyondUnchanged
  <2> QED  BY <2>2, <2>3, <2>4
<1> QED  BY <1>6, <1>7 DEF MemoryInv

\* The lower wire moves messages towards the memory; a write-back it takes is of an absent
\* line, so it overtakes no read.
LEMMA DownMoves ==
  ASSUME MemoryInv, lowerBusStep, UNCHANGED <<memQ, line>>, NEW l \in Lines
  PROVE  /\ txReq' \in Seq(Reads) /\ txResp' \in Seq(WriteBacks) /\ rxMem' \in Seq(Msg)
         /\ WayDown(l)' = WayDown(l) /\ Waiting(l)' /\ InOrder(l)'
<1>0. /\ TypeInv /\ Conserved(l) /\ Waiting(l) /\ InOrder(l)
      /\ txReq \in Seq(Reads) /\ txResp \in Seq(WriteBacks) /\ rxMem \in Seq(Msg)
      /\ lower.held \in Seq(Msg) /\ Len(lower.held) <= 1
  BY DEF MemoryInv, TypeInv
<1>1. /\ ReqReads(l) \in Nat /\ HeldReads(l) \in Nat /\ RxReads(l) \in Nat
      /\ QueuedReads(l) \in Nat /\ TxWBs(l) \in Nat /\ HeldWBs(l) \in Nat /\ RxWBs(l) \in Nat
  BY <1>0, CountsNat
<1>2. QueuedReads(l)' = QueuedReads(l)
  BY DEF QueuedReads
<1>3. /\ Ahead(memQ, QueuedOf(WriteBacksOf(l)), QueuedOf(ReadsOf(l)))
      /\ Ahead(rxMem, WriteBacksOf(l), ReadsOf(l))
      /\ Ahead(memQ', QueuedOf(WriteBacksOf(l)), QueuedOf(ReadsOf(l)))
  BY <1>0 DEF InOrder, Sorted
<1>4. CASE txReq' = txReq /\ txResp' = txResp /\ lower'.held = lower.held /\ rxMem' = rxMem
  <2>1. /\ ReqReads(l)' = ReqReads(l) /\ HeldReads(l)' = HeldReads(l) /\ RxReads(l)' = RxReads(l)
        /\ TxWBs(l)' = TxWBs(l) /\ HeldWBs(l)' = HeldWBs(l) /\ RxWBs(l)' = RxWBs(l)
    BY <1>4 DEF ReqReads, HeldReads, RxReads, TxWBs, HeldWBs, RxWBs
  <2>2. Sorted(l)'
    BY <1>3, <1>4 DEF Sorted
  <2> QED  BY <1>0, <1>2, <1>4, <2>1, <2>2 DEF WayDown, Waiting, InOrder
<1>5. CASE /\ lower.held = <<>> /\ rxMem' = rxMem /\ txResp' = txResp
           /\ \E k \in DOMAIN txReq : txReq' = Cut(txReq, k) /\ lower'.held = <<txReq[k]>>
  <2>1. PICK k \in DOMAIN txReq : txReq' = Cut(txReq, k) /\ lower'.held = <<txReq[k]>>
    BY <1>5
  <2>2. /\ Cut(txReq, k) \in Seq(Reads)
        /\ NOf(Cut(txReq, k), ReadsOf(l))
             = NOf(txReq, ReadsOf(l)) - (IF txReq[k] \in ReadsOf(l) THEN 1 ELSE 0)
    BY <1>0, CountCut
  <2>3. /\ ReqReads(l)' = ReqReads(l) - (IF txReq[k] \in ReadsOf(l) THEN 1 ELSE 0)
        /\ HeldReads(l)' = (IF txReq[k] \in ReadsOf(l) THEN 1 ELSE 0) /\ HeldReads(l) = 0
    BY <1>5, <2>1, <2>2, CountOne DEF ReqReads, HeldReads
  <2>4. HeldWBs(l)' = 0
    <3>1. txReq[k] \notin WriteBacksOf(l)
      <4>1. txReq[k] \in Reads
        BY <1>0, ElementOfSeq, LenProperties
      <4> QED  BY <4>1 DEF Reads, WriteBacksOf, WriteBacks
    <3> QED  BY <2>1, <3>1, CountOne DEF HeldWBs
  <2>5. RxReads(l)' = RxReads(l) /\ RxWBs(l)' = RxWBs(l) /\ TxWBs(l)' = TxWBs(l)
    BY <1>5 DEF RxReads, RxWBs, TxWBs
  <2>6. WayDown(l)' = WayDown(l)
    BY <1>1, <2>3, <2>5 DEF WayDown
  <2>7. InOrder(l)' /\ Waiting(l)'
    <3>1. Sorted(l)'
      BY <1>3, <1>5 DEF Sorted
    <3> QED  BY <1>0, <1>2, <2>4, <2>5, <3>1 DEF InOrder, Waiting
  <2> QED  BY <1>0, <1>5, <2>1, <2>2, <2>6, <2>7
<1>6. CASE /\ lower.held = <<>> /\ rxMem' = rxMem /\ txReq' = txReq
           /\ \E k \in DOMAIN txResp : txResp' = Cut(txResp, k) /\ lower'.held = <<txResp[k]>>
  <2>1. PICK k \in DOMAIN txResp : txResp' = Cut(txResp, k) /\ lower'.held = <<txResp[k]>>
    BY <1>6
  <2>2. /\ Cut(txResp, k) \in Seq(WriteBacks)
        /\ NOf(Cut(txResp, k), WriteBacksOf(l))
             = NOf(txResp, WriteBacksOf(l)) - (IF txResp[k] \in WriteBacksOf(l) THEN 1 ELSE 0)
        /\ NOf(Cut(txResp, k), WriteBacksOf(l)) \in Nat
    BY <1>0, CountCut, CountZero
  <2>3. /\ TxWBs(l)' = TxWBs(l) - (IF txResp[k] \in WriteBacksOf(l) THEN 1 ELSE 0)
        /\ HeldWBs(l)' = (IF txResp[k] \in WriteBacksOf(l) THEN 1 ELSE 0) /\ TxWBs(l)' \in Nat
    BY <1>6, <2>1, <2>2, CountOne DEF TxWBs, HeldWBs
  <2>4. HeldReads(l)' = 0 /\ HeldReads(l) = 0
    <3>1. txResp[k] \notin ReadsOf(l)
      <4>1. txResp[k] \in WriteBacks
        BY <1>0, ElementOfSeq, LenProperties
      <4> QED  BY <4>1 DEF Reads, ReadsOf, WriteBacks
    <3> QED  BY <1>6, <2>1, <3>1, CountOne DEF HeldReads
  <2>5. RxReads(l)' = RxReads(l) /\ RxWBs(l)' = RxWBs(l) /\ ReqReads(l)' = ReqReads(l)
    BY <1>6 DEF RxReads, RxWBs, ReqReads
  <2>6. WayDown(l)' = WayDown(l)
    BY <2>4, <2>5 DEF WayDown
  <2>7. Waiting(l)'
    BY <1>0, <1>1, <2>3 DEF Waiting
  <2>8. InOrder(l)'
    <3>1. Sorted(l)'
      BY <1>3, <1>6 DEF Sorted
    <3>2. CASE txResp[k] \in WriteBacksOf(l)
      <4>1. TxWBs(l) > 0
        BY <1>1, <2>3, <3>2
      <4>2. line[l] # "fetching"
        BY <1>0, <4>1 DEF Waiting
      <4>3. QueuedReads(l) = 0 /\ RxReads(l) = 0
        BY <1>0, <4>2, AtMostOne
      <4> QED  BY <1>2, <2>5, <3>1, <4>3 DEF InOrder
    <3>3. CASE txResp[k] \notin WriteBacksOf(l)
      BY <1>0, <1>2, <2>3, <2>5, <3>1, <3>3 DEF InOrder
    <3> QED  BY <3>2, <3>3
  <2> QED  BY <1>0, <1>6, <2>1, <2>2, <2>6, <2>7, <2>8
<1>7. CASE /\ txReq' = txReq /\ txResp' = txResp /\ lower'.held = <<>>
           /\ lower.held # <<>> /\ rxMem' = Append(rxMem, lower.held[1])
  <2> DEFINE x == lower.held[1]
  <2>1. x \in Msg /\ lower.held = <<x>>
    BY <1>0, <1>7, SlotHolds
  <2> HIDE DEF x
  <2>2. /\ Append(rxMem, x) \in Seq(Msg)
        /\ NOf(Append(rxMem, x), ReadsOf(l)) = NOf(rxMem, ReadsOf(l)) + (IF x \in ReadsOf(l) THEN 1 ELSE 0)
        /\ NOf(Append(rxMem, x), WriteBacksOf(l))
             = NOf(rxMem, WriteBacksOf(l)) + (IF x \in WriteBacksOf(l) THEN 1 ELSE 0)
    BY <1>0, <2>1, CountAppend
  <2>3. /\ HeldReads(l) = (IF x \in ReadsOf(l) THEN 1 ELSE 0) /\ HeldReads(l)' = 0
        /\ HeldWBs(l) = (IF x \in WriteBacksOf(l) THEN 1 ELSE 0) /\ HeldWBs(l)' = 0
    BY <1>7, <2>1, CountOne DEF HeldReads, HeldWBs
  <2>4. rxMem' = Append(rxMem, x)
    BY <1>7 DEF x
  <2>5. /\ RxReads(l)' = RxReads(l) + (IF x \in ReadsOf(l) THEN 1 ELSE 0)
        /\ RxWBs(l)' = RxWBs(l) + (IF x \in WriteBacksOf(l) THEN 1 ELSE 0)
    BY <2>2, <2>4 DEF RxReads, RxWBs
  <2>6. ReqReads(l)' = ReqReads(l) /\ TxWBs(l)' = TxWBs(l)
    BY <1>7 DEF ReqReads, TxWBs
  <2>7. WayDown(l)' = WayDown(l) /\ Waiting(l)'
    BY <1>0, <1>1, <2>3, <2>5, <2>6 DEF WayDown, Waiting
  <2>8. Ahead(Append(rxMem, x), WriteBacksOf(l), ReadsOf(l))
    <3>1. x \in WriteBacksOf(l) => NOf(rxMem, ReadsOf(l)) = 0 /\ x \notin ReadsOf(l)
      <4> HAVE x \in WriteBacksOf(l)
      <4>1. HeldWBs(l) = 1
        BY <2>3
      <4>2. RxReads(l) = 0
        BY <1>0, <1>1, <4>1 DEF InOrder
      <4> QED  BY <4>2, Apart DEF RxReads
    <3> QED  BY <1>0, <1>3, <2>1, <3>1, AheadAppend
  <2>9. InOrder(l)'
    <3>1. Sorted(l)'
      BY <1>3, <2>4, <2>8 DEF Sorted
    <3>2. QueuedReads(l)' > 0 => RxWBs(l)' = 0
      BY <1>0, <1>1, <1>2, <2>3, <2>5 DEF InOrder
    <3> QED  BY <2>3, <3>1, <3>2 DEF InOrder
  <2> QED  BY <1>0, <1>7, <2>2, <2>4, <2>7, <2>9
<1> QED  BY <1>0, <1>4, <1>5, <1>6, <1>7, LowerFacts

\* The upper wire moves answers towards the LLC.
LEMMA UpMoves ==
  ASSUME TypeInv, upperBusStep, NEW l \in Lines
  PROVE  memTx' \in Seq(Fills) /\ rxLLC' \in Seq(Fills) /\ WayUp(l)' = WayUp(l)
<1>0. /\ memTx \in Seq(Fills) /\ rxLLC \in Seq(Fills)
      /\ upper.held \in Seq(Fills) /\ Len(upper.held) <= 1
  BY DEF TypeInv
<1>1. TxFills(l) \in Nat /\ WireFills(l) \in Nat /\ RxFills(l) \in Nat
  BY CountsNat
<1>2. CASE memTx' = memTx /\ upper'.held = upper.held /\ rxLLC' = rxLLC
  BY <1>0, <1>2 DEF WayUp, TxFills, WireFills, RxFills
<1>3. CASE /\ upper.held = <<>> /\ rxLLC' = rxLLC
           /\ memTx # <<>> /\ memTx' = Tail(memTx) /\ upper'.held = <<Head(memTx)>>
  <2>1. /\ Tail(memTx) \in Seq(Fills)
        /\ NOf(Tail(memTx), FillsOf(l)) = NOf(memTx, FillsOf(l)) - (IF Head(memTx) \in FillsOf(l) THEN 1 ELSE 0)
    BY <1>0, <1>3, CountTail
  <2>2. /\ WireFills(l) = 0 /\ WireFills(l)' = (IF Head(memTx) \in FillsOf(l) THEN 1 ELSE 0)
        /\ RxFills(l)' = RxFills(l)
        /\ TxFills(l)' = TxFills(l) - (IF Head(memTx) \in FillsOf(l) THEN 1 ELSE 0)
    BY <1>3, <2>1, CountOne DEF WireFills, RxFills, TxFills
  <2>3. WayUp(l)' = WayUp(l)
    BY <1>1, <2>2 DEF WayUp
  <2> QED  BY <1>0, <1>3, <2>1, <2>3
<1>4. CASE /\ memTx' = memTx /\ upper'.held = <<>>
           /\ upper.held # <<>> /\ rxLLC' = Append(rxLLC, upper.held[1])
  <2> DEFINE x == upper.held[1]
  <2>1. x \in Fills /\ upper.held = <<x>>
    BY <1>0, <1>4, SlotHolds
  <2>2. rxLLC' = Append(rxLLC, x)
    BY <1>4
  <2> HIDE DEF x
  <2>3. /\ Append(rxLLC, x) \in Seq(Fills)
        /\ NOf(Append(rxLLC, x), FillsOf(l)) = NOf(rxLLC, FillsOf(l)) + (IF x \in FillsOf(l) THEN 1 ELSE 0)
    BY <1>0, <2>1, CountAppend
  <2>4. /\ WireFills(l)' = 0 /\ WireFills(l) = (IF x \in FillsOf(l) THEN 1 ELSE 0)
        /\ TxFills(l)' = TxFills(l)
        /\ RxFills(l)' = RxFills(l) + (IF x \in FillsOf(l) THEN 1 ELSE 0)
    BY <1>4, <2>1, <2>2, <2>3, CountOne DEF WireFills, RxFills, TxFills
  <2>5. WayUp(l)' = WayUp(l)
    BY <1>1, <2>4 DEF WayUp
  <2> QED  BY <1>0, <1>4, <2>2, <2>3, <2>5
<1> QED  BY <1>2, <1>3, <1>4, UpperFacts

\* A cycle of the link keeps the invariant: what leaves one buffer enters the next.
LEMMA BusKeeps ==
  ASSUME MemoryInv, busStep
  PROVE  MemoryInv'
<1>0. /\ TypeInv /\ lowerBusStep /\ upperBusStep
      /\ UNCHANGED <<line, latest, memQ, dram, out>>
  BY DEF busStep, MemoryInv
<1>1. ASSUME NEW l \in Lines
      PROVE  Conserved(l)' /\ Waiting(l)' /\ InOrder(l)'
  <2>1. WayDown(l)' = WayDown(l) /\ WayUp(l)' = WayUp(l) /\ Waiting(l)' /\ InOrder(l)'
    BY <1>0, DownMoves, UpMoves
  <2>2. InMemory(l)' = InMemory(l)
    BY <1>0 DEF InMemory, QueuedReads, DramReads, OutFills
  <2>3. Conserved(l)
    BY DEF MemoryInv
  <2> QED  BY <1>0, <2>1, <2>2, <2>3 DEF Conserved, OnTheWay
<1>2. TypeInv'
  <2>1. PICK l : l \in Lines
    BY MemoryAssumption
  <2>2. /\ txReq' \in Seq(Reads) /\ txResp' \in Seq(WriteBacks) /\ rxMem' \in Seq(Msg)
        /\ memTx' \in Seq(Fills) /\ rxLLC' \in Seq(Fills)
    BY <1>0, <2>1, DownMoves, UpMoves
  <2>3. /\ lower'.held \in Seq(Msg) /\ Len(lower'.held) <= 1
        /\ lower'.slot \in 0 .. (ReqLatency - 1) /\ (lower'.slot = 0 => lower'.held = <<>>)
    BY <1>0, LowerFacts
  <2>4. /\ upper'.held \in Seq(Fills) /\ Len(upper'.held) <= 1 /\ upper'.slot \in Int
        /\ upper'.held # <<>> => upper'.available /\ upper'.slot \in 1 .. (RespLatency - 1)
    BY <1>0, UpperFacts
  <2>5. /\ line' \in [Lines -> LineStates] /\ latest' \in Int /\ memQ' \in Seq(Queued)
        /\ dram' \in Seq(Reads) /\ out' \in Seq(Fills)
    BY <1>0 DEF TypeInv
  <2> QED  BY <2>2, <2>3, <2>4, <2>5 DEF TypeInv
<1> QED  BY <1>1, <1>2 DEF MemoryInv

-----------------------------------------------------------------------------
(* The memory's queue.                                                      *)

\* Queue q of the memory, behind it buffer r and the lower wire, are in order.
QueueInOrder(q, r, l) ==
  /\ Ahead(q, QueuedOf(WriteBacksOf(l)), QueuedOf(ReadsOf(l)))
  /\ Ahead(r, WriteBacksOf(l), ReadsOf(l))
  /\ NOf(q, QueuedOf(ReadsOf(l))) > 0 => NOf(r, WriteBacksOf(l)) = 0 /\ HeldWBs(l) = 0
  /\ NOf(r, ReadsOf(l)) > 0 => HeldWBs(l) = 0

\* The memory takes the next message into its queue.
LEMMA TakeIn ==
  ASSUME MemoryInv, NEW w \in Nat, rxMem # <<>>, NEW l \in Lines
  PROVE  LET q == Append(memQ, [m |-> Head(rxMem), wait |-> w])
         IN  /\ q \in Seq(Queued) /\ Tail(rxMem) \in Seq(Msg)
             /\ NOf(q, QueuedOf(ReadsOf(l))) + NOf(Tail(rxMem), ReadsOf(l)) = QueuedReads(l) + RxReads(l)
             /\ QueueInOrder(q, Tail(rxMem), l)
<1> DEFINE h == Head(rxMem)
           e == [m |-> h, wait |-> w]
           q == Append(memQ, e)
           r == Tail(rxMem)
           W == WriteBacksOf(l)
           R == ReadsOf(l)
<1> SUFFICES /\ q \in Seq(Queued) /\ r \in Seq(Msg)
             /\ NOf(q, QueuedOf(R)) + NOf(r, R) = QueuedReads(l) + RxReads(l)
             /\ QueueInOrder(q, r, l)
  OBVIOUS
<1>0. /\ TypeInv /\ InOrder(l) /\ memQ \in Seq(Queued) /\ rxMem \in Seq(Msg)
  BY DEF MemoryInv, TypeInv
<1>1. /\ QueuedReads(l) \in Nat /\ RxReads(l) \in Nat /\ RxWBs(l) \in Nat /\ HeldWBs(l) \in Nat
  BY <1>0, CountsNat
<1>2. /\ h \in Msg /\ r \in Seq(Msg)
      /\ NOf(r, R) = NOf(rxMem, R) - (IF h \in R THEN 1 ELSE 0)
      /\ NOf(r, W) = NOf(rxMem, W) - (IF h \in W THEN 1 ELSE 0)
  BY <1>0, CountTail
<1>3. Ahead(r, W, R) /\ (h \in R => NOf(r, W) = 0)
  BY <1>0, AheadTail DEF InOrder, Sorted
<1>4. NOf(r, R) \in Nat /\ NOf(r, W) \in Nat
  BY <1>2, CountZero
<1>5. e \in Queued /\ (e \in QueuedOf(R) <=> h \in R) /\ (e \in QueuedOf(W) <=> h \in W)
  BY <1>2 DEF Queued, QueuedOf
<1>6. h \in W => h \notin R
  BY Apart
<1> HIDE DEF h, e, r
<1>7. /\ q \in Seq(Queued)
      /\ NOf(q, QueuedOf(R)) = NOf(memQ, QueuedOf(R)) + (IF e \in QueuedOf(R) THEN 1 ELSE 0)
  BY <1>0, <1>5, CountAppend
<1>8. Ahead(q, QueuedOf(W), QueuedOf(R))
  <2>1. e \in QueuedOf(W) => NOf(memQ, QueuedOf(R)) = 0 /\ e \notin QueuedOf(R)
    <3> HAVE e \in QueuedOf(W)
    <3>1. h \in W
      BY <1>5
    <3>2. RxWBs(l) > 0
      BY <1>1, <1>2, <1>4, <3>1 DEF RxWBs
    <3>3. QueuedReads(l) = 0
      BY <1>0, <1>1, <3>2 DEF InOrder
    <3> QED  BY <1>5, <1>6, <3>1, <3>3 DEF QueuedReads
  <2>2. Ahead(memQ, QueuedOf(W), QueuedOf(R))
    BY <1>0 DEF InOrder, Sorted
  <2> HIDE DEF W, R
  <2> QED  BY <1>0, <1>5, <2>1, <2>2, AheadAppend
<1> HIDE DEF q
<1>9. NOf(q, QueuedOf(R)) = QueuedReads(l) + (IF h \in R THEN 1 ELSE 0)
      /\ NOf(r, R) = RxReads(l) - (IF h \in R THEN 1 ELSE 0)
  BY <1>2, <1>5, <1>7 DEF QueuedReads, RxReads
<1>10. NOf(r, R) > 0 => HeldWBs(l) = 0
  BY <1>0, <1>1, <1>4, <1>9 DEF InOrder
<1>11. NOf(q, QueuedOf(R)) > 0 => NOf(r, W) = 0 /\ HeldWBs(l) = 0
  <2>1. CASE h \in R
    <3>1. RxReads(l) > 0
      BY <1>1, <1>4, <1>9, <2>1
    <3> QED  BY <1>0, <1>3, <2>1, <3>1 DEF InOrder
  <2>2. CASE h \notin R
    <3>1. NOf(r, W) <= RxWBs(l)
      BY <1>1, <1>2, <1>4 DEF RxWBs
    <3> QED  BY <1>0, <1>1, <1>4, <1>9, <2>2, <3>1 DEF InOrder
  <2> QED  BY <2>1, <2>2
<1>12. NOf(q, QueuedOf(R)) + NOf(r, R) = QueuedReads(l) + RxReads(l)
  BY <1>1, <1>4, <1>9
<1> QED  BY <1>2, <1>3, <1>7, <1>8, <1>10, <1>11, <1>12 DEF QueueInOrder

\* The memory does not take a message: the queue and the buffer stay.
LEMMA NothingIn ==
  ASSUME MemoryInv, NEW l \in Lines
  PROVE  QueueInOrder(memQ, rxMem, l)
BY DEF MemoryInv, InOrder, Sorted, QueueInOrder, QueuedReads, RxReads, RxWBs

\* The memory serves entry k of its queue.
LEMMA TakeOut ==
  ASSUME NEW q \in Seq(Queued), NEW r \in Seq(Msg), NEW l, QueueInOrder(q, r, l), NEW k \in DOMAIN q
  PROVE  /\ Cut(q, k) \in Seq(Queued) /\ QueueInOrder(Cut(q, k), r, l)
         /\ q[k].m \in Msg
         /\ NOf(Cut(q, k), QueuedOf(ReadsOf(l)))
              = NOf(q, QueuedOf(ReadsOf(l))) - (IF q[k].m \in ReadsOf(l) THEN 1 ELSE 0)
<1>1. q[k] \in Queued
  BY ElementOfSeq, LenProperties
<1>2. q[k].m \in Msg /\ (q[k] \in QueuedOf(ReadsOf(l)) <=> q[k].m \in ReadsOf(l))
  BY <1>1 DEF Queued, QueuedOf
<1>3. /\ Cut(q, k) \in Seq(Queued)
      /\ NOf(Cut(q, k), QueuedOf(ReadsOf(l)))
           = NOf(q, QueuedOf(ReadsOf(l))) - (IF q[k] \in QueuedOf(ReadsOf(l)) THEN 1 ELSE 0)
  BY CountCut
<1>4. /\ NOf(q, QueuedOf(ReadsOf(l))) \in Nat /\ NOf(Cut(q, k), QueuedOf(ReadsOf(l))) \in Nat
  BY <1>3, CountZero
<1>5. NOf(Cut(q, k), QueuedOf(ReadsOf(l))) > 0 => NOf(q, QueuedOf(ReadsOf(l))) > 0
  BY <1>3, <1>4
<1>6. Ahead(Cut(q, k), QueuedOf(WriteBacksOf(l)), QueuedOf(ReadsOf(l)))
  BY AheadCut DEF QueueInOrder
<1> QED  BY <1>2, <1>3, <1>5, <1>6 DEF QueueInOrder

\* Waiting a cycle changes neither the messages nor their order.
LEMMA OlderSame ==
  ASSUME NEW q \in Seq(Queued)
  PROVE  /\ Older(q) \in Seq(Queued)
         /\ \A S : NOf(Older(q), QueuedOf(S)) = NOf(q, QueuedOf(S))
         /\ \A r, l : QueueInOrder(q, r, l) => QueueInOrder(Older(q), r, l)
<1>1. Len(q) \in Nat /\ DOMAIN q = 1 .. Len(q) /\ DOMAIN Older(q) = DOMAIN q
  BY LenProperties DEF Older
<1>2. \A i \in DOMAIN q : q[i] \in Queued
  BY ElementOfSeq, LenProperties
<1>3. ASSUME NEW i \in DOMAIN q
      PROVE  Older(q)[i] \in Queued /\ Older(q)[i].m = q[i].m
  <2>1. q[i] \in Queued
    BY <1>2
  <2>2. Older(q)[i] = [q[i] EXCEPT !.wait = IF q[i].wait = 0 THEN 0 ELSE q[i].wait - 1]
    BY DEF Older
  <2>3. (IF q[i].wait = 0 THEN 0 ELSE q[i].wait - 1) \in Nat
    BY <2>1 DEF Queued
  <2> QED  BY <2>1, <2>2, <2>3 DEF Queued
<1>4. Older(q) \in Seq(Queued)
  <2>1. Older(q) = [i \in 1 .. Len(q) |-> Older(q)[i]]
    BY <1>1 DEF Older
  <2> QED  BY <1>1, <1>3, <2>1
<1>5. \A S : \A i \in DOMAIN q : Older(q)[i] \in QueuedOf(S) <=> q[i] \in QueuedOf(S)
  BY <1>2, <1>3 DEF QueuedOf
<1>6. \A S : Positions(Older(q), QueuedOf(S)) = Positions(q, QueuedOf(S))
  BY <1>1, <1>5 DEF Positions
<1>7. \A W, R : Ahead(q, QueuedOf(W), QueuedOf(R)) => Ahead(Older(q), QueuedOf(W), QueuedOf(R))
  BY <1>1, <1>5 DEF Ahead
<1>8. \A S : NOf(Older(q), QueuedOf(S)) = NOf(q, QueuedOf(S))
  BY <1>6 DEF NOf
<1> QED  BY <1>4, <1>7, <1>8 DEF QueueInOrder

\* A read of a line becomes a fill of the same line.
LEMMA ReadToFill ==
  ASSUME NEW m \in Msg
  PROVE  /\ m.wb \in BOOLEAN
         /\ m.wb => \A l : m \notin ReadsOf(l)
         /\ ~m.wb => /\ m \in Reads /\ Fill(m.line, m.owner) \in Fills
                     /\ \A l : Fill(m.line, m.owner) \in FillsOf(l) <=> m \in ReadsOf(l)
<1>1. CASE m \in Reads
  BY <1>1 DEF Reads, ReadsOf, Fill, Fills, FillsOf
<1>2. CASE m \in WriteBacks
  BY <1>2 DEF WriteBacks, Reads, ReadsOf
<1> QED  BY <1>1, <1>2 DEF Msg

\* MainMemoryController moves one message into its queue and serves one entry; a read it
\* serves is answered by one fill.
LEMMA MainKeeps ==
  ASSUME MemoryInv, mainProcess
  PROVE  MemoryInv'
<1> DEFINE takes  == rxMem # <<>> /\ Len(memQ) < QueueMax
           q      == IF takes THEN Append(memQ, [m |-> Head(rxMem), wait |-> MemLatency]) ELSE memQ
           r      == IF takes THEN Tail(rxMem) ELSE rxMem
           ripe   == {i \in DOMAIN q : q[i].wait = 0 /\ \A j \in 1 .. (i - 1) : q[j].wait # 0}
           answer == {q[i].m : i \in {j \in ripe : ~q[j].m.wb}}
<1>0. /\ UNCHANGED <<line, latest, txReq, txResp, rxLLC, lower, upper, dram, out>> /\ TypeInv
      /\ memQ \in Seq(Queued) /\ rxMem \in Seq(Msg) /\ memTx \in Seq(Fills)
  BY DEF mainProcess, llcVars, linkVars, MemoryInv, TypeInv
<1>1. /\ rxMem' = r
      /\ memQ' = Older(IF ripe = {} THEN q ELSE Without(q, CHOOSE i \in ripe : TRUE))
      /\ memTx' = IF answer = {} THEN memTx
                  ELSE LET m == CHOOSE a \in answer : TRUE IN Append(memTx, Fill(m.line, m.owner))
  BY DEF mainProcess
<1>2. ASSUME NEW l \in Lines
      PROVE  /\ q \in Seq(Queued) /\ r \in Seq(Msg) /\ QueueInOrder(q, r, l)
             /\ NOf(q, QueuedOf(ReadsOf(l))) + NOf(r, ReadsOf(l)) = QueuedReads(l) + RxReads(l)
  <2>1. CASE takes
    BY <2>1, TakeIn, Sizes
  <2>2. CASE ~takes
    BY <1>0, <2>2, NothingIn DEF QueuedReads, RxReads
  <2> QED  BY <2>1, <2>2
<1>3. q \in Seq(Queued) /\ r \in Seq(Msg)
  BY <1>2, MemoryAssumption
<1>4. ASSUME memQ' \in Seq(Queued), memTx' \in Seq(Fills),
             \A l \in Lines :
               /\ QueueInOrder(memQ', r, l)
               /\ QueuedReads(l)' + TxFills(l)' = NOf(q, QueuedOf(ReadsOf(l))) + TxFills(l)
      PROVE  MemoryInv'
  <2>1. TypeInv'
    BY <1>0, <1>1, <1>3, <1>4 DEF TypeInv
  <2>2. ASSUME NEW l \in Lines
        PROVE  Conserved(l)' /\ Waiting(l)' /\ InOrder(l)'
    <3>1. /\ ReqReads(l)' = ReqReads(l) /\ HeldReads(l)' = HeldReads(l)
          /\ DramReads(l)' = DramReads(l) /\ OutFills(l)' = OutFills(l)
          /\ WireFills(l)' = WireFills(l) /\ RxFills(l)' = RxFills(l)
          /\ TxWBs(l)' = TxWBs(l) /\ HeldWBs(l)' = HeldWBs(l)
      BY <1>0 DEF ReqReads, HeldReads, DramReads, OutFills, WireFills, RxFills, TxWBs, HeldWBs
    <3>2. /\ RxReads(l)' = NOf(r, ReadsOf(l)) /\ RxWBs(l)' = NOf(r, WriteBacksOf(l))
          /\ QueuedReads(l)' = NOf(memQ', QueuedOf(ReadsOf(l)))
      BY <1>1, Zenon DEF RxReads, RxWBs, QueuedReads
    <3>3. Conserved(l) /\ Waiting(l)
      BY DEF MemoryInv
    <3>4. Waiting(l)'
      BY <1>0, <3>1, <3>3 DEF Waiting
    <3>5. InOrder(l)'
      <4>1. QueueInOrder(memQ', r, l)
        BY <1>4
      <4>2. Sorted(l)'
        BY <1>1, <4>1, Zenon DEF QueueInOrder, Sorted
      <4> HIDE DEF r
      <4> QED  BY <3>1, <3>2, <4>1, <4>2 DEF QueueInOrder, InOrder
    <3>6. OnTheWay(l)' = OnTheWay(l)
      <4> DEFINE Q == NOf(q, QueuedOf(ReadsOf(l)))
      <4>1. /\ ReqReads(l) \in Nat /\ HeldReads(l) \in Nat /\ RxReads(l) \in Nat
            /\ QueuedReads(l) \in Nat /\ DramReads(l) \in Nat /\ OutFills(l) \in Nat
            /\ TxFills(l) \in Nat /\ WireFills(l) \in Nat /\ RxFills(l) \in Nat
        BY <1>0, CountsNat
      <4>2. Q \in Nat /\ NOf(r, ReadsOf(l)) \in Nat
        BY <1>3, CountZero
      <4>3. QueuedReads(l)' \in Nat /\ TxFills(l)' \in Nat
        BY <1>4, CountZero DEF QueuedReads, TxFills
      <4>4. Q + RxReads(l)' = QueuedReads(l) + RxReads(l) /\ RxReads(l)' \in Nat
        BY <1>2, <3>2, <4>2
      <4>5. QueuedReads(l)' + TxFills(l)' = Q + TxFills(l)
        BY <1>4
      <4> HIDE DEF Q, q, r
      <4>6. PICK rx \in Nat, rx1 \in Nat, qr \in Nat, qr1 \in Nat, tx \in Nat, tx1 \in Nat, n \in Nat :
              /\ rx = RxReads(l) /\ rx1 = RxReads(l)' /\ qr = QueuedReads(l) /\ qr1 = QueuedReads(l)'
              /\ tx = TxFills(l) /\ tx1 = TxFills(l)' /\ n = Q
        BY <4>1, <4>2, <4>3, <4>4
      <4>7. PICK a \in Nat : WayDown(l) = a + rx /\ WayDown(l)' = a + rx1
        <5>1. PICK a \in Nat : a = ReqReads(l) + HeldReads(l)
          BY <4>1
        <5> QED  BY <3>1, <4>6, <5>1 DEF WayDown
      <4>8. PICK b \in Nat : InMemory(l) = b + qr /\ InMemory(l)' = b + qr1
        <5>1. PICK b \in Nat : b = DramReads(l) + OutFills(l)
          BY <4>1
        <5>2. InMemory(l) = qr + DramReads(l) + OutFills(l) /\ InMemory(l)' = qr1 + DramReads(l) + OutFills(l)
          BY <3>1, <4>6 DEF InMemory
        <5> QED  BY <4>1, <5>1, <5>2
      <4>9. PICK c \in Nat : WayUp(l) = c + tx /\ WayUp(l)' = c + tx1
        <5>1. PICK c \in Nat : c = WireFills(l) + RxFills(l)
          BY <4>1
        <5>2. WayUp(l) = tx + WireFills(l) + RxFills(l) /\ WayUp(l)' = tx1 + WireFills(l) + RxFills(l)
          BY <3>1, <4>6 DEF WayUp
        <5> QED  BY <4>1, <5>1, <5>2
      <4>10. n + rx1 = qr + rx /\ qr1 + tx1 = n + tx
        BY <4>4, <4>5, <4>6
      <4>11. (a + rx1) + (b + qr1) + (c + tx1) = (a + rx) + (b + qr) + (c + tx)
        BY <4>10
      <4> QED  BY <4>7, <4>8, <4>9, <4>11 DEF OnTheWay
    <3> QED  BY <1>0, <3>3, <3>4, <3>5, <3>6 DEF Conserved
  <2> QED  BY <2>1, <2>2 DEF MemoryInv
<1>5. CASE ripe = {}
  <2>1. answer = {}
    BY <1>5
  <2>2. memQ' = Older(q) /\ memTx' = memTx
    BY <1>1, <1>5, <2>1, Zenon
  <2> HIDE DEF q, r
  <2>3. ASSUME NEW l \in Lines
        PROVE  /\ QueueInOrder(memQ', r, l)
               /\ QueuedReads(l)' + TxFills(l)' = NOf(q, QueuedOf(ReadsOf(l))) + TxFills(l)
    <3>1. QueueInOrder(q, r, l)
      BY <1>2
    <3>2. /\ QueueInOrder(Older(q), r, l)
          /\ NOf(Older(q), QueuedOf(ReadsOf(l))) = NOf(q, QueuedOf(ReadsOf(l)))
      BY <1>3, <3>1, OlderSame
    <3> QED  BY <2>2, <3>2 DEF QueuedReads, TxFills
  <2>4. memQ' \in Seq(Queued) /\ memTx' \in Seq(Fills)
    BY <1>0, <1>3, <2>2, OlderSame
  <2> QED  BY <1>4, <2>3, <2>4
<1>6. CASE ripe # {}
  <2> DEFINE k == CHOOSE i \in ripe : TRUE
             m == q[k].m
  <2>1. k \in ripe /\ k \in DOMAIN q
    BY <1>6
  <2>2. \A i \in ripe : i = k
    <3> SUFFICES ASSUME NEW i \in ripe PROVE i = k
      OBVIOUS
    <3>1. DOMAIN q = 1 .. Len(q) /\ Len(q) \in Nat /\ i \in DOMAIN q
      BY <1>3, LenProperties
    <3>2. i \in Nat /\ k \in Nat /\ 1 <= i /\ 1 <= k
      <4> HIDE DEF q, k, ripe
      <4> QED  BY <2>1, <3>1
    <3>3. /\ q[i].wait = 0 /\ \A j \in 1 .. (i - 1) : q[j].wait # 0
          /\ q[k].wait = 0 /\ \A j \in 1 .. (k - 1) : q[j].wait # 0
      BY <2>1
    <3> HIDE DEF q, k, ripe
    <3>4. ~(i < k) /\ ~(k < i)
      <4>1. ASSUME i < k PROVE FALSE
        BY <3>2, <3>3, <4>1
      <4>2. ASSUME k < i PROVE FALSE
        BY <3>2, <3>3, <4>2
      <4> QED  BY <4>1, <4>2
    <3> QED  BY <3>2, <3>4
  <2>3. ripe = {k}
    BY <2>1, <2>2
  <2>4. answer = IF m.wb THEN {} ELSE {m}
    <3> HIDE DEF q, ripe, k
    <3>1. {j \in ripe : ~q[j].m.wb} = IF q[k].m.wb THEN {} ELSE {k}
      BY <2>3
    <3> QED  BY <3>1
  <2>5. memQ' = Older(Cut(q, k))
    BY <1>1, <1>6, WithoutIsCut
  <2>6. ASSUME NEW l \in Lines
        PROVE  /\ Cut(q, k) \in Seq(Queued) /\ QueueInOrder(Cut(q, k), r, l) /\ m \in Msg
               /\ NOf(Cut(q, k), QueuedOf(ReadsOf(l)))
                    = NOf(q, QueuedOf(ReadsOf(l))) - (IF m \in ReadsOf(l) THEN 1 ELSE 0)
    <3>1. QueueInOrder(q, r, l)
      BY <1>2
    <3> HIDE DEF q, r, k
    <3> QED  BY <1>3, <2>1, <3>1, TakeOut
  <2>7. m \in Msg /\ Cut(q, k) \in Seq(Queued)
    BY <2>6, MemoryAssumption
  <2>8. memTx' = IF m.wb THEN memTx ELSE Append(memTx, Fill(m.line, m.owner))
    <3> HIDE DEF answer, q, r, k, ripe, m
    <3>1. CASE m.wb
      BY <1>1, <2>4, <3>1, Zenon
    <3>2. CASE ~m.wb
      <4>1. answer = {m}
        BY <2>4, <3>2
      <4>2. (CHOOSE a \in answer : TRUE) = m /\ answer # {}
        BY <4>1
      <4> QED  BY <1>1, <3>2, <4>2, Zenon
    <3> QED  BY <2>7, <3>1, <3>2, ReadToFill
  <2> HIDE DEF q, r, k, m, ripe, answer
  <2>9. ASSUME NEW l \in Lines
        PROVE  /\ memTx' \in Seq(Fills)
               /\ TxFills(l)' = TxFills(l) + (IF m \in ReadsOf(l) THEN 1 ELSE 0)
    <3>0. TxFills(l) \in Nat
      BY <1>0, CountsNat
    <3>1. CASE m.wb
      BY <1>0, <2>7, <2>8, <3>0, <3>1, ReadToFill DEF TxFills
    <3>2. CASE ~m.wb
      <4> DEFINE f == Fill(m.line, m.owner)
      <4>1. f \in Fills /\ (f \in FillsOf(l) <=> m \in ReadsOf(l))
        BY <2>7, <3>2, ReadToFill
      <4>2. memTx' = Append(memTx, f)
        BY <2>8, <3>2
      <4> HIDE DEF f
      <4>3. /\ Append(memTx, f) \in Seq(Fills)
            /\ NOf(Append(memTx, f), FillsOf(l)) = NOf(memTx, FillsOf(l)) + (IF f \in FillsOf(l) THEN 1 ELSE 0)
        BY <1>0, <4>1, CountAppend
      <4> QED  BY <4>1, <4>2, <4>3 DEF TxFills
    <3> QED  BY <2>7, <3>1, <3>2, ReadToFill
  <2>10. ASSUME NEW l \in Lines
         PROVE  /\ QueueInOrder(memQ', r, l)
                /\ QueuedReads(l)' + TxFills(l)' = NOf(q, QueuedOf(ReadsOf(l))) + TxFills(l)
    <3>1. /\ QueueInOrder(Older(Cut(q, k)), r, l)
          /\ NOf(Older(Cut(q, k)), QueuedOf(ReadsOf(l))) = NOf(Cut(q, k), QueuedOf(ReadsOf(l)))
      BY <2>6, OlderSame
    <3>2. QueuedReads(l)' = NOf(q, QueuedOf(ReadsOf(l))) - (IF m \in ReadsOf(l) THEN 1 ELSE 0)
      BY <2>5, <2>6, <3>1 DEF QueuedReads
    <3>3. NOf(q, QueuedOf(ReadsOf(l))) \in Nat /\ TxFills(l) \in Nat
      BY <1>0, <1>3, CountZero, CountsNat
    <3> QED  BY <2>5, <2>9, <3>1, <3>2, <3>3
  <2>11. memQ' \in Seq(Queued) /\ memTx' \in Seq(Fills)
    BY <2>5, <2>7, <2>9, OlderSame, MemoryAssumption
  <2> QED  BY <1>4, <2>10, <2>11
<1> QED  BY <1>5, <1>6

\* MCsimInterface moves one message into its queue, hands the oldest to MCsim, and passes
\* on what MCsim finished: each read is in one of these places, or its fill is.
LEMMA McsimKeeps ==
  ASSUME MemoryInv, NEW done \in Nat, mcsimProcess(done)
  PROVE  MemoryInv'
<1> DEFINE q     == IF rxMem = <<>> THEN memQ ELSE Append(memQ, [m |-> Head(rxMem), wait |-> 0])
           r     == IF rxMem = <<>> THEN rxMem ELSE Tail(rxMem)
           added == IF q = <<>> THEN <<>> ELSE IF q[1].m.wb THEN <<>> ELSE <<q[1].m>>
           rest  == IF out = <<>> THEN out ELSE Tail(out)
           fin   == IF done = 0 THEN <<>> ELSE <<Fill(dram[done].line, dram[done].owner)>>
<1>0. /\ UNCHANGED <<line, latest, txReq, txResp, rxLLC, lower, upper>> /\ TypeInv
      /\ memQ \in Seq(Queued) /\ rxMem \in Seq(Msg) /\ memTx \in Seq(Fills)
      /\ dram \in Seq(Reads) /\ out \in Seq(Fills)
  BY DEF mcsimProcess, llcVars, linkVars, MemoryInv, TypeInv
<1>1. /\ rxMem' = r /\ memQ' = (IF q = <<>> THEN q ELSE Tail(q))
      /\ done \in {0} \cup DOMAIN dram /\ dram' = answered(done) \o added
      /\ out' = rest \o fin
      /\ memTx' = IF out = <<>> THEN memTx ELSE Append(memTx, Head(out))
  BY DEF mcsimProcess
<1>2. ASSUME NEW l \in Lines
      PROVE  /\ q \in Seq(Queued) /\ r \in Seq(Msg) /\ QueueInOrder(q, r, l)
             /\ NOf(q, QueuedOf(ReadsOf(l))) + NOf(r, ReadsOf(l)) = QueuedReads(l) + RxReads(l)
  <2>1. CASE rxMem # <<>>
    BY <2>1, TakeIn
  <2>2. CASE rxMem = <<>>
    BY <1>0, <2>2, NothingIn DEF QueuedReads, RxReads
  <2> QED  BY <2>1, <2>2
<1>3. q \in Seq(Queued) /\ r \in Seq(Msg)
  BY <1>2, MemoryAssumption
<1> HIDE DEF q, r
\* The oldest entry leaves the queue for MCsim, if it is a read.
<1>4. ASSUME NEW l \in Lines
      PROVE  \E a \in {0, 1} :
               /\ memQ' \in Seq(Queued) /\ QueueInOrder(memQ', r, l) /\ added \in Seq(Reads)
               /\ QueuedReads(l)' = NOf(q, QueuedOf(ReadsOf(l))) - a
               /\ NOf(added, ReadsOf(l)) = a
  <2>0. QueueInOrder(q, r, l) /\ NOf(q, QueuedOf(ReadsOf(l))) \in Nat
    BY <1>2, <1>3, CountZero
  <2>1. CASE q = <<>>
    <3>1. memQ' = q /\ added = <<>>
      BY <1>1, <2>1
    <3>2. QueuedReads(l)' = NOf(q, QueuedOf(ReadsOf(l))) - 0 /\ NOf(added, ReadsOf(l)) = 0
      BY <2>0, <3>1, CountOne DEF QueuedReads
    <3>3. memQ' \in Seq(Queued) /\ QueueInOrder(memQ', r, l) /\ added \in Seq(Reads)
      BY <1>3, <2>0, <3>1
    <3> QED  BY <3>2, <3>3, Zenon
  <2>2. CASE q # <<>>
    <3> DEFINE m == q[1].m
    <3>1. /\ 1 \in DOMAIN q /\ q[1] \in Queued /\ q[1] = Head(q)
      BY <1>3, <2>2, EmptySeq, LenProperties, HeadTailProperties, ElementOfSeq
    <3>2. m \in Msg /\ (q[1] \in QueuedOf(ReadsOf(l)) <=> m \in ReadsOf(l))
      BY <3>1 DEF Queued, QueuedOf
    <3>3. /\ Tail(q) \in Seq(Queued)
          /\ NOf(Tail(q), QueuedOf(ReadsOf(l)))
               = NOf(q, QueuedOf(ReadsOf(l))) - (IF q[1] \in QueuedOf(ReadsOf(l)) THEN 1 ELSE 0)
      BY <1>3, <2>2, <3>1, CountTail
    <3>4. NOf(Tail(q), QueuedOf(ReadsOf(l))) \in Nat
      BY <3>3, CountZero
    <3>5. QueueInOrder(Tail(q), r, l)
      <4>1. Ahead(Tail(q), QueuedOf(WriteBacksOf(l)), QueuedOf(ReadsOf(l)))
        BY <1>3, <2>0, <2>2, AheadTail DEF QueueInOrder
      <4>2. NOf(Tail(q), QueuedOf(ReadsOf(l))) > 0 => NOf(q, QueuedOf(ReadsOf(l))) > 0
        BY <2>0, <3>3, <3>4
      <4> QED  BY <2>0, <4>1, <4>2 DEF QueueInOrder
    <3>6. memQ' = Tail(q) /\ added = (IF m.wb THEN <<>> ELSE <<m>>)
      BY <1>1, <2>2
    <3> HIDE DEF m, added
    <3>7. added \in Seq(Reads) /\ NOf(added, ReadsOf(l)) = (IF m \in ReadsOf(l) THEN 1 ELSE 0)
      <4>1. CASE m.wb
        <5>1. added = <<>> /\ m \notin ReadsOf(l)
          BY <3>2, <3>6, <4>1, ReadToFill
        <5>2. NOf(<<>>, ReadsOf(l)) = 0 /\ <<>> \in Seq(Reads)
          BY CountNone
        <5> QED  BY <5>1, <5>2
      <4>2. CASE ~m.wb
        <5>1. added = <<m>> /\ m \in Reads
          BY <3>2, <3>6, <4>2, ReadToFill
        <5> QED  BY <5>1, CountOne
      <4> QED  BY <3>2, <4>1, <4>2, ReadToFill
    <3>8. QueuedReads(l)' = NOf(q, QueuedOf(ReadsOf(l))) - (IF m \in ReadsOf(l) THEN 1 ELSE 0)
      BY <3>2, <3>3, <3>6 DEF QueuedReads
    <3>9. PICK a \in {0, 1} : a = IF m \in ReadsOf(l) THEN 1 ELSE 0
      OBVIOUS
    <3> WITNESS a \in {0, 1}
    <3> QED  BY <3>3, <3>5, <3>6, <3>7, <3>8, <3>9
  <2> QED  BY <2>1, <2>2
\* A finished read becomes a fill.
<1>5. ASSUME NEW l \in Lines
      PROVE  \E b \in {0, 1} :
               /\ answered(done) \in Seq(Reads) /\ fin \in Seq(Fills)
               /\ NOf(answered(done), ReadsOf(l)) = DramReads(l) - b
               /\ NOf(fin, FillsOf(l)) = b
  <2>0. DramReads(l) \in Nat
    BY <1>0, CountsNat
  <2>1. CASE done = 0
    <3>1. answered(done) = dram /\ fin = <<>>
      BY <2>1 DEF answered
    <3>2. NOf(answered(done), ReadsOf(l)) = DramReads(l) - 0 /\ NOf(fin, FillsOf(l)) = 0
      BY <2>0, <3>1, CountOne DEF DramReads
    <3>3. answered(done) \in Seq(Reads) /\ fin \in Seq(Fills)
      BY <1>0, <3>1
    <3> QED  BY <3>2, <3>3, Zenon
  <2>2. CASE done # 0
    <3> DEFINE m == dram[done]
               f == Fill(m.line, m.owner)
    <3>1. done \in DOMAIN dram /\ m \in Reads
      BY <1>0, <1>1, <2>2, ElementOfSeq, LenProperties
    <3>2. m \in Msg /\ ~m.wb
      BY <3>1 DEF Msg, Reads
    <3>3. f \in Fills /\ (f \in FillsOf(l) <=> m \in ReadsOf(l))
      BY <3>2, ReadToFill
    <3>4. answered(done) = Cut(dram, done) /\ fin = <<f>>
      BY <2>2, WithoutIsCut DEF answered
    <3>5. /\ Cut(dram, done) \in Seq(Reads)
          /\ NOf(Cut(dram, done), ReadsOf(l)) = NOf(dram, ReadsOf(l)) - (IF m \in ReadsOf(l) THEN 1 ELSE 0)
      BY <1>0, <3>1, CountCut
    <3> HIDE DEF m, f, fin
    <3>6. fin \in Seq(Fills) /\ NOf(fin, FillsOf(l)) = (IF m \in ReadsOf(l) THEN 1 ELSE 0)
      BY <3>3, <3>4, CountOne
    <3>7. NOf(answered(done), ReadsOf(l)) = DramReads(l) - (IF m \in ReadsOf(l) THEN 1 ELSE 0)
      BY <3>4, <3>5 DEF DramReads
    <3>8. PICK b \in {0, 1} : b = IF m \in ReadsOf(l) THEN 1 ELSE 0
      OBVIOUS
    <3> WITNESS b \in {0, 1}
    <3> QED  BY <3>4, <3>5, <3>6, <3>7, <3>8
  <2> QED  BY <2>1, <2>2
\* The oldest finished fill leaves for the link.
<1>6. ASSUME NEW l \in Lines
      PROVE  \E c \in {0, 1} :
               /\ rest \in Seq(Fills) /\ memTx' \in Seq(Fills)
               /\ NOf(rest, FillsOf(l)) = OutFills(l) - c
               /\ TxFills(l)' = TxFills(l) + c
  <2>0. OutFills(l) \in Nat /\ TxFills(l) \in Nat
    BY <1>0, CountsNat
  <2>1. CASE out = <<>>
    <3>1. rest = out /\ memTx' = memTx
      BY <1>1, <2>1
    <3>2. NOf(rest, FillsOf(l)) = OutFills(l) - 0 /\ TxFills(l)' = TxFills(l) + 0
      BY <2>0, <3>1 DEF OutFills, TxFills
    <3>3. rest \in Seq(Fills) /\ memTx' \in Seq(Fills)
      BY <1>0, <3>1
    <3> QED  BY <3>2, <3>3, Zenon
  <2>2. CASE out # <<>>
    <3> DEFINE h == Head(out)
    <3>1. /\ h \in Fills /\ Tail(out) \in Seq(Fills)
          /\ NOf(Tail(out), FillsOf(l)) = NOf(out, FillsOf(l)) - (IF h \in FillsOf(l) THEN 1 ELSE 0)
      BY <1>0, <2>2, CountTail
    <3>2. rest = Tail(out) /\ memTx' = Append(memTx, h)
      BY <1>1, <2>2
    <3> HIDE DEF h, rest
    <3>3. /\ Append(memTx, h) \in Seq(Fills)
          /\ NOf(Append(memTx, h), FillsOf(l)) = NOf(memTx, FillsOf(l)) + (IF h \in FillsOf(l) THEN 1 ELSE 0)
      BY <1>0, <3>1, CountAppend
    <3>4. PICK c \in {0, 1} : c = IF h \in FillsOf(l) THEN 1 ELSE 0
      OBVIOUS
    <3>5. NOf(rest, FillsOf(l)) = OutFills(l) - c /\ TxFills(l)' = TxFills(l) + c
      BY <3>1, <3>2, <3>3, <3>4 DEF OutFills, TxFills
    <3> WITNESS c \in {0, 1}
    <3> QED  BY <3>1, <3>2, <3>3, <3>5
  <2> QED  BY <2>1, <2>2
<1> HIDE DEF added, rest, fin
<1>7. TypeInv'
  <2>1. PICK l : l \in Lines
    BY MemoryAssumption
  <2>2. /\ memQ' \in Seq(Queued) /\ added \in Seq(Reads) /\ answered(done) \in Seq(Reads)
        /\ fin \in Seq(Fills) /\ rest \in Seq(Fills) /\ memTx' \in Seq(Fills)
    BY <1>4, <1>5, <1>6, <2>1
  <2>3. dram' \in Seq(Reads) /\ out' \in Seq(Fills)
    BY <1>1, <2>2, ConcatProperties
  <2> QED  BY <1>0, <1>1, <1>3, <2>2, <2>3 DEF TypeInv
<1>8. ASSUME NEW l \in Lines
      PROVE  Conserved(l)' /\ Waiting(l)' /\ InOrder(l)'
  <2>1. /\ ReqReads(l)' = ReqReads(l) /\ HeldReads(l)' = HeldReads(l)
        /\ WireFills(l)' = WireFills(l) /\ RxFills(l)' = RxFills(l)
        /\ TxWBs(l)' = TxWBs(l) /\ HeldWBs(l)' = HeldWBs(l)
    BY <1>0 DEF ReqReads, HeldReads, WireFills, RxFills, TxWBs, HeldWBs
  <2>2. /\ RxReads(l)' = NOf(r, ReadsOf(l)) /\ RxWBs(l)' = NOf(r, WriteBacksOf(l))
        /\ QueuedReads(l)' = NOf(memQ', QueuedOf(ReadsOf(l)))
    BY <1>1, Zenon DEF RxReads, RxWBs, QueuedReads
  <2>3. Conserved(l) /\ Waiting(l)
    BY DEF MemoryInv
  <2>4. Waiting(l)'
    BY <1>0, <2>1, <2>3 DEF Waiting
  <2>5. InOrder(l)'
    <3>1. QueueInOrder(memQ', r, l)
      BY <1>4
    <3>2. Sorted(l)'
      BY <1>1, <3>1, Zenon DEF QueueInOrder, Sorted
    <3> QED  BY <2>1, <2>2, <3>1, <3>2 DEF QueueInOrder, InOrder
  <2>6. OnTheWay(l)' = OnTheWay(l)
    <3>1. /\ ReqReads(l) \in Nat /\ HeldReads(l) \in Nat /\ RxReads(l) \in Nat
          /\ QueuedReads(l) \in Nat /\ DramReads(l) \in Nat /\ OutFills(l) \in Nat
          /\ TxFills(l) \in Nat /\ WireFills(l) \in Nat /\ RxFills(l) \in Nat
      BY <1>0, CountsNat
    <3>2. PICK a \in {0, 1} :
               /\ added \in Seq(Reads) /\ NOf(added, ReadsOf(l)) = a
               /\ QueuedReads(l)' = NOf(q, QueuedOf(ReadsOf(l))) - a
      BY <1>4
    <3>3. PICK b \in {0, 1} :
               /\ answered(done) \in Seq(Reads) /\ fin \in Seq(Fills)
               /\ NOf(answered(done), ReadsOf(l)) = DramReads(l) - b
               /\ NOf(fin, FillsOf(l)) = b
      BY <1>5
    <3>4. PICK c \in {0, 1} :
               /\ rest \in Seq(Fills) /\ NOf(rest, FillsOf(l)) = OutFills(l) - c
               /\ TxFills(l)' = TxFills(l) + c
      BY <1>6
    <3>5. DramReads(l)' = (DramReads(l) - b) + a
      <4>1. NOf(answered(done) \o added, ReadsOf(l)) = NOf(answered(done), ReadsOf(l)) + NOf(added, ReadsOf(l))
        BY <3>2, <3>3, CountConcat
      <4> QED  BY <1>1, <3>2, <3>3, <4>1 DEF DramReads
    <3>6. OutFills(l)' = (OutFills(l) - c) + b
      <4>1. NOf(rest \o fin, FillsOf(l)) = NOf(rest, FillsOf(l)) + NOf(fin, FillsOf(l))
        BY <3>3, <3>4, CountConcat
      <4> QED  BY <1>1, <3>3, <3>4, <4>1 DEF OutFills
    <3>7. PICK n \in Nat, rx1 \in Nat :
            n = NOf(q, QueuedOf(ReadsOf(l))) /\ rx1 = RxReads(l)' /\ n + rx1 = QueuedReads(l) + RxReads(l)
      <4>1. NOf(q, QueuedOf(ReadsOf(l))) \in Nat /\ NOf(r, ReadsOf(l)) \in Nat
        BY <1>3, CountZero
      <4> QED  BY <1>2, <2>2, <4>1
    <3>8. PICK rx \in Nat, qr \in Nat, dr \in Nat, of \in Nat, tx \in Nat :
            /\ rx = RxReads(l) /\ qr = QueuedReads(l) /\ dr = DramReads(l) /\ of = OutFills(l)
            /\ tx = TxFills(l)
      BY <3>1
    <3>9. PICK d \in Nat : WayDown(l) = d + rx /\ WayDown(l)' = d + rx1
      <4>1. PICK d \in Nat : d = ReqReads(l) + HeldReads(l)
        BY <3>1
      <4> QED  BY <2>1, <3>7, <3>8, <4>1 DEF WayDown
    <3>10. InMemory(l) = qr + dr + of /\ InMemory(l)' = (n - a) + ((dr - b) + a) + ((of - c) + b)
      BY <3>2, <3>5, <3>6, <3>7, <3>8 DEF InMemory
    <3>11. PICK u \in Nat : WayUp(l) = u + tx /\ WayUp(l)' = u + (tx + c)
      <4>1. PICK u \in Nat : u = WireFills(l) + RxFills(l)
        BY <3>1
      <4>2. WayUp(l) = tx + WireFills(l) + RxFills(l)
            /\ WayUp(l)' = (tx + c) + WireFills(l) + RxFills(l)
        BY <2>1, <3>4, <3>8 DEF WayUp
      <4> QED  BY <3>1, <4>1, <4>2
    <3>12. n + rx1 = qr + rx
      BY <3>7, <3>8
    <3>13. (d + rx1) + ((n - a) + ((dr - b) + a) + ((of - c) + b)) + (u + (tx + c))
             = (d + rx) + (qr + dr + of) + (u + tx)
      BY <3>12
    <3> QED  BY <3>9, <3>10, <3>11, <3>13 DEF OnTheWay
  <2> QED  BY <1>0, <2>3, <2>4, <2>5, <2>6 DEF Conserved
<1> QED  BY <1>7, <1>8 DEF MemoryInv

-----------------------------------------------------------------------------
\* The invariant holds of the empty path, whatever the upper slot counter starts with.
LEMMA InitKeeps ==
  ASSUME Init
  PROVE  MemoryInv
<1>1. /\ txReq = <<>> /\ txResp = <<>> /\ rxLLC = <<>> /\ lower.held = <<>> /\ lower.slot = 0
      /\ upper.held = <<>> /\ upper.slot \in Int /\ latest = 0
      /\ rxMem = <<>> /\ memQ = <<>> /\ dram = <<>> /\ out = <<>> /\ memTx = <<>>
      /\ line = [l \in Lines |-> "absent"]
  BY Sizes DEF Init
<1>2. TypeInv
  BY <1>1, Sizes DEF TypeInv, LineStates
<1>3. ASSUME NEW l \in Lines
      PROVE  Conserved(l) /\ Waiting(l) /\ InOrder(l)
  <2>1. \A S : NOf(<<>>, S) = 0
    BY CountOne
  <2>2. /\ ReqReads(l) = 0 /\ HeldReads(l) = 0 /\ RxReads(l) = 0 /\ QueuedReads(l) = 0
        /\ DramReads(l) = 0 /\ OutFills(l) = 0 /\ TxFills(l) = 0 /\ WireFills(l) = 0
        /\ RxFills(l) = 0 /\ TxWBs(l) = 0
    BY <1>1, <2>1 DEF ReqReads, HeldReads, RxReads, QueuedReads, DramReads, OutFills, TxFills,
                      WireFills, RxFills, TxWBs
  <2>3. Sorted(l)
    BY <1>1 DEF Sorted, Ahead
  <2>4. WayDown(l) = 0 /\ InMemory(l) = 0 /\ WayUp(l) = 0
    BY <2>2 DEF WayDown, InMemory, WayUp
  <2> QED  BY <1>1, <2>2, <2>3, <2>4 DEF Conserved, OnTheWay, Waiting, InOrder
<1> QED  BY <1>2, <1>3 DEF MemoryInv

\* The invariant speaks of the buffers and the lines only.
LEMMA Stutters ==
  ASSUME MemoryInv, UNCHANGED <<line, latest, txReq, txResp, rxLLC, lower, upper, rxMem, memQ,
                                dram, out, memTx>>
  PROVE  MemoryInv'
<1>1. TypeInv'
  BY DEF MemoryInv, TypeInv
<1>2. ASSUME NEW l \in Lines
      PROVE  Conserved(l)' /\ Waiting(l)' /\ InOrder(l)'
  <2>1. Conserved(l) /\ Waiting(l) /\ InOrder(l)
    BY DEF MemoryInv
  <2>2. OnTheWay(l)' = OnTheWay(l)
    BY DEF OnTheWay, WayDown, InMemory, WayUp, ReqReads, HeldReads, RxReads, QueuedReads,
           DramReads, OutFills, TxFills, WireFills, RxFills
  <2>3. TxWBs(l)' = TxWBs(l)
    BY DEF TxWBs
  <2> QED  BY <2>1, <2>2, <2>3, BeyondUnchanged DEF Conserved, Waiting
<1> QED  BY <1>1, <1>2 DEF MemoryInv

\* The inductive invariant: every fetch is once on the way, every write-back past the
\* arbiter is ahead of the reads of its line.
THEOREM MemoryInductive == Spec => []MemoryInv
<1>1. Init => MemoryInv
  BY InitKeeps
<1>2. MemoryInv /\ [Next]_vars => MemoryInv'
  <2> SUFFICES ASSUME MemoryInv, [Next]_vars PROVE MemoryInv'
    OBVIOUS
  <2>1. CASE busStep
    BY <2>1, BusKeeps
  <2>2. CASE LLCIntake
    BY <2>2, IntakeKeeps
  <2>3. ASSUME NEW l \in Lines, performWriteBack(l) PROVE MemoryInv'
    BY <2>3, WriteBackKeeps
  <2>4. ASSUME NEW l \in Lines, NEW o \in Cores, Miss(l, o) PROVE MemoryInv'
    BY <2>4, MissKeeps
  <2>5. CASE EndLLC
    BY <2>5, Stutters DEF EndLLC, llcVars, linkVars, memVars
  <2>6. CASE mainProcess
    BY <2>6, MainKeeps
  <2>7. ASSUME NEW done \in 0 .. Len(dram), mcsimProcess(done) PROVE MemoryInv'
    <3>1. done \in Nat
      BY LenProperties DEF MemoryInv, TypeInv
    <3> QED  BY <2>7, <3>1, McsimKeeps
  <2>8. CASE UNCHANGED vars
    BY <2>8, Stutters DEF vars
  <2> QED  BY <2>1, <2>2, <2>3, <2>4, <2>5, <2>6, <2>7, <2>8 DEF Next
<1> QED  BY <1>1, <1>2, PTL DEF Spec

-----------------------------------------------------------------------------
(* What the invariant says in the terms of MemoryPath.                      *)

\* The messages of the memory's queue, without the cycles they wait.
QueuedMsgs == [i \in DOMAIN memQ |-> memQ[i].m]

\* The memory's queue without its completion times, as a sequence of messages.
LEMMA QueuedMsgsSame ==
  ASSUME TypeInv
  PROVE  /\ QueuedMsgs \in Seq(Msg) /\ DOMAIN QueuedMsgs = DOMAIN memQ
         /\ \A S : NOf(QueuedMsgs, S) = NOf(memQ, QueuedOf(S))
         /\ \A W, R : Ahead(memQ, QueuedOf(W), QueuedOf(R)) => Ahead(QueuedMsgs, W, R)
<1>1. Len(memQ) \in Nat /\ DOMAIN memQ = 1 .. Len(memQ) /\ \A i \in DOMAIN memQ : memQ[i] \in Queued
  BY ElementOfSeq, LenProperties DEF TypeInv
<1>2. \A i \in DOMAIN memQ : memQ[i].m \in Msg
  BY <1>1 DEF Queued
<1>3. QueuedMsgs = [i \in 1 .. Len(memQ) |-> memQ[i].m]
  BY <1>1 DEF QueuedMsgs
<1>4. QueuedMsgs \in Seq(Msg) /\ DOMAIN QueuedMsgs = DOMAIN memQ
  BY <1>1, <1>2, <1>3
<1>5. \A S : \A i \in DOMAIN memQ : QueuedMsgs[i] \in S <=> memQ[i] \in QueuedOf(S)
  BY <1>1 DEF QueuedMsgs, QueuedOf
<1>6. \A S : Positions(QueuedMsgs, S) = Positions(memQ, QueuedOf(S))
  BY <1>4, <1>5 DEF Positions
<1>7. \A W, R : Ahead(memQ, QueuedOf(W), QueuedOf(R)) => Ahead(QueuedMsgs, W, R)
  BY <1>4, <1>5 DEF Ahead
<1> QED  BY <1>4, <1>6, <1>7 DEF NOf

\* Which messages IsRead and IsWB mean.
LEMMA KindOf ==
  ASSUME NEW m \in Msg, NEW l
  PROVE  (IsRead(m, l) <=> m \in ReadsOf(l)) /\ (IsWB(m, l) <=> m \in WriteBacksOf(l))
<1>1. CASE m \in Reads
  BY <1>1 DEF Reads, WriteBacks, IsRead, IsWB, ReadsOf, WriteBacksOf
<1>2. CASE m \in WriteBacks
  BY <1>2 DEF Reads, WriteBacks, IsRead, IsWB, ReadsOf, WriteBacksOf
<1> QED  BY <1>1, <1>2 DEF Msg

\* All that is past the LLC's transmit buffer, as one sequence: its reads, and their order.
LEMMA DownstreamFacts ==
  ASSUME MemoryInv, NEW l \in Lines
  PROVE  /\ Downstream \in Seq(Msg)
         /\ NOf(Downstream, ReadsOf(l)) = QueuedReads(l) + RxReads(l) + HeldReads(l)
         /\ Ahead(Downstream, WriteBacksOf(l), ReadsOf(l))
<1> DEFINE W == WriteBacksOf(l)
           R == ReadsOf(l)
<1>0. TypeInv /\ InOrder(l) /\ rxMem \in Seq(Msg) /\ lower.held \in Seq(Msg) /\ Len(lower.held) <= 1
  BY DEF MemoryInv, TypeInv
<1>1. /\ QueuedReads(l) \in Nat /\ RxReads(l) \in Nat /\ HeldReads(l) \in Nat
      /\ RxWBs(l) \in Nat /\ HeldWBs(l) \in Nat
  BY <1>0, CountsNat
<1>2. Downstream = (QueuedMsgs \o rxMem) \o lower.held
  BY Zenon DEF Downstream, QueuedMsgs
<1>3. /\ QueuedMsgs \in Seq(Msg) /\ NOf(QueuedMsgs, R) = QueuedReads(l)
      /\ Ahead(QueuedMsgs, W, R)
  BY <1>0, QueuedMsgsSame DEF QueuedReads, InOrder, Sorted
<1>4. QueuedMsgs \o rxMem \in Seq(Msg) /\ Downstream \in Seq(Msg)
  BY <1>0, <1>2, <1>3, ConcatProperties
<1>5. NOf(QueuedMsgs \o rxMem, R) = QueuedReads(l) + RxReads(l)
  BY <1>0, <1>3, CountConcat DEF RxReads
<1>6. NOf(Downstream, R) = QueuedReads(l) + RxReads(l) + HeldReads(l)
  <2>1. NOf(Downstream, R) = NOf(QueuedMsgs \o rxMem, R) + NOf(lower.held, R)
    BY <1>0, <1>2, <1>4, CountConcat
  <2> QED  BY <1>5, <2>1 DEF HeldReads
<1>7. Ahead(QueuedMsgs \o rxMem, W, R)
  <2>1. NOf(QueuedMsgs, R) = 0 \/ NOf(rxMem, W) = 0
    BY <1>0, <1>1, <1>3 DEF InOrder, RxWBs
  <2>2. Ahead(rxMem, W, R)
    BY <1>0 DEF InOrder, Sorted
  <2> QED  BY <1>0, <1>3, <2>1, <2>2, AheadConcat
<1>8. Ahead(lower.held, W, R)
  <2>1. \A i, j \in DOMAIN lower.held : i = j
    BY <1>0, LenProperties
  <2> QED  BY <2>1, Apart DEF Ahead
<1>9. Ahead(Downstream, W, R)
  <2>1. NOf(QueuedMsgs \o rxMem, R) = 0 \/ NOf(lower.held, W) = 0
    BY <1>0, <1>1, <1>5 DEF InOrder, HeldWBs
  <2> HIDE DEF W, R
  <2> QED  BY <1>0, <1>2, <1>4, <1>7, <1>8, <2>1, AheadConcat
<1> QED  BY <1>4, <1>6, <1>9

\* The LLC waits for a line exactly while its read or the answer to it is on the way, and
\* only once: no step of sendBusRequest with its rollback, of the link or of either memory
\* loses a fetch, sends it twice or answers it twice, for every arbiter, latency and
\* buffer size.
THEOREM FetchIsConserved == Spec => []FetchConserved
<1>1. MemoryInv => FetchConserved
  <2> SUFFICES ASSUME MemoryInv PROVE FetchConserved
    OBVIOUS
  <2>0. /\ TypeInv /\ txReq \in Seq(Reads) /\ dram \in Seq(Reads) /\ rxLLC \in Seq(Fills)
        /\ out \in Seq(Fills) /\ memTx \in Seq(Fills) /\ upper.held \in Seq(Fills)
    BY DEF MemoryInv, TypeInv
  <2> DEFINE down == (txReq \o Downstream) \o dram
             up   == ((out \o memTx) \o upper.held) \o rxLLC
  <2>1. ASSUME NEW l \in Lines
        PROVE  Cardinality({i \in DOMAIN down : IsRead(down[i], l)})
                 + Cardinality({i \in DOMAIN up : up[i].line = l}) = (IF l \in Fetching THEN 1 ELSE 0)
    <3>1. /\ ReqReads(l) \in Nat /\ HeldReads(l) \in Nat /\ RxReads(l) \in Nat
          /\ QueuedReads(l) \in Nat /\ DramReads(l) \in Nat /\ OutFills(l) \in Nat
          /\ TxFills(l) \in Nat /\ WireFills(l) \in Nat /\ RxFills(l) \in Nat
      BY <2>0, CountsNat
    <3>2. /\ Downstream \in Seq(Msg)
          /\ NOf(Downstream, ReadsOf(l)) = QueuedReads(l) + RxReads(l) + HeldReads(l)
      BY DownstreamFacts
    <3>3. txReq \in Seq(Msg) /\ dram \in Seq(Msg)
      BY <2>0 DEF Msg
    <3>4. down \in Seq(Msg) /\ txReq \o Downstream \in Seq(Msg)
      BY <3>2, <3>3, ConcatProperties
    <3>5. NOf(txReq \o Downstream, ReadsOf(l)) = ReqReads(l) + NOf(Downstream, ReadsOf(l))
      BY <3>2, <3>3, CountConcat DEF ReqReads
    <3>6. NOf(down, ReadsOf(l)) = NOf(txReq \o Downstream, ReadsOf(l)) + DramReads(l)
      BY <3>3, <3>4, CountConcat DEF DramReads
    <3>7. out \o memTx \in Seq(Fills) /\ (out \o memTx) \o upper.held \in Seq(Fills) /\ up \in Seq(Fills)
      <4>1. out \o memTx \in Seq(Fills)
        BY <2>0, ConcatProperties
      <4>2. (out \o memTx) \o upper.held \in Seq(Fills)
        BY <2>0, <4>1, ConcatProperties
      <4> QED  BY <2>0, <4>1, <4>2, ConcatProperties
    <3>8. NOf(out \o memTx, FillsOf(l)) = OutFills(l) + TxFills(l)
      BY <2>0, CountConcat DEF OutFills, TxFills
    <3>9. NOf((out \o memTx) \o upper.held, FillsOf(l)) = NOf(out \o memTx, FillsOf(l)) + WireFills(l)
      BY <2>0, <3>7, CountConcat DEF WireFills
    <3>10. NOf(up, FillsOf(l)) = NOf((out \o memTx) \o upper.held, FillsOf(l)) + RxFills(l)
      BY <2>0, <3>7, CountConcat DEF RxFills
    <3> HIDE DEF down, up
    <3>11. {i \in DOMAIN down : IsRead(down[i], l)} = Positions(down, ReadsOf(l))
      <4>1. \A i \in DOMAIN down : down[i] \in Msg
        BY <3>4, ElementOfSeq, LenProperties
      <4> QED  BY <4>1, KindOf DEF Positions
    <3>12. {i \in DOMAIN up : up[i].line = l} = Positions(up, FillsOf(l))
      <4>1. \A i \in DOMAIN up : up[i] \in Fills
        BY <3>7, ElementOfSeq, LenProperties
      <4> QED  BY <4>1 DEF Positions, FillsOf
    <3>13. PICK a \in Nat, b \in Nat, c \in Nat, d \in Nat, e \in Nat :
             a = ReqReads(l) /\ b = HeldReads(l) /\ c = RxReads(l) /\ d = QueuedReads(l)
               /\ e = DramReads(l)
      BY <3>1
    <3>14. PICK f \in Nat, g \in Nat, h \in Nat, i \in Nat :
             f = OutFills(l) /\ g = TxFills(l) /\ h = WireFills(l) /\ i = RxFills(l)
      BY <3>1
    <3>15. NOf(down, ReadsOf(l)) = (a + (d + c + b)) + e
      BY <3>2, <3>5, <3>6, <3>13, Zenon
    <3>16. NOf(up, FillsOf(l)) = ((f + g) + h) + i
      BY <3>8, <3>9, <3>10, <3>14, Zenon
    <3>17. OnTheWay(l) = (a + b + c) + (d + e + f) + (g + h + i)
      BY <3>13, <3>14, Zenon DEF OnTheWay, WayDown, InMemory, WayUp
    <3>18. ((a + (d + c + b)) + e) + (((f + g) + h) + i) = (a + b + c) + (d + e + f) + (g + h + i)
      OBVIOUS
    <3>19. NOf(down, ReadsOf(l)) + NOf(up, FillsOf(l)) = OnTheWay(l)
      BY <3>15, <3>16, <3>17, <3>18, Zenon
    <3>20. OnTheWay(l) = (IF line[l] = "fetching" THEN 1 ELSE 0)
      BY DEF MemoryInv, Conserved
    <3>21. l \in Fetching <=> line[l] = "fetching"
      BY DEF Fetching
    <3>22. NOf(down, ReadsOf(l)) + NOf(up, FillsOf(l)) = (IF l \in Fetching THEN 1 ELSE 0)
      BY <3>19, <3>20, <3>21
    <3> QED  BY <3>11, <3>12, <3>22 DEF NOf
  <2> QED  BY <2>1, Zenon DEF FetchConserved, Count
<1> QED  BY <1>1, MemoryInductive, PTL

\* Memory never serves a read of a line before an older write-back of it: the write-back
\* left the LLC's interface before the read was sent (or was rolled back into the fill),
\* and stays ahead of it on the link, in the receive buffer and in the memory's queue.
THEOREM WriteBacksGoFirst == Spec => []WriteBackFirst
<1>1. MemoryInv => WriteBackFirst
  <2> SUFFICES ASSUME MemoryInv, NEW l \in Lines
               PROVE  /\ \/ \E i \in DOMAIN txReq : IsRead(txReq[i], l)
                         \/ \E i \in DOMAIN Downstream : IsRead(Downstream[i], l)
                         => \A i \in DOMAIN txResp : ~IsWB(txResp[i], l)
                      /\ \A i, j \in DOMAIN Downstream :
                           IsRead(Downstream[i], l) /\ IsWB(Downstream[j], l) => j < i
    BY Zenon DEF WriteBackFirst
  <2>0. /\ TypeInv /\ Conserved(l) /\ Waiting(l) /\ txReq \in Seq(Reads) /\ txResp \in Seq(WriteBacks)
    BY DEF MemoryInv, TypeInv
  <2>1. /\ ReqReads(l) \in Nat /\ HeldReads(l) \in Nat /\ RxReads(l) \in Nat
        /\ QueuedReads(l) \in Nat /\ TxWBs(l) \in Nat
    BY <2>0, CountsNat
  <2>2. /\ Downstream \in Seq(Msg)
        /\ NOf(Downstream, ReadsOf(l)) = QueuedReads(l) + RxReads(l) + HeldReads(l)
        /\ Ahead(Downstream, WriteBacksOf(l), ReadsOf(l))
    BY DownstreamFacts
  <2>3. \A i \in DOMAIN Downstream : Downstream[i] \in Msg
    BY <2>2, ElementOfSeq, LenProperties
  <2>4. \A i \in DOMAIN txReq : txReq[i] \in Msg
    BY <2>0, ElementOfSeq, LenProperties DEF Msg
  <2>5. \A i \in DOMAIN txResp : txResp[i] \in Msg
    BY <2>0, ElementOfSeq, LenProperties DEF Msg
  <2>6. \A i, j \in DOMAIN Downstream : IsRead(Downstream[i], l) /\ IsWB(Downstream[j], l) => j < i
    BY <2>2, <2>3, KindOf DEF Ahead
  <2>7. ASSUME TxWBs(l) > 0
        PROVE  ReqReads(l) = 0 /\ NOf(Downstream, ReadsOf(l)) = 0
    <3>1. line[l] # "fetching"
      BY <2>0, <2>7 DEF Waiting
    <3>2. ReqReads(l) = 0 /\ HeldReads(l) = 0 /\ RxReads(l) = 0 /\ QueuedReads(l) = 0
      BY <2>0, <3>1, AtMostOne
    <3> QED  BY <2>2, <3>2
  <2>8. ASSUME TxWBs(l) = 0, NEW i \in DOMAIN txResp
        PROVE  ~IsWB(txResp[i], l)
    <3>1. txResp[i] \notin WriteBacksOf(l)
      BY <2>0, <2>8, CountZero DEF TxWBs
    <3> QED  BY <2>5, <3>1, KindOf
  <2>9. ASSUME TxWBs(l) > 0
        PROVE  /\ \A i \in DOMAIN txReq : ~IsRead(txReq[i], l)
               /\ \A i \in DOMAIN Downstream : ~IsRead(Downstream[i], l)
    <3>1. \A i \in DOMAIN txReq : txReq[i] \notin ReadsOf(l)
      BY <2>0, <2>7, <2>9, CountZero DEF ReqReads
    <3>2. \A i \in DOMAIN Downstream : Downstream[i] \notin ReadsOf(l)
      BY <2>2, <2>7, <2>9, CountZero
    <3> QED  BY <2>3, <2>4, <3>1, <3>2, KindOf
  <2>10. TxWBs(l) = 0 \/ TxWBs(l) > 0
    BY <2>1
  <2> QED  BY <2>6, <2>8, <2>9, <2>10
<1> QED  BY <1>1, MemoryInductive, PTL
=============================================================================
