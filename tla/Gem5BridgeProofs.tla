--------------------------- MODULE Gem5BridgeProofs ---------------------------
(***************************************************************************)
(* Proofs about the gem5 bridge, for every number of bridges and ports,    *)
(* every set of accesses, every credit and every size of the direct link.  *)
(***************************************************************************)
EXTENDS Gem5Bridge, BufferLemmas

Pkts == {[n |-> k, op |-> sh.op, bytes |-> sh.bytes] : k \in Nat, sh \in Shapes}
Txn == [id : Nat, pkt : Pkts, committed : BOOLEAN, dataDone : BOOLEAN, completionArrived : BOOLEAN]
Way == [dir : {"request", "response"}, id : Nat]
Bridge == [pending : SUBSET Txn, nextSeq : Nat, queue : Seq(Way),
           kept : [Ports -> Seq(Pkts)], data : Seq([id : Nat, pkt : Pkts])]
Link == [txDown : Seq(Nat), rxDown : Seq(Nat), txUp : Seq(Nat), rxUp : Seq(Nat)]
Cache == [held : SUBSET Nat, full : BOOLEAN]

One(p) == IF p THEN 1 ELSE 0
Only(id) == {id}
Request(id) == {[dir |-> "request", id |-> id]}
Response(id) == {[dir |-> "response", id |-> id]}

-----------------------------------------------------------------------------
(* The inductive invariant of one bridge.                                   *)

\* The L1 has still to commit request id.
Asked(s, id) == \E e \in s.pending : e.id = id /\ ~e.committed

\* Request id has been committed, and its completion has not called the bridge.
Answering(s, id) == \E e \in s.pending : e.id = id /\ e.committed /\ ~e.completionArrived

\* Requests are told apart by their ids, which are given out in order.
Numbered(s) ==
  /\ \A e, f \in s.pending : e.id = f.id => e = f
  /\ \A e \in s.pending : e.id < s.nextSeq
  /\ \A i \in DOMAIN s.data : s.data[i].id < s.nextSeq

\* A request is performed and completed after its commit only.
Staged(s) ==
  \A e \in s.pending : e.dataDone \/ e.completionArrived => e.committed

\* The accesses performed, and those still to come, keep the order of older writes.
Ordered(s) ==
  /\ \A i, j \in DOMAIN s.data :
       j > i /\ s.data[j].id < s.data[i].id /\ s.data[j].pkt.op = "write"
         => s.data[j].pkt.bytes \cap s.data[i].pkt.bytes = {}
  /\ \A i \in DOMAIN s.data, w \in s.pending :
       w.id < s.data[i].id /\ w.pkt.op = "write" /\ ~w.dataDone
         => w.pkt.bytes \cap s.data[i].pkt.bytes = {}

\* The requests whose completion has not arrived.
Open(s) == {e \in s.pending : ~e.completionArrived}

\* A request the L1 has not committed is once on its way to it, one that is not completed
\* once on its way back, and nothing else is on either way: d and u count what is outside
\* the bridge's queue.
Carried(s, d, u) ==
  \A id \in Nat : /\ NOf(s.queue, Request(id)) + d[id] = One(Asked(s, id))
                  /\ NOf(s.queue, Response(id)) + u[id] = One(Answering(s, id))

\* The state s of a bridge, with d, u and n messages outside its queue.
Sound(s, d, u, n) ==
  /\ s \in Bridge
  /\ IsFiniteSet(s.pending) /\ Cardinality(s.pending) <= Credits
  /\ Numbered(s) /\ Staged(s) /\ Ordered(s)
  /\ Carried(s, d, u)
  /\ Len(s.queue) + n = Cardinality(Open(s))

\* What the counts outside the queue are.
Counts(d, u, n) == d \in [Nat -> Nat] /\ u \in [Nat -> Nat] /\ n \in Nat

\* The fields of a request of the table.
LEMMA TxnFields ==
  ASSUME NEW s \in Bridge, NEW e \in s.pending
  PROVE  /\ e \in Txn /\ e.id \in Nat /\ e.pkt \in Pkts
         /\ e.committed \in BOOLEAN /\ e.dataDone \in BOOLEAN /\ e.completionArrived \in BOOLEAN
BY DEF Bridge, Txn

\* The fields of a data operation.
LEMMA DataFields ==
  ASSUME NEW s \in Bridge, NEW i \in DOMAIN s.data
  PROVE  s.data[i].id \in Nat /\ s.data[i].pkt \in Pkts
<1>1. s.data \in Seq([id : Nat, pkt : Pkts])
  BY DEF Bridge
<1>2. s.data[i] \in [id : Nat, pkt : Pkts]
  BY <1>1, ElementOfSeq, LenProperties
<1> QED  BY <1>2

\* A request of the table is found by its id.
LEMMA EntryFound ==
  ASSUME NEW s \in Bridge, Numbered(s), NEW e \in s.pending
  PROVE  Entry(s, e.id) = e
BY DEF Entry, Numbered

\* The first port that waits.
LEMMA FirstPort ==
  ASSUME NEW S \in SUBSET Ports, S # {}
  PROVE  (CHOOSE q \in S : \A r \in S : q <= r) \in S
<1>1. Ports \subseteq Int /\ IsFiniteSet(Ports)
  <2>1. NPorts \in Int /\ 1 \in Int
    BY BridgeAssumption
  <2> QED  BY <2>1, FS_Interval DEF Ports
<1> DEFINE M == {-q : q \in S}
<1>2. \E c \in M : \A d \in M : d <= c
  <2>1. M \subseteq Int /\ M # {}
    BY <1>1
  <2>2. IsFiniteSet(M)
    <3>1. -NPorts \in Int /\ -1 \in Int /\ M \subseteq (-NPorts) .. (-1)
      BY BridgeAssumption DEF Ports
    <3>2. IsFiniteSet((-NPorts) .. (-1))
      BY <3>1, FS_Interval, Zenon
    <3> QED  BY <3>1, <3>2, FS_Subset, Zenon
  <2> QED  BY <2>1, <2>2, GreatestExists
<1>3. \E q \in S : \A r \in S : q <= r
  <2>1. PICK c \in M : \A d \in M : d <= c
    BY <1>2
  <2>2. PICK q \in S : c = -q
    BY <2>1
  <2>3. ASSUME NEW r \in S PROVE q <= r
    <3>1. -r \in M /\ -r <= -q
      BY <2>1, <2>2
    <3> QED  BY <3>1, <1>1
  <2> QED  BY <2>3
<1> QED  BY <1>3

-----------------------------------------------------------------------------
(* The operations of the bridge keep its invariant.                         *)

\* A new request is on its way to the L1: its credit was free, its id is the next.
LEMMA SubmitKeeps ==
  ASSUME NEW s, NEW d, NEW u, NEW n, Sound(s, d, u, n), Counts(d, u, n), NEW pkt \in Pkts,
         Cardinality(s.pending) < Credits
  PROVE  Sound(submit(s, pkt), d, u, n)
<1> DEFINE e == [id |-> s.nextSeq, pkt |-> pkt, committed |-> FALSE,
                 dataDone |-> FALSE, completionArrived |-> FALSE]
           m == [dir |-> "request", id |-> s.nextSeq]
           t == submit(s, pkt)
<1>0. s \in Bridge /\ Numbered(s) /\ Staged(s) /\ Ordered(s) /\ Carried(s, d, u)
      /\ IsFiniteSet(s.pending)
  BY DEF Sound
<1>1. s.pending \subseteq Txn /\ s.nextSeq \in Nat /\ s.queue \in Seq(Way)
      /\ s.kept \in [Ports -> Seq(Pkts)] /\ s.data \in Seq([id : Nat, pkt : Pkts])
  BY <1>0 DEF Bridge
<1>2. e \in Txn /\ m \in Way
  BY <1>1 DEF Txn, Way
<1>4. Append(s.queue, m) \in Seq(Way) /\ Len(Append(s.queue, m)) = Len(s.queue) + 1
  BY <1>1, <1>2, AppendProperties
<1>3. /\ t.pending = s.pending \cup {e} /\ t.nextSeq = s.nextSeq + 1
      /\ t.queue = Append(s.queue, m) /\ t.kept = s.kept /\ t.data = s.data
      /\ t \in Bridge
  <2>1. t = [s EXCEPT !.pending = @ \cup {e}, !.nextSeq = @ + 1, !.queue = Append(s.queue, m)]
    BY DEF submit, addRequest
  <2> HIDE DEF t, e, m
  <2>2. s.pending \cup {e} \in SUBSET Txn /\ s.nextSeq + 1 \in Nat
    BY <1>1, <1>2
  <2> QED  BY <1>0, <1>4, <2>1, <2>2 DEF Bridge
<1>5. /\ e.id = s.nextSeq /\ e.pkt = pkt /\ ~e.committed /\ ~e.dataDone /\ ~e.completionArrived
  OBVIOUS
<1> HIDE DEF t, e
<1>6. e \notin s.pending /\ \A f \in s.pending : f.id # e.id /\ f.id \in Nat
  <2>1. \A f \in s.pending : f.id \in Nat /\ f.id < s.nextSeq
    BY <1>0, TxnFields DEF Numbered
  <2> QED  BY <1>1, <1>5, <2>1
<1>7. IsFiniteSet(t.pending) /\ Cardinality(t.pending) <= Credits
  <2>1. IsFiniteSet(t.pending) /\ Cardinality(t.pending) = Cardinality(s.pending) + 1
    <3>1. IsFiniteSet(s.pending \cup {e})
            /\ Cardinality(s.pending \cup {e}) = Cardinality(s.pending) + 1
      BY <1>0, <1>6, FS_AddElement
    <3> QED  BY <1>3, <3>1
  <2>2. Cardinality(s.pending) \in Nat /\ Credits \in Nat
    BY <1>0, FS_CardinalityType, BridgeAssumption
  <2> QED  BY <2>1, <2>2
<1>8. Numbered(t)
  <2>1. \A x \in s.pending : x.id \in Nat /\ x.id < s.nextSeq + 1
    BY <1>0, <1>1, TxnFields DEF Numbered
  <2>2. \A i \in DOMAIN s.data : s.data[i].id < s.nextSeq + 1
    <3> TAKE i \in DOMAIN s.data
    <3>1. s.data[i].id \in Nat /\ s.data[i].id < s.nextSeq
      BY <1>0, DataFields DEF Numbered
    <3> QED  BY <3>1, <1>1, <1>5
  <2> QED  BY <1>0, <1>1, <1>3, <1>5, <1>6, <2>1, <2>2 DEF Numbered
<1>9. Staged(t)
  BY <1>0, <1>3, <1>5 DEF Staged
<1>10. Ordered(t)
  <2>1. \A i \in DOMAIN s.data : ~(e.id < s.data[i].id)
    <3> TAKE i \in DOMAIN s.data
    <3>1. s.data[i].id \in Nat /\ s.data[i].id < s.nextSeq
      BY <1>0, DataFields DEF Numbered
    <3> QED  BY <3>1, <1>1, <1>5
  <2> QED  BY <1>0, <1>3, <1>5, <2>1 DEF Ordered
<1>11. Carried(t, d, u)
  <2> SUFFICES ASSUME NEW id \in Nat
               PROVE  /\ NOf(t.queue, Request(id)) + d[id] = One(Asked(t, id))
                      /\ NOf(t.queue, Response(id)) + u[id] = One(Answering(t, id))
    BY DEF Carried
  <2>1. /\ NOf(s.queue, Request(id)) + d[id] = One(Asked(s, id))
        /\ NOf(s.queue, Response(id)) + u[id] = One(Answering(s, id))
    BY <1>0 DEF Carried
  <2>2. /\ NOf(t.queue, Request(id)) = NOf(s.queue, Request(id)) + One(id = s.nextSeq)
        /\ NOf(t.queue, Response(id)) = NOf(s.queue, Response(id))
        /\ NOf(s.queue, Request(id)) \in Nat /\ NOf(s.queue, Response(id)) \in Nat
    <3>1. m \in Request(id) <=> id = s.nextSeq
      BY DEF Request
    <3>2. m \notin Response(id)
      BY DEF Response
    <3>3. NOf(s.queue, Request(id)) \in Nat /\ NOf(s.queue, Response(id)) \in Nat
      BY <1>1, PositionsFinite
    <3>4. NOf(Append(s.queue, m), Request(id))
            = NOf(s.queue, Request(id)) + (IF m \in Request(id) THEN 1 ELSE 0)
      BY <1>1, <1>2, CountAppend
    <3>5. NOf(Append(s.queue, m), Response(id))
            = NOf(s.queue, Response(id)) + (IF m \in Response(id) THEN 1 ELSE 0)
      BY <1>1, <1>2, CountAppend
    <3> QED  BY <1>3, <3>1, <3>2, <3>3, <3>4, <3>5 DEF One
  <2>3. Asked(t, id) <=> Asked(s, id) \/ id = s.nextSeq
    BY <1>3, <1>5 DEF Asked
  <2>4. ~Asked(s, s.nextSeq)
    BY <1>5, <1>6 DEF Asked
  <2>5. Answering(t, id) <=> Answering(s, id)
    BY <1>3, <1>5 DEF Answering
  <2>6. d[id] \in Nat
    BY DEF Counts
  <2>7. One(Asked(t, id)) = One(Asked(s, id)) + One(id = s.nextSeq)
    BY <2>3, <2>4 DEF One
  <2>8. One(Asked(s, id)) \in Nat /\ One(id = s.nextSeq) \in Nat
    BY DEF One
  <2>9. /\ NOf(t.queue, Request(id)) + d[id] = One(Asked(t, id))
        /\ NOf(t.queue, Response(id)) + u[id] = One(Answering(s, id))
    BY <2>1, <2>2, <2>6, <2>7, <2>8
  <2> QED  BY <2>5, <2>9 DEF One
<1>12. Len(t.queue) + n = Cardinality(Open(t))
  <2>1. Open(t) = Open(s) \cup {e} /\ e \notin Open(s)
    BY <1>3, <1>5, <1>6 DEF Open
  <2>2. IsFiniteSet(Open(s))
    BY <1>0, FS_Subset DEF Open
  <2>3. Cardinality(Open(t)) = Cardinality(Open(s)) + 1
    BY <2>1, <2>2, FS_AddElement
  <2>4. Len(s.queue) + n = Cardinality(Open(s)) /\ n \in Nat /\ Len(s.queue) \in Nat
    BY <1>1, LenProperties DEF Sound, Counts
  <2> QED  BY <1>3, <1>4, <2>3, <2>4
<1> QED  BY <1>3, <1>7, <1>8, <1>9, <1>10, <1>11, <1>12 DEF Sound, t

\* A port keeps a refused packet, or none.
LEMMA KeptKeeps ==
  ASSUME NEW s, NEW d, NEW u, NEW n, Sound(s, d, u, n), NEW p \in Ports, NEW x \in Seq(Pkts)
  PROVE  Sound([s EXCEPT !.kept[p] = x], d, u, n)
<1> DEFINE k == [s EXCEPT !.kept[p] = x]
<1>1. s \in Bridge /\ s.kept \in [Ports -> Seq(Pkts)]
  BY DEF Sound, Bridge
<1>2. [s.kept EXCEPT ![p] = x] \in [Ports -> Seq(Pkts)]
  BY <1>1
<1>3. /\ k.pending = s.pending /\ k.queue = s.queue /\ k.data = s.data /\ k.nextSeq = s.nextSeq
      /\ k \in Bridge
  BY <1>1, <1>2 DEF Bridge
<1> HIDE DEF k
<1>4. Sound(k, d, u, n)
  BY <1>3 DEF Sound, Numbered, Staged, Ordered, Carried, Asked, Answering, Open
<1> QED  BY <1>4 DEF k

\* A retry submits the packet of one refused port, when there is a credit.
LEMMA RetryKeeps ==
  ASSUME NEW s, NEW d, NEW u, NEW n, Sound(s, d, u, n), Counts(d, u, n), NEW b
  PROVE  Sound(retryBlockedPorts(b, s), d, u, n)
<1> DEFINE waiting == {p \in Ports : s.kept[p] # <<>>}
<1>1. CASE portBlocked(b, s) \/ waiting = {}
  BY <1>1 DEF retryBlockedPorts
<1>2. CASE ~portBlocked(b, s) /\ waiting # {}
  <2> DEFINE p == CHOOSE q \in waiting : \A r \in waiting : q <= r
             k == [s EXCEPT !.kept[p] = <<>>]
  <2>1. p \in waiting
    <3> HIDE DEF waiting
    <3>1. waiting \subseteq Ports
      BY DEF waiting
    <3> QED  BY <1>2, <3>1, FirstPort
  <2>2. retryBlockedPorts(b, s) = submit(k, s.kept[p][1])
    BY <1>2 DEF retryBlockedPorts
  <2> HIDE DEF p
  <2>3. s \in Bridge /\ p \in Ports /\ s.kept \in [Ports -> Seq(Pkts)] /\ s.kept[p] # <<>>
    BY <2>1 DEF Sound, Bridge
  <2>4. s.kept[p][1] \in Pkts
    <3>1. s.kept[p] \in Seq(Pkts)
      BY <2>3
    <3>2. 1 \in 1 .. Len(s.kept[p])
      BY <2>3, <3>1, EmptySeq, LenProperties
    <3> QED  BY <3>1, <3>2, ElementOfSeq
  <2>5. k.pending = s.pending
    BY <2>3 DEF Bridge
  <2>6. Sound(k, d, u, n)
    BY <2>3, EmptySeq, KeptKeeps
  <2>7. Cardinality(k.pending) < Credits
    <3>1. Cardinality(s.pending) < Credits
      <4>1. Cardinality(s.pending) \in Nat /\ Credits \in Nat
        BY FS_CardinalityType, BridgeAssumption DEF Sound
      <4>2. ~(Cardinality(s.pending) >= Credits)
        BY <1>2 DEF portBlocked, isBlocked, demandAdmissionBlocked
      <4> QED  BY <4>1, <4>2
    <3> QED  BY <3>1, <2>5
  <2> HIDE DEF k
  <2> QED  BY <2>2, <2>4, <2>6, <2>7, SubmitKeeps
<1> QED  BY <1>1, <1>2

\* A request of the table stands for its id.
LEMMA StageOf ==
  ASSUME NEW s, Numbered(s), NEW e \in s.pending
  PROVE  /\ Asked(s, e.id) <=> ~e.committed
         /\ Answering(s, e.id) <=> e.committed /\ ~e.completionArrived
BY DEF Numbered, Asked, Answering

\* Entry e of the table is replaced by f, the same request at another stage.
LEMMA ChangeFacts ==
  ASSUME NEW s \in Bridge, Numbered(s), IsFiniteSet(s.pending), NEW e \in s.pending, NEW f \in Txn,
         f.id = e.id
  PROVE  LET t == With(s, e, f) IN
         /\ t \in Bridge /\ Numbered(t) /\ f \in t.pending
         /\ t.pending = (s.pending \ {e}) \cup {f}
         /\ t.nextSeq = s.nextSeq /\ t.queue = s.queue /\ t.kept = s.kept /\ t.data = s.data
         /\ IsFiniteSet(t.pending) /\ Cardinality(t.pending) = Cardinality(s.pending)
         /\ \A id : id # e.id => /\ Asked(t, id) <=> Asked(s, id)
                                 /\ Answering(t, id) <=> Answering(s, id)
         /\ Cardinality(Open(t))
              = Cardinality(Open(s)) - One(~e.completionArrived) + One(~f.completionArrived)
<1> DEFINE t == With(s, e, f)
<1>1. e \in Txn /\ s.pending \subseteq Txn
  BY DEF Bridge
<1>2. /\ t \in Bridge /\ t.pending = (s.pending \ {e}) \cup {f}
      /\ t.nextSeq = s.nextSeq /\ t.queue = s.queue /\ t.kept = s.kept /\ t.data = s.data
  <2>1. (s.pending \ {e}) \cup {f} \in SUBSET Txn
    BY <1>1
  <2> QED  BY <2>1 DEF With, Bridge
<1> HIDE DEF t
<1>3. f \in t.pending /\ f \notin s.pending \ {e}
  BY <1>2 DEF Numbered
<1>4. Numbered(t)
  BY <1>2 DEF Numbered
<1>5. IsFiniteSet(t.pending) /\ Cardinality(t.pending) = Cardinality(s.pending)
  <2>1. IsFiniteSet(s.pending \ {e}) /\ Cardinality(s.pending \ {e}) = Cardinality(s.pending) - 1
    BY FS_RemoveElement
  <2>2. /\ IsFiniteSet((s.pending \ {e}) \cup {f})
        /\ Cardinality((s.pending \ {e}) \cup {f}) = Cardinality(s.pending \ {e}) + 1
    BY <1>3, <2>1, FS_AddElement
  <2>3. Cardinality(s.pending) \in Nat
    BY FS_CardinalityType
  <2> QED  BY <1>2, <2>1, <2>2, <2>3
<1>6. ASSUME NEW id, id # e.id
      PROVE  (Asked(t, id) <=> Asked(s, id)) /\ (Answering(t, id) <=> Answering(s, id))
  BY <1>2, <1>6 DEF Asked, Answering
<1>7. Cardinality(Open(t))
        = Cardinality(Open(s)) - One(~e.completionArrived) + One(~f.completionArrived)
  <2> DEFINE O == Open(s) \ {e}
  <2>1. IsFiniteSet(Open(s)) /\ Cardinality(Open(s)) \in Nat
    BY FS_Subset, FS_CardinalityType DEF Open
  <2>2. IsFiniteSet(O) /\ Cardinality(O) = Cardinality(Open(s)) - One(~e.completionArrived)
    <3>1. e \in Open(s) <=> ~e.completionArrived
      BY DEF Open
    <3> QED  BY <2>1, <3>1, FS_RemoveElement DEF One
  <2>3. f \notin O /\ Open(t) = IF ~f.completionArrived THEN O \cup {f} ELSE O
    <3>1. Open(t) = IF ~f.completionArrived THEN O \cup {f} ELSE O
      BY <1>2 DEF Open
    <3> QED  BY <1>3, <3>1 DEF Open
  <2>4. Cardinality(Open(t)) = Cardinality(O) + One(~f.completionArrived)
    <3>1. CASE f.completionArrived
      <4>1. Cardinality(O) \in Nat
        BY <2>2, FS_CardinalityType
      <4> HIDE DEF O
      <4> QED  BY <2>3, <3>1, <4>1 DEF One
    <3>2. CASE ~f.completionArrived
      <4>1. Open(t) = O \cup {f}
        BY <2>3, <3>2
      <4>2. Cardinality(O \cup {f}) = Cardinality(O) + 1
        BY <2>2, <2>3, FS_AddElement
      <4> QED  BY <3>2, <4>1, <4>2 DEF One
    <3> QED  BY <3>1, <3>2
  <2> HIDE DEF O
  <2> QED  BY <2>2, <2>4
<1> QED  BY <1>2, <1>3, <1>4, <1>5, <1>6, <1>7 DEF t

\* The L1's commit: the request was on its way to the L1 and is on its way back.
LEMMA CommitKeeps ==
  ASSUME NEW s, NEW d, NEW u, NEW n, Sound(s, d, u, n), NEW e \in s.pending, ~e.committed,
         NEW dd, NEW uu, Counts(d, u, n), Counts(dd, uu, n),
         \A id \in Nat : d[id] = dd[id] + One(id = e.id) /\ uu[id] = u[id] + One(id = e.id)
  PROVE  LET c == [e EXCEPT !.committed = TRUE]
             t == With(s, e, c)
         IN  /\ Sound(t, dd, uu, n)
             /\ c \in t.pending /\ c.committed /\ ~c.dataDone /\ c.id = e.id /\ c.pkt = e.pkt
<1> DEFINE c == [e EXCEPT !.committed = TRUE]
           t == With(s, e, c)
<1>0. s \in Bridge /\ Numbered(s) /\ Staged(s) /\ Ordered(s) /\ Carried(s, d, u)
      /\ IsFiniteSet(s.pending) /\ Cardinality(s.pending) <= Credits
      /\ Len(s.queue) + n = Cardinality(Open(s))
  BY DEF Sound
<1>1. e \in Txn /\ e.id \in Nat /\ e.dataDone = FALSE /\ e.completionArrived = FALSE
  BY <1>0, TxnFields DEF Staged
<1>2. /\ c \in Txn /\ c.id = e.id /\ c.pkt = e.pkt /\ c.committed /\ ~c.dataDone /\ ~c.completionArrived
  BY <1>1 DEF Txn
<1> HIDE DEF c
<1>3. /\ t \in Bridge /\ Numbered(t) /\ c \in t.pending
      /\ t.pending = (s.pending \ {e}) \cup {c}
      /\ t.nextSeq = s.nextSeq /\ t.queue = s.queue /\ t.kept = s.kept /\ t.data = s.data
      /\ IsFiniteSet(t.pending) /\ Cardinality(t.pending) = Cardinality(s.pending)
      /\ \A id : id # e.id => /\ Asked(t, id) <=> Asked(s, id)
                              /\ Answering(t, id) <=> Answering(s, id)
      /\ Cardinality(Open(t))
           = Cardinality(Open(s)) - One(~e.completionArrived) + One(~c.completionArrived)
  BY <1>0, <1>2, ChangeFacts
<1> HIDE DEF t
<1>4. Staged(t)
  BY <1>0, <1>2, <1>3 DEF Staged
<1>5. Ordered(t)
  BY <1>0, <1>1, <1>2, <1>3 DEF Ordered
<1>6. Carried(t, dd, uu)
  <2> SUFFICES ASSUME NEW id \in Nat
               PROVE  /\ NOf(s.queue, Request(id)) + dd[id] = One(Asked(t, id))
                      /\ NOf(s.queue, Response(id)) + uu[id] = One(Answering(t, id))
    BY <1>3 DEF Carried
  <2>1. /\ NOf(s.queue, Request(id)) + d[id] = One(Asked(s, id))
        /\ NOf(s.queue, Response(id)) + u[id] = One(Answering(s, id))
    BY <1>0 DEF Carried
  <2>2. /\ NOf(s.queue, Request(id)) \in Nat /\ NOf(s.queue, Response(id)) \in Nat
        /\ d[id] \in Nat /\ dd[id] \in Nat /\ u[id] \in Nat /\ uu[id] \in Nat
    BY <1>0, PositionsFinite DEF Bridge, Counts
  <2>3. CASE id = e.id
    <3>1. /\ Asked(s, id) /\ ~Answering(s, id) /\ ~Asked(t, id) /\ Answering(t, id)
      BY <1>0, <1>2, <1>3, <2>3, StageOf
    <3>2. One(id = e.id) = 1 /\ One(Asked(s, id)) = 1 /\ One(Answering(s, id)) = 0
          /\ One(Asked(t, id)) = 0 /\ One(Answering(t, id)) = 1
      BY <2>3, <3>1 DEF One
    <3>3. d[id] = dd[id] + 1 /\ uu[id] = u[id] + 1
      BY <3>2
    <3>4. \A a, p, q \in Nat : p = q + 1 /\ a + p = 1 => a + q = 0
      OBVIOUS
    <3>5. \A a, p, q \in Nat : q = p + 1 /\ a + p = 0 => a + q = 1
      OBVIOUS
    <3>6. NOf(s.queue, Request(id)) + dd[id] = 0
      BY <2>1, <2>2, <3>2, <3>3, <3>4
    <3>7. NOf(s.queue, Response(id)) + uu[id] = 1
      BY <2>1, <2>2, <3>2, <3>3, <3>5
    <3> QED  BY <3>1, <3>6, <3>7 DEF One
  <2>4. CASE id # e.id
    <3>1. (Asked(t, id) <=> Asked(s, id)) /\ (Answering(t, id) <=> Answering(s, id))
      BY <1>3, <2>4
    <3>2. d[id] = dd[id] + 0 /\ uu[id] = u[id] + 0
      BY <2>4 DEF One
    <3>3. d[id] = dd[id] /\ uu[id] = u[id]
      BY <2>2, <3>2
    <3> QED  BY <2>1, <3>1, <3>3 DEF One
  <2> QED  BY <2>3, <2>4
<1>7. Len(t.queue) + n = Cardinality(Open(t))
  <2>1. Cardinality(Open(s)) \in Nat
    BY <1>0, FS_Subset, FS_CardinalityType DEF Open
  <2> QED  BY <1>0, <1>1, <1>2, <1>3, <2>1 DEF One
<1> QED  BY <1>0, <1>2, <1>3, <1>4, <1>5, <1>6, <1>7 DEF Sound, t, c

\* A response: the request's entry and its credit go, and a refused packet may come in.
LEMMA RespondKeeps ==
  ASSUME NEW s, NEW d, NEW u, NEW n, Sound(s, d, u, n), Counts(d, u, n), NEW b,
         NEW e \in s.pending, e.completionArrived
  PROVE  Sound(respond(b, s, e), d, u, n)
<1> DEFINE t == [s EXCEPT !.pending = @ \ {e}]
<1>0. s \in Bridge /\ Numbered(s) /\ Staged(s) /\ Ordered(s) /\ Carried(s, d, u)
      /\ IsFiniteSet(s.pending) /\ Cardinality(s.pending) <= Credits
      /\ Len(s.queue) + n = Cardinality(Open(s))
  BY DEF Sound
<1>1. /\ t \in Bridge /\ t.pending = s.pending \ {e}
      /\ t.nextSeq = s.nextSeq /\ t.queue = s.queue /\ t.kept = s.kept /\ t.data = s.data
  BY <1>0 DEF Bridge
<1> HIDE DEF t
<1>2. e.committed
  BY <1>0 DEF Staged
<1>3. IsFiniteSet(t.pending) /\ Cardinality(t.pending) <= Credits
  <2>1. IsFiniteSet(s.pending \ {e}) /\ Cardinality(s.pending \ {e}) = Cardinality(s.pending) - 1
    BY <1>0, FS_RemoveElement
  <2>2. Cardinality(s.pending) \in Nat /\ Credits \in Nat
    BY <1>0, FS_CardinalityType, BridgeAssumption
  <2> QED  BY <1>0, <1>1, <2>1, <2>2
<1>4. Numbered(t) /\ Staged(t) /\ Ordered(t)
  BY <1>0, <1>1 DEF Numbered, Staged, Ordered
<1>5. Open(t) = Open(s)
  BY <1>1 DEF Open
<1>6. \A id : (Asked(t, id) <=> Asked(s, id)) /\ (Answering(t, id) <=> Answering(s, id))
  BY <1>1, <1>2 DEF Asked, Answering
<1>7. Carried(t, d, u)
  BY <1>0, <1>1, <1>6 DEF Carried, One
<1>8. Sound(t, d, u, n)
  BY <1>0, <1>1, <1>3, <1>4, <1>5, <1>7 DEF Sound
<1>9. respond(b, s, e) = retryBlockedPorts(b, t)
  BY DEF respond, t
<1> QED  BY <1>8, <1>9, RetryKeeps

\* A data operation is performed once, after every older write it overlaps.
LEMMA PerformKeeps ==
  ASSUME NEW s, NEW d, NEW u, NEW n, Sound(s, d, u, n), Counts(d, u, n), NEW b,
         NEW e \in s.pending, e.committed, ~e.dataDone, ~blockedByOlderWrite(s, e)
  PROVE  Sound(performData(b, s, e), d, u, n)
<1> DEFINE f == [e EXCEPT !.dataDone = TRUE]
           x == [id |-> e.id, pkt |-> e.pkt]
           w == With(s, e, f)
           t == [w EXCEPT !.data = Append(@, x)]
<1>0. s \in Bridge /\ Numbered(s) /\ Staged(s) /\ Ordered(s) /\ Carried(s, d, u)
      /\ IsFiniteSet(s.pending) /\ Cardinality(s.pending) <= Credits
      /\ Len(s.queue) + n = Cardinality(Open(s))
  BY DEF Sound
<1>1. e \in Txn /\ e.id \in Nat /\ e.pkt \in Pkts /\ e.completionArrived \in BOOLEAN
  BY <1>0, TxnFields
<1>2. /\ f \in Txn /\ f.id = e.id /\ f.pkt = e.pkt /\ f.committed /\ f.dataDone
      /\ f.completionArrived = e.completionArrived
  BY <1>1 DEF Txn
<1>3. x \in [id : Nat, pkt : Pkts] /\ x.id = e.id /\ x.pkt = e.pkt
  BY <1>1
<1> HIDE DEF f, x
<1>4. /\ w \in Bridge /\ Numbered(w) /\ f \in w.pending
      /\ w.pending = (s.pending \ {e}) \cup {f}
      /\ w.nextSeq = s.nextSeq /\ w.queue = s.queue /\ w.kept = s.kept /\ w.data = s.data
      /\ IsFiniteSet(w.pending) /\ Cardinality(w.pending) = Cardinality(s.pending)
      /\ \A id : id # e.id => /\ Asked(w, id) <=> Asked(s, id)
                              /\ Answering(w, id) <=> Answering(s, id)
      /\ Cardinality(Open(w))
           = Cardinality(Open(s)) - One(~e.completionArrived) + One(~f.completionArrived)
  BY <1>0, <1>2, ChangeFacts
<1> HIDE DEF w
<1>5. s.data \in Seq([id : Nat, pkt : Pkts]) /\ Append(s.data, x) \in Seq([id : Nat, pkt : Pkts])
  BY <1>0, <1>3, AppendProperties DEF Bridge
<1>6. /\ t \in Bridge /\ t.pending = w.pending /\ t.nextSeq = s.nextSeq /\ t.queue = s.queue
      /\ t.data = Append(s.data, x)
  BY <1>4, <1>5 DEF Bridge
<1> HIDE DEF t
<1>7. /\ Len(s.data) \in Nat /\ DOMAIN s.data = 1 .. Len(s.data)
      /\ DOMAIN t.data = 1 .. (Len(s.data) + 1) /\ t.data[Len(s.data) + 1] = x
      /\ \A i \in 1 .. Len(s.data) : t.data[i] = s.data[i]
  BY <1>3, <1>5, <1>6, AppendProperties, LenProperties
<1>8. Numbered(t)
  <2>1. e.id < s.nextSeq
    BY <1>0 DEF Numbered
  <2>2. ASSUME NEW i \in DOMAIN t.data PROVE t.data[i].id < t.nextSeq
    <3>1. CASE i \in DOMAIN s.data
      BY <1>0, <1>6, <1>7, <3>1 DEF Numbered
    <3>2. CASE i = Len(s.data) + 1
      BY <1>3, <1>6, <1>7, <2>1, <3>2
    <3> QED  BY <1>7, <3>1, <3>2
  <2> QED  BY <1>4, <1>6, <2>2 DEF Numbered
<1>9. Staged(t)
  BY <1>0, <1>2, <1>4, <1>6 DEF Staged
<1>10. Ordered(t)
  <2>1. ASSUME NEW i \in DOMAIN t.data, NEW j \in DOMAIN t.data,
               j > i, t.data[j].id < t.data[i].id, t.data[j].pkt.op = "write"
        PROVE  t.data[j].pkt.bytes \cap t.data[i].pkt.bytes = {}
    <3>1. i \in DOMAIN s.data /\ t.data[i] = s.data[i]
      BY <1>7, <2>1
    <3>2. CASE j \in DOMAIN s.data
      BY <1>0, <1>7, <2>1, <3>1, <3>2 DEF Ordered
    <3>3. CASE j = Len(s.data) + 1
      BY <1>0, <1>3, <1>7, <2>1, <3>1, <3>3 DEF Ordered
    <3> QED  BY <1>7, <3>2, <3>3
  <2>2. ASSUME NEW i \in DOMAIN t.data, NEW o \in t.pending,
               o.id < t.data[i].id, o.pkt.op = "write", ~o.dataDone
        PROVE  o.pkt.bytes \cap t.data[i].pkt.bytes = {}
    <3>1. o \in s.pending
      BY <1>2, <1>4, <1>6, <2>2
    <3>2. CASE i \in DOMAIN s.data
      BY <1>0, <1>7, <2>2, <3>1, <3>2 DEF Ordered
    <3>3. CASE i = Len(s.data) + 1
      BY <1>3, <1>7, <2>2, <3>1, <3>3 DEF blockedByOlderWrite
    <3> QED  BY <1>7, <3>2, <3>3
  <2> QED  BY <2>1, <2>2 DEF Ordered
<1>11. Carried(t, d, u)
  <2>1. ASSUME NEW id
        PROVE  (Asked(t, id) <=> Asked(s, id)) /\ (Answering(t, id) <=> Answering(s, id))
    <3>1. (Asked(t, id) <=> Asked(w, id)) /\ (Answering(t, id) <=> Answering(w, id))
      BY <1>6 DEF Asked, Answering
    <3>2. CASE id = e.id
      BY <1>0, <1>2, <1>4, <3>1, <3>2, StageOf
    <3>3. CASE id # e.id
      BY <1>4, <3>1, <3>3
    <3> QED  BY <3>2, <3>3
  <2> QED  BY <1>0, <1>6, <2>1 DEF Carried, One
<1>12. Cardinality(Open(t)) = Cardinality(Open(s))
  <2>1. Open(t) = Open(w)
    BY <1>6 DEF Open
  <2>2. Cardinality(Open(s)) \in Nat
    BY <1>0, FS_Subset, FS_CardinalityType DEF Open
  <2> QED  BY <1>2, <1>4, <2>1, <2>2 DEF One
<1>13. Sound(t, d, u, n)
  BY <1>0, <1>4, <1>6, <1>8, <1>9, <1>10, <1>11, <1>12 DEF Sound
<1>14. performData(b, s, e) = IF e.completionArrived THEN respond(b, t, f) ELSE t
  BY DEF performData, t, w, f, x
<1>15. CASE e.completionArrived
  <2>1. f \in t.pending /\ f.completionArrived
    BY <1>2, <1>4, <1>6, <1>15
  <2> QED  BY <1>13, <1>14, <1>15, <2>1, RespondKeeps
<1>16. CASE ~e.completionArrived
  BY <1>13, <1>14, <1>16
<1> QED  BY <1>15, <1>16

\* A completion leaves the queue and calls the bridge back.
LEMMA CompleteKeeps ==
  ASSUME NEW s, NEW d, NEW u, NEW n, Sound(s, d, u, n), Counts(d, u, n), NEW b,
         s.queue # <<>>, Head(s.queue).dir = "response"
  PROVE  LET id == Head(s.queue).id
             r  == [s EXCEPT !.queue = Tail(@)]
         IN  /\ ~Unknown(r, id) /\ Entry(r, id).committed
             /\ Sound(cacheSimCallback(b, r, id), d, u, n)
<1> DEFINE id == Head(s.queue).id
           r  == [s EXCEPT !.queue = Tail(@)]
<1>0. s \in Bridge /\ Numbered(s) /\ Staged(s) /\ Ordered(s) /\ Carried(s, d, u)
      /\ IsFiniteSet(s.pending) /\ Cardinality(s.pending) <= Credits
      /\ Len(s.queue) + n = Cardinality(Open(s))
  BY DEF Sound
<1>1. /\ s.queue \in Seq(Way) /\ Head(s.queue) \in Way /\ Tail(s.queue) \in Seq(Way)
      /\ Len(Tail(s.queue)) = Len(s.queue) - 1 /\ Len(s.queue) \in Nat
  BY <1>0, CountTail, LenProperties DEF Bridge
<1>2. id \in Nat /\ Head(s.queue) = [dir |-> "response", id |-> id]
  BY <1>1 DEF Way
<1>3. /\ r \in Bridge /\ r.pending = s.pending /\ r.nextSeq = s.nextSeq
      /\ r.queue = Tail(s.queue) /\ r.data = s.data
  BY <1>0, <1>1 DEF Bridge
<1> HIDE DEF id, r
<1>4. ASSUME NEW i \in Nat
      PROVE  /\ NOf(s.queue, Request(i)) \in Nat /\ NOf(s.queue, Response(i)) \in Nat
             /\ NOf(r.queue, Request(i)) = NOf(s.queue, Request(i))
             /\ NOf(r.queue, Response(i)) = NOf(s.queue, Response(i)) - One(i = id)
             /\ d[i] \in Nat /\ u[i] \in Nat
             /\ NOf(r.queue, Response(i)) \in Nat
  <2>1. Head(s.queue) \notin Request(i) /\ (Head(s.queue) \in Response(i) <=> i = id)
    BY <1>2 DEF Request, Response
  <2>2. NOf(s.queue, Request(i)) \in Nat /\ NOf(s.queue, Response(i)) \in Nat
        /\ NOf(Tail(s.queue), Response(i)) \in Nat
    BY <1>1, PositionsFinite
  <2>3. NOf(Tail(s.queue), Request(i))
          = NOf(s.queue, Request(i)) - (IF Head(s.queue) \in Request(i) THEN 1 ELSE 0)
    BY <1>1, CountTail
  <2>4. NOf(Tail(s.queue), Response(i))
          = NOf(s.queue, Response(i)) - (IF Head(s.queue) \in Response(i) THEN 1 ELSE 0)
    BY <1>1, CountTail
  <2> QED  BY <1>3, <2>1, <2>2, <2>3, <2>4 DEF One, Counts
<1>5. Answering(s, id)
  <2>1. NOf(s.queue, Response(id)) + u[id] = One(Answering(s, id))
    BY <1>0, <1>2 DEF Carried
  <2>2. NOf(s.queue, Response(id)) >= 1
    BY <1>2, <1>4 DEF One
  <2>3. NOf(s.queue, Response(id)) \in Nat /\ u[id] \in Nat
    BY <1>2, <1>4
  <2>4. One(Answering(s, id)) # 0
    BY <2>1, <2>2, <2>3
  <2> QED  BY <2>4 DEF One
<1>6. PICK e \in s.pending : e.id = id /\ e.committed /\ ~e.completionArrived
  BY <1>5 DEF Answering
<1>7. Numbered(r)
  BY <1>0, <1>3 DEF Numbered
<1>8. Entry(r, id) = e /\ ~Unknown(r, id)
  BY <1>3, <1>6, <1>7, EntryFound DEF Unknown
<1> DEFINE f == [e EXCEPT !.completionArrived = TRUE]
           t == With(r, e, f)
<1>9. e \in Txn
  BY <1>0, TxnFields
<1>10. /\ f \in Txn /\ f.id = e.id /\ f.pkt = e.pkt /\ f.committed /\ f.dataDone = e.dataDone
       /\ f.completionArrived /\ f = [e EXCEPT !.completionArrived = TRUE]
  BY <1>6, <1>9 DEF Txn
<1> HIDE DEF f
<1>11. /\ t \in Bridge /\ Numbered(t) /\ f \in t.pending
       /\ t.pending = (r.pending \ {e}) \cup {f}
       /\ t.nextSeq = r.nextSeq /\ t.queue = r.queue /\ t.data = r.data
       /\ IsFiniteSet(t.pending) /\ Cardinality(t.pending) = Cardinality(r.pending)
       /\ \A i : i # e.id => /\ Asked(t, i) <=> Asked(r, i)
                             /\ Answering(t, i) <=> Answering(r, i)
       /\ Cardinality(Open(t))
            = Cardinality(Open(r)) - One(~e.completionArrived) + One(~f.completionArrived)
  <2>1. r \in Bridge /\ Numbered(r) /\ IsFiniteSet(r.pending) /\ e \in r.pending
    BY <1>0, <1>3, <1>6, <1>7
  <2>2. f \in Txn /\ f.id = e.id
    BY <1>10
  <2> QED  BY <2>1, <2>2, ChangeFacts
<1>12. t = With(r, e, f)
  OBVIOUS
<1> HIDE DEF t
<1>13. Staged(t)
  BY <1>0, <1>3, <1>10, <1>11 DEF Staged
<1>14. Ordered(t)
  <2>1. t.data = s.data /\ t.pending = (s.pending \ {e}) \cup {f}
    BY <1>3, <1>11
  <2>2. ASSUME NEW i \in DOMAIN t.data, NEW o \in t.pending,
               o.id < t.data[i].id, o.pkt.op = "write", ~o.dataDone
        PROVE  o.pkt.bytes \cap t.data[i].pkt.bytes = {}
    <3>1. CASE o \in s.pending
      BY <1>0, <2>1, <2>2, <3>1 DEF Ordered
    <3>2. CASE o = f
      <4>1. e.id < t.data[i].id /\ e.pkt.op = "write" /\ ~e.dataDone /\ o.pkt = e.pkt
        BY <1>10, <2>2, <3>2
      <4>2. e.pkt.bytes \cap s.data[i].pkt.bytes = {}
        BY <1>0, <1>6, <2>1, <4>1 DEF Ordered
      <4> QED  BY <2>1, <4>1, <4>2
    <3> QED  BY <2>1, <2>2, <3>1, <3>2
  <2> QED  BY <1>0, <2>1, <2>2 DEF Ordered
<1>15. Carried(t, d, u)
  <2> SUFFICES ASSUME NEW i \in Nat
               PROVE  /\ NOf(r.queue, Request(i)) + d[i] = One(Asked(t, i))
                      /\ NOf(r.queue, Response(i)) + u[i] = One(Answering(t, i))
    BY <1>11 DEF Carried
  <2>1. /\ NOf(s.queue, Request(i)) + d[i] = One(Asked(s, i))
        /\ NOf(s.queue, Response(i)) + u[i] = One(Answering(s, i))
    BY <1>0 DEF Carried
  <2>2. (Asked(r, i) <=> Asked(s, i)) /\ (Answering(r, i) <=> Answering(s, i))
    BY <1>3 DEF Asked, Answering
  <2>3. CASE i = id
    <3>1. ~Asked(s, i) /\ Answering(s, i) /\ ~Asked(t, i) /\ ~Answering(t, i)
      BY <1>0, <1>6, <1>10, <1>11, <2>3, StageOf
    <3>2. /\ One(Asked(s, i)) = 0 /\ One(Answering(s, i)) = 1
          /\ One(Asked(t, i)) = 0 /\ One(Answering(t, i)) = 0 /\ One(i = id) = 1
      BY <2>3, <3>1 DEF One
    <3>3. \A a, c, v \in Nat : c = a - 1 /\ a + v = 1 => c + v = 0
      OBVIOUS
    <3>4. NOf(r.queue, Response(i)) + u[i] = 0
      BY <1>4, <2>1, <3>2, <3>3
    <3>5. NOf(r.queue, Request(i)) + d[i] = 0
      BY <1>4, <2>1, <3>2
    <3> QED  BY <3>2, <3>4, <3>5
  <2>4. CASE i # id
    <3>1. (Asked(t, i) <=> Asked(s, i)) /\ (Answering(t, i) <=> Answering(s, i))
      BY <1>6, <1>11, <2>2, <2>4
    <3>2. NOf(r.queue, Response(i)) = NOf(s.queue, Response(i))
      BY <1>4, <2>4 DEF One
    <3> QED  BY <1>4, <2>1, <3>1, <3>2 DEF One
  <2> QED  BY <2>3, <2>4
<1>16. Len(t.queue) + n = Cardinality(Open(t))
  <2>1. Open(r) = Open(s)
    BY <1>3 DEF Open
  <2>2. Cardinality(Open(s)) \in Nat /\ n \in Nat
    BY <1>0, FS_Subset, FS_CardinalityType DEF Open, Counts
  <2>3. Cardinality(Open(t)) = Cardinality(Open(s)) - 1
    BY <1>6, <1>10, <1>11, <2>1, <2>2 DEF One
  <2> QED  BY <1>0, <1>1, <1>3, <1>11, <2>2, <2>3
<1>17. Sound(t, d, u, n)
  BY <1>0, <1>3, <1>11, <1>13, <1>14, <1>15, <1>16 DEF Sound
<1>18. Sound(cacheSimCallback(b, r, id), d, u, n)
  <2>1. CASE e.dataDone
    <3>1. Sound(respond(b, t, f), d, u, n)
      BY <1>10, <1>11, <1>17, RespondKeeps
    <3>2. respond(b, t, f) = respond(b, r, e)
      <4>1. t.pending \ {f} = r.pending \ {e}
        BY <1>3, <1>6, <1>7, <1>10, <1>11 DEF Numbered
      <4>2. [t EXCEPT !.pending = @ \ {f}] = [r EXCEPT !.pending = @ \ {e}]
        BY <1>3, <4>1, <1>12 DEF With, Bridge
      <4> QED  BY <4>2 DEF respond
    <3> QED  BY <1>8, <2>1, <3>1, <3>2 DEF cacheSimCallback
  <2>2. CASE ~e.dataDone
    <3>1. cacheSimCallback(b, r, id) = With(r, e, f)
      BY <1>8, <1>10, <2>2 DEF cacheSimCallback
    <3> QED  BY <1>12, <1>17, <3>1
  <2> QED  BY <2>1, <2>2
<1> QED  BY <1>6, <1>8, <1>18 DEF id, r

-----------------------------------------------------------------------------
(* The link and the L1 around a bridge.                                     *)

\* What link k and L1 h hold of request id, on the way to the commit and back.
Down(k, h) ==
  [id \in Nat |-> NOf(k.txDown, Only(id)) + NOf(k.rxDown, Only(id)) + One(id \in h.held)]
Up(k) == [id \in Nat |-> NOf(k.txUp, Only(id)) + NOf(k.rxUp, Only(id))]
Total(a, b, c, x, y) == a + b + c + x + y
Outside(k, h) ==
  Total(Len(k.txDown), Len(k.rxDown), Len(k.txUp), Len(k.rxUp), Cardinality(h.held))

\* A bridge with its link and its L1.
Joined(k, h) == k \in Link /\ h \in Cache /\ IsFiniteSet(h.held)
Linked(s, k, h) == Joined(k, h) /\ Sound(s, Down(k, h), Up(k), Outside(k, h))

BridgeInv ==
  /\ br \in [Bridges -> Bridge] /\ link \in [Bridges -> Link] /\ l1 \in [Bridges -> Cache]
  /\ offered \in Nat /\ ~panicked
  /\ \A b \in Bridges : Linked(br[b], link[b], l1[b])

\* The counts are numbers.
LEMMA OutsideFacts ==
  ASSUME NEW k, NEW h, Joined(k, h)
  PROVE  /\ Counts(Down(k, h), Up(k), Outside(k, h))
         /\ Cardinality(h.held) \in Nat
         /\ Len(k.txDown) \in Nat /\ Len(k.rxDown) \in Nat
         /\ Len(k.txUp) \in Nat /\ Len(k.rxUp) \in Nat
         /\ \A id : /\ NOf(k.txDown, Only(id)) \in Nat /\ NOf(k.rxDown, Only(id)) \in Nat
                    /\ NOf(k.txUp, Only(id)) \in Nat /\ NOf(k.rxUp, Only(id)) \in Nat
<1>1. /\ k.txDown \in Seq(Nat) /\ k.rxDown \in Seq(Nat) /\ k.txUp \in Seq(Nat) /\ k.rxUp \in Seq(Nat)
      /\ IsFiniteSet(h.held)
  BY DEF Joined, Link
<1>2. \A id : /\ NOf(k.txDown, Only(id)) \in Nat /\ NOf(k.rxDown, Only(id)) \in Nat
              /\ NOf(k.txUp, Only(id)) \in Nat /\ NOf(k.rxUp, Only(id)) \in Nat
  BY <1>1, PositionsFinite
<1>3. /\ Cardinality(h.held) \in Nat /\ Len(k.txDown) \in Nat /\ Len(k.rxDown) \in Nat
      /\ Len(k.txUp) \in Nat /\ Len(k.rxUp) \in Nat
  BY <1>1, FS_CardinalityType, LenProperties
<1>4. \A id \in Nat : One(id \in h.held) \in Nat
  BY DEF One
<1>5. Down(k, h) \in [Nat -> Nat] /\ Up(k) \in [Nat -> Nat]
  BY <1>2, <1>4 DEF Down, Up
<1>6. Outside(k, h) \in Nat
  <2>1. \A a, b, c, x, y \in Nat : Total(a, b, c, x, y) \in Nat
    BY DEF Total
  <2> QED  BY <1>3, <2>1 DEF Outside
<1> QED  BY <1>2, <1>3, <1>5, <1>6 DEF Counts

\* A number of one kind in a sequence of numbers.
LEMMA OneMore ==
  ASSUME NEW q \in Seq(Nat), NEW i \in Nat
  PROVE  /\ Append(q, i) \in Seq(Nat) /\ Len(Append(q, i)) = Len(q) + 1
         /\ \A id : NOf(Append(q, i), Only(id)) = NOf(q, Only(id)) + One(i = id)
<1>1. \A id : NOf(Append(q, i), Only(id)) = NOf(q, Only(id)) + (IF i \in Only(id) THEN 1 ELSE 0)
  BY CountAppend
<1>2. \A id : i \in Only(id) <=> i = id
  BY DEF Only
<1> QED  BY <1>1, <1>2, AppendProperties DEF One

\* The first number taken from a sequence of numbers.
LEMMA OneLess ==
  ASSUME NEW q \in Seq(Nat), q # <<>>
  PROVE  /\ Head(q) \in Nat /\ Tail(q) \in Seq(Nat) /\ Len(Tail(q)) = Len(q) - 1 /\ Len(q) \in Nat
         /\ \A id : /\ NOf(Tail(q), Only(id)) \in Nat /\ NOf(q, Only(id)) \in Nat
                    /\ NOf(q, Only(id)) = NOf(Tail(q), Only(id)) + One(Head(q) = id)
<1>1. /\ Head(q) \in Nat /\ Tail(q) \in Seq(Nat) /\ Len(Tail(q)) = Len(q) - 1
      /\ \A id : NOf(Tail(q), Only(id)) = NOf(q, Only(id)) - (IF Head(q) \in Only(id) THEN 1 ELSE 0)
  BY CountTail
<1>2. \A id : Head(q) \in Only(id) <=> Head(q) = id
  BY DEF Only
<1>3. \A id : NOf(Tail(q), Only(id)) \in Nat /\ NOf(q, Only(id)) \in Nat
  BY <1>1, PositionsFinite
<1> QED  BY <1>1, <1>2, <1>3, LenProperties DEF One

\* One less in a place and one more in another.
Moved(a, b, m, n) == a \in Nat /\ b \in Nat /\ m \in Nat /\ n \in Nat /\ m = a - 1 /\ n = b + 1

\* A message that moves leaves the total as it was.
LEMMA SameSum ==
  ASSUME NEW a, NEW b, NEW m, NEW n, Moved(a, b, m, n), NEW x \in Nat, NEW y \in Nat, NEW z \in Nat
  PROVE  /\ Total(m, n, x, y, z) = Total(a, b, x, y, z)
         /\ Total(x, y, m, n, z) = Total(x, y, a, b, z)
         /\ Total(x, m, y, z, n) = Total(x, a, y, z, b)
         /\ Total(x, y, n, z, m) = Total(x, y, b, z, a)
<1>1. a \in Nat /\ b \in Nat /\ m = a - 1 /\ n = b + 1
  BY DEF Moved
<1> QED  BY <1>1 DEF Total

\* One more in a place; all of one place in another.
Grown(a, m) == a \in Nat /\ m \in Nat /\ m = a + 1
Emptied(l, v, n, o) == l \in Nat /\ v \in Nat /\ n \in Nat /\ n = l + v /\ o = 0

\* A message that joins those outside the queue.
LEMMA SumGrows ==
  ASSUME NEW a, NEW m, Grown(a, m), NEW x \in Nat, NEW y \in Nat, NEW z \in Nat, NEW w \in Nat
  PROVE  Total(m, x, y, z, w) = Total(a, x, y, z, w) + 1
BY DEF Total, Grown

\* Messages that leave the receive buffer for the queue.
LEMMA SumDrops ==
  ASSUME NEW l, NEW v, NEW n, NEW o, Emptied(l, v, n, o),
         NEW x \in Nat, NEW y \in Nat, NEW z \in Nat, NEW w \in Nat
  PROVE  n + Total(x, y, z, o, w) = l + Total(x, y, z, v, w)
BY DEF Total, Emptied

\* A message that crosses the link stays on its way.
LEMMA CrossKeeps ==
  ASSUME NEW k, NEW h, Joined(k, h), NEW tx, NEW rx,
         \/ tx = "txDown" /\ rx = "rxDown"
         \/ tx = "txUp" /\ rx = "rxUp"
  PROVE  LET j == Cross(k, tx, rx) IN
         /\ Joined(j, h) /\ Down(j, h) = Down(k, h) /\ Up(j) = Up(k)
         /\ Outside(j, h) = Outside(k, h)
<1> DEFINE j == Cross(k, tx, rx)
<1>0. /\ k \in Link
      /\ k.txDown \in Seq(Nat) /\ k.rxDown \in Seq(Nat) /\ k.txUp \in Seq(Nat) /\ k.rxUp \in Seq(Nat)
  BY DEF Joined, Link
<1>1. CASE k[tx] = <<>> \/ Len(k[rx]) >= LinkMax
  BY <1>1 DEF Cross
<1>2. CASE tx = "txDown" /\ rx = "rxDown" /\ ~(k[tx] = <<>> \/ Len(k[rx]) >= LinkMax)
  <2> DEFINE m == Head(k.txDown)
  <2>1. k.txDown # <<>>
    BY <1>2
  <2>2. /\ m \in Nat /\ Tail(k.txDown) \in Seq(Nat)
        /\ Len(Tail(k.txDown)) = Len(k.txDown) - 1 /\ Len(k.txDown) \in Nat
        /\ \A id : /\ NOf(Tail(k.txDown), Only(id)) \in Nat
                   /\ NOf(k.txDown, Only(id)) = NOf(Tail(k.txDown), Only(id)) + One(m = id)
    BY <1>0, <2>1, OneLess
  <2>3. /\ Append(k.rxDown, m) \in Seq(Nat)
        /\ Len(Append(k.rxDown, m)) = Len(k.rxDown) + 1
        /\ \A id : NOf(Append(k.rxDown, m), Only(id)) = NOf(k.rxDown, Only(id)) + One(m = id)
    BY <1>0, <2>2, OneMore
  <2>4. j = [k EXCEPT !.txDown = Tail(@), !.rxDown = Append(@, m)]
    BY <1>2 DEF Cross
  <2> HIDE DEF m, j
  <2>5. /\ j \in Link /\ j.txDown = Tail(k.txDown) /\ j.rxDown = Append(k.rxDown, m)
        /\ j.txUp = k.txUp /\ j.rxUp = k.rxUp
    BY <1>0, <2>2, <2>3, <2>4 DEF Link
  <2>6. Joined(j, h) /\ Up(j) = Up(k)
    BY <2>5 DEF Joined, Up
  <2>7. \A id \in Nat : NOf(j.txDown, Only(id)) + NOf(j.rxDown, Only(id))
                          = NOf(k.txDown, Only(id)) + NOf(k.rxDown, Only(id))
    <3> TAKE id \in Nat
    <3>1. One(m = id) \in Nat /\ NOf(k.rxDown, Only(id)) \in Nat
      BY OutsideFacts DEF One
    <3> QED  BY <2>2, <2>3, <2>5, <3>1
  <2>8. Down(j, h) = Down(k, h)
    BY <2>7 DEF Down
  <2>9. Outside(j, h) = Outside(k, h)
    <3>1. Len(j.txDown) = Len(k.txDown) - 1 /\ Len(j.rxDown) = Len(k.rxDown) + 1
      BY <2>2, <2>3, <2>5
    <3>2. /\ Len(k.txDown) \in Nat /\ Len(k.rxDown) \in Nat /\ Len(k.txUp) \in Nat
          /\ Len(k.rxUp) \in Nat /\ Cardinality(h.held) \in Nat
          /\ Len(j.txDown) \in Nat /\ Len(j.rxDown) \in Nat
      BY <2>6, OutsideFacts
    <3>3. Moved(Len(k.txDown), Len(k.rxDown), Len(j.txDown), Len(j.rxDown))
      BY <3>1, <3>2 DEF Moved
    <3>4. Total(Len(j.txDown), Len(j.rxDown), Len(k.txUp), Len(k.rxUp), Cardinality(h.held))
            = Total(Len(k.txDown), Len(k.rxDown), Len(k.txUp), Len(k.rxUp), Cardinality(h.held))
      BY <3>2, <3>3, SameSum
    <3> QED  BY <2>5, <3>4 DEF Outside
  <2> QED  BY <2>6, <2>8, <2>9 DEF j
<1>3. CASE tx = "txUp" /\ rx = "rxUp" /\ ~(k[tx] = <<>> \/ Len(k[rx]) >= LinkMax)
  <2> DEFINE m == Head(k.txUp)
  <2>1. k.txUp # <<>>
    BY <1>3
  <2>2. /\ m \in Nat /\ Tail(k.txUp) \in Seq(Nat)
        /\ Len(Tail(k.txUp)) = Len(k.txUp) - 1 /\ Len(k.txUp) \in Nat
        /\ \A id : /\ NOf(Tail(k.txUp), Only(id)) \in Nat
                   /\ NOf(k.txUp, Only(id)) = NOf(Tail(k.txUp), Only(id)) + One(m = id)
    BY <1>0, <2>1, OneLess
  <2>3. /\ Append(k.rxUp, m) \in Seq(Nat)
        /\ Len(Append(k.rxUp, m)) = Len(k.rxUp) + 1
        /\ \A id : NOf(Append(k.rxUp, m), Only(id)) = NOf(k.rxUp, Only(id)) + One(m = id)
    BY <1>0, <2>2, OneMore
  <2>4. j = [k EXCEPT !.txUp = Tail(@), !.rxUp = Append(@, m)]
    BY <1>3 DEF Cross
  <2> HIDE DEF m, j
  <2>5. /\ j \in Link /\ j.txUp = Tail(k.txUp) /\ j.rxUp = Append(k.rxUp, m)
        /\ j.txDown = k.txDown /\ j.rxDown = k.rxDown
    BY <1>0, <2>2, <2>3, <2>4 DEF Link
  <2>6. Joined(j, h) /\ Down(j, h) = Down(k, h)
    BY <2>5 DEF Joined, Down
  <2>7. \A id \in Nat : NOf(j.txUp, Only(id)) + NOf(j.rxUp, Only(id))
                          = NOf(k.txUp, Only(id)) + NOf(k.rxUp, Only(id))
    <3> TAKE id \in Nat
    <3>1. One(m = id) \in Nat /\ NOf(k.rxUp, Only(id)) \in Nat
      BY OutsideFacts DEF One
    <3> QED  BY <2>2, <2>3, <2>5, <3>1
  <2>8. Up(j) = Up(k)
    BY <2>7 DEF Up
  <2>9. Outside(j, h) = Outside(k, h)
    <3>1. Len(j.txUp) = Len(k.txUp) - 1 /\ Len(j.rxUp) = Len(k.rxUp) + 1
      BY <2>2, <2>3, <2>5
    <3>2. /\ Len(k.txDown) \in Nat /\ Len(k.rxDown) \in Nat /\ Len(k.txUp) \in Nat
          /\ Len(k.rxUp) \in Nat /\ Cardinality(h.held) \in Nat
          /\ Len(j.txUp) \in Nat /\ Len(j.rxUp) \in Nat
      BY <2>6, OutsideFacts
    <3>3. Moved(Len(k.txUp), Len(k.rxUp), Len(j.txUp), Len(j.rxUp))
      BY <3>1, <3>2 DEF Moved
    <3>4. Total(Len(k.txDown), Len(k.rxDown), Len(j.txUp), Len(j.rxUp), Cardinality(h.held))
            = Total(Len(k.txDown), Len(k.rxDown), Len(k.txUp), Len(k.rxUp), Cardinality(h.held))
      BY <3>2, <3>3, SameSum
    <3> QED  BY <2>5, <3>4 DEF Outside
  <2> QED  BY <2>6, <2>8, <2>9 DEF j
<1> QED  BY <1>1, <1>2, <1>3

\* Queue p with d and u outside it holds what queue q with dd and uu outside it holds.
SameLoad(p, d, u, q, dd, uu) ==
  \A id \in Nat :
    /\ NOf(q, Request(id)) + dd[id] = NOf(p, Request(id)) + d[id]
    /\ NOf(q, Response(id)) + uu[id] = NOf(p, Response(id)) + u[id]

\* The bridge's queue changes, and what leaves it is outside it.
LEMMA Requeue ==
  ASSUME NEW s, NEW d, NEW u, NEW n, Sound(s, d, u, n), NEW dd, NEW uu, NEW nn,
         NEW q \in Seq(Way), Len(q) + nn = Len(s.queue) + n,
         SameLoad(s.queue, d, u, q, dd, uu)
  PROVE  Sound([s EXCEPT !.queue = q], dd, uu, nn)
<1> DEFINE t == [s EXCEPT !.queue = q]
<1>1. /\ t \in Bridge /\ t.queue = q /\ t.pending = s.pending /\ t.nextSeq = s.nextSeq
      /\ t.data = s.data
  BY DEF Sound, Bridge
<1> HIDE DEF t
<1>2. Numbered(t) /\ Staged(t) /\ Ordered(t)
  BY <1>1 DEF Sound, Numbered, Staged, Ordered
<1>3. Carried(t, dd, uu)
  <2>1. \A id : (Asked(t, id) <=> Asked(s, id)) /\ (Answering(t, id) <=> Answering(s, id))
    BY <1>1 DEF Asked, Answering
  <2> SUFFICES ASSUME NEW id \in Nat
               PROVE  /\ NOf(q, Request(id)) + dd[id] = One(Asked(t, id))
                      /\ NOf(q, Response(id)) + uu[id] = One(Answering(t, id))
    BY <1>1 DEF Carried
  <2>2. /\ NOf(q, Request(id)) + dd[id] = NOf(s.queue, Request(id)) + d[id]
        /\ NOf(q, Response(id)) + uu[id] = NOf(s.queue, Response(id)) + u[id]
    BY DEF SameLoad
  <2>3. /\ NOf(s.queue, Request(id)) + d[id] = One(Asked(s, id))
        /\ NOf(s.queue, Response(id)) + u[id] = One(Answering(s, id))
    BY DEF Sound, Carried
  <2> QED  BY <2>1, <2>2, <2>3 DEF One
<1>4. Len(t.queue) + nn = Cardinality(Open(t))
  BY <1>1 DEF Sound, Open
<1> QED  BY <1>1, <1>2, <1>3, <1>4 DEF Sound, t

\* What is outside the queue moves, and is counted the same.
LEMMA Recount ==
  ASSUME NEW s, NEW d, NEW u, NEW n, Sound(s, d, u, n), NEW dd,
         \A id \in Nat : dd[id] = d[id]
  PROVE  Sound(s, dd, u, n)
<1>1. Carried(s, dd, u)
  BY DEF Sound, Carried
<1> QED  BY <1>1 DEF Sound

\* At most one message of a request is on its way to the L1.
LEMMA DownOnce ==
  ASSUME NEW s, NEW k, NEW h, Linked(s, k, h), NEW id \in Nat
  PROVE  /\ NOf(s.queue, Request(id)) \in Nat /\ Down(k, h)[id] \in Nat
         /\ Down(k, h)[id] <= One(Asked(s, id)) /\ One(Asked(s, id)) \in {0, 1}
         /\ Down(k, h)[id] = NOf(k.txDown, Only(id)) + NOf(k.rxDown, Only(id)) + One(id \in h.held)
<1>1. NOf(s.queue, Request(id)) + Down(k, h)[id] = One(Asked(s, id))
  BY DEF Linked, Sound, Carried
<1>2. NOf(s.queue, Request(id)) \in Nat
  BY PositionsFinite DEF Linked, Sound, Bridge
<1>3. Down(k, h)[id] \in Nat
  BY OutsideFacts DEF Linked, Counts
<1>4. One(Asked(s, id)) \in {0, 1}
  BY DEF One
<1>5. Down(k, h)[id] = NOf(k.txDown, Only(id)) + NOf(k.rxDown, Only(id)) + One(id \in h.held)
  BY DEF Down
<1> QED  BY <1>1, <1>2, <1>3, <1>4, <1>5

\* The L1 takes a request, and holds it once.
LEMMA TakeKeeps ==
  ASSUME NEW s, NEW k, NEW h, Linked(s, k, h), k.rxDown # <<>>, NEW full \in BOOLEAN
  PROVE  Linked(s, [k EXCEPT !.rxDown = Tail(@)],
                   [held |-> h.held \cup {Head(k.rxDown)}, full |-> full])
<1> DEFINE m == Head(k.rxDown)
           j == [k EXCEPT !.rxDown = Tail(@)]
           g == [held |-> h.held \cup {m}, full |-> full]
<1>0. /\ Joined(k, h) /\ k \in Link /\ h \in Cache /\ IsFiniteSet(h.held) /\ k.rxDown \in Seq(Nat)
      /\ Sound(s, Down(k, h), Up(k), Outside(k, h))
  BY DEF Linked, Joined, Link
<1>1. /\ m \in Nat /\ Tail(k.rxDown) \in Seq(Nat) /\ Len(Tail(k.rxDown)) = Len(k.rxDown) - 1
      /\ \A id : /\ NOf(Tail(k.rxDown), Only(id)) \in Nat /\ NOf(k.rxDown, Only(id)) \in Nat
                 /\ NOf(k.rxDown, Only(id)) = NOf(Tail(k.rxDown), Only(id)) + One(m = id)
  BY <1>0, OneLess
<1> HIDE DEF m
<1>2. m \notin h.held
  <2>1. /\ Down(k, h)[m] <= 1
        /\ Down(k, h)[m] = NOf(k.txDown, Only(m)) + NOf(k.rxDown, Only(m)) + One(m \in h.held)
    BY <1>1, DownOnce
  <2>2. NOf(k.rxDown, Only(m)) >= 1
    BY <1>1 DEF One
  <2>3. NOf(k.txDown, Only(m)) \in Nat /\ NOf(k.rxDown, Only(m)) \in Nat
    BY <1>0, OutsideFacts
  <2>4. One(m \in h.held) # 1
    <3>1. One(m \in h.held) \in Nat
      BY DEF One
    <3> QED  BY <2>1, <2>2, <2>3, <3>1
  <2> QED  BY <2>4 DEF One
<1>3. /\ j \in Link /\ j.rxDown = Tail(k.rxDown) /\ j.txDown = k.txDown /\ j.txUp = k.txUp
      /\ j.rxUp = k.rxUp
  BY <1>0, <1>1 DEF Link
<1>4. g \in Cache /\ g.held = h.held \cup {m}
  BY <1>0, <1>1 DEF Cache
<1>5. IsFiniteSet(g.held) /\ Cardinality(g.held) = Cardinality(h.held) + 1
  BY <1>0, <1>2, <1>4, FS_AddElement
<1> HIDE DEF j, g
<1>6. Joined(j, g)
  BY <1>3, <1>4, <1>5 DEF Joined
<1>7. \A id \in Nat : Down(j, g)[id] = Down(k, h)[id]
  <2> TAKE id \in Nat
  <2>1. One(id \in g.held) = One(id \in h.held) + One(m = id)
    BY <1>2, <1>4 DEF One
  <2>2. /\ Down(j, g)[id] = NOf(k.txDown, Only(id)) + NOf(Tail(k.rxDown), Only(id)) + One(id \in g.held)
        /\ Down(k, h)[id] = NOf(k.txDown, Only(id)) + NOf(k.rxDown, Only(id)) + One(id \in h.held)
    BY <1>3 DEF Down
  <2>3. /\ NOf(k.txDown, Only(id)) \in Nat /\ One(id \in h.held) \in Nat /\ One(m = id) \in Nat
    BY <1>0, OutsideFacts DEF One
  <2>4. /\ NOf(Tail(k.rxDown), Only(id)) \in Nat
        /\ NOf(k.rxDown, Only(id)) = NOf(Tail(k.rxDown), Only(id)) + One(m = id)
    BY <1>1
  <2>5. \A a, c, o, v \in Nat : a + c + (v + o) = a + (c + o) + v
    OBVIOUS
  <2> QED  BY <2>1, <2>2, <2>3, <2>4, <2>5
<1>8. Up(j) = Up(k)
  BY <1>3 DEF Up
<1>9. Outside(j, g) = Outside(k, h)
  <2>1. /\ Len(k.txDown) \in Nat /\ Len(k.rxDown) \in Nat /\ Len(k.txUp) \in Nat
        /\ Len(k.rxUp) \in Nat /\ Cardinality(h.held) \in Nat
        /\ Len(j.rxDown) \in Nat /\ Cardinality(g.held) \in Nat
    BY <1>0, <1>6, OutsideFacts
  <2>2. Moved(Len(k.rxDown), Cardinality(h.held), Len(j.rxDown), Cardinality(g.held))
    BY <1>1, <1>3, <1>5, <2>1 DEF Moved
  <2>3. Total(Len(k.txDown), Len(j.rxDown), Len(k.txUp), Len(k.rxUp), Cardinality(g.held))
          = Total(Len(k.txDown), Len(k.rxDown), Len(k.txUp), Len(k.rxUp), Cardinality(h.held))
    BY <2>1, <2>2, SameSum
  <2> QED  BY <1>3, <2>3 DEF Outside
<1>10. Sound(s, Down(j, g), Up(j), Outside(j, g))
  BY <1>0, <1>7, <1>8, <1>9, Recount
<1> QED  BY <1>6, <1>10 DEF Linked, j, g, m

\* A request goes from the bridge's queue to the link.
LEMMA SendKeeps ==
  ASSUME NEW s, NEW k, NEW h, Linked(s, k, h), s.queue # <<>>, Head(s.queue).dir = "request"
  PROVE  Linked([s EXCEPT !.queue = Tail(@)],
                [k EXCEPT !.txDown = Append(@, Head(s.queue).id)], h)
<1> DEFINE m == Head(s.queue).id
           j == [k EXCEPT !.txDown = Append(@, m)]
<1>0. /\ Joined(k, h) /\ k \in Link /\ h \in Cache /\ IsFiniteSet(h.held) /\ k.txDown \in Seq(Nat)
      /\ Sound(s, Down(k, h), Up(k), Outside(k, h)) /\ s.queue \in Seq(Way)
  BY DEF Linked, Joined, Link, Sound, Bridge
<1>1. /\ Head(s.queue) \in Way /\ Tail(s.queue) \in Seq(Way)
      /\ Len(Tail(s.queue)) = Len(s.queue) - 1 /\ Len(s.queue) \in Nat
  BY <1>0, CountTail, LenProperties
<1>2. m \in Nat /\ Head(s.queue) = [dir |-> "request", id |-> m]
  BY <1>1 DEF Way
<1> HIDE DEF m
<1>3. /\ Append(k.txDown, m) \in Seq(Nat) /\ Len(Append(k.txDown, m)) = Len(k.txDown) + 1
      /\ \A id : NOf(Append(k.txDown, m), Only(id)) = NOf(k.txDown, Only(id)) + One(m = id)
  BY <1>0, <1>2, OneMore
<1>4. /\ j \in Link /\ j.txDown = Append(k.txDown, m) /\ j.rxDown = k.rxDown /\ j.txUp = k.txUp
      /\ j.rxUp = k.rxUp
  BY <1>0, <1>3 DEF Link
<1> HIDE DEF j
<1>5. Joined(j, h) /\ Up(j) = Up(k)
  BY <1>0, <1>4 DEF Joined, Up
<1>6. ASSUME NEW id \in Nat
      PROVE  /\ NOf(Tail(s.queue), Request(id)) + Down(j, h)[id]
                  = NOf(s.queue, Request(id)) + Down(k, h)[id]
             /\ NOf(Tail(s.queue), Response(id)) + Up(j)[id]
                  = NOf(s.queue, Response(id)) + Up(k)[id]
  <2>1. (Head(s.queue) \in Request(id) <=> m = id) /\ Head(s.queue) \notin Response(id)
    BY <1>2 DEF Request, Response
  <2>2. /\ NOf(Tail(s.queue), Request(id))
             = NOf(s.queue, Request(id)) - (IF Head(s.queue) \in Request(id) THEN 1 ELSE 0)
        /\ NOf(Tail(s.queue), Response(id))
             = NOf(s.queue, Response(id)) - (IF Head(s.queue) \in Response(id) THEN 1 ELSE 0)
    BY <1>0, CountTail
  <2>3. NOf(s.queue, Request(id)) \in Nat /\ NOf(s.queue, Response(id)) \in Nat
    BY <1>0, PositionsFinite
  <2>4. NOf(Tail(s.queue), Request(id)) = NOf(s.queue, Request(id)) - One(m = id)
        /\ NOf(Tail(s.queue), Response(id)) = NOf(s.queue, Response(id))
    BY <2>1, <2>2, <2>3 DEF One
  <2>5. Down(j, h)[id] = NOf(k.txDown, Only(id)) + One(m = id) + NOf(k.rxDown, Only(id)) + One(id \in h.held)
        /\ Down(k, h)[id] = NOf(k.txDown, Only(id)) + NOf(k.rxDown, Only(id)) + One(id \in h.held)
    BY <1>3, <1>4 DEF Down
  <2>6. /\ NOf(k.txDown, Only(id)) \in Nat /\ NOf(k.rxDown, Only(id)) \in Nat
        /\ One(id \in h.held) \in Nat /\ One(m = id) \in Nat
    BY <1>0, OutsideFacts DEF One
  <2> QED  BY <1>5, <2>3, <2>4, <2>5, <2>6
<1>7. Len(Tail(s.queue)) + Outside(j, h) = Len(s.queue) + Outside(k, h)
  <2>1. Outside(j, h) = Outside(k, h) + 1
    <3>1. /\ Len(k.txDown) \in Nat /\ Len(k.rxDown) \in Nat /\ Len(k.txUp) \in Nat
          /\ Len(k.rxUp) \in Nat /\ Cardinality(h.held) \in Nat
      BY <1>0, OutsideFacts
    <3>2. Grown(Len(k.txDown), Len(j.txDown))
      BY <1>3, <1>4, <3>1 DEF Grown
    <3>3. Total(Len(j.txDown), Len(k.rxDown), Len(k.txUp), Len(k.rxUp), Cardinality(h.held))
            = Total(Len(k.txDown), Len(k.rxDown), Len(k.txUp), Len(k.rxUp), Cardinality(h.held)) + 1
      BY <3>1, <3>2, SumGrows
    <3> QED  BY <1>4, <3>3 DEF Outside
  <2>2. Outside(k, h) \in Nat
    BY <1>0, OutsideFacts DEF Counts
  <2> QED  BY <1>1, <2>1, <2>2
<1>8. Sound([s EXCEPT !.queue = Tail(s.queue)], Down(j, h), Up(j), Outside(j, h))
  <2>1. SameLoad(s.queue, Down(k, h), Up(k), Tail(s.queue), Down(j, h), Up(j))
    BY <1>6 DEF SameLoad
  <2> QED  BY <1>0, <1>1, <1>7, <2>1, Requeue
<1> QED  BY <1>5, <1>8 DEF Linked, j, m

\* A sequence of responses is a sequence of their ids.
LEMMA Responses ==
  ASSUME NEW q \in Seq(Nat)
  PROVE  LET r == [i \in DOMAIN q |-> [dir |-> "response", id |-> q[i]]] IN
         /\ r \in Seq(Way) /\ Len(r) = Len(q)
         /\ \A id : NOf(r, Request(id)) = 0 /\ NOf(r, Response(id)) = NOf(q, Only(id))
<1> DEFINE r == [i \in DOMAIN q |-> [dir |-> "response", id |-> q[i]]]
<1>1. Len(q) \in Nat /\ DOMAIN q = 1 .. Len(q) /\ \A i \in 1 .. Len(q) : q[i] \in Nat
  BY LenProperties, ElementOfSeq
<1>2. r \in Seq(Way) /\ Len(r) = Len(q) /\ DOMAIN r = DOMAIN q
  BY <1>1 DEF Way
<1>3. \A i \in DOMAIN q : r[i] = [dir |-> "response", id |-> q[i]]
  OBVIOUS
<1> HIDE DEF r
<1>4. \A id : Positions(r, Request(id)) = {}
  BY <1>2, <1>3 DEF Positions, Request
<1>5. \A id : Positions(r, Response(id)) = Positions(q, Only(id))
  BY <1>2, <1>3 DEF Positions, Response, Only
<1> QED  BY <1>2, <1>4, <1>5, FS_EmptySet DEF NOf, r

\* Every response that has arrived goes to the bridge's queue.
LEMMA IntakeKeeps ==
  ASSUME NEW s, NEW k, NEW h, Linked(s, k, h)
  PROVE  Linked([s EXCEPT !.queue = @ \o [i \in DOMAIN k.rxUp |->
                                            [dir |-> "response", id |-> k.rxUp[i]]]],
                [k EXCEPT !.rxUp = <<>>], h)
<1> DEFINE a == [i \in DOMAIN k.rxUp |-> [dir |-> "response", id |-> k.rxUp[i]]]
           q == s.queue \o a
           j == [k EXCEPT !.rxUp = <<>>]
<1>0. /\ Joined(k, h) /\ k \in Link /\ h \in Cache /\ IsFiniteSet(h.held) /\ k.rxUp \in Seq(Nat)
      /\ Sound(s, Down(k, h), Up(k), Outside(k, h)) /\ s.queue \in Seq(Way)
  BY DEF Linked, Joined, Link, Sound, Bridge
<1>1. /\ a \in Seq(Way) /\ Len(a) = Len(k.rxUp)
      /\ \A id : NOf(a, Request(id)) = 0 /\ NOf(a, Response(id)) = NOf(k.rxUp, Only(id))
  BY <1>0, Responses
<1> HIDE DEF a
<1>2. /\ q \in Seq(Way) /\ Len(q) = Len(s.queue) + Len(a)
      /\ \A S : NOf(q, S) = NOf(s.queue, S) + NOf(a, S)
  <2>1. \A u, v \in Seq(Way) :
          /\ u \o v \in Seq(Way) /\ Len(u \o v) = Len(u) + Len(v)
          /\ \A S : NOf(u \o v, S) = NOf(u, S) + NOf(v, S)
    BY CountConcat, ConcatProperties
  <2> QED  BY <1>0, <1>1, <2>1
<1>3. /\ j \in Link /\ j.rxUp = <<>> /\ j.txDown = k.txDown /\ j.rxDown = k.rxDown
      /\ j.txUp = k.txUp
  BY <1>0, EmptySeq DEF Link
<1> HIDE DEF q, j
<1>4. Joined(j, h) /\ Down(j, h) = Down(k, h)
  BY <1>0, <1>3 DEF Joined, Down
<1>5. SameLoad(s.queue, Down(k, h), Up(k), q, Down(j, h), Up(j))
  <2> SUFFICES ASSUME NEW id \in Nat
               PROVE  /\ NOf(q, Request(id)) = NOf(s.queue, Request(id))
                      /\ NOf(q, Response(id)) + Up(j)[id] = NOf(s.queue, Response(id)) + Up(k)[id]
    BY <1>4 DEF SameLoad
  <2>1. /\ NOf(s.queue, Request(id)) \in Nat /\ NOf(s.queue, Response(id)) \in Nat
        /\ NOf(k.txUp, Only(id)) \in Nat /\ NOf(k.rxUp, Only(id)) \in Nat
    BY <1>0, OutsideFacts, PositionsFinite
  <2>2. NOf(q, Request(id)) = NOf(s.queue, Request(id)) + NOf(a, Request(id))
        /\ NOf(q, Response(id)) = NOf(s.queue, Response(id)) + NOf(a, Response(id))
    BY <1>2
  <2>3. NOf(a, Request(id)) = 0 /\ NOf(a, Response(id)) = NOf(k.rxUp, Only(id))
    BY <1>1
  <2>4. Up(k)[id] = NOf(k.txUp, Only(id)) + NOf(k.rxUp, Only(id)) /\ Up(j)[id] = NOf(k.txUp, Only(id)) + 0
    BY <1>3, CountNone DEF Up
  <2>5. \A x, y, z \in Nat : (x + y) + (z + 0) = x + (z + y)
    OBVIOUS
  <2> QED  BY <2>1, <2>2, <2>3, <2>4, <2>5
<1>6. Len(q) + Outside(j, h) = Len(s.queue) + Outside(k, h)
  <2>1. /\ Len(k.txDown) \in Nat /\ Len(k.rxDown) \in Nat /\ Len(k.txUp) \in Nat
        /\ Len(k.rxUp) \in Nat /\ Cardinality(h.held) \in Nat /\ Len(s.queue) \in Nat
    BY <1>0, OutsideFacts, LenProperties
  <2>2. Emptied(Len(s.queue), Len(k.rxUp), Len(q), Len(j.rxUp))
    <3>1. Len(q) = Len(s.queue) + Len(k.rxUp)
      BY <1>1, <1>2
    <3>2. Len(j.rxUp) = 0
      BY <1>3, EmptySeq
    <3>3. Len(q) \in Nat
      BY <1>2, LenProperties
    <3> QED  BY <2>1, <3>1, <3>2, <3>3 DEF Emptied
  <2>3. Len(q) + Total(Len(k.txDown), Len(k.rxDown), Len(k.txUp), Len(j.rxUp), Cardinality(h.held))
          = Len(s.queue)
              + Total(Len(k.txDown), Len(k.rxDown), Len(k.txUp), Len(k.rxUp), Cardinality(h.held))
    BY <2>1, <2>2, SumDrops
  <2> QED  BY <1>3, <2>3 DEF Outside
<1>7. Sound([s EXCEPT !.queue = q], Down(j, h), Up(j), Outside(j, h))
  BY <1>0, <1>2, <1>5, <1>6, Requeue
<1> QED  BY <1>4, <1>7 DEF Linked, j, q, a

\* The L1 commits a request it holds: it is known to the bridge and not yet committed.
LEMMA L1CommitKeeps ==
  ASSUME NEW s, NEW k, NEW h, Linked(s, k, h), NEW id \in h.held, NEW full \in BOOLEAN, NEW b
  PROVE  /\ ~Unknown(s, id) /\ ~Entry(s, id).committed
         /\ Linked(onCommit(b, s, id), [k EXCEPT !.txUp = Append(@, id)],
                   [held |-> h.held \ {id}, full |-> full])
<1> DEFINE j == [k EXCEPT !.txUp = Append(@, id)]
           g == [held |-> h.held \ {id}, full |-> full]
<1>0. /\ Joined(k, h) /\ k \in Link /\ h \in Cache /\ IsFiniteSet(h.held) /\ k.txUp \in Seq(Nat)
      /\ Sound(s, Down(k, h), Up(k), Outside(k, h)) /\ s \in Bridge /\ Numbered(s) /\ id \in Nat
  BY DEF Linked, Joined, Link, Cache, Sound
<1>1. Asked(s, id)
  <2>1. /\ Down(k, h)[id] <= One(Asked(s, id))
        /\ Down(k, h)[id] = NOf(k.txDown, Only(id)) + NOf(k.rxDown, Only(id)) + One(id \in h.held)
        /\ One(Asked(s, id)) \in {0, 1}
    BY <1>0, DownOnce
  <2>2. NOf(k.txDown, Only(id)) \in Nat /\ NOf(k.rxDown, Only(id)) \in Nat /\ One(id \in h.held) = 1
    BY <1>0, OutsideFacts DEF One
  <2>3. One(Asked(s, id)) # 0
    BY <2>1, <2>2
  <2> QED  BY <2>3 DEF One
<1>2. PICK e \in s.pending : e.id = id /\ ~e.committed
  BY <1>1 DEF Asked
<1>3. Entry(s, id) = e /\ ~Unknown(s, id)
  BY <1>0, <1>2, EntryFound DEF Unknown
<1>4. /\ Append(k.txUp, id) \in Seq(Nat) /\ Len(Append(k.txUp, id)) = Len(k.txUp) + 1
      /\ \A i : NOf(Append(k.txUp, id), Only(i)) = NOf(k.txUp, Only(i)) + One(id = i)
  BY <1>0, OneMore
<1>5. /\ j \in Link /\ j.txUp = Append(k.txUp, id) /\ j.txDown = k.txDown /\ j.rxDown = k.rxDown
      /\ j.rxUp = k.rxUp
  BY <1>0, <1>4 DEF Link
<1>6. g \in Cache /\ g.held = h.held \ {id}
  BY <1>0 DEF Cache
<1> HIDE DEF j, g
<1>7. /\ IsFiniteSet(g.held) /\ Cardinality(g.held) = Cardinality(h.held) - 1
  BY <1>0, <1>6, FS_RemoveElement
<1>8. Joined(j, g)
  BY <1>5, <1>6, <1>7 DEF Joined
<1>9. Outside(j, g) = Outside(k, h)
  <2>1. /\ Len(k.txDown) \in Nat /\ Len(k.rxDown) \in Nat /\ Len(k.txUp) \in Nat
        /\ Len(k.rxUp) \in Nat /\ Cardinality(h.held) \in Nat
        /\ Len(j.txUp) \in Nat /\ Cardinality(g.held) \in Nat
    BY <1>0, <1>8, OutsideFacts
  <2>2. Moved(Cardinality(h.held), Len(k.txUp), Cardinality(g.held), Len(j.txUp))
    BY <1>4, <1>5, <1>7, <2>1 DEF Moved
  <2>3. Total(Len(k.txDown), Len(k.rxDown), Len(j.txUp), Len(k.rxUp), Cardinality(g.held))
          = Total(Len(k.txDown), Len(k.rxDown), Len(k.txUp), Len(k.rxUp), Cardinality(h.held))
    BY <2>1, <2>2, SameSum
  <2> QED  BY <1>5, <2>3 DEF Outside
<1>10. \A i \in Nat : /\ Down(k, h)[i] = Down(j, g)[i] + One(i = e.id)
                      /\ Up(j)[i] = Up(k)[i] + One(i = e.id)
  <2> TAKE i \in Nat
  <2>1. One(i \in h.held) = One(i \in g.held) + One(i = e.id)
    BY <1>2, <1>6 DEF One
  <2>2. /\ Down(j, g)[i] = NOf(k.txDown, Only(i)) + NOf(k.rxDown, Only(i)) + One(i \in g.held)
        /\ Down(k, h)[i] = NOf(k.txDown, Only(i)) + NOf(k.rxDown, Only(i)) + One(i \in h.held)
    BY <1>5 DEF Down
  <2>3. /\ NOf(k.txDown, Only(i)) \in Nat /\ NOf(k.rxDown, Only(i)) \in Nat
        /\ NOf(k.txUp, Only(i)) \in Nat /\ NOf(k.rxUp, Only(i)) \in Nat
        /\ One(i \in g.held) \in Nat /\ One(i = e.id) \in Nat
    BY <1>0, OutsideFacts DEF One
  <2>4. One(id = i) = One(i = e.id)
    BY <1>2 DEF One
  <2>5. /\ Up(j)[i] = (NOf(k.txUp, Only(i)) + One(i = e.id)) + NOf(k.rxUp, Only(i))
        /\ Up(k)[i] = NOf(k.txUp, Only(i)) + NOf(k.rxUp, Only(i))
    BY <1>4, <1>5, <2>4 DEF Up
  <2>6. \A a, c, v, w \in Nat : a + c + (v + w) = (a + c + v) + w /\ (a + w) + c = (a + c) + w
    OBVIOUS
  <2> QED  BY <2>1, <2>2, <2>3, <2>5, <2>6
<1> DEFINE c == [e EXCEPT !.committed = TRUE]
           t == With(s, e, c)
           n == Outside(j, g)
<1>11. Counts(Down(k, h), Up(k), n) /\ Counts(Down(j, g), Up(j), n)
  BY <1>0, <1>8, <1>9, OutsideFacts
<1>12. /\ Sound(t, Down(j, g), Up(j), n)
       /\ c \in t.pending /\ c.committed /\ ~c.dataDone
  <2>1. Sound(s, Down(k, h), Up(k), n)
    BY <1>0, <1>9
  <2> HIDE DEF n
  <2> QED  BY <1>2, <1>10, <1>11, <2>1, CommitKeeps
<1>13. onCommit(b, s, id) = IF blockedByOlderWrite(t, c) THEN t ELSE performData(b, t, c)
  BY <1>3 DEF onCommit
<1> HIDE DEF t, c, n
<1>14. Sound(onCommit(b, s, id), Down(j, g), Up(j), n)
  BY <1>11, <1>12, <1>13, PerformKeeps
<1> QED  BY <1>2, <1>3, <1>8, <1>14 DEF Linked, j, g, n

\* A packet offered by a port is answered at once, kept by its sender, or submitted.
LEMMA AccessKeeps ==
  ASSUME NEW s, NEW d, NEW u, NEW n, Sound(s, d, u, n), Counts(d, u, n), NEW b,
         NEW p \in Ports, NEW pkt \in Pkts
  PROVE  Sound(accessTiming(b, s, p, pkt), d, u, n)
<1>1. CASE pkt.op = "device"
  BY <1>1 DEF accessTiming, bypass
<1>2. CASE pkt.op # "device" /\ portBlocked(b, s)
  <2>1. <<pkt>> \in Seq(Pkts)
    OBVIOUS
  <2> QED  BY <1>2, <2>1, KeptKeeps DEF accessTiming
<1>3. CASE pkt.op # "device" /\ ~portBlocked(b, s)
  <2>1. Cardinality(s.pending) < Credits
    <3>1. Cardinality(s.pending) \in Nat /\ Credits \in Nat
      BY FS_CardinalityType, BridgeAssumption DEF Sound
    <3>2. ~(Cardinality(s.pending) >= Credits)
      BY <1>3 DEF portBlocked, isBlocked, demandAdmissionBlocked
    <3> QED  BY <3>1, <3>2
  <2>2. Sound(submit(s, pkt), d, u, n)
    BY <2>1, SubmitKeeps
  <2> QED  BY <1>3, <2>2 DEF accessTiming
<1> QED  BY <1>1, <1>2, <1>3

-----------------------------------------------------------------------------
(* Every step keeps the invariant.                                          *)

\* One core's bridge, link and L1 change.
LEMMA OneCore ==
  ASSUME BridgeInv, NEW b \in Bridges, NEW s, NEW k, NEW h, Linked(s, k, h),
         br' = [br EXCEPT ![b] = s], link' = [link EXCEPT ![b] = k], l1' = [l1 EXCEPT ![b] = h],
         offered' \in Nat, ~panicked'
  PROVE  BridgeInv'
<1>1. s \in Bridge /\ k \in Link /\ h \in Cache
  BY DEF Linked, Joined, Sound
<1>2. /\ br' \in [Bridges -> Bridge] /\ link' \in [Bridges -> Link] /\ l1' \in [Bridges -> Cache]
  BY <1>1 DEF BridgeInv
<1>3. ASSUME NEW c \in Bridges
      PROVE  Linked(br'[c], link'[c], l1'[c])
  <2>1. CASE c = b
    <3>1. br'[c] = s /\ link'[c] = k /\ l1'[c] = h
      BY <2>1 DEF BridgeInv
    <3> QED  BY <3>1
  <2>2. CASE c # b
    <3>1. br'[c] = br[c] /\ link'[c] = link[c] /\ l1'[c] = l1[c]
      BY <2>2 DEF BridgeInv
    <3>2. Linked(br[c], link[c], l1[c])
      BY DEF BridgeInv
    <3> QED  BY <3>1, <3>2
  <2> QED  BY <2>1, <2>2
<1> QED  BY <1>2, <1>3 DEF BridgeInv

\* What one core is.
LEMMA CoreFacts ==
  ASSUME BridgeInv, NEW b \in Bridges
  PROVE  /\ Linked(br[b], link[b], l1[b]) /\ Joined(link[b], l1[b])
         /\ Sound(br[b], Down(link[b], l1[b]), Up(link[b]), Outside(link[b], l1[b]))
         /\ Counts(Down(link[b], l1[b]), Up(link[b]), Outside(link[b], l1[b]))
         /\ br = [br EXCEPT ![b] = br[b]] /\ link = [link EXCEPT ![b] = link[b]]
         /\ l1 = [l1 EXCEPT ![b] = l1[b]]
         /\ l1[b] \in Cache
<1>1. Linked(br[b], link[b], l1[b])
  BY DEF BridgeInv
<1> QED  BY <1>1, OutsideFacts DEF BridgeInv, Linked

\* A bridge changes alone: its queue and its table are as sound as before.
LEMMA OneBridge ==
  ASSUME BridgeInv, NEW b \in Bridges, NEW s,
         Sound(s, Down(link[b], l1[b]), Up(link[b]), Outside(link[b], l1[b])),
         br' = [br EXCEPT ![b] = s], link' = link, l1' = l1, offered' \in Nat, ~panicked'
  PROVE  BridgeInv'
<1>1. Linked(s, link[b], l1[b])
  BY CoreFacts DEF Linked
<1>2. br' \in [Bridges -> Bridge]
  BY DEF BridgeInv, Sound
<1>3. ASSUME NEW c \in Bridges
      PROVE  Linked(br'[c], link'[c], l1'[c])
  <2>1. CASE c = b
    BY <1>1, <2>1 DEF BridgeInv
  <2>2. CASE c # b
    <3>1. br'[c] = br[c]
      BY <2>2 DEF BridgeInv
    <3>2. Linked(br[c], link[c], l1[c])
      BY DEF BridgeInv
    <3> QED  BY <3>1, <3>2
  <2> QED  BY <2>1, <2>2
<1> QED  BY <1>2, <1>3 DEF BridgeInv

\* The L1 is full or not: nothing else depends on it.
LEMMA FullKeeps ==
  ASSUME NEW s, NEW k, NEW h, Linked(s, k, h), NEW full \in BOOLEAN
  PROVE  Linked(s, k, [h EXCEPT !.full = full])
<1> DEFINE g == [h EXCEPT !.full = full]
<1>1. g \in Cache /\ g.held = h.held
  BY DEF Linked, Joined, Cache
<1> HIDE DEF g
<1>2. Down(k, g) = Down(k, h) /\ Outside(k, g) = Outside(k, h) /\ Joined(k, g)
  BY <1>1 DEF Down, Outside, Joined, Linked
<1> QED  BY <1>2 DEF Linked, g

\* In the beginning nothing is under way.
LEMMA InitHolds == Init => BridgeInv
<1> SUFFICES ASSUME Init PROVE BridgeInv
  OBVIOUS
<1> DEFINE s == [pending |-> {}, nextSeq |-> 1, queue |-> <<>>, kept |-> [p \in Ports |-> <<>>],
                 data |-> <<>>]
           k == [txDown |-> <<>>, rxDown |-> <<>>, txUp |-> <<>>, rxUp |-> <<>>]
           h == [held |-> {}, full |-> FALSE]
<1>1. /\ br = [b \in Bridges |-> s] /\ link = [b \in Bridges |-> k] /\ l1 = [b \in Bridges |-> h]
      /\ offered = 0 /\ panicked = FALSE
  BY DEF Init
<1>2. /\ s \in Bridge /\ s.pending = {} /\ s.queue = <<>> /\ s.data = <<>>
  BY EmptySeq DEF Bridge
<1>3. k \in Link /\ k.txDown = <<>> /\ k.rxDown = <<>> /\ k.txUp = <<>> /\ k.rxUp = <<>>
  BY EmptySeq DEF Link
<1>4. h \in Cache /\ h.held = {}
  BY DEF Cache
<1> HIDE DEF s, k, h
<1>5. Joined(k, h)
  BY <1>3, <1>4, FS_EmptySet DEF Joined
<1>6. Len(s.queue) = 0 /\ Outside(k, h) = 0
  <2>1. /\ Len(s.queue) = 0 /\ Len(k.txDown) = 0 /\ Len(k.rxDown) = 0 /\ Len(k.txUp) = 0
        /\ Len(k.rxUp) = 0 /\ Cardinality(h.held) = 0
    BY <1>2, <1>3, <1>4, EmptySeq, FS_EmptySet
  <2>2. Total(0, 0, 0, 0, 0) = 0
    BY DEF Total
  <2> QED  BY <2>1, <2>2 DEF Outside
<1>7. IsFiniteSet(s.pending) /\ Cardinality(s.pending) = 0 /\ Cardinality(Open(s)) = 0
  <2>1. Open(s) = {}
    BY <1>2 DEF Open
  <2> QED  BY <1>2, <2>1, FS_EmptySet
<1>8. Numbered(s) /\ Staged(s) /\ Ordered(s)
  BY <1>2 DEF Numbered, Staged, Ordered
<1>9. Carried(s, Down(k, h), Up(k))
  <2> SUFFICES ASSUME NEW id \in Nat
               PROVE  /\ NOf(s.queue, Request(id)) + Down(k, h)[id] = One(Asked(s, id))
                      /\ NOf(s.queue, Response(id)) + Up(k)[id] = One(Answering(s, id))
    BY DEF Carried
  <2>1. ~Asked(s, id) /\ ~Answering(s, id)
    BY <1>2 DEF Asked, Answering
  <2>2. Down(k, h)[id] = 0 /\ Up(k)[id] = 0
    BY <1>3, <1>4, CountNone DEF Down, Up, One
  <2>3. NOf(s.queue, Request(id)) = 0 /\ NOf(s.queue, Response(id)) = 0
    BY <1>2, CountNone
  <2> QED  BY <2>1, <2>2, <2>3 DEF One
<1>10. Linked(s, k, h)
  <2>1. 0 <= Credits
    BY BridgeAssumption
  <2> QED  BY <1>2, <1>5, <1>6, <1>7, <1>8, <1>9, <2>1 DEF Linked, Sound
<1>11. \A b \in Bridges : br[b] = s /\ link[b] = k /\ l1[b] = h
  BY <1>1
<1> QED  BY <1>1, <1>2, <1>3, <1>4, <1>10, <1>11 DEF BridgeInv

\* One case per action.
LEMMA StepHolds ==
  ASSUME BridgeInv, [Next]_vars
  PROVE  BridgeInv'
<1>0. br \in [Bridges -> Bridge] /\ offered \in Nat /\ ~panicked
  BY DEF BridgeInv
<1>1. ASSUME NEW b \in Bridges, NEW p \in Ports, Offer(b, p)
      PROVE  BridgeInv'
  <2>1. PICK sh \in Shapes :
          br' = [br EXCEPT ![b] = accessTiming(b, br[b], p,
                                    [n |-> offered + 1, op |-> sh.op, bytes |-> sh.bytes])]
    BY <1>0, <1>1 DEF Offer
  <2> DEFINE pkt == [n |-> offered + 1, op |-> sh.op, bytes |-> sh.bytes]
  <2>2. pkt \in Pkts
    <3>1. \E m \in Nat, x \in Shapes : pkt = [n |-> m, op |-> x.op, bytes |-> x.bytes]
      BY <1>0
    <3> HIDE DEF pkt
    <3> QED  BY <3>1 DEF Pkts
  <2>3. br' = [br EXCEPT ![b] = accessTiming(b, br[b], p, pkt)]
    BY <2>1
  <2> HIDE DEF pkt
  <2>4. Sound(accessTiming(b, br[b], p, pkt),
              Down(link[b], l1[b]), Up(link[b]), Outside(link[b], l1[b]))
    BY <2>2, CoreFacts, AccessKeeps
  <2>5. link' = link /\ l1' = l1 /\ offered' \in Nat /\ ~panicked'
    BY <1>0, <1>1 DEF Offer
  <2> QED  BY <2>3, <2>4, <2>5, OneBridge
<1>2. CASE tick
  BY <1>2 DEF tick, BridgeInv
<1>3. ASSUME NEW b \in Bridges, controllerStep(b)
      PROVE  BridgeInv'
  <2> DEFINE k == Cross(link[b], "txDown", "rxDown")
             j == Cross(k, "txUp", "rxUp")
  <2>1. Linked(br[b], link[b], l1[b]) /\ Joined(link[b], l1[b])
    BY CoreFacts
  <2>2. /\ Joined(k, l1[b]) /\ Down(k, l1[b]) = Down(link[b], l1[b]) /\ Up(k) = Up(link[b])
        /\ Outside(k, l1[b]) = Outside(link[b], l1[b])
    BY <2>1, CrossKeeps
  <2> HIDE DEF k
  <2>3. /\ Joined(j, l1[b]) /\ Down(j, l1[b]) = Down(k, l1[b]) /\ Up(j) = Up(k)
        /\ Outside(j, l1[b]) = Outside(k, l1[b])
    BY <2>2, CrossKeeps
  <2> HIDE DEF j
  <2>4. Linked(br[b], j, l1[b])
    BY <2>1, <2>2, <2>3 DEF Linked
  <2>5. link' = [link EXCEPT ![b] = j]
    BY <1>3 DEF controllerStep, k, j, BridgeInv
  <2>6. br' = [br EXCEPT ![b] = br[b]] /\ l1' = [l1 EXCEPT ![b] = l1[b]]
        /\ offered' \in Nat /\ ~panicked'
    BY <1>0, <1>3, CoreFacts DEF controllerStep
  <2> QED  BY <2>4, <2>5, <2>6, OneCore
<1>4. ASSUME NEW b \in Bridges, addRequests2ProcessingQueue(b)
      PROVE  BridgeInv'
  <2> DEFINE a == [i \in DOMAIN link[b].rxUp |-> [dir |-> "response", id |-> link[b].rxUp[i]]]
             s == [br[b] EXCEPT !.queue = @ \o a]
             k == [link[b] EXCEPT !.rxUp = <<>>]
  <2>1. Linked(s, k, l1[b])
    BY CoreFacts, IntakeKeeps
  <2>2. br' = [br EXCEPT ![b] = s] /\ link' = [link EXCEPT ![b] = k]
    BY <1>4 DEF addRequests2ProcessingQueue, BridgeInv
  <2> HIDE DEF s, k
  <2>3. l1' = [l1 EXCEPT ![b] = l1[b]] /\ offered' \in Nat /\ ~panicked'
    BY <1>0, <1>4, CoreFacts DEF addRequests2ProcessingQueue
  <2> QED  BY <2>1, <2>2, <2>3, OneCore
<1>5. ASSUME NEW b \in Bridges, SendRequest(b)
      PROVE  BridgeInv'
  <2> DEFINE s == [br[b] EXCEPT !.queue = Tail(@)]
             k == [link[b] EXCEPT !.txDown = Append(@, Head(br[b].queue).id)]
  <2>1. Linked(s, k, l1[b])
    BY <1>5, CoreFacts, SendKeeps DEF SendRequest
  <2>2. br' = [br EXCEPT ![b] = s] /\ link' = [link EXCEPT ![b] = k]
    BY <1>5 DEF SendRequest, BridgeInv
  <2> HIDE DEF s, k
  <2>3. l1' = [l1 EXCEPT ![b] = l1[b]] /\ offered' \in Nat /\ ~panicked'
    BY <1>0, <1>5, CoreFacts DEF SendRequest
  <2> QED  BY <2>1, <2>2, <2>3, OneCore
<1>6. ASSUME NEW b \in Bridges, Complete(b)
      PROVE  BridgeInv'
  <2> DEFINE id == Head(br[b].queue).id
             s  == [br[b] EXCEPT !.queue = Tail(@)]
  <2>1. /\ ~Unknown(s, id) /\ Entry(s, id).committed
        /\ Sound(cacheSimCallback(b, s, id),
                 Down(link[b], l1[b]), Up(link[b]), Outside(link[b], l1[b]))
    BY <1>6, CoreFacts, CompleteKeeps DEF Complete
  <2>2. /\ panicked' = (Unknown(s, id) \/ ~Entry(s, id).committed)
        /\ br' = [br EXCEPT ![b] = IF panicked' THEN s ELSE cacheSimCallback(b, s, id)]
    BY <1>6 DEF Complete
  <2> HIDE DEF s, id
  <2>3. ~panicked' /\ br' = [br EXCEPT ![b] = cacheSimCallback(b, s, id)]
    BY <2>1, <2>2
  <2>4. link' = link /\ l1' = l1 /\ offered' \in Nat
    BY <1>0, <1>6 DEF Complete
  <2> QED  BY <2>1, <2>3, <2>4, OneBridge
<1>7. ASSUME NEW b \in Bridges, EndOfCpu(b)
      PROVE  BridgeInv'
  BY <1>7 DEF EndOfCpu, BridgeInv
<1>8. ASSUME NEW b \in Bridges, L1Take(b)
      PROVE  BridgeInv'
  <2>1. PICK full \in {TRUE, l1[b].full} :
          l1' = [l1 EXCEPT ![b] = [held |-> l1[b].held \cup {Head(link[b].rxDown)}, full |-> full]]
    BY <1>8 DEF L1Take, BridgeInv
  <2> DEFINE h == [held |-> l1[b].held \cup {Head(link[b].rxDown)}, full |-> full]
             k == [link[b] EXCEPT !.rxDown = Tail(@)]
  <2>2. full \in BOOLEAN
    BY CoreFacts DEF Cache
  <2>3. Linked(br[b], k, h)
    BY <1>8, <2>2, CoreFacts, TakeKeeps DEF L1Take
  <2>4. link' = [link EXCEPT ![b] = k] /\ l1' = [l1 EXCEPT ![b] = h]
    BY <1>8, <2>1 DEF L1Take, BridgeInv
  <2> HIDE DEF h, k
  <2>5. br' = [br EXCEPT ![b] = br[b]] /\ offered' \in Nat /\ ~panicked'
    BY <1>0, <1>8, CoreFacts DEF L1Take
  <2> QED  BY <2>3, <2>4, <2>5, OneCore
<1>9. ASSUME NEW b \in Bridges, L1Commit(b)
      PROVE  BridgeInv'
  <2>1. PICK id \in l1[b].held, full \in BOOLEAN :
          /\ l1' = [l1 EXCEPT ![b] = [held |-> l1[b].held \ {id}, full |-> full]]
          /\ panicked' = (Unknown(br[b], id) \/ Entry(br[b], id).committed)
          /\ br' = IF panicked' THEN br ELSE commit(b, id)
          /\ link' = [link EXCEPT ![b] = [link[b] EXCEPT !.txUp = Append(@, id)]]
    BY <1>9 DEF L1Commit, BridgeInv
  <2> DEFINE h == [held |-> l1[b].held \ {id}, full |-> full]
             k == [link[b] EXCEPT !.txUp = Append(@, id)]
  <2>2. /\ ~Unknown(br[b], id) /\ ~Entry(br[b], id).committed
        /\ Linked(onCommit(b, br[b], id), k, h)
    BY CoreFacts, L1CommitKeeps
  <2>3. ~panicked' /\ br' = [br EXCEPT ![b] = onCommit(b, br[b], id)]
    BY <2>1, <2>2 DEF commit
  <2>4. link' = [link EXCEPT ![b] = k] /\ l1' = [l1 EXCEPT ![b] = h]
    BY <2>1
  <2> HIDE DEF h, k
  <2>5. offered' \in Nat
    BY <1>0, <1>9 DEF L1Commit
  <2> QED  BY <2>2, <2>3, <2>4, <2>5, OneCore
<1>10. ASSUME NEW b \in Bridges, releaseHeldBack(b)
       PROVE  BridgeInv'
  <2>1. link' = link /\ l1' = l1 /\ offered' \in Nat /\ ~panicked'
    BY <1>0, <1>10 DEF releaseHeldBack
  <2>2. CASE br' = br
    BY <2>1, <2>2 DEF BridgeInv
  <2>3. ASSUME NEW e \in Released(br[b]), br' = [br EXCEPT ![b] = performData(b, br[b], e)]
        PROVE  BridgeInv'
    <3>1. e \in br[b].pending /\ e.committed /\ ~e.dataDone /\ ~blockedByOlderWrite(br[b], e)
      BY DEF Released
    <3>2. Sound(performData(b, br[b], e),
                Down(link[b], l1[b]), Up(link[b]), Outside(link[b], l1[b]))
      BY <3>1, CoreFacts, PerformKeeps
    <3> QED  BY <2>1, <2>3, <3>2, OneBridge
  <2> QED  BY <1>10, <2>2, <2>3 DEF releaseHeldBack, BridgeInv
<1>11. ASSUME NEW b \in Bridges, L1End(b)
       PROVE  BridgeInv'
  <2>1. PICK full \in {FALSE, l1[b].full} : l1' = [l1 EXCEPT ![b].full = full]
    BY <1>11 DEF L1End
  <2> DEFINE h == [l1[b] EXCEPT !.full = full]
  <2>2. full \in BOOLEAN
    BY CoreFacts DEF Cache
  <2>3. Linked(br[b], link[b], h)
    BY <2>2, CoreFacts, FullKeeps
  <2>4. l1' = [l1 EXCEPT ![b] = h]
    BY <2>1 DEF BridgeInv
  <2> HIDE DEF h
  <2>5. /\ br' = [br EXCEPT ![b] = br[b]] /\ link' = [link EXCEPT ![b] = link[b]]
        /\ offered' \in Nat /\ ~panicked'
    BY <1>0, <1>11, CoreFacts DEF L1End
  <2> QED  BY <2>3, <2>4, <2>5, OneCore
<1>12. ASSUME NEW b \in Bridges, Retry(b)
       PROVE  BridgeInv'
  <2>1. Sound(retryBlockedPorts(b, br[b]),
              Down(link[b], l1[b]), Up(link[b]), Outside(link[b], l1[b]))
    BY CoreFacts, RetryKeeps
  <2>2. br' = [br EXCEPT ![b] = retryBlockedPorts(b, br[b])]
    BY <1>12 DEF Retry, BridgeInv
  <2>3. link' = link /\ l1' = l1 /\ offered' \in Nat /\ ~panicked'
    BY <1>0, <1>12 DEF Retry
  <2> QED  BY <2>1, <2>2, <2>3, OneBridge
<1>13. CASE UNCHANGED vars
  BY <1>13 DEF vars, BridgeInv
<1> QED  BY <1>1, <1>2, <1>3, <1>4, <1>5, <1>6, <1>7, <1>8, <1>9, <1>10, <1>11, <1>12, <1>13
            DEF Next, Clocked

\* The invariant is one of the specification.
THEOREM BridgeIsSound == Spec => []BridgeInv
<1>1. Init => BridgeInv
  BY InitHolds
<1>2. BridgeInv /\ [Next]_vars => BridgeInv'
  BY StepHolds
<1> QED  BY <1>1, <1>2, PTL DEF Spec

-----------------------------------------------------------------------------
(* What follows.                                                            *)

\* No panic_if of onCommit and cacheSimCallback (gem5/octopus.cc) fires: the L1 commits and
\* answers every request once, in this order, whatever it reorders.
THEOREM CallbacksInTurn == Spec => []NoPanic
<1>1. BridgeInv => NoPanic
  BY DEF BridgeInv, NoPanic
<1> QED  BY <1>1, BridgeIsSound, PTL

\* blockedByOlderWrite and releaseHeldBack keep every access of a bridge behind the older
\* writes to its bytes.
THEOREM WritesKeepTheirPlace == Spec => []OlderWritesFirst
<1>1. BridgeInv => OlderWritesFirst
  BY DEF BridgeInv, Linked, Sound, Ordered, OlderWritesFirst
<1> QED  BY <1>1, BridgeIsSound, PTL

\* portBlocked's credits bound what is in the queues, on the link and in the L1: at most
\* processing_queue_size messages, whatever size the link's buffers have.
THEOREM CreditsSuffice == Spec => []CreditsBoundLink
<1>1. BridgeInv => CreditsBoundLink
  <2> SUFFICES ASSUME BridgeInv, NEW b \in Bridges
               PROVE  Len(br[b].queue) + Len(link[b].txDown) + Len(link[b].rxDown)
                        + Len(link[b].txUp) + Len(link[b].rxUp) + Cardinality(l1[b].held) <= Credits
    BY DEF CreditsBoundLink
  <2> DEFINE s == br[b]
             k == link[b]
             h == l1[b]
  <2>1. /\ s \in Bridge /\ IsFiniteSet(s.pending) /\ Cardinality(s.pending) <= Credits
        /\ Len(s.queue) + Outside(k, h) = Cardinality(Open(s)) /\ Joined(k, h)
    BY CoreFacts DEF Sound
  <2>2. Cardinality(Open(s)) <= Cardinality(s.pending) /\ Cardinality(Open(s)) \in Nat
        /\ Cardinality(s.pending) \in Nat
    <3>1. Open(s) \subseteq s.pending
      BY DEF Open
    <3> QED  BY <2>1, <3>1, FS_Subset, FS_CardinalityType
  <2>3. /\ Len(k.txDown) \in Nat /\ Len(k.rxDown) \in Nat /\ Len(k.txUp) \in Nat
        /\ Len(k.rxUp) \in Nat /\ Cardinality(h.held) \in Nat /\ Len(s.queue) \in Nat
    BY <2>1, OutsideFacts, LenProperties DEF Bridge
  <2>4. Outside(k, h)
          = Total(Len(k.txDown), Len(k.rxDown), Len(k.txUp), Len(k.rxUp), Cardinality(h.held))
    BY DEF Outside
  <2>5. Credits \in Nat
    BY BridgeAssumption
  <2> HIDE DEF s, k, h
  <2>6. Len(s.queue) + Len(k.txDown) + Len(k.rxDown) + Len(k.txUp) + Len(k.rxUp)
          + Cardinality(h.held) = Cardinality(Open(s))
    <3>1. Len(s.queue) + Len(k.txDown) + Len(k.rxDown) + Len(k.txUp) + Len(k.rxUp)
            + Cardinality(h.held)
            = Len(s.queue)
                + Total(Len(k.txDown), Len(k.rxDown), Len(k.txUp), Len(k.rxUp), Cardinality(h.held))
      <4>1. PICK l \in Nat, a \in Nat, c \in Nat, v \in Nat, x \in Nat, w \in Nat :
              /\ l = Len(s.queue) /\ a = Len(k.txDown) /\ c = Len(k.rxDown)
              /\ v = Len(k.txUp) /\ x = Len(k.rxUp) /\ w = Cardinality(h.held)
        BY <2>3
      <4>2. l + a + c + v + x + w = l + Total(a, c, v, x, w)
        BY DEF Total
      <4> QED  BY <4>1, <4>2
    <3>2. Len(s.queue) + Outside(k, h) = Cardinality(Open(s))
      BY <2>1
    <3> QED  BY <2>4, <3>1, <3>2
  <2>7. Cardinality(Open(s)) <= Credits
    BY <2>1, <2>2, <2>5
  <2> QED  BY <2>6, <2>7 DEF s, k, h
<1> QED  BY <1>1, BridgeIsSound, PTL
=============================================================================
