----------------------------- MODULE CoresProofs -----------------------------
(***************************************************************************)
(* Proofs about the cores and their clock, for every set of workloads: the *)
(* simulation stops drained, a generator outlives the finite cores, and a  *)
(* job is released inside its own period.                                  *)
(***************************************************************************)
EXTENDS Cores, FiniteSetTheorems, SequenceTheorems, TLAPS

Report == [job : Nat, release : Nat, finish : Nat, deadline : Nat, skipped : Nat]
CoreState ==
  [cycle : Nat, done : BOOLEAN, sample : Seq(Nat), next : Nat, sent : Nat, last : Nat,
   first : BOOLEAN, index : Nat, release : Nat, deadline : Nat, flying : Seq(Nat),
   arrived : Nat, rows : Seq(Report)]

Task(c) == Program[c].mode = "task"

\* The job of index i released at r is released inside period i.
InPeriod(c, i, r) ==
  /\ Program[c].start + i * Program[c].period <= r
  /\ r < Program[c].start + (i + 1) * Program[c].period

\* What one cycle of a core keeps: the accesses sent are those in flight or answered; a
\* job under way has loaded something, was released before, and its last answer came after.
Going(c, s) ==
  /\ s \in CoreState
  /\ s.sent = Len(s.flying) + s.arrived
  /\ s.next <= Len(Body(c))
  /\ s.sample # <<>> \/ s.sent > 0 => s.next > 0
  /\ s.next > 0 /\ Task(c) => s.cycle >= s.release
  /\ s.next > 0 /\ Task(c) /\ s.sample = <<>> /\ s.sent = 0 => s.last >= s.release

\* What the report of a finite task says, and will say of the job under way.
Reported(c, s) ==
  /\ Finite(c) /\ Task(c) /\ ~s.done => InPeriod(c, s.index, s.release)
  /\ Finite(c) => \A k \in DOMAIN s.rows :
       InPeriod(c, s.rows[k].job, s.rows[k].release) /\ s.rows[k].release <= s.rows[k].finish

\* A core that has ended is drained.
Drained(c, s) ==
  s.done => /\ s.sent = 0 /\ s.sample = <<>>
            /\ Program[c].mode # "idle" => s.next = Len(Body(c))
            /\ Finite(c) /\ Task(c) => s.index >= Program[c].jobs

CoreInv(c, s) == Going(c, s) /\ Reported(c, s) /\ Drained(c, s) /\ (Program[c].mode = "idle" => s.done)

Unfinished == {c \in Core : Finite(c) /\ ~core[c].done}

CoresInv ==
  /\ core = [c \in Core |-> core[c]] /\ \A c \in Core : CoreInv(c, core[c])
  /\ finiteRunning = Cardinality(Unfinished)
  /\ \A c \in Core : Looping(c) /\ core[c].done => Unfinished = {}
  /\ triggers \in SUBSET Core /\ running = (triggers # {})
  /\ \A c \in Core \ triggers : core[c].done

-----------------------------------------------------------------------------
\* The fields of a workload and of its expansion have their types.
LEMMA Workloads ==
  ASSUME NEW c \in Core
  PROVE  /\ Program[c] \in Workload /\ (Task(c) => Program[c].period > 0)
         /\ (Program[c].mode = "trace" => Program[c].jobs = 0)
         /\ Body(c) \in Seq(Nat) /\ Trailing(c) \in Nat
         /\ (Program[c].mode = "trace" => Body(c) # <<>>)
         /\ Deadline(c) \in Nat
<1>1. /\ Program[c] \in Workload /\ (Task(c) => Program[c].period > 0)
      /\ (Program[c].mode = "trace" => Program[c].jobs = 0)
  BY CoresAssumption, ElementOfSeq, LenProperties DEF Core, Task
<1>2. Program[c].period \in Nat /\ Program[c].deadline \in Nat
  BY <1>1 DEF Workload
<1> QED  BY <1>1, <1>2, ExpansionAssumption DEF Deadline

\* Taking an answer out of the receive buffer: it belongs to a job already released.
LEMMA ReceiveKeeps ==
  ASSUME NEW c \in Core, NEW s, CoreInv(c, s), ~s.done
  PROVE  LET t == checkReceiveBuffer(s) IN
         /\ CoreInv(c, t) /\ ~t.done /\ t.cycle = s.cycle
         /\ t.rows = s.rows /\ t.index = s.index /\ t.release = s.release
<1> DEFINE t == checkReceiveBuffer(s)
<1>0. /\ s \in CoreState /\ s.arrived \in Nat /\ s.sent \in Nat /\ s.flying \in Seq(Nat)
      /\ s.cycle \in Nat
  BY DEF CoreInv, Going, CoreState
<1>1. CASE s.arrived = 0
  BY <1>1 DEF checkReceiveBuffer
<1>2. CASE s.arrived # 0
  <2>1. t = [s EXCEPT !.arrived = s.arrived - 1, !.sent = s.sent - 1, !.last = s.cycle]
    BY <1>2 DEF checkReceiveBuffer
  <2>2. s.arrived > 0 /\ s.sent > 0 /\ s.next > 0
    BY <1>0, <1>2, LenProperties DEF CoreInv, Going
  <2>3. s.arrived - 1 \in Nat /\ s.sent - 1 \in Nat
    BY <1>0, <2>2
  <2>4. t \in CoreState
    BY <1>0, <2>1, <2>3, Zenon DEF CoreState
  <2>5. /\ t.arrived = s.arrived - 1 /\ t.sent = s.sent - 1
        /\ t.last = s.cycle /\ t.cycle = s.cycle /\ t.sample = s.sample
        /\ t.next = s.next /\ t.index = s.index /\ t.release = s.release
        /\ t.flying = s.flying /\ t.rows = s.rows
    BY <1>0, <2>1 DEF CoreState
  <2>6. t.done = s.done
    BY <1>0, <2>1, Zenon DEF CoreState
  <2>7. Going(c, t)
    <3>1. /\ s.sent = Len(s.flying) + s.arrived /\ s.next <= Len(Body(c))
          /\ (Task(c) => s.cycle >= s.release)
      BY <2>2 DEF CoreInv, Going
    <3> QED  BY <1>0, <2>2, <2>4, <2>5, <3>1, LenProperties DEF Going
  <2> QED  BY <2>5, <2>6, <2>7 DEF CoreInv, Reported, Drained
<1> QED  BY <1>1, <1>2

\* Loading the next sample.
LEMMA LoadKeeps ==
  ASSUME NEW c \in Core, NEW s, CoreInv(c, s), ~s.done, Task(c) => s.cycle >= s.release
  PROVE  LET t == Load(c, s) IN CoreInv(c, t) /\ ~t.done
<1> DEFINE t == Load(c, s)
<1>0. s \in CoreState /\ s.next \in Nat /\ s.sample \in Seq(Nat) /\ Len(Body(c)) \in Nat
  BY Workloads DEF CoreInv, Going, CoreState
<1>1. CASE s.sample = <<>> /\ s.next < Len(Body(c))
  <2>1. t = [s EXCEPT !.sample = <<Body(c)[s.next + 1]>>, !.next = s.next + 1]
    BY <1>1 DEF Load
  <2>2. <<Body(c)[s.next + 1]>> \in Seq(Nat) /\ s.next + 1 \in Nat
    BY <1>0, <1>1, Workloads, ElementOfSeq
  <2>3. t \in CoreState
    BY <1>0, <2>1, <2>2, Zenon DEF CoreState
  <2>4. /\ t.sample # <<>> /\ t.next = s.next + 1 /\ t.arrived = s.arrived /\ t.sent = s.sent
        /\ t.last = s.last /\ t.cycle = s.cycle /\ t.index = s.index /\ t.release = s.release
        /\ t.flying = s.flying /\ t.rows = s.rows
    BY <1>0, <2>1 DEF CoreState
  <2>5. t.done = s.done
    BY <1>0, <2>1, Zenon DEF CoreState
  <2>6. Going(c, t)
    <3>1. s.sent = Len(s.flying) + s.arrived /\ t.next <= Len(Body(c)) /\ t.next > 0
      BY <1>0, <1>1, <2>4 DEF CoreInv, Going
    <3> QED  BY <2>3, <2>4, <3>1 DEF Going
  <2> QED  BY <2>4, <2>5, <2>6 DEF CoreInv, Reported, Drained
<1>2. CASE ~(s.sample = <<>> /\ s.next < Len(Body(c)))
  BY <1>2 DEF Load
<1> QED  BY <1>1, <1>2

\* Issuing a loaded sample, or failing to.
LEMMA IssueKeeps ==
  ASSUME NEW c \in Core, NEW s, CoreInv(c, s), ~s.done, s.sample # <<>>, NEW accepted \in BOOLEAN
  PROVE  LET t == Issue(s, accepted) IN CoreInv(c, t) /\ ~t.done
<1> DEFINE t == Issue(s, accepted)
<1>0. s \in CoreState /\ s.sent \in Nat /\ s.flying \in Seq(Nat) /\ s.arrived \in Nat
  BY DEF CoreInv, Going, CoreState
<1>1. CASE ~accepted
  BY <1>1 DEF Issue
<1>2. CASE accepted
  <2>1. t = [s EXCEPT !.sample = <<>>, !.sent = s.sent + 1, !.first = FALSE,
                      !.flying = Append(s.flying, 0)]
    BY <1>2 DEF Issue
  <2>2. /\ s.sent + 1 \in Nat /\ Append(s.flying, 0) \in Seq(Nat) /\ <<>> \in Seq(Nat)
        /\ Len(Append(s.flying, 0)) = Len(s.flying) + 1 /\ Len(s.flying) \in Nat
    BY <1>0, AppendProperties, LenProperties
  <2>3. t \in CoreState
    BY <1>0, <2>1, <2>2, Zenon DEF CoreState
  <2>4. /\ t.sample = <<>> /\ t.next = s.next /\ t.arrived = s.arrived /\ t.sent = s.sent + 1
        /\ t.last = s.last /\ t.cycle = s.cycle /\ t.index = s.index /\ t.release = s.release
        /\ t.flying = Append(s.flying, 0) /\ t.rows = s.rows
    BY <1>0, <2>1 DEF CoreState
  <2>5. t.done = s.done
    BY <1>0, <2>1, Zenon DEF CoreState
  <2>6. Going(c, t)
    <3>1. /\ s.sent = Len(s.flying) + s.arrived /\ s.next <= Len(Body(c)) /\ s.next > 0
          /\ (Task(c) => s.cycle >= s.release)
      BY DEF CoreInv, Going
    <3> QED  BY <1>0, <2>2, <2>3, <2>4, <3>1 DEF Going
  <2> QED  BY <2>4, <2>5, <2>6 DEF CoreInv, Reported, Drained
<1> QED  BY <1>1, <1>2

\* The period after the skipped ones ends after the job that skipped them: the skipped
\* periods follow each other, so one more would have been counted.
LEMMA SkipStops ==
  ASSUME NEW c \in Core, NEW s, s.index \in Nat, NEW finish \in Nat, Program[c].jobs \in Nat
  PROVE  LET n == Skipped(c, s, finish) i == s.index + 1 + n IN
         /\ n \in Nat
         /\ i < Program[c].jobs => finish < Program[c].start + i * Program[c].period + Program[c].period
<1> DEFINE p == Program[c]
           S == {k \in (s.index + 1) .. (p.jobs - 1) : p.start + k * p.period + p.period <= finish}
           n == Cardinality(S)
           i == s.index + 1 + n
<1>1. Skipped(c, s, finish) = n
  BY DEF Skipped
<1>2. p.start \in Nat /\ p.period \in Nat
  BY Workloads DEF Workload
<1>3. IsFiniteSet(S) /\ n \in Nat
  <2>1. IsFiniteSet((s.index + 1) .. (p.jobs - 1))
    <3>1. s.index + 1 \in Int /\ p.jobs - 1 \in Int
      OBVIOUS
    <3> QED  BY <3>1, FS_Interval, Zenon
  <2>2. S \in SUBSET ((s.index + 1) .. (p.jobs - 1))
    OBVIOUS
  <2> QED  BY <2>1, <2>2, FS_Subset, FS_CardinalityType
<1> HIDE DEF n
<1>4. ASSUME i < p.jobs, ~(finish < p.start + i * p.period + p.period)
      PROVE  FALSE
  <2>1. \A k \in (s.index + 1) .. i : k * p.period <= i * p.period
    <3> SUFFICES ASSUME NEW k \in Nat, k <= i, i \in Nat, NEW q \in Nat
                 PROVE  k * q <= i * q
      BY <1>2, <1>3
    <3> HIDE DEF i
    <3>1. (i - k) * q >= 0 /\ (i - k) * q = i * q - k * q
      OBVIOUS
    <3> QED  BY <3>1
  <2>2. (s.index + 1) .. i \in SUBSET S
    <3> SUFFICES ASSUME NEW k \in (s.index + 1) .. i
                 PROVE  k \in S
      OBVIOUS
    <3>1. k * p.period <= i * p.period /\ k \in Nat /\ k <= p.jobs - 1 /\ i \in Nat
      BY <1>3, <1>4, <2>1
    <3>2. k * p.period \in Nat /\ i * p.period \in Nat
      BY <1>2, <3>1
    <3> QED  BY <1>2, <1>4, <3>1, <3>2
  <2>3. Cardinality((s.index + 1) .. i) = n + 1
    <3>1. s.index + 1 \in Int /\ i \in Int /\ ~(s.index + 1 > i) /\ i - (s.index + 1) + 1 = n + 1
      BY <1>3
    <3>2. Cardinality((s.index + 1) .. i)
            = IF s.index + 1 > i THEN 0 ELSE i - (s.index + 1) + 1
      BY <3>1, FS_Interval, Zenon
    <3> QED  BY <3>1, <3>2
  <2>4. Cardinality((s.index + 1) .. i) <= Cardinality(S)
    BY <1>3, <2>2, FS_Subset, Zenon
  <2> QED  BY <1>3, <2>3, <2>4 DEF n
<1> QED  BY <1>1, <1>2, <1>3, <1>4

\* A product of periods or samples, and the next one.
LEMMA Products ==
  ASSUME NEW a \in Nat, NEW b \in Nat
  PROVE  a * b \in Nat /\ (a + 1) * b = a * b + b
OBVIOUS

\* A finished job is reported, and the job released next is released inside its period.
LEMMA FinishKeeps ==
  ASSUME NEW c \in Core, NEW s, CoreInv(c, s), ~s.done, Task(c), s.cycle >= s.release,
         CoreEnds(c, s), finiteRunning \in Nat
  PROVE  LET t == finishJob(c, s, DoneAt(c, s)) IN
         CoreInv(c, t) /\ (t.done /\ Looping(c) => finiteRunning = 0)
<1> DEFINE p       == Program[c]
           finish  == DoneAt(c, s)
           skipped == IF Looping(c) THEN 0 ELSE Skipped(c, s, finish)
           index   == s.index + 1 + skipped
           row     == [job |-> s.index, release |-> s.release, finish |-> finish,
                       deadline |-> s.deadline, skipped |-> skipped]
           planned == p.start + index * p.period
           r       == IF finish > planned THEN finish ELSE planned
           t       == finishJob(c, s, finish)
<1> SUFFICES CoreInv(c, t) /\ (t.done /\ Looping(c) => finiteRunning = 0)
  OBVIOUS
<1>0. /\ s \in CoreState /\ s.index \in Nat /\ s.release \in Nat /\ s.last \in Nat
      /\ s.deadline \in Nat /\ s.rows \in Seq(Report) /\ s.next \in Nat /\ s.sent \in Nat
      /\ s.flying \in Seq(Nat) /\ s.arrived \in Nat
  BY DEF CoreInv, Going, CoreState
<1>1. /\ p \in Workload /\ p.start \in Nat /\ p.period \in Nat /\ p.jobs \in Int /\ Deadline(c) \in Nat
      /\ Trailing(c) \in Nat /\ Body(c) \in Seq(Nat) /\ Len(Body(c)) \in Nat
      /\ (Body(c) # <<>> => Len(Body(c)) > 0) /\ p.period > 0
      /\ (~Looping(c) <=> p.jobs \in Nat)
  BY Workloads DEF Workload, Looping, Task
<1>2. finish \in Nat /\ s.release <= finish
  <2>1. CASE Body(c) = <<>>
    BY <1>0, <1>1, <2>1 DEF DoneAt
  <2>2. CASE Body(c) # <<>>
    <3>1. s.last >= s.release
      BY <1>0, <1>1, <2>2 DEF CoreInv, Going, CoreEnds
    <3>2. finish = s.last + Trailing(c)
      BY <2>2, Zenon DEF DoneAt
    <3>3. s.last \in Nat /\ s.release \in Nat /\ Trailing(c) \in Nat
      BY <1>0, <1>1, Zenon
    <3> QED  BY <3>1, <3>2, <3>3
  <2> QED  BY <2>1, <2>2
<1> HIDE DEF finish
<1>3. /\ skipped \in Nat
      /\ ~Looping(c) /\ index < p.jobs => finish < planned + p.period
  BY <1>0, <1>1, <1>2, SkipStops
<1> HIDE DEF skipped
<1>4. index \in Nat /\ index * p.period \in Nat /\ planned \in Nat /\ r \in Nat
  <2>1. index \in Nat
    BY <1>0, <1>3
  <2>2. index * p.period \in Nat
    BY <1>1, <2>1, Products, Zenon
  <2> QED  BY <1>1, <1>2, <2>1, <2>2
<1>5. row \in Report
  BY <1>0, <1>2, <1>3 DEF Report
<1>6. Append(s.rows, row) \in Seq(Report) /\ <<>> \in Seq(Report)
  BY <1>0, <1>5, AppendProperties
<1>7. ASSUME Finite(c), NEW k \in DOMAIN Append(s.rows, row)
      PROVE  LET q == Append(s.rows, row)[k] IN InPeriod(c, q.job, q.release) /\ q.release <= q.finish
  <2>1. InPeriod(c, s.index, s.release)
    BY <1>7 DEF CoreInv, Reported
  <2>2. CASE k \in DOMAIN s.rows
    <3>1. Append(s.rows, row)[k] = s.rows[k]
      BY <1>0, <1>5, <2>2, AppendProperties
    <3> QED  BY <1>7, <2>2, <3>1 DEF CoreInv, Reported
  <2>3. CASE k \notin DOMAIN s.rows
    <3>1. Append(s.rows, row)[k] = row
      BY <1>0, <1>5, <1>7, <2>3, AppendProperties, LenProperties
    <3> QED  BY <1>2, <2>1, <3>1
  <2> QED  BY <2>2, <2>3
<1>8. s.sent = 0 /\ s.sample = <<>> /\ s.next = Len(Body(c)) /\ s.flying = <<>> /\ s.arrived = 0
  <2>1. Len(s.flying) \in Nat /\ (Len(s.flying) = 0 => s.flying = <<>>)
    BY <1>0
  <2>2. /\ s.sent = Len(s.flying) + s.arrived /\ s.next <= Len(Body(c))
        /\ s.sample = <<>> /\ s.next >= Len(Body(c)) /\ s.sent = 0
    BY Zenon DEF CoreInv, Going, CoreEnds
  <2>3. s.arrived \in Nat /\ s.next \in Nat /\ Len(Body(c)) \in Nat
    BY <1>0, <1>1, Zenon
  <2> QED  BY <2>1, <2>2, <2>3
<1> DEFINE u == [s EXCEPT !.index = index, !.rows = Append(s.rows, row)]
<1>9. /\ u.sent = s.sent /\ u.flying = s.flying /\ u.arrived = s.arrived /\ u.sample = s.sample
      /\ u.next = s.next /\ u.cycle = s.cycle /\ u.release = s.release /\ u.last = s.last
      /\ u.index = index /\ u.rows = Append(s.rows, row) /\ u \in CoreState
  <2>1. u \in CoreState
    BY <1>0, <1>4, <1>6, Zenon DEF CoreState
  <2> QED  BY <1>0, <2>1 DEF CoreState
<1> HIDE DEF index, row, u
\* The core ends.
<1>10. ASSUME t = [u EXCEPT !.done = TRUE], ~Looping(c) => index >= p.jobs
       PROVE  CoreInv(c, t) /\ t.done
  <2> HIDE DEF t
  <2>1. t \in CoreState /\ t.done = TRUE
    BY <1>9, <1>10, Zenon DEF CoreState
  <2>2. /\ t.sent = s.sent /\ t.flying = s.flying /\ t.arrived = s.arrived /\ t.sample = s.sample
        /\ t.next = s.next /\ t.cycle = s.cycle /\ t.release = s.release /\ t.last = s.last
        /\ t.index = index /\ t.rows = Append(s.rows, row)
    BY <1>9, <1>10 DEF CoreState
  <2>3. Going(c, t)
    BY <2>1, <2>2 DEF CoreInv, Going
  <2>4. Reported(c, t)
    BY <1>7, <2>1, <2>2 DEF Reported
  <2>5. Drained(c, t)
    BY <1>8, <1>10, <2>2 DEF Drained, Finite
  <2> QED  BY <2>1, <2>3, <2>4, <2>5 DEF CoreInv, Task
\* The next job of the core.
<1>11. ASSUME NEW v \in CoreState, t = expandJob(v), v.done = s.done,
              v.sent = s.sent, v.flying = s.flying, v.arrived = s.arrived, v.sample = s.sample,
              Finite(c) => v.rows = Append(s.rows, row) /\ InPeriod(c, v.index, v.release)
       PROVE  CoreInv(c, t) /\ ~t.done
  <2> HIDE DEF t
  <2>1. t \in CoreState /\ t.done = s.done
    <3>1. 0 \in Nat
      OBVIOUS
    <3> QED  BY <1>11, <3>1, Zenon DEF CoreState, expandJob
  <2>2. /\ t.sent = s.sent /\ t.flying = s.flying /\ t.arrived = s.arrived /\ t.sample = s.sample
        /\ t.next = 0 /\ t.release = v.release /\ t.index = v.index /\ t.rows = v.rows
    BY <1>11 DEF CoreState, expandJob
  <2>3. Going(c, t)
    BY <1>1, <1>8, <2>1, <2>2 DEF CoreInv, Going
  <2>4. Reported(c, t)
    BY <1>7, <1>11, <2>1, <2>2 DEF Reported
  <2>5. Drained(c, t)
    BY <2>1 DEF Drained
  <2> QED  BY <2>1, <2>3, <2>4, <2>5 DEF CoreInv, Task
<1>12. u.done = s.done
  BY <1>0, Zenon DEF CoreState, u
<1>13. CASE Looping(c)
  <2>1. CASE finiteRunning = 0
    <3>1. t = [u EXCEPT !.done = TRUE]
      BY <1>13, <2>1 DEF finishJob, u, index, row, skipped
    <3> QED  BY <1>10, <1>13, <2>1, <3>1
  <2>2. CASE finiteRunning # 0
    <3> DEFINE v == [u EXCEPT !.release = finish, !.rows = <<>>, !.index = 0]
    <3>1. t = expandJob(v)
      BY <1>13, <2>2 DEF finishJob, u, index, row, skipped
    <3>2. v \in CoreState /\ v.done = u.done
      <4>1. 0 \in Nat
        OBVIOUS
      <4> QED  BY <1>2, <1>6, <1>9, <4>1, Zenon DEF CoreState
    <3>3. v.sent = s.sent /\ v.flying = s.flying /\ v.arrived = s.arrived /\ v.sample = s.sample
      BY <1>9 DEF CoreState
    <3>4. ~Finite(c)
      BY <1>13 DEF Finite
    <3> QED  BY <1>11, <1>12, <3>1, <3>2, <3>3, <3>4
  <2> QED  BY <2>1, <2>2
<1>14. CASE ~Looping(c)
  <2>1. CASE index >= p.jobs
    <3>1. t = [u EXCEPT !.done = TRUE]
      BY <1>14, <2>1 DEF finishJob, u, index, row, skipped
    <3> QED  BY <1>10, <1>14, <2>1, <3>1
  <2>2. CASE ~(index >= p.jobs)
    <3> DEFINE v == [u EXCEPT !.release = r, !.deadline = planned + Deadline(c)]
    <3>1. t = expandJob(v)
      BY <1>14, <2>2 DEF finishJob, u, index, row, skipped
    <3>2. v \in CoreState /\ v.done = u.done
      <4>1. planned + Deadline(c) \in Nat
        BY <1>1, <1>4
      <4> QED  BY <1>4, <1>9, <4>1, Zenon DEF CoreState
    <3>3. /\ v.sent = s.sent /\ v.flying = s.flying /\ v.arrived = s.arrived /\ v.sample = s.sample
          /\ v.rows = u.rows /\ v.index = index /\ v.release = r
      BY <1>9 DEF CoreState
    <3>4. InPeriod(c, index, r)
      <4>1. (index + 1) * p.period = index * p.period + p.period
        BY <1>1, <1>4, Products, Zenon
      <4>2. finish < planned + p.period
        BY <1>1, <1>3, <1>4, <1>14, <2>2
      <4>3. p.start \in Nat /\ p.period \in Nat
        BY <1>1, Zenon
      <4>4. planned <= r /\ r < planned + p.period
        <5>1. planned \in Nat /\ finish \in Nat /\ p.period \in Nat /\ p.period > 0
          BY <1>1, <1>2, <1>4, Zenon
        <5> HIDE DEF planned, p
        <5> QED  BY <4>2, <5>1
      <4>5. planned + p.period = p.start + (index + 1) * p.period
        <5> SUFFICES ASSUME NEW m \in Nat, m = index * p.period
                     PROVE  (p.start + m) + p.period = p.start + (m + p.period)
          BY <1>4, <4>1
        <5> QED  BY <4>3
      <4> QED  BY <4>4, <4>5, Zenon DEF InPeriod
    <3> QED  BY <1>9, <1>11, <1>12, <1>14, <3>1, <3>2, <3>3, <3>4
  <2> QED  BY <2>1, <2>2
<1> QED  BY <1>13, <1>14

\* One cycle of a core after the receive buffer, of either kind.
LEMMA StepKeeps ==
  ASSUME NEW c \in Core, NEW s, CoreInv(c, s), ~s.done, NEW accepted \in BOOLEAN,
         finiteRunning \in Nat
  PROVE  LET t == Step(c, s, accepted) IN
         CoreInv(c, t) /\ (t.done /\ Looping(c) => finiteRunning = 0)
<1> DEFINE t == Step(c, s, accepted)
           l == Load(c, s)
<1> SUFFICES CoreInv(c, t) /\ (t.done /\ Looping(c) => finiteRunning = 0)
  OBVIOUS
<1>0. s \in CoreState /\ s.cycle \in Nat /\ s.release \in Nat /\ s.next \in Nat
  BY DEF CoreInv, Going, CoreState
<1>1. CASE Program[c].mode = "trace"
  <2>1. t = processLogic(c, s, accepted) /\ ~Task(c) /\ ~Looping(c)
    BY <1>1 DEF Step, Task, Looping
  <2>2. CASE CoreEnds(c, s)
    <3>1. t = [s EXCEPT !.done = TRUE]
      BY <2>1, <2>2 DEF processLogic
    <3> HIDE DEF t
    <3>2. t \in CoreState /\ t.done = TRUE
      BY <1>0, <3>1, Zenon DEF CoreState
    <3>3. /\ t.sent = s.sent /\ t.flying = s.flying /\ t.arrived = s.arrived
          /\ t.sample = s.sample /\ t.next = s.next /\ t.cycle = s.cycle
          /\ t.release = s.release /\ t.last = s.last /\ t.index = s.index /\ t.rows = s.rows
      BY <1>0, <3>1 DEF CoreState
    <3>4. Going(c, t)
      BY <3>2, <3>3 DEF CoreInv, Going
    <3>5. Reported(c, t)
      BY <2>1, <3>3 DEF CoreInv, Reported
    <3>6. s.next = Len(Body(c))
      BY <1>0, <2>2, Workloads DEF CoreInv, Going, CoreEnds
    <3>7. Drained(c, t)
      BY <2>1, <2>2, <3>3, <3>6 DEF Drained, CoreEnds
    <3> QED  BY <1>1, <2>1, <3>4, <3>5, <3>7 DEF CoreInv
  <2>3. CASE ~CoreEnds(c, s)
    <3>1. CoreInv(c, l) /\ ~l.done
      BY <2>1, LoadKeeps
    <3>2. CASE MayIssue(c, l, l.last)
      <4>1. t = Issue(l, accepted)
        BY <2>1, <2>3, <3>2 DEF processLogic
      <4>2. l.sample # <<>>
        BY <3>2 DEF MayIssue
      <4> HIDE DEF l, t
      <4> QED  BY <3>1, <4>1, <4>2, IssueKeeps
    <3>3. CASE ~MayIssue(c, l, l.last)
      <4>1. t = l
        BY <2>1, <2>3, <3>3 DEF processLogic
      <4> QED  BY <3>1, <4>1
    <3> QED  BY <3>2, <3>3
  <2> QED  BY <2>2, <2>3
<1>2. CASE Program[c].mode # "trace"
  <2> DEFINE base == IF l.first THEN l.release ELSE l.last
  <2>1. t = periodicLogic(c, s, accepted)
    BY <1>2 DEF Step
  <2>2. Task(c)
    <3>1. Program[c].mode \in {"trace", "task", "idle"}
      BY Workloads DEF Workload
    <3> QED  BY <1>2, <3>1 DEF CoreInv, Task
  <2>3. CASE s.cycle < s.release
    <3>1. t = s
      BY <1>0, <2>1, <2>3 DEF periodicLogic
    <3> QED  BY <3>1
  <2>4. CASE s.cycle >= s.release /\ CoreEnds(c, s)
    <3>1. t = IF s.cycle < DoneAt(c, s) THEN s ELSE finishJob(c, s, DoneAt(c, s))
      BY <1>0, <2>1, <2>4 DEF periodicLogic
    <3>2. LET u == finishJob(c, s, DoneAt(c, s)) IN
          CoreInv(c, u) /\ (u.done /\ Looping(c) => finiteRunning = 0)
      BY <2>2, <2>4, FinishKeeps
    <3> HIDE DEF t
    <3> QED  BY <3>1, <3>2, Zenon
  <2>5. CASE s.cycle >= s.release /\ ~CoreEnds(c, s)
    <3>1. CoreInv(c, l) /\ ~l.done
      BY <2>5, LoadKeeps
    <3>2. t = IF MayIssue(c, l, base) THEN Issue(l, accepted) ELSE l
      BY <1>0, <2>1, <2>5 DEF periodicLogic
    <3>3. CASE MayIssue(c, l, base)
      <4>1. l.sample # <<>>
        BY <3>3 DEF MayIssue
      <4>2. t = Issue(l, accepted)
        BY <3>2, <3>3, Zenon
      <4> HIDE DEF l, t
      <4> QED  BY <3>1, <4>1, <4>2, IssueKeeps
    <3>4. CASE ~MayIssue(c, l, base)
      BY <3>1, <3>2, <3>4, Zenon
    <3> QED  BY <3>3, <3>4
  <2> QED  BY <1>0, <2>3, <2>4, <2>5
<1> QED  BY <1>1, <1>2

\* The cycle ends and the accesses in flight age.
LEMMA AgedKeeps ==
  ASSUME NEW c \in Core, NEW s, CoreInv(c, s), ~s.done
  PROVE  LET t == Aged(s) IN CoreInv(c, t) /\ ~t.done
<1> DEFINE t == Aged(s)
           f == [k \in DOMAIN s.flying |-> s.flying[k] + 1]
<1>0. s \in CoreState /\ s.cycle \in Nat /\ s.flying \in Seq(Nat) /\ s.release \in Nat
  BY DEF CoreInv, Going, CoreState
<1>1. s.cycle + 1 \in Nat /\ f \in Seq(Nat) /\ Len(f) = Len(s.flying)
  <2>1. DOMAIN s.flying = 1 .. Len(s.flying) /\ Len(s.flying) \in Nat
    BY <1>0, LenProperties
  <2>2. \A k \in 1 .. Len(s.flying) : s.flying[k] + 1 \in Nat
    BY <1>0, ElementOfSeq
  <2>3. f = [k \in 1 .. Len(s.flying) |-> s.flying[k] + 1]
    BY <2>1
  <2> QED  BY <1>0, <2>1, <2>2, <2>3
<1>2. t = [s EXCEPT !.cycle = s.cycle + 1, !.flying = f]
  BY DEF Aged
<1> HIDE DEF t, f
<1>3. t \in CoreState /\ t.done = s.done
  BY <1>0, <1>1, <1>2, Zenon DEF CoreState
<1>4. /\ t.sent = s.sent /\ t.flying = f /\ t.arrived = s.arrived /\ t.sample = s.sample
      /\ t.next = s.next /\ t.cycle = s.cycle + 1 /\ t.release = s.release /\ t.last = s.last
      /\ t.index = s.index /\ t.rows = s.rows
  BY <1>0, <1>2 DEF CoreState
<1>5. Going(c, t)
  BY <1>0, <1>1, <1>3, <1>4 DEF CoreInv, Going
<1>6. Reported(c, t) /\ Drained(c, t)
  BY <1>3, <1>4, Zenon DEF CoreInv, Reported, Drained
<1> QED  BY <1>3, <1>5, <1>6 DEF CoreInv, t

\* An access in flight is answered.
LEMMA AnswerKeeps ==
  ASSUME NEW c \in Core, NEW s, CoreInv(c, s), NEW k \in DOMAIN s.flying
  PROVE  LET t == [s EXCEPT !.flying = RemoveAt(@, k), !.arrived = @ + 1]
         IN  CoreInv(c, t) /\ t.done = s.done
<1> DEFINE f == SubSeq(s.flying, 1, k - 1) \o SubSeq(s.flying, k + 1, Len(s.flying))
           t == [s EXCEPT !.flying = f, !.arrived = s.arrived + 1]
<1>0. s \in CoreState /\ s.arrived \in Nat /\ s.flying \in Seq(Nat)
  BY DEF CoreInv, Going, CoreState
<1>1. s.arrived + 1 \in Nat /\ f \in Seq(Nat) /\ Len(f) = Len(s.flying) - 1
  <2>1. k \in 1 .. Len(s.flying) /\ Len(s.flying) \in Nat
    BY <1>0, LenProperties
  <2>2. SubSeq(s.flying, 1, k - 1) \in Seq(Nat) /\ Len(SubSeq(s.flying, 1, k - 1)) = k - 1
    BY <1>0, <2>1, SubSeqProperties
  <2>3. /\ SubSeq(s.flying, k + 1, Len(s.flying)) \in Seq(Nat)
        /\ Len(SubSeq(s.flying, k + 1, Len(s.flying))) = Len(s.flying) - k
    BY <1>0, <2>1, SubSeqProperties
  <2>4. f \in Seq(Nat) /\ Len(f) = (k - 1) + (Len(s.flying) - k)
    BY <2>2, <2>3, ConcatProperties
  <2> HIDE DEF f
  <2> QED  BY <1>0, <2>1, <2>4
<1> HIDE DEF f
<1>3. t \in CoreState /\ t.done = s.done
  BY <1>0, <1>1, Zenon DEF CoreState
<1>4. /\ t.sent = s.sent /\ t.flying = f /\ t.arrived = s.arrived + 1 /\ t.sample = s.sample
      /\ t.next = s.next /\ t.cycle = s.cycle /\ t.release = s.release /\ t.last = s.last
      /\ t.index = s.index /\ t.rows = s.rows
  BY <1>0 DEF CoreState
<1> HIDE DEF t
<1>5. Going(c, t)
  <2>1. s.sent = Len(s.flying) + s.arrived /\ Len(s.flying) \in Nat
    BY <1>0, LenProperties DEF CoreInv, Going
  <2>2. t.sent = Len(t.flying) + t.arrived
    <3>1. /\ t.sent = Len(s.flying) + s.arrived /\ Len(t.flying) = Len(s.flying) - 1
          /\ t.arrived = s.arrived + 1
      BY <1>1, <1>4, <2>1, Zenon
    <3> QED  BY <1>0, <2>1, <3>1
  <2> QED  BY <1>3, <1>4, <2>2 DEF CoreInv, Going
<1>6. Reported(c, t) /\ Drained(c, t)
  BY <1>3, <1>4, Zenon DEF CoreInv, Reported, Drained
<1> QED  BY <1>3, <1>5, <1>6 DEF CoreInv, RemoveAt, t, f

-----------------------------------------------------------------------------
\* There are finitely many cores, and at least one.
LEMMA CoreFinite == IsFiniteSet(Core) /\ Core # {}
<1>1. Len(Program) \in Nat /\ Core = 1 .. Len(Program)
  BY CoresAssumption, LenProperties DEF Core
<1>2. Len(Program) # 0
  BY CoresAssumption, EmptySeq
<1>3. IsFiniteSet(1 .. Len(Program))
  <2>1. 1 \in Int /\ Len(Program) \in Int
    BY <1>1
  <2> QED  BY <2>1, FS_Interval, Zenon
<1>4. 1 \in 1 .. Len(Program)
  BY <1>1, <1>2
<1> QED  BY <1>1, <1>3, <1>4

\* The cores start as CoresInv says.
LEMMA InitHolds == Init => CoresInv
<1> SUFFICES ASSUME Init PROVE CoresInv
  OBVIOUS
<1>1. core = [c \in Core |-> InitCore(c)]
  BY DEF Init
<1>2. ASSUME NEW c \in Core
      PROVE  CoreInv(c, core[c]) /\ core[c].done = (Program[c].mode = "idle")
  <2> DEFINE s == core[c]
             p == Program[c]
  <2>0. p \in Workload /\ p.start \in Nat /\ p.period \in Nat /\ p.mode \in {"trace", "task", "idle"}
    BY Workloads DEF Workload
  <2>1. s = InitCore(c)
    BY <1>1
  <2>2. /\ s.cycle = 1 /\ s.done = (p.mode = "idle") /\ s.sent = 0 /\ s.last = 0 /\ s.index = 0
        /\ s.release = p.start /\ s.deadline = p.start + Deadline(c) /\ s.flying = <<>>
        /\ s.arrived = 0 /\ s.rows = <<>> /\ s.next = (IF p.mode = "trace" THEN 1 ELSE 0)
        /\ s.sample = (IF p.mode = "trace" THEN <<Head(Body(c))>> ELSE <<>>) /\ s.first = TRUE
    BY <2>1 DEF InitCore
  <2>3. s \in CoreState
    <3>1. p.mode = "trace" => Head(Body(c)) \in Nat
      BY Workloads, HeadTailProperties
    <3>2. s.sample \in Seq(Nat) /\ s.next \in Nat /\ s.deadline \in Nat /\ <<>> \in Seq(Report)
      BY <2>0, <2>2, <3>1, Workloads
    <3>3. 1 \in Nat /\ 0 \in Nat /\ (p.mode = "idle") \in BOOLEAN /\ TRUE \in BOOLEAN /\ <<>> \in Seq(Nat)
      OBVIOUS
    <3>4. ASSUME NEW sample \in Seq(Nat), NEW n \in Nat, NEW release \in Nat, NEW deadline \in Nat,
                 NEW done \in BOOLEAN
          PROVE  [cycle |-> 1, done |-> done, sample |-> sample, next |-> n, sent |-> 0,
                  last |-> 0, first |-> TRUE, index |-> 0, release |-> release,
                  deadline |-> deadline, flying |-> <<>>, arrived |-> 0, rows |-> <<>>] \in CoreState
      BY <3>2, <3>3, Zenon DEF CoreState
    <3> DEFINE q == [cycle |-> 1, done |-> p.mode = "idle", sample |-> s.sample, next |-> s.next,
                     sent |-> 0, last |-> 0, first |-> TRUE, index |-> 0, release |-> p.start,
                     deadline |-> s.deadline, flying |-> <<>>, arrived |-> 0, rows |-> <<>>]
    <3>5. s = q
      BY <2>1, <2>2 DEF InitCore
    <3>6. q \in CoreState
      <4> HIDE DEF s, p
      <4> QED  BY <2>0, <3>2, <3>3, <3>4, Zenon
    <3> QED  BY <3>5, <3>6, Zenon
  <2>4. Len(Body(c)) \in Nat /\ (p.mode = "trace" => Len(Body(c)) > 0)
    BY Workloads, LenProperties, EmptySeq
  <2>5. Going(c, s)
    BY <2>0, <2>2, <2>3, <2>4 DEF Going, Task
  <2>6. Reported(c, s)
    <3>1. Task(c) => InPeriod(c, 0, p.start)
      BY <2>0, Workloads DEF InPeriod
    <3> QED  BY <2>2, <3>1 DEF Reported
  <2>7. Drained(c, s)
    BY <2>2 DEF Drained, Task, Finite
  <2> QED  BY <2>2, <2>5, <2>6, <2>7 DEF CoreInv
<1>3. Unfinished = {c \in Core : Finite(c)}
  BY <1>2 DEF Unfinished, Finite
<1>4. \A c \in Core : Looping(c) => ~core[c].done
  BY <1>2 DEF Looping
<1> QED  BY <1>1, <1>2, <1>3, <1>4, CoreFinite DEF CoresInv, Init, FiniteAtStart

\* Ending a core takes it out of the unfinished ones, if it was finite.
LEMMA CountKeeps ==
  ASSUME CoresInv, NEW c \in Core, ~core[c].done, \A d \in Core : d # c => core'[d] = core[d],
         core'[c].done /\ Looping(c) => finiteRunning = 0
  PROVE  /\ Cardinality(Unfinished') = finiteRunning - CoreDone(c, core'[c])
         /\ \A d \in Core : Looping(d) /\ core'[d].done => Unfinished' = {}
<1>1. IsFiniteSet(Unfinished)
  BY CoreFinite, FS_Subset DEF Unfinished
<1>2. finiteRunning = Cardinality(Unfinished)
  BY DEF CoresInv
<1>3. CASE core'[c].done /\ Finite(c)
  <2>1. Unfinished' = Unfinished \ {c} /\ c \in Unfinished
    BY <1>3 DEF Unfinished
  <2>2. Cardinality(Unfinished \ {c}) = Cardinality(Unfinished) - 1
    BY <1>1, <2>1, FS_RemoveElement
  <2>3. \A d \in Core : Looping(d) => ~core'[d].done
    BY <1>3, <2>1 DEF CoresInv, Finite
  <2> QED  BY <1>2, <1>3, <2>1, <2>2, <2>3 DEF CoreDone
<1>4. CASE ~(core'[c].done /\ Finite(c))
  <2>1. Unfinished' = Unfinished
    BY <1>4 DEF Unfinished
  <2>2. CoreDone(c, core'[c]) = 0 /\ Cardinality(Unfinished) \in Nat
    BY <1>1, <1>4, FS_CardinalityType DEF CoreDone
  <2>3. ASSUME NEW d \in Core, Looping(d), core'[d].done
        PROVE  Unfinished = {}
    <3>1. CASE d = c
      <4>1. Cardinality(Unfinished) = 0
        BY <1>2, <2>3, <3>1
      <4> QED  BY <1>1, <4>1, FS_EmptySet
    <3>2. CASE d # c
      BY <2>3, <3>2 DEF CoresInv
    <3> QED  BY <3>1, <3>2
  <2> QED  BY <1>2, <2>1, <2>2, <2>3
<1> QED  BY <1>3, <1>4

\* Every step of a core and of the clock keeps CoresInv.
LEMMA StepHolds == CoresInv /\ [Next]_vars => CoresInv'
<1> SUFFICES ASSUME CoresInv, [Next]_vars
             PROVE  CoresInv'
  OBVIOUS
<1>0. finiteRunning \in Nat
  BY CoreFinite, FS_Subset, FS_CardinalityType DEF CoresInv, Unfinished
<1>1. ASSUME NEW c \in Core, cycleProcess(c)
      PROVE  CoresInv'
  <2>1. PICK accepted \in BOOLEAN :
          LET t == Step(c, checkReceiveBuffer(core[c]), accepted)
          IN  /\ core' = [core EXCEPT ![c] = IF t.done THEN t ELSE Aged(t)]
              /\ finiteRunning' = finiteRunning - CoreDone(c, t)
    BY <1>1 DEF cycleProcess
  <2> DEFINE s == checkReceiveBuffer(core[c])
             t == Step(c, s, accepted)
             u == IF t.done THEN t ELSE Aged(t)
  <2>2. ~core[c].done /\ triggers' = triggers /\ running' = running
    BY <1>1 DEF cycleProcess
  <2>3. CoreInv(c, s) /\ ~s.done
    BY <2>2, ReceiveKeeps DEF CoresInv
  <2> HIDE DEF s
  <2>4. CoreInv(c, t) /\ (t.done /\ Looping(c) => finiteRunning = 0)
    BY <1>0, <2>3, StepKeeps
  <2> HIDE DEF t
  <2>5. CoreInv(c, u) /\ u.done = t.done
    <3>1. CASE t.done
      BY <2>4, <3>1
    <3>2. CASE ~t.done
      <4>1. u = Aged(t) /\ CoreInv(c, u) /\ ~u.done
        BY <2>4, <3>2, AgedKeeps
      <4>2. u.done \in BOOLEAN /\ t.done \in BOOLEAN
        BY <2>4, <4>1 DEF CoreInv, Going, CoreState
      <4> QED  BY <3>2, <4>1, <4>2
    <3> QED  BY <3>1, <3>2
  <2>6. u.done \in BOOLEAN
    BY <2>5 DEF CoreInv, Going, CoreState
  <2>7. core' = [core EXCEPT ![c] = u] /\ finiteRunning' = finiteRunning - CoreDone(c, u)
    BY <2>1, <2>5 DEF s, t, CoreDone
  <2> HIDE DEF u
  <2>8. core'[c] = u /\ \A d \in Core : d # c => core'[d] = core[d]
    BY <2>7 DEF CoresInv
  <2>9. /\ Cardinality(Unfinished') = finiteRunning - CoreDone(c, u)
        /\ \A d \in Core : Looping(d) /\ core'[d].done => Unfinished' = {}
    <3>1. core'[c].done /\ Looping(c) => finiteRunning = 0
      BY <2>4, <2>5, <2>8, Zenon
    <3> QED  BY <2>2, <2>8, <3>1, CountKeeps
  <2>10. \A d \in Core : CoreInv(d, core'[d])
    BY <2>5, <2>8 DEF CoresInv
  <2>11. \A d \in Core \ triggers' : core'[d].done
    BY <2>2, <2>8 DEF CoresInv
  <2>12. core' = [d \in Core |-> core'[d]]
    BY <2>7 DEF CoresInv
  <2> QED  BY <2>2, <2>7, <2>9, <2>10, <2>11, <2>12 DEF CoresInv
<1>2. ASSUME NEW c \in Core, Finished(c)
      PROVE  CoresInv'
  <2>1. core' = core /\ finiteRunning' = finiteRunning /\ Unfinished' = Unfinished
    BY <1>2 DEF Finished, Unfinished
  <2>2. triggers' = triggers \ {c} /\ core[c].done /\ running' = (running /\ triggers \ {c} # {})
    BY <1>2 DEF Finished, stopClock
  <2>3. triggers' \in SUBSET Core /\ running' = (triggers' # {})
    BY <2>2, Zenon DEF CoresInv
  <2>4. \A d \in Core \ triggers' : core'[d].done
    BY <2>1, <2>2 DEF CoresInv
  <2> QED  BY <2>1, <2>3, <2>4 DEF CoresInv
<1>3. ASSUME NEW c \in Core, Answer(c)
      PROVE  CoresInv'
  <2>1. PICK k \in DOMAIN core[c].flying :
          core' = [core EXCEPT ![c] =
            [core[c] EXCEPT !.flying = RemoveAt(@, k), !.arrived = @ + 1]]
    BY <1>3 DEF Answer
  <2> DEFINE t == [core[c] EXCEPT !.flying = RemoveAt(@, k), !.arrived = @ + 1]
  <2>2. CoreInv(c, t) /\ t.done = core[c].done
    BY AnswerKeeps DEF CoresInv
  <2>3. core' = [core EXCEPT ![c] = t]
    BY <2>1
  <2> HIDE DEF t
  <2>4. core'[c] = t /\ \A d \in Core : d # c => core'[d] = core[d]
    BY <2>3 DEF CoresInv
  <2>5. /\ \A d \in Core : CoreInv(d, core'[d]) /\ core'[d].done = core[d].done
        /\ core' = [d \in Core |-> core'[d]]
    BY <2>2, <2>3, <2>4 DEF CoresInv
  <2>6. finiteRunning' = finiteRunning /\ triggers' = triggers /\ running' = running
    BY <1>3 DEF Answer
  <2>7. Unfinished' = Unfinished
    BY <2>5 DEF Unfinished
  <2> QED  BY <2>5, <2>6, <2>7 DEF CoresInv
<1>4. ASSUME Advance \/ UNCHANGED vars
      PROVE  CoresInv'
  <2>1. core' = core /\ finiteRunning' = finiteRunning /\ triggers' = triggers /\ running' = running
    BY <1>4 DEF Advance, vars
  <2> QED  BY <2>1 DEF CoresInv, Unfinished
<1> QED  BY <1>1, <1>2, <1>3, <1>4 DEF Next

\* The invariant of cores, clock and count of finite cores holds in every reachable state.
LEMMA CoresInvHolds == Spec => []CoresInv
BY InitHolds, StepHolds, PTL DEF Spec

\* ClockManager::stopClock ends the simulation only when every core is drained: no access
\* in flight, no sample left, every period of every task run or reported skipped.
THEOREM StopIsDrained == Spec => []StopsDrained
<1>1. CoresInv => StopsDrained
  BY DEF CoresInv, CoreInv, Drained, StopsDrained, Task
<1> QED  BY <1>1, CoresInvHolds, PTL

\* s_finite_cores_running reaches zero only when the last finite core has ended, so no
\* generator ends before one, however the cores interleave.
THEOREM GeneratorsOutlive == Spec => []GeneratorsStopLast
<1>1. CoresInv => GeneratorsStopLast
  BY DEF CoresInv, GeneratorsStopLast, Unfinished
<1> QED  BY <1>1, CoresInvHolds, PTL

\* finishJob releases every job of a finite task inside its own period, whatever the
\* overrun before it, and a job never finishes before its release.
THEOREM JobsReleasedInPeriod == Spec => []ReleasedInPeriod
<1>1. CoresInv => ReleasedInPeriod
  BY DEF CoresInv, CoreInv, Reported, InPeriod, ReleasedInPeriod
<1> QED  BY <1>1, CoresInvHolds, PTL
=============================================================================
