-------------------------------- MODULE Cores --------------------------------
(***************************************************************************)
(* The trace-driven and periodic cores (CPU) and the clock that drives     *)
(* them (ClockManager): which core runs next, when a core may issue, when  *)
(* a job is released, finished or skipped, and when the simulation stops.  *)
(*                                                                         *)
(* The memory system is the environment: it answers each access within     *)
(* MaxLatency cycles of its core, in any order, and its link may refuse    *)
(* one.                                                                    *)
(***************************************************************************)
EXTENDS Integers, Sequences, SequencesExt

CONSTANTS
  Program,      \* the workloads, indexed by core: see Workload
  MaxLatency,   \* bound: cycles an access takes
  MaxRefusals,  \* bound: pushes the links refuse
  MaxCycle      \* bound: cycles a core runs, more than any workload needs

\* mode: "trace", "task" (periodic) or "idle"; clk: m_clk_period; window:
\* m_number_of_OoO_requests; rows: what to do, in order; jobs: m_jobs_total, -1 for a
\* generator; deadline: relative, 0 if the program does not say.
Row == [kind : {"COMPUTE", "ACCESS"}, n : Nat]   \* cycles, or accesses (LINEAR, RANDOM: many)
Workload == [mode : {"trace", "task", "idle"}, clk : Nat \ {0}, window : Nat \ {0}, rows : Seq(Row),
             period : Nat, jobs : Nat \cup {-1}, start : Nat, deadline : Nat]

\* loadTask: a finite task has a period; a generator without one gets period 1.
ASSUME CoresAssumption ==
  /\ Program \in Seq(Workload) /\ Program # <<>>
  /\ \A c \in DOMAIN Program :
       /\ Program[c].mode = "task" => Program[c].period > 0
       /\ Program[c].mode = "trace" => Program[c].jobs = 0
  /\ MaxLatency \in Nat \ {0} /\ MaxRefusals \in Nat /\ MaxCycle \in Nat

Core == DOMAIN Program
Looping(c) == Program[c].mode = "task" /\ Program[c].jobs < 0
Finite(c) == Program[c].mode # "idle" /\ ~Looping(c)

\* expandJob: a sample per access, with the compute time of the rows since the one before;
\* what follows the last access is the trailing compute.
Expand(e, row) ==
  IF row.kind = "COMPUTE" THEN [e EXCEPT !.compute = @ + row.n]
  ELSE IF row.n = 0 THEN e
  ELSE [samples |-> e.samples \o <<e.compute>> \o [k \in 1 .. row.n - 1 |-> 0], compute |-> 0]
Expanded == [c \in Core |-> FoldLeft(Expand, [samples |-> <<>>, compute |-> 0], Program[c].rows)]
Body(c) == Expanded[c].samples
Trailing(c) == Expanded[c].compute

\* What the expansion of a program always is.  Every trace holds an access: init reads the
\* first one without asking whether there is one.
ASSUME ExpansionAssumption ==
  \A c \in Core :
    /\ Body(c) \in Seq(Nat) /\ Trailing(c) \in Nat
    /\ Program[c].mode = "trace" => Body(c) # <<>>

\* loadTask: the implicit deadline is the period.
Deadline(c) == IF Program[c].deadline = 0 THEN Program[c].period ELSE Program[c].deadline

VARIABLES
  core,      \* fields of each CPU
  events,    \* ClockManager: time stamp of each core's next cycle; ties go to the lower id
  now,       \* current_time
  triggers,  \* clock_triggers
  running,   \* clk_run
  finiteRunning, \* s_finite_cores_running
  refusals   \* bound: refusals left

vars == <<core, events, now, triggers, running, finiteRunning, refusals>>

\* Mutant of FiniteAtStart: only periodic tasks count.
TasksAtStart == Cardinality({c \in Core : Finite(c) /\ Program[c].mode = "task"})

\* The constructors count the cores that will end by themselves.
FiniteAtStart == Cardinality({c \in Core : Finite(c)})

\* init: a trace core has loaded its first sample, a periodic one its first job.
InitCore(c) ==
  LET p == Program[c] IN
  [cycle |-> 1, done |-> p.mode = "idle",
   sample |-> IF p.mode = "trace" THEN <<Head(Body(c))>> ELSE <<>>,  \* m_sample_in_progess
   next |-> IF p.mode = "trace" THEN 1 ELSE 0,                      \* samples loaded
   sent |-> 0,                                                      \* m_sent_requests
   last |-> 0,                                                      \* m_last_received_msg_cycle
   first |-> TRUE,                                                  \* m_job_first_access
   index |-> 0, release |-> p.start, deadline |-> p.start + Deadline(c),
   flying |-> <<>>,                     \* environment: ages of the accesses in flight
   arrived |-> 0,                       \* environment: answers in the receive buffer
   rows |-> <<>>]                       \* history: rows of the job report

Init ==
  /\ core = [c \in Core |-> InitCore(c)]
  /\ events = [c \in Core |-> 0] /\ now = 0
  /\ triggers = Core /\ running = TRUE
  /\ finiteRunning = FiniteAtStart
  /\ refusals = MaxRefusals

-----------------------------------------------------------------------------
(* One cycle of a core, as functions of its state s.                        *)

\* checkReceiveBuffer: one answer a cycle.
checkReceiveBuffer(s) ==
  IF s.arrived = 0 THEN s
  ELSE [s EXCEPT !.arrived = @ - 1, !.sent = @ - 1, !.last = s.cycle]

\* Mutant of CoreEnds: a trace core does not wait for its last answers.
EndsUndrained(c, s) ==
  /\ s.sample = <<>> /\ s.next >= Len(Body(c))
  /\ s.sent = 0 \/ Program[c].mode = "trace"

\* The trace has no further sample and every access has returned.
CoreEnds(c, s) == s.sample = <<>> /\ s.next >= Len(Body(c)) /\ s.sent = 0

\* A sample is loaded when the last one has been issued.
Load(c, s) ==
  IF s.sample = <<>> /\ s.next < Len(Body(c))
  THEN [s EXCEPT !.sample = <<Body(c)[s.next + 1]>>, !.next = @ + 1] ELSE s

\* The window has room, the compute time since base has passed, and the link takes it.
MayIssue(c, s, base) ==
  /\ s.sample # <<>> /\ s.sent < Program[c].window /\ s.cycle >= base + s.sample[1]
Issue(s, accepted) ==
  IF ~accepted THEN s
  ELSE [s EXCEPT !.sample = <<>>, !.sent = @ + 1, !.first = FALSE, !.flying = Append(@, 0)]

\* Mutant of Skipped: a period that ends just when the job does is still released.
SkippedUntilPast(c, s, finish) ==
  LET p == Program[c] IN
  Cardinality({k \in (s.index + 1) .. (p.jobs - 1) : p.start + k * p.period + p.period < finish})

\* Periods whose whole window ended before the job did.
Skipped(c, s, finish) ==
  LET p == Program[c] IN
  Cardinality({k \in (s.index + 1) .. (p.jobs - 1) : p.start + k * p.period + p.period <= finish})

\* expandJob, for the next job.
expandJob(s) == [s EXCEPT !.next = 0, !.first = TRUE]

\* finishJob: report, then release the next job, or end the core.  A generator stops when
\* no finite core runs any more; its jobs are not numbered here.
finishJob(c, s, finish) ==
  LET p       == Program[c]
      skipped == Skipped(c, s, finish)
      index   == s.index + 1 + (IF Looping(c) THEN 0 ELSE skipped)
      row     == [job |-> s.index, release |-> s.release, finish |-> finish,
                  deadline |-> s.deadline, skipped |-> IF Looping(c) THEN 0 ELSE skipped]
      t       == [s EXCEPT !.index = index, !.rows = Append(@, row)]
      planned == p.start + index * p.period
  IN  CASE Looping(c) /\ finiteRunning = 0 -> [t EXCEPT !.done = TRUE]
        [] Looping(c) /\ finiteRunning > 0 ->
             expandJob([t EXCEPT !.release = finish, !.rows = <<>>, !.index = 0])
        [] ~Looping(c) /\ index >= p.jobs  -> [t EXCEPT !.done = TRUE]
        [] OTHER -> expandJob([t EXCEPT !.release = IF finish > planned THEN finish ELSE planned,
                                        !.deadline = planned + Deadline(c)])

\* When a job that has issued everything and is drained is over.
DoneAt(c, s) == (IF Body(c) = <<>> THEN s.release ELSE s.last) + Trailing(c)

\* processLogic of a trace core.
processLogic(c, s, accepted) ==
  IF CoreEnds(c, s) THEN [s EXCEPT !.done = TRUE]
  ELSE LET t == Load(c, s) IN IF MayIssue(c, t, t.last) THEN Issue(t, accepted) ELSE t

\* periodicLogic: nothing before the release; the compute time of a job's first access
\* counts from the release.
periodicLogic(c, s, accepted) ==
  LET t    == Load(c, s)
      base == IF t.first THEN t.release ELSE t.last
  IN  CASE s.cycle < s.release -> s
        [] s.cycle >= s.release /\ CoreEnds(c, s) ->
             IF s.cycle < DoneAt(c, s) THEN s ELSE finishJob(c, s, DoneAt(c, s))
        [] OTHER -> IF MayIssue(c, t, base) THEN Issue(t, accepted) ELSE t

Aged(s) == [s EXCEPT !.cycle = @ + 1, !.flying = [k \in DOMAIN @ |-> @[k] + 1]]
Step(c, s, accepted) ==
  IF Program[c].mode = "trace" THEN processLogic(c, s, accepted) ELSE periodicLogic(c, s, accepted)

-----------------------------------------------------------------------------
(* The clock.                                                               *)

Due == {c \in Core : events[c] = now /\ \A d \in Core : events[d] = now => c <= d}

\* Mutant of CoreDone: the end of a trace is not counted.
TaskDone(c, t) == IF t.done /\ Finite(c) /\ Program[c].mode = "task" THEN 1 ELSE 0

\* coreDone: one finite core less.
CoreDone(c, t) == IF t.done /\ Finite(c) THEN 1 ELSE 0

\* cycleProcess of a core that has not finished, and its next event.
cycleProcess(c) ==
  /\ c \in Due /\ ~core[c].done /\ core[c].cycle < MaxCycle
  /\ \A k \in DOMAIN core[c].flying : core[c].flying[k] < MaxLatency
  /\ \E accepted \in {TRUE} \cup (IF refusals > 0 THEN {FALSE} ELSE {}) :
       LET s == checkReceiveBuffer(core[c])
           t == Step(c, s, accepted)
       IN  /\ core' = [core EXCEPT ![c] = IF t.done THEN t ELSE Aged(t)]
           /\ finiteRunning' = finiteRunning - CoreDone(c, t)
           /\ refusals' = IF accepted THEN refusals ELSE refusals - 1
  /\ events' = [events EXCEPT ![c] = now + Program[c].clk]
  /\ UNCHANGED <<now, triggers, running>>

\* The clock runs until every trigger has been withdrawn.
stopClock(left) == left # {}

\* A finished core, an idle one from the start, withdraws its trigger.
Finished(c) ==
  /\ c \in Due /\ core[c].done
  /\ triggers' = triggers \ {c}
  /\ running' = (running /\ stopClock(triggers \ {c}))
  /\ events' = [events EXCEPT ![c] = now + Program[c].clk]
  /\ UNCHANGED <<core, now, finiteRunning, refusals>>

\* clkStep returns when no event is due, and run starts the next one.
Advance ==
  /\ running /\ Due = {}
  /\ now' = CHOOSE t \in {events[c] : c \in Core} : \A c \in Core : t <= events[c]
  /\ UNCHANGED <<core, events, triggers, running, finiteRunning, refusals>>

\* The memory answers an access of a core.
Answer(c) ==
  /\ \E k \in DOMAIN core[c].flying :
       LET s == core[c] IN
       core' = [core EXCEPT ![c] = [s EXCEPT !.flying = RemoveAt(@, k), !.arrived = @ + 1]]
  /\ UNCHANGED <<events, now, triggers, running, finiteRunning, refusals>>

Next == Advance \/ \E c \in Core : cycleProcess(c) \/ Finished(c) \/ Answer(c)

Spec == Init /\ [][Next]_vars

(***************************************************************************)
(* The simulator runs clkStep in a loop, and every access is answered      *)
(* within its latency.                                                     *)
(***************************************************************************)
FairSpec == Spec /\ WF_vars(Next)

-----------------------------------------------------------------------------
(* Properties.                                                              *)

\* The simulation stops only when there is nothing left to do: no access is in flight, no
\* sample is left and every period of every task has been run or reported skipped
\* (coreDone, stopClock).
StopsDrained ==
  ~running => \A c \in Core :
    /\ core[c].sent = 0 /\ core[c].sample = <<>>
    /\ Program[c].mode # "idle" => core[c].next = Len(Body(c))
    /\ Finite(c) /\ Program[c].mode = "task" => core[c].index >= Program[c].jobs

\* A generator outlives the tasks it disturbs: none ends while a core with a finite
\* workload still runs (s_finite_cores_running).
GeneratorsStopLast ==
  \A c, d \in Core : Looping(c) /\ core[c].done /\ Finite(d) => core[d].done

\* A job is released inside its own period: not before it starts, and not when an overrun
\* of the job before has used it up, which counts as skipped (finishJob).
ReleasedInPeriod ==
  \A c \in Core : \A k \in DOMAIN core[c].rows :
    LET r == core[c].rows[k] p == Program[c] IN
    Finite(c) => /\ p.start + r.job * p.period <= r.release
                 /\ r.release < p.start + (r.job + 1) * p.period
                 /\ r.release <= r.finish

\* The simulation comes to an end.
SimulationEnds == <>(~running)
=============================================================================
