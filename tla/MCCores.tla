------------------------------ MODULE MCCores -------------------------------
(* Cores for TLC: a trace, a task that overruns its periods, a generator and an idle core. *)
EXTENDS Cores

Compute(n) == [kind |-> "COMPUTE", n |-> n]
Access(n) == [kind |-> "ACCESS", n |-> n]

Trace ==
  [mode |-> "trace", clk |-> 1, window |-> 2, rows |-> <<Access(1), Compute(1), Access(2)>>,
   period |-> 0, jobs |-> 0, start |-> 0, deadline |-> 0]
Task ==
  [mode |-> "task", clk |-> 1, window |-> 2, rows |-> <<Compute(1), Access(2), Compute(1)>>,
   period |-> 3, jobs |-> 4, start |-> 1, deadline |-> 2]
Generator ==
  [mode |-> "task", clk |-> 2, window |-> 1, rows |-> <<Access(1)>>,
   period |-> 1, jobs |-> -1, start |-> 0, deadline |-> 0]
Idle ==
  [mode |-> "idle", clk |-> 1, window |-> 1, rows |-> <<>>, period |-> 0,
   jobs |-> 0, start |-> 0, deadline |-> 0]
Workloads == <<Trace, Task, Generator, Idle>>
=============================================================================
