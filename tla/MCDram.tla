------------------------------- MODULE MCDram -------------------------------
(* Every memory system of src/MCsim/system, by its .ini file.              *)
EXTENDS DramController

Ini(name, req, gen, cmd, perReq, perCmd, writeQ) ==
  SetKeys(name, "DDR4", req, gen, cmd, perReq, perCmd, writeQ)
General(name, req, cmd) == Ini(name, req, "OPEN", cmd, FALSE, FALSE, FALSE)
PerRequestor(name, req, gen, cmd) == Ini(name, req, gen, cmd, TRUE, FALSE, FALSE)

Inis ==
  {General("FRFCFS", "FRFCFS", "FRFCFS"), General("FCFS", "FCFS", "FCFS"),
   General("FRFCFS_cap", "FRFCFS_cap", "FRFCFS"), General("BLISS", "BLISS", "FRFCFS"),
   General("PAR-BS", "PARBS", "FRFCFS"),
   Ini("FRFCFS_Batch", "FRFCFS_Batching", "OPEN", "FRFCFS", FALSE, FALSE, TRUE),
   PerRequestor("AMC", "RR", "CLOSE", "FCFS"), PerRequestor("PMC", "PMC", "CLOSE", "FCFS"),
   PerRequestor("MCMC", "MCMC", "MCMC", "FCFS"),
   PerRequestor("RTMem", "RTMem", "CLOSE", "RTMem"),
   Ini("MEDUSA", "MEDUSA", "OPEN", "FCFS", TRUE, FALSE, TRUE),
   PerRequestor("DCmc", "DIRECT", "OPEN", "DCmc"), PerRequestor("MAG", "DIRECT", "OPEN", "MAG"),
   PerRequestor("ReOrder", "DIRECT", "OPEN", "ReOrder"),
   PerRequestor("RankReOrder", "DIRECT", "OPEN", "rankReOrder"),
   PerRequestor("PipeCAS", "DIRECT", "PipeCAS", "PipeCAS"),
   Ini("ORP", "DIRECT", "OPEN", "ORP", TRUE, TRUE, FALSE),
   Ini("ROC", "DIRECT", "OPEN", "ROC", TRUE, TRUE, FALSE),
   Ini("Round", "DIRECT", "ROUND", "Round", TRUE, TRUE, FALSE),
   PerRequestor("RROF", "RROF", "OPEN", "RROF")}

(* Either device behind the two schedulers that depend most on its timing. *)
MCSystems ==
  Inis \cup {[x EXCEPT !.gene = "DDR3"] : x \in {y \in Inis : y.name \in {"FRFCFS", "DCmc"}}}

DDR3Speed == [rcd |-> 2, rp |-> 1, ras |-> 2, rtp |-> 1, wr |-> 2, ccd |-> 1, rtw |-> 2,
              wtr |-> 3, rrd |-> 2, ccdl |-> 1, wtrl |-> 1, rrdl |-> 1, rl |-> 2, wl |-> 2,
              cwl |-> 1, wtrn |-> 1, faw |-> 5]
MCSpeed == [DDR3 |-> DDR3Speed,
            DDR4 |-> [DDR3Speed EXCEPT !.rrd = 1, !.ccdl = 2, !.wtrl = 3, !.rrdl = 2]]

(* Fresh memory, and memory of earlier objects: requestors served before   *)
(* the first round, an entry accepted that no requestor will ever clear.   *)
MCHeaps == {NoHeap, [NoHeap EXCEPT !.service = {0}, !.jump = TRUE, !.count = 3],
            [NoHeap EXCEPT !.considered = {NCores}]}

(* Two rows of bank 0 and one of bank 1; a line written and read by one    *)
(* requestor, a row two requestors share, both kinds of access to a bank.  *)
MCBank == <<0, 0, 1>>
MCRow == <<0, 1, 0>>
Access(c, a, w) == [core |-> c, addr |-> a, write |-> w]
MCOffered == {Access(0, 1, FALSE), Access(0, 1, TRUE), Access(0, 3, FALSE),
              Access(1, 2, FALSE), Access(1, 3, TRUE)}
=============================================================================
