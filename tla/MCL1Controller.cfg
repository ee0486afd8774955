SPECIFICATION FairSpec
CONSTANTS
  Lines = {l1, l2}
  l1 = l1
  l2 = l2
  Ways = 1
  PqSize = 2
  NumMshr = 1
  Arrays = {"instant", "occupancy", "pipelined"}
  Ports = 1
  ArrayLatency = 2
  StoresCarryData = FALSE
  MaxDemands = 4
  MaxSnoops = 1
INVARIANTS CleanMeansIdle DemandConserved NoOrphanEviction SameLineOrder
PROPERTY EveryDemandAnswered
