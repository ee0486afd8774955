SPECIFICATION FairSpec
CONSTANTS
  Program <- Workloads
  MaxLatency = 3
  MaxRefusals = 1
  MaxCycle = 30
INVARIANTS StopsDrained GeneratorsStopLast ReleasedInPeriod
PROPERTY SimulationEnds
CHECK_DEADLOCK FALSE
