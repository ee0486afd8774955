SPECIFICATION FairSpec
CONSTANTS
  Protocols = {"MSI", "MESI"}
  NCores = 2
  ReqLatency = 1
  RespLatency = 1
  MaxOps = 2
  L1Evicts = 1
  LLCEvicts = 1
  Fcfs = FALSE
  MaxRefusals = 0
  Full <- FirstL1Full
INVARIANTS NoFault Coherent OneAnswer Settled
PROPERTY ComesToRest
