SPECIFICATION Spec
CONSTANTS
  Protocols = {"MSI"}
  NCores = 3
  ReqLatency = 3
  RespLatency = 5
  MaxOps = 1
  L1Evicts = 1
  LLCEvicts = 1
  Fcfs = TRUE
  MaxRefusals = 0
  Full <- NoneFull
INVARIANT NoFault
