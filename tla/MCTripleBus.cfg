SPECIFICATION FairSpec
CONSTANTS
  N = 3
  BufMax = 1
  Reserve = 0
  ReqLatency = 2
  RespLatency = 1
  Arbiter = "TDM"
  MaxMsgs = 2
  MaxCycle = 0
INVARIANTS SameOrder AtomicBroadcast NoLossNoDuplicate
PROPERTY EveryRequestObserved
CHECK_DEADLOCK FALSE
