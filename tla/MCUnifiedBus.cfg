SPECIFICATION FairSpec
CONSTANTS
  N = 3
  BufMax = 3
  ReqLatency = 2
  RespLatency = 3
  Arbiter = "TDM"
  MaxMsgs = 3
INVARIANTS RequestProgramOrder
PROPERTY EveryRequestBroadcast
