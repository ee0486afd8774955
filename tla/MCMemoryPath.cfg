SPECIFICATION FairSpec
CONSTANTS
  Lines = {l1, l2, l3}
  NCores = 2
  Ways = 1
  Mshr = 2
  TxMax = 2
  QueueMax = 1
  MemLatency = 2
  ReqLatency = 2
  RespLatency = 3
  Arbiter = "RR"
  Memories = {"main", "mcsim", "perfect"}
  MaxFetches = 3
INVARIANTS NoFault FetchConserved WriteBackFirst
PROPERTY FetchAnswered
