SPECIFICATION FairSpec
CONSTANTS
  Nets <- Topologies
  Latency <- Latencies
  MaxMsgs = 3
INVARIANT CopiesConserved
PROPERTIES Implements Delivered
CHECK_DEADLOCK FALSE
