CONSTANTS
  NCores = 3
  Configs <- MCConfigs
SPECIFICATION FairSpec
\* The workload is bounded: a behaviour ends when all is quiet, and Settles says it does.
CHECK_DEADLOCK FALSE
INVARIANTS
  NoFault
  AckConservation
  DirectoryExact
PROPERTIES
  Implements
  Settles
