SPECIFICATION Spec
CONSTANTS
  NCores = 2
  NBanks = 2
  NRows = 2
  Burst = 1
  LowWatermark = 2
  HighWatermark = 2
  TimeSlot = 3
  CapSize = 2
  Threshold = 1
  MarkingCap = 2
  MaxRequests = 3
  Systems <- MCSystems
  Speed <- MCSpeed
  Heaps <- MCHeaps
  Offered <- MCOffered
  BankOf <- MCBank
  RowOf <- MCRow
INVARIANTS AccessConserved
PROPERTIES RowOpen OwnOrder Answered
