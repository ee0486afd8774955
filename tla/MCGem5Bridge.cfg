SPECIFICATION FairSpec
CONSTANTS
  NBridges = 1
  NPorts = 2
  Shapes <- SomeShapes
  Credits = 3
  LinkMax = 3
  MaxPackets = 4
INVARIANTS NoPanic OlderWritesFirst CreditsBoundLink
PROPERTY EveryPacketAnswered
CHECK_DEADLOCK FALSE
