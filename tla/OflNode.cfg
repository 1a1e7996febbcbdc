CONSTANTS
  NumPackets = 2
  ResetAfter = 36000
  MaxLoop = 606
  MaxMisses = 6
  MaxBattery = 9999
  Boards <- WidestBoards
SPECIFICATION FairSpec
INVARIANTS
  TypeOK
  PoolConserved
  UptimeBounded
  FrameFits
PROPERTY RebootsForever
