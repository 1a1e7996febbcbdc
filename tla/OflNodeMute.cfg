CONSTANTS
  NumPackets = 2
  ResetAfter = 120
  MaxLoop = 9
  MaxMisses = 7
  MaxBattery = 9999
  Boards <- DefaultBoards
SPECIFICATION CpuFairSpec
PROPERTY RebootsForever
