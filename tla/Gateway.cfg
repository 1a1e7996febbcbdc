CONSTANTS
  LinkMax = 8
  MaxFrames = 2
  NumPackets = 2
  CmdMax = 3
  MaxUpsets = 1
SPECIFICATION FairSpec
CHECK_DEADLOCK FALSE
INVARIANTS
  TypeOK
  RightSource
PROPERTIES
  Relays
  ListensAfterRestarts
  FramesRelayed
