CONSTANTS
  CntMod = 7
  Phases = 3
  SPM = 3
  MPH = 2
  HPD = 3
  DAYS = 2
  MaxDelta = 3
SPECIFICATION FairClockSpec
INVARIANTS
  ClockExact
  WaitInTicks
PROPERTY WaitReturns
