CONSTANTS
  MaxCuts = 3
  OtherChan = 11
SPECIFICATION BootSpec
CHECK_DEADLOCK FALSE
INVARIANTS
  RoundTrip
PROPERTY PageNeverLost
