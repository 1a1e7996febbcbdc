CONSTANTS
  User = {u1}
  Xpl = Xpl
  h1 = h1
  h2 = h2
  Handler = {h1, h2}
  Interval <- Intervals
  SECOND = 2
  Timeouts <- Limits
  Calls = {"removeSelf", "shutdown"}
  MaxArrivals = 2
SPECIFICATION FairSpec
INVARIANT IoTypeOK
PROPERTIES
  OnlyReadyDispatched
  NotEarly
  Returns
  TimersServed
