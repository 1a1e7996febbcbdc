CONSTANTS
  Port = {p1, p2}
  Ident = {s1, s2}
  Interval <- Announced
  MINUTE = 2
  DEFAULT_INTERVAL = 1
  MAX_INTERVAL = 2
  Copies = {"ascending"}
  NoPort = NoPort
  NoInterval = NoInterval
  NotHeard = NotHeard
SPECIFICATION FairSpec
INVARIANTS
  TypeOK
  OnePerPort
  ListMirrorsHeard
  LiveClientKept
PROPERTIES
  SilentClientDropped
