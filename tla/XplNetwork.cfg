CONSTANTS
  Service = {s1, s2}
  Identity = {a}
  Intervals = {2}
  MINUTE = 1
  DEFAULT_HEARTBEAT_INTERVAL = 2
  CONFIG_HEARTBEAT_INTERVAL = 2
  HUB_DISCOVERY_INTERVAL = 1
  Setters = {}
  Configurables = {s1}
  NoService = NoService
  NoBeat = NoBeat
  Garbage = Garbage
  MAX_INTERVAL = 2
  DEFAULT_INTERVAL = 2
  NoPort = NoPort
  NoInterval = NoInterval
  NotHeard = NotHeard
  MaxNet = 2
  Lossy = TRUE
SPECIFICATION FairSpec
INVARIANTS
  ServiceReachable
PROPERTY HubFound
