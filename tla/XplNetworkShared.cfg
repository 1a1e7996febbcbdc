CONSTANTS
  Service = {s1, s2}
  Identity = {a}
  Intervals = {1, 4}
  MINUTE = 1
  DEFAULT_HEARTBEAT_INTERVAL = 1
  CONFIG_HEARTBEAT_INTERVAL = 1
  HUB_DISCOVERY_INTERVAL = 1
  Setters = {}
  Configurables = {s1}
  NoService = NoService
  NoBeat = NoBeat
  Garbage = Garbage
  MAX_INTERVAL = 4
  DEFAULT_INTERVAL = 1
  NoPort = NoPort
  NoInterval = NoInterval
  NotHeard = NotHeard
  MaxNet = 2
  Lossy = FALSE
SPECIFICATION Spec
INVARIANT ServiceReachable
