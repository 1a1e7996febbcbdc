CONSTANTS
  s1 = s1
  s2 = s2
  Service = {s1, s2}
  Identity <- Identities
  Intervals = {1, 2}
  MINUTE = 1
  DEFAULT_HEARTBEAT_INTERVAL = 1
  CONFIG_HEARTBEAT_INTERVAL = 1
  HUB_DISCOVERY_INTERVAL = 1
  Setters = {s2}
  Configurables = {s1}
  NoService = NoService
  NoBeat = NoBeat
  Garbage = Garbage
  GroupRoom = 6
  MSG_MAX_SIZE = 70
  NoMessage = NoMessage
  Applications <- AllApplications
  ReportOwn = {s2}
  SERVICES = "services"
  CONFIG = "config"
  Habit <- Habits
  Pattern <- Patterns
  Address <- OwnAddress
  OwnPort <- OwnPortText
  MaxStarts = 2
  NoDatagram = NoDatagram
SPECIFICATION Spec
CHECK_DEADLOCK FALSE
PROPERTIES
  GoodbyeBeforeRename
  RestartAnnounces
  SpeaksAsItself
  DeliveredAsAddressed
  EachListenerOnce
  RequestsAnswered
