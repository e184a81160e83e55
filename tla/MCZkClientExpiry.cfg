CONSTANTS
  BootLoops = 10
  MaxFaults = 2
  MaxSessions = 3
SPECIFICATION FairSpec
PROPERTIES
  ExpiredClientReconnects
CHECK_DEADLOCK FALSE
