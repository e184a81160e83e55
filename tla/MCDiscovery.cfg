SPECIFICATION FairSpec
CONSTANTS
  a = a
  b = b
  Server = {a, b}
  MaxCo = 2
  MaxBoots = 3
  MaxFaults = 1
INVARIANTS
  WatchChainUnbroken
  StaleOnlyByWindow
  OnlyTimeOutsConfuse
PROPERTIES
  EveryReadingEnds
CHECK_DEADLOCK FALSE
