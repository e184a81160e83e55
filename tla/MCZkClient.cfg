CONSTANTS
  BootLoops = 10
  MaxFaults = 3
  MaxSessions = 3
SPECIFICATION FairSpec
INVARIANTS
  StateIsHandles
PROPERTIES
  LiveSessionIsKept
  BrokenConnectionHeals
CHECK_DEADLOCK FALSE
