SPECIFICATION FairSpec
CONSTANTS
  a = a
  b = b
  Server = {a, b}
  MaxCo = 2
  MaxBoots = 2
  MaxFaults = 0
PROPERTIES
  EveryServerRegisters
CHECK_DEADLOCK FALSE
