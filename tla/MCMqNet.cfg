CONSTANTS
  Req = {r1, r2}
  MaxConn = 3
  MaxFaults = 3
SPECIFICATION FairSpec
INVARIANTS
  UsableMeansReceiving
  UsableLosesNoAnswer
  ExchangeIsThere
PROPERTIES
  SetupEnds
  LostLinkIsReplaced
CHECK_DEADLOCK FALSE
