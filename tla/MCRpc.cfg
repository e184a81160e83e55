CONSTANTS
  Server = {a, b}
  Starter = {a, b}
  MaxTrans = 1
  MaxCalls = 3
  MaxFaults = 2
  NoReq = NoReq
SPECIFICATION FairSpec
INVARIANTS
  WrongAnswerIsLate
PROPERTIES
  ImplementsCallOnce
  EveryTransEnds
CHECK_DEADLOCK FALSE
