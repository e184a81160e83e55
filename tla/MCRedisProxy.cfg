CONSTANTS
  MaxTrans = 2
  MaxCalls = 4
  MaxFaults = 2
  Empty = Empty
SPECIFICATION FairSpec
INVARIANTS
  TypeOK
  WaitHasCallback
  StateIsLinks
  WrongReplyIsLate
PROPERTIES
  ImplementsCallOnce
  EveryCmdEnds
  ClientHeals
CHECK_DEADLOCK FALSE
