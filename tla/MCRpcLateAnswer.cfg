CONSTANTS
  Server = {a, b}
  Starter = {a}
  MaxTrans = 2
  MaxCalls = 2
  MaxFaults = 0
  NoReq = NoReq
SPECIFICATION Spec
INVARIANTS
  RpcReturnsItsAnswer
CHECK_DEADLOCK FALSE
