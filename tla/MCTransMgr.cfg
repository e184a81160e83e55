CONSTANTS
  Addr = {p1, p2, p3}
  Task = {1, 2, 3}
  MaxCo = 3
  CoIdMod = 5
  Msg = {m1}
  Garbage = Garbage
  Intervals = {1000}
  ClockStep = 1000
  MaxNow = 2000
  NoTimer = NoTimer
  cmdA = cmdA
  cmdB = cmdB
  cmdC = cmdC
  Cmd = {cmdA, cmdB, cmdC}
  Count <- Counts
  NoTrans = NoTrans
SPECIFICATION TFairSpec
INVARIANTS
  TransConserved
  CoIsHolder
PROPERTIES
  PoolRefills
CHECK_DEADLOCK FALSE
