SPECIFICATION FairSpec
CONSTANTS
  Addr = {p1, p2, p3}
  Task = {1, 2}
  MaxCo = 2
  CoIdMod = 5
  Msg = {m1}
  Garbage = Garbage
  Intervals = {1000, 1500}
  ClockStep = 500
  MaxNow = 2000
  NoTimer = NoTimer
INVARIANTS
  TypeOK
  StaleCancelsAreOld
  WaitHasArmedTimer
  ArmedTimerHasWait
  PoolPartition
PROPERTIES
  ImplementsCoWait
  EveryWaitEnds
CHECK_DEADLOCK FALSE
