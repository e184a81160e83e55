CONSTANTS
  WordBytes = 5
  Lengths = {0, 3, 10, 10000}
  Texts = {"a", "1"}
  Numbers = {0, 1, 5}
  MaxElements = 2
  MaxCalls = 2
  IntLimit = 8
  Height = 7
  Numeric <- MCNumeric
SPECIFICATION Spec
INVARIANTS
  CommandIsExact
  CrashNeedsUnassigned
  ResultIsReply
  RepliesAreFreedOnce
CHECK_DEADLOCK FALSE
