CONSTANTS
  n1 = n1
  n2 = n2
  n3 = n3
  n4 = n4
  n5 = n5
  Node <- Nodes
  Code = {0, 1, 2, 3, 4, 5, 6, 7, 8, 9}
  Points <- NodePoints
SPECIFICATION Spec
INVARIANTS
  KeysGoToMembers
  UnsharedCodesFollowMembers
PROPERTIES
  JoinMovesKeysToNewNode
  LeaveMovesOnlyItsCodes
