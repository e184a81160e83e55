------------------------ MODULE ConsistentHashProofs ------------------------
(***************************************************************************)
(* Proofs about ConsistentHash, for any nodes, any ring and any hash        *)
(* function, with or without collisions.                                    *)
(***************************************************************************)
EXTENDS ConsistentHash, TLAPS

\* A code on the ring is one of the codes of the member it belongs to, and a
\* member has every code that it does not share.
HashInv == /\ Occupied \subseteq Code
           /\ \A c \in Occupied : /\ hash_list[c] \in Node
                                  /\ hash_list[c] \in members
                                  /\ c \in Points[hash_list[c]]
           /\ UnsharedCodesFollowMembers

LEMMA HashInit == Init => HashInv
  BY DEF Init, HashInv, Occupied, UnsharedCodesFollowMembers

LEMMA HashAdd == ASSUME HashInv, NEW n \in Node, AddNode(n) PROVE HashInv'
<1>1. /\ Occupied' = Occupied \cup Points[n]
      /\ \A c \in Occupied' :
           hash_list'[c] = IF c \in Points[n] THEN n ELSE hash_list[c]
  BY DEF AddNode, Occupied
<1>2. Points[n] \subseteq Code
  BY PointsAssumption
<1>3. \A c \in Occupied' : /\ hash_list'[c] \in Node
                           /\ hash_list'[c] \in members'
                           /\ c \in Points[hash_list'[c]]
  BY <1>1 DEF HashInv, AddNode
<1>4. UnsharedCodesFollowMembers'
  BY <1>1 DEF HashInv, AddNode, UnsharedCodesFollowMembers
<1> QED BY <1>1, <1>2, <1>3, <1>4 DEF HashInv

LEMMA HashRemove == ASSUME HashInv, NEW n \in Node, RemoveNode(n) PROVE HashInv'
<1>1. /\ Occupied' = Occupied \ Points[n]
      /\ \A c \in Occupied' : hash_list'[c] = hash_list[c]
  BY DEF RemoveNode, Occupied
<1>2. \A c \in Occupied' : /\ hash_list'[c] \in Node
                           /\ hash_list'[c] \in members'
                           /\ c \in Points[hash_list'[c]]
  BY <1>1 DEF HashInv, RemoveNode
<1>3. UnsharedCodesFollowMembers'
  BY <1>1 DEF HashInv, RemoveNode, UnsharedCodesFollowMembers
<1> QED BY <1>1, <1>2, <1>3 DEF HashInv

THEOREM HashInvariance == Spec => []HashInv
<1>1. HashInv /\ [Next]_vars => HashInv'
  <2> SUFFICES ASSUME HashInv, [Next]_vars PROVE HashInv'
    OBVIOUS
  <2>1. CASE UNCHANGED vars
    BY <2>1 DEF vars, HashInv, Occupied, UnsharedCodesFollowMembers
  <2>2. CASE Next
    BY <2>2, HashAdd, HashRemove DEF Next
  <2> QED BY <2>1, <2>2
<1> QED BY <1>1, HashInit, PTL DEF Spec

\* consistent_hash.hpp:42-66: a key is never sent to a node that was removed.
THEOREM RemovedNodesGetNoKeys == Spec => []KeysGoToMembers
<1>1. HashInv => KeysGoToMembers
  BY DEF HashInv, KeysGoToMembers, GetNode, IsOwnerCode
<1> QED BY <1>1, HashInvariance, PTL

\* consistent_hash.hpp:54-66: where no codes collide, the ring depends on the
\* members only.
THEOREM RingFollowsMembers == Spec => []UnsharedCodesFollowMembers
  BY HashInvariance, PTL DEF HashInv

\* consistent_hash.hpp:54-59: AddNode moves keys to the new node only.
THEOREM JoinMovesFewKeys == Spec => JoinMovesKeysToNewNode
<1>1. ASSUME HashInv, NEW n \in Node, AddNode(n),
             NEW key \in Code, NEW m \in Node, GetNode(key, m)'
      PROVE  m = n \/ GetNode(key, m)
  <2>1. PICK c \in Code : IsOwnerCode(c, key)' /\ m = hash_list'[c]
    BY <1>1 DEF GetNode
  <2>2. /\ Occupied' = Occupied \cup Points[n]
        /\ \A d \in Occupied' :
             hash_list'[d] = IF d \in Points[n] THEN n ELSE hash_list[d]
    BY <1>1 DEF AddNode, Occupied
  <2>3. CASE c \in Points[n]
    BY <2>1, <2>2, <2>3 DEF IsOwnerCode
  <2>4. CASE c \notin Points[n]
    BY <2>1, <2>2, <2>4 DEF IsOwnerCode, GetNode
  <2> QED BY <2>3, <2>4
<1>2. HashInv => [\A n \in Node : AddNode(n) =>
                    \A key \in Code, m \in Node :
                      GetNode(key, m)' => m = n \/ GetNode(key, m)]_vars
  BY <1>1
<1> QED BY <1>2, HashInvariance, PTL DEF JoinMovesKeysToNewNode

\* consistent_hash.hpp:61-66: RemoveNode moves no key whose code stays.
THEOREM LeaveMovesFewKeys == Spec => LeaveMovesOnlyItsCodes
<1>1. ASSUME HashInv, NEW n \in Node, RemoveNode(n), NEW key \in Code,
             NEW m \in Node, NEW c \in Occupied \ Points[n],
             IsOwnerCode(c, key), hash_list[c] = m
      PROVE  GetNode(key, m)'
  <2>1. /\ Occupied' = Occupied \ Points[n]
        /\ \A d \in Occupied' : hash_list'[d] = hash_list[d]
    BY <1>1 DEF RemoveNode, Occupied
  <2>2. IsOwnerCode(c, key)'
    BY <1>1, <2>1 DEF IsOwnerCode
  <2> QED BY <1>1, <2>1, <2>2 DEF GetNode, HashInv
<1>2. HashInv => [\A n \in Node : RemoveNode(n) =>
                    \A key \in Code, m \in Node : \A c \in Occupied \ Points[n] :
                      IsOwnerCode(c, key) /\ hash_list[c] = m
                        => GetNode(key, m)']_vars
  BY <1>1
<1> QED BY <1>2, HashInvariance, PTL DEF LeaveMovesOnlyItsCodes
=============================================================================
