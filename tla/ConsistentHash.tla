--------------------------- MODULE ConsistentHash ---------------------------
(***************************************************************************)
(* class ConsistentHash (commlib/consistent_hash.hpp).  A node occupies the *)
(* codes its replicas hash to; a key belongs to the node at the largest     *)
(* code that is not above the key's, or, if all are above, at the smallest. *)
(* hash_list_ holds -code; here codes are compared the other way round.     *)
(***************************************************************************)
EXTENDS Integers, FiniteSets

CONSTANTS Node,
          Code,    \* the ring: 32-bit hash codes
          Points   \* the codes of each node's replicas, which may collide

ASSUME PointsAssumption == /\ Code \subseteq Nat
                           /\ Points \in [Node -> SUBSET Code]
                           /\ \A n \in Node : Points[n] # {}

VARIABLES hash_list,  \* hash_list_: the node at each code that is occupied
          members     \* history: the nodes that were added and not removed

vars == <<hash_list, members>>

Occupied == DOMAIN hash_list

\* Mutant of IsOwnerCode: the codes are numbered, and key modulo their number
\* picks one.
IsOwnerCode_Modulo(c, key) ==
  /\ c \in Occupied
  /\ key % Cardinality(Occupied) = Cardinality({d \in Occupied : d < c})

\* The code lower_bound(-key) leads to.
IsOwnerCode(c, key) ==
  /\ c \in Occupied
  /\ \/ c <= key /\ \A d \in Occupied : d <= key => d <= c
     \/ \A d \in Occupied : c <= d /\ key < d

\* GetNode returns n.
GetNode(key, n) == \E c \in Code : IsOwnerCode(c, key) /\ n = hash_list[c]

Init == hash_list = [c \in {} |-> 0] /\ members = {}

\* AddNode: a code that is taken changes hands.
AddNode(n) ==
  /\ hash_list' = [c \in Occupied \cup Points[n] |->
                     IF c \in Points[n] THEN n ELSE hash_list[c]]
  /\ members' = members \cup {n}

\* Mutant of RemoveNode: the loop stops one replica early.
RemoveNode_KeepsLast(n) ==
  /\ hash_list' = [c \in Occupied \ {p \in Points[n] : \E q \in Points[n] : q > p}
                     |-> hash_list[c]]
  /\ members' = members \ {n}

\* Mutant of RemoveNode: erases what lower_bound finds, present or not.
RemoveNode_LowerBound(n) ==
  /\ hash_list' = [c \in {c \in Occupied : \A p \in Points[n] : ~IsOwnerCode(c, p)}
                     |-> hash_list[c]]
  /\ members' = members \ {n}

\* RemoveNode erases n's codes, whoever has them.
RemoveNode(n) ==
  /\ hash_list' = [c \in Occupied \ Points[n] |-> hash_list[c]]
  /\ members' = members \ {n}

Next == \E n \in Node : AddNode(n) \/ RemoveNode(n)

Spec == Init /\ [][Next]_vars

-----------------------------------------------------------------------------
\* No key is sent to a node that was removed, collisions included
\* (consistent_hash.hpp:54-66).
KeysGoToMembers ==
  \A key \in Code, n \in Node : GetNode(key, n) => n \in members

\* A code that only one node hashes to is on the ring exactly when that node is
\* a member.  So without collisions two servers that know the same nodes send a
\* key to the same node, in whatever order they learnt of them.
UnsharedCodesFollowMembers ==
  \A n \in Node : \A c \in Points[n] :
    (\A m \in Node \ {n} : c \notin Points[m]) =>
      /\ c \in Occupied <=> n \in members
      /\ c \in Occupied => hash_list[c] = n

\* A node that joins only takes keys; it moves none between the others.
JoinMovesKeysToNewNode ==
  [][\A n \in Node : AddNode(n) =>
       \A key \in Code, m \in Node :
         GetNode(key, m)' => m = n \/ GetNode(key, m)]_vars

\* When a node leaves, a key stays where it is unless the code that owns it is
\* one of that node's.
LeaveMovesOnlyItsCodes ==
  [][\A n \in Node : RemoveNode(n) =>
       \A key \in Code, m \in Node : \A c \in Occupied \ Points[n] :
         IsOwnerCode(c, key) /\ hash_list[c] = m => GetNode(key, m)']_vars
=============================================================================
