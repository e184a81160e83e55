-------------------------- MODULE MCConsistentHash --------------------------
(* Five nodes of two replicas on a ring of ten codes; three of the codes    *)
(* belong to two nodes each.                                                *)
EXTENDS ConsistentHash

CONSTANTS n1, n2, n3, n4, n5

Nodes == {n1, n2, n3, n4, n5}
NodePoints == [n \in Nodes |->
                 CASE n = n1 -> {1, 6} [] n = n2 -> {2, 6} [] n = n3 -> {4, 8}
                   [] n = n4 -> {4, 9} [] n = n5 -> {2, 7}]
=============================================================================
