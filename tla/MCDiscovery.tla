---------------------------- MODULE MCDiscovery ----------------------------
(* Instances of Discovery for TLC: two servers. *)
EXTENDS Discovery
=============================================================================
