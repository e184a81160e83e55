------------------------------- MODULE MCRpc -------------------------------
(* Small instance of Rpc: two servers with one transaction each, so that a  *)
(* server that calls the other may find it busy calling it.                 *)
EXTENDS Rpc
=============================================================================
