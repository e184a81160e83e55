----------------------------- MODULE MCZkClient -----------------------------
(* Init with its ten polls, three faults and three sessions.                  *)
EXTENDS ZkClient
=============================================================================
