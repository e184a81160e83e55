----------------------------- MODULE MCTransMgr -----------------------------
(* Small instance of TransMgr: a command with two transactions, one with a  *)
(* single one and one that is not registered.                               *)
EXTENDS TransMgr

CONSTANTS cmdA, cmdB, cmdC

Counts == [cmd \in Cmd |-> CASE cmd = cmdA -> 2 [] cmd = cmdB -> 1
                             [] OTHER -> 0]
=============================================================================
