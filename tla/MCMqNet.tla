------------------------------ MODULE MCMqNet ------------------------------
(* Small instance of MqNet: three connections, so that a queue can outlive  *)
(* its connection while a second is refused and a third gets it.            *)
EXTENDS MqNet
=============================================================================
