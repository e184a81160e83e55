---------------------------- MODULE MCRedisCall ----------------------------
(* Redis calls with arguments of none, three, ten and ten thousand bytes,     *)
(* ints of four bits, which the cursors 8 and 16 exceed.                      *)
EXTENDS RedisCall, TLC

MCNumeric == "0" :> 0 @@ "1" :> 1 @@ "8" :> 8 @@ "16" :> 16
=============================================================================
