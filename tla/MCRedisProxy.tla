---------------------------- MODULE MCRedisProxy ----------------------------
(* Small instance of RedisProxy: two transactions, four requests.           *)
EXTENDS RedisProxy
=============================================================================
