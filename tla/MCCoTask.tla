------------------------------ MODULE MCCoTask ------------------------------
(* Small instance of CoTask: two coroutines compete for three timer         *)
(* addresses, so that addresses and co_ids are both recycled.               *)
EXTENDS CoTask
=============================================================================
