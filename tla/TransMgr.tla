------------------------------ MODULE TransMgr ------------------------------
(***************************************************************************)
(* class TransMgr (commlib/trans/trans_mgr.h) with ObjectPool               *)
(* (commlib/object_pool.h) and SvrCommTrans::DoTask                         *)
(* (app/common/svr_comm_trans.cpp).                                         *)
(*                                                                         *)
(* A command has a fixed number of transaction objects.  A request takes    *)
(* one out of the pool and runs it in a coroutine of its own, whose task    *)
(* holds the only shared_ptr to it; freeing the coroutine clears the task   *)
(* and the deleter puts the object back.  The object remembers in _co the   *)
(* coroutine it runs in, for every RPC it makes.                            *)
(***************************************************************************)
EXTENDS CoTask, SequencesExt

CONSTANTS Cmd,     \* commands a message may carry
          Count,   \* RegisterCmd's count; 0 for a command nobody registered
          NoTrans  \* a coroutine without a task

Trans == UNION {{<<cmd, i>> : i \in 1..Count[cmd]} : cmd \in Cmd}

ASSUME CountAssumption == /\ Count \in [Cmd -> Nat]
                          /\ NoTrans \notin Trans

VARIABLES trans_map,  \* TransMgr::trans_map_, each pool with its back last
          held,       \* the transaction captured by Coroutine::task
          trans_co    \* SvrCommTrans::_co, by the co_id of the CoYield

transVars == <<trans_map, held, trans_co>>
allVars   == <<vars, transVars>>

-----------------------------------------------------------------------------
\* RegisterCmd has run for every command before the loop starts.
TInit == /\ Init
         /\ trans_map = [cmd \in Cmd |-> [i \in 1..Count[cmd] |-> <<cmd, i>>]]
         /\ held = [c \in CoId |-> NoTrans]
         /\ trans_co = [t \in Trans |-> NoCo]

\* Mutant of GetShared: the object is used but not taken out of the pool.
GetShared_LeavesIt(cmd, t) ==
  /\ trans_map[cmd] # <<>>
  /\ t = Last(trans_map[cmd])
  /\ UNCHANGED trans_map

\* ObjectPool::get_shared: the object at the back of the pool.
GetShared(cmd, t) ==
  /\ trans_map[cmd] # <<>>
  /\ t = Last(trans_map[cmd])
  /\ trans_map' = [trans_map EXCEPT ![cmd] = Front(@)]

\* Mutant of PutBack: the deleter is lost.
PutBack_Leaks(t) == UNCHANGED trans_map

\* The deleter of that shared_ptr.
PutBack(t) == trans_map' = [trans_map EXCEPT ![t[1]] = Append(@, t)]

\* OnMsg with co_id 0: start a transaction.  With the pool empty the message
\* is dropped and OnMsg returns -1 without an effect.
OnRequest(cmd, m) ==
  \E c \in CoId, t \in Trans :
    /\ GetShared(cmd, t)
    /\ StartWithMsg(c, m)
    /\ held' = [held EXCEPT ![c] = t]
    /\ trans_co' = [trans_co EXCEPT ![t] = c]

\* OnMsg with a co_id: resume that coroutine.  An unknown co_id is dropped.
OnReply(co_id, m) == ResumeOneWithMsg(co_id, m) /\ UNCHANGED transVars

\* Trans::Yield
TYield == /\ \E p \in FreeAddr, i \in Intervals : Yield(p, i)
          /\ UNCHANGED transVars

\* Mutant of TaskEnds: the object keeps its _co.
TaskEnds_KeepsCo ==
  /\ Finish
  /\ PutBack(held[cur])
  /\ held' = [held EXCEPT ![cur] = NoTrans]
  /\ UNCHANGED trans_co

\* SvrCommTrans::DoTask returns, the task's exceptions caught: _co is reset;
\* then ~CoYield frees the coroutine, whose cleared task drops the shared_ptr.
TaskEnds ==
  /\ Finish
  /\ PutBack(held[cur])
  /\ held' = [held EXCEPT ![cur] = NoTrans]
  /\ trans_co' = [trans_co EXCEPT ![held[cur]] = NoCo]

\* TickTimeOutCo
TickTimeOutCo == Tick /\ UNCHANGED transVars

TClock == Clock /\ UNCHANGED transVars

TNext == \/ \E cmd \in Cmd, m \in Msg : OnRequest(cmd, m)
         \/ \E c \in CoId, m \in Msg : OnReply(c, m)
         \/ TYield \/ TaskEnds
         \/ TickTimeOutCo
         \/ TClock

TSpec == TInit /\ [][TNext]_allVars

\* As CoTask's FairSpec; a task that runs goes on, and since the clock is
\* bounded it waits finitely often, so it ends.
TFairSpec == /\ TSpec
             /\ SF_allVars(TickStart /\ UNCHANGED transVars)
             /\ WF_allVars(/\ \E n \in todo : TickSkipOne(n) \/ TickFireOne(n)
                           /\ UNCHANGED transVars)
             /\ WF_allVars(TickFinish /\ UNCHANGED transVars)
             /\ WF_allVars(TYield \/ TaskEnds)
             /\ WF_allVars(TClock)

-----------------------------------------------------------------------------
TTypeOK == /\ trans_map \in [Cmd -> Seq(Trans)]
           /\ held \in [CoId -> Trans \cup {NoTrans}]
           /\ trans_co \in [Trans -> CoId \cup {NoCo}]

InPool(t) == {i \in 1..Len(trans_map[t[1]]) : trans_map[t[1]][i] = t}
Holders(t) == {c \in CoId : held[c] = t}

\* Every transaction object is in one place: once in its own pool, or held by
\* one coroutine.  Neither a time-out nor a late message can lose one or hand
\* one to two requests (object_pool.h:30-41, trans_mgr.h:47-54).
TransConserved ==
  \A t \in Trans :
    \/ (\E i \in InPool(t) : InPool(t) = {i}) /\ Holders(t) = {}
    \/ InPool(t) = {} /\ \E c \in CoId : Holders(t) = {c}

\* The coroutines that hold a transaction are those that are active, and each
\* transaction's _co is the coroutine it runs in: an RPC yields, and is
\* answered to, its own coroutine (svr_comm_trans.cpp:16-28, 53, 61).
CoIsHolder ==
  /\ \A c \in CoId : c \in action_coroutine <=> held[c] # NoTrans
  /\ \A t \in Trans, c \in CoId : trans_co[t] = c <=> held[c] = t

\* A pool holds only its own command's objects, each once, and exactly those
\* that run in no coroutine.
PoolsWellFormed ==
  /\ \A cmd \in Cmd : \A i, j \in 1..Len(trans_map[cmd]) :
       /\ trans_map[cmd][i][1] = cmd
       /\ trans_map[cmd][i] = trans_map[cmd][j] => i = j
  /\ \A t \in Trans : InPool(t) # {} <=> trans_co[t] = NoCo

\* The inductive invariant behind TransConserved.
TInv == TTypeOK /\ PoolsWellFormed /\ CoIsHolder

\* A request that finds its pool empty is dropped, but not for ever: every
\* transaction ends and gives its object back (trans_mgr.h:47-51).
PoolRefills ==
  \A cmd \in Cmd : Count[cmd] > 0 =>
    (trans_map[cmd] = <<>> ~> trans_map[cmd] # <<>>)
=============================================================================
