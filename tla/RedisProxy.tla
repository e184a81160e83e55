----------------------------- MODULE RedisProxy -----------------------------
(***************************************************************************)
(* The server other servers reach Redis through: RedisClient and RedisCmd   *)
(* (app/redissvr/redis_client.{h,cpp}) and TransRedisCmd (main.cpp).        *)
(*                                                                         *)
(* A request starts a transaction, which hands its command to hiredis and   *)
(* waits; everything from there to the answer runs without another wait.    *)
(* hiredis is external: it keeps the callbacks of a connection in the order *)
(* of the commands and calls one for each reply, or all of them without a   *)
(* reply when the connection is freed.  A callback only knows the address   *)
(* of a CoYield.  That is on a coroutine's stack, always at the same place, *)
(* so it names whatever task has the coroutine when the callback is called. *)
(***************************************************************************)
EXTENDS Integers, Sequences

CONSTANTS MaxTrans,   \* RegisterSvrTrans's count: 10000
          MaxCalls,   \* bound: requests that arrive
          MaxFaults,  \* bound: failed or broken connections, refused commands
          Empty       \* the answer that carries no reply

ASSUME ProxyAssumption == /\ MaxTrans \in Nat \ {0} /\ MaxCalls \in Nat
                          /\ MaxFaults \in Nat
                          /\ Empty \notin Int

Call == 1..MaxCalls   \* requests, by the order in which they arrive
CoId == 1..MaxTrans

\* kUnset: the uninitialised state_ holds none of the enumerators.
ClientState == {"kConnecting", "kConnected", "kDisConnecting", "kDisConnected",
                "kExpired", "kUnset"}

\* none: context_ is null or freed; freeing: hiredis calls its callbacks.
Link == {"none", "connecting", "connected", "freeing"}

\* A callback hiredis owes: the command, the coroutine its CoYield is in, and
\* whether Redis has executed the command.
Callback == [id : Call, co : CoId, done : BOOLEAN]

VARIABLES state,     \* ClientBase::state_
          link,      \* the connection of context_
          pending,   \* hiredis: the callbacks of this connection
          waits,     \* the command a coroutine waits for, or 0 if it is free
          free,      \* CoPool::free_coroutine
          inc,       \* CoPool::inc_co_id
          faults,    \* faults so far
          issued,    \* history: requests that arrived
          executed,  \* history: how often Redis executed a command
          got,       \* history: the command whose reply a request was answered
                     \* with, Empty, or 0 if it was not answered
          co_of,     \* history: the coroutine that served a request, or 0
          timed_out, \* history: commands whose wait timed out
          tried      \* history: this process has begun to connect

coVars  == <<waits, free, inc>>
history == <<issued, executed, got, co_of, timed_out>>
vars    == <<state, link, pending, coVars, faults, history, tried>>

-----------------------------------------------------------------------------
\* A process that has just started: nothing sets state_.
Boot == /\ state' \in ClientState
        /\ link' = "none"
        /\ pending' = <<>>
        /\ waits' = [c \in CoId |-> 0]
        /\ free' = <<>>
        /\ inc' = 0
        /\ tried' = FALSE

Init == /\ state \in ClientState
        /\ link = "none"
        /\ pending = <<>>
        /\ waits = [c \in CoId |-> 0]
        /\ free = <<>>
        /\ inc = 0
        /\ faults = 0
        /\ issued = 0
        /\ executed = [id \in Call |-> 0]
        /\ got = [id \in Call |-> 0]
        /\ co_of = [id \in Call |-> 0]
        /\ timed_out = {}
        /\ tried = FALSE

Fault == faults < MaxFaults /\ faults' = faults + 1

\* hiredis is not in the middle of freeing a connection.
InMainLoop == link # "freeing"

-----------------------------------------------------------------------------
NotNeedReconnect == state \in {"kConnected", "kConnecting", "kDisConnecting"}

\* Reconnect, at start and once a second.  redisAsyncConnect may fail at once;
\* then state_ is left as it is.
Reconnect ==
  /\ InMainLoop
  /\ ~NotNeedReconnect
  /\ tried' = TRUE
  /\ \/ /\ link' = "connecting"
        /\ state' = "kConnecting"
        /\ UNCHANGED faults
     \/ /\ Fault
        /\ link' = "none"
        /\ UNCHANGED state
  /\ UNCHANGED <<pending, coVars, history>>

\* ConnectCallback; hiredis frees a connection that failed.
ConnectCallback(status) ==
  /\ link = "connecting"
  /\ \/ /\ status = "REDIS_OK"
        /\ link' = "connected"
        /\ state' = "kConnected"
        /\ UNCHANGED faults
     \/ /\ status = "REDIS_ERR"
        /\ Fault
        /\ link' = "none"
        /\ state' = "kDisConnected"
  /\ UNCHANGED <<pending, coVars, history, tried>>

\* The connection breaks: hiredis frees it, beginning with the callbacks.
Break == /\ link = "connected"
         /\ Fault
         /\ link' = "freeing"
         /\ UNCHANGED <<state, pending, coVars, history, tried>>

\* Mutant of DisconnectCallback: the state for a disconnection under way.
DisconnectCallback_Disconnecting ==
  /\ link = "freeing"
  /\ pending = <<>>
  /\ link' = "none"
  /\ state' = "kDisConnecting"
  /\ UNCHANGED <<pending, coVars, faults, history, tried>>

\* Mutant of DisconnectCallback: nothing is done unless there is an error.
DisconnectCallback_NoState ==
  /\ link = "freeing"
  /\ pending = <<>>
  /\ link' = "none"
  /\ UNCHANGED <<state, pending, coVars, faults, history, tried>>

\* DisconnectCallback, whatever the status; then the context is gone.
DisconnectCallback ==
  /\ link = "freeing"
  /\ pending = <<>>
  /\ link' = "none"
  /\ state' = "kDisConnected"
  /\ UNCHANGED <<pending, coVars, faults, history, tried>>

-----------------------------------------------------------------------------
\* CoPool::NewCoroutine: the coroutine it gives, what is free afterwards, and
\* inc_co_id afterwards.
NewCo   == IF free = <<>> THEN inc + 1 ELSE Head(free)
RestCo  == IF free = <<>> THEN <<>> ELSE Tail(free)
NewInc  == IF free = <<>> THEN inc + 1 ELSE inc
HasTrans == free # <<>> \/ inc < MaxTrans

\* Mutant of Owed: the CoYield of the client, not of the command, is passed.
Owed_SharedYield(id, c) ==
  Append([i \in DOMAIN pending |-> [pending[i] EXCEPT !.co = c]],
         [id |-> id, co |-> c, done |-> FALSE])

\* Mutant of Owed: the command is sent formatted, and again as an argument
\* vector.
Owed_Twice(id, c) ==
  LET e == [id |-> id, co |-> c, done |-> FALSE]
  IN  Append(Append(pending, e), e)

\* redisAsyncFormattedCommand, redisAsyncCommandArgv with GetCallback
Owed(id, c) == Append(pending, [id |-> id, co |-> c, done |-> FALSE])

\* The request that arrives next starts a transaction.
Arrives == /\ InMainLoop
           /\ issued < MaxCalls
           /\ issued' = issued + 1
           /\ UNCHANGED <<executed, timed_out>>

\* The command is sent: the transaction waits.
CmdSent == /\ Arrives
           /\ HasTrans
           /\ state = "kConnected"
           /\ link = "connected"
           /\ pending' = Owed(issued + 1, NewCo)
           /\ waits' = [waits EXCEPT ![NewCo] = issued + 1]
           /\ co_of' = [co_of EXCEPT ![issued + 1] = NewCo]
           /\ free' = RestCo
           /\ inc' = NewInc
           /\ UNCHANGED <<state, link, faults, got, tried>>

\* Mutant of CmdRefused: what hiredis returns is not looked at.
CmdRefused_Ignored ==
  /\ Arrives
  /\ HasTrans
  /\ state = "kConnected" /\ link = "connected"
  /\ Fault
  /\ waits' = [waits EXCEPT ![NewCo] = issued + 1]
  /\ co_of' = [co_of EXCEPT ![issued + 1] = NewCo]
  /\ free' = RestCo
  /\ inc' = NewInc
  /\ UNCHANGED <<state, link, pending, got, tried>>

\* FormattedCmd and Cmd return nothing: the client is not connected, or hiredis
\* refuses the command.  The transaction answers at once and ends.
CmdRefused ==
  /\ Arrives
  /\ HasTrans
  /\ \/ state # "kConnected" /\ UNCHANGED faults
     \/ state = "kConnected" /\ link = "connected" /\ Fault
  /\ got' = [got EXCEPT ![issued + 1] = Empty]
  /\ co_of' = [co_of EXCEPT ![issued + 1] = NewCo]
  /\ free' = Append(RestCo, NewCo)
  /\ inc' = NewInc
  /\ UNCHANGED <<state, link, pending, waits, tried>>

\* TransMgr::OnMsg has no transaction left: the request is not answered.
Dropped == /\ Arrives
           /\ ~HasTrans
           /\ UNCHANGED <<state, link, pending, coVars, faults, got, co_of, tried>>

\* state_ says connected and there is no context: hiredis follows a null
\* pointer, and supervisor starts the server again.
Crash == /\ Arrives
         /\ HasTrans
         /\ state = "kConnected"
         /\ link \notin {"connected", "freeing"}
         /\ Boot
         /\ UNCHANGED <<faults, got, co_of>>

OnRequest == CmdSent \/ CmdRefused \/ Dropped \/ Crash

-----------------------------------------------------------------------------
\* Mutant of Answers: the coroutine is given back under no id.
Answers_NoId(c, r) ==
  /\ got' = [got EXCEPT ![waits[c]] = r]
  /\ waits' = [waits EXCEPT ![c] = 0]
  /\ free' = Append(free, 0)
  /\ UNCHANGED inc

\* The transaction of c wakes with the reply r, or with Empty for an exception
\* or nil: it answers its request and ends.
Answers(c, r) ==
  /\ got' = [got EXCEPT ![waits[c]] = r]
  /\ waits' = [waits EXCEPT ![c] = 0]
  /\ free' = Append(free, c)
  /\ UNCHANGED inc

\* GetCallback: ResumeOneWithMsg through the address of the CoYield.  Nothing
\* happens if no task has that coroutine.
GetCallback(e, r) == IF waits[e.co] # 0 THEN Answers(e.co, r)
                                        ELSE UNCHANGED <<coVars, got>>

\* Redis executes the commands of a connection in their order.
Execute(i) ==
  /\ link = "connected"
  /\ i \in DOMAIN pending
  /\ ~pending[i].done
  /\ \A j \in 1..(i - 1) : pending[j].done
  /\ pending' = [pending EXCEPT ![i].done = TRUE]
  /\ executed' = [executed EXCEPT ![pending[i].id] = @ + 1]
  /\ UNCHANGED <<state, link, coVars, faults, issued, got, co_of, timed_out, tried>>

\* The next reply of Redis arrives: a value, or an error or nil.
Reply ==
  /\ link = "connected"
  /\ pending # <<>>
  /\ Head(pending).done
  /\ pending' = Tail(pending)
  /\ \E r \in {Head(pending).id, Empty} : GetCallback(Head(pending), r)
  /\ UNCHANGED <<state, link, faults, issued, executed, co_of, timed_out, tried>>

\* A connection that is freed owes a callback: it is called with no reply.
NullReply ==
  /\ link = "freeing"
  /\ pending # <<>>
  /\ pending' = Tail(pending)
  /\ GetCallback(Head(pending), Empty)
  /\ UNCHANGED <<state, link, faults, issued, executed, co_of, timed_out, tried>>

\* Mutant of TimeOut: the task waits once more for the reply.
TimeOut_WaitsAgain(c) ==
  /\ InMainLoop
  /\ waits[c] # 0
  /\ timed_out' = timed_out \cup {waits[c]}
  /\ UNCHANGED <<state, link, pending, coVars, faults, issued, executed, got,
                 co_of, tried>>

\* No reply within 5 s: Yield throws "yield failed" in the task.
TimeOut(c) ==
  /\ InMainLoop
  /\ waits[c] # 0
  /\ Answers(c, Empty)
  /\ timed_out' = timed_out \cup {waits[c]}
  /\ UNCHANGED <<state, link, pending, faults, issued, executed, co_of, tried>>

OnReply == Reply \/ NullReply

Next == \/ Reconnect
        \/ \E status \in {"REDIS_OK", "REDIS_ERR"} : ConnectCallback(status)
        \/ Break \/ DisconnectCallback
        \/ OnRequest \/ OnReply
        \/ \E i \in DOMAIN pending : Execute(i)
        \/ \E c \in CoId : TimeOut(c)

Spec == Init /\ [][Next]_vars

\* The loop comes round to its timers; a connection that is being freed is
\* freed; an attempt to connect ends.  Nothing is assumed of Redis's replies.
FairSpec == /\ Spec
            /\ WF_vars(Reconnect)
            /\ WF_vars(ConnectCallback("REDIS_OK"))
            /\ WF_vars(NullReply) /\ WF_vars(DisconnectCallback)
            /\ \A c \in CoId : SF_vars(TimeOut(c))

-----------------------------------------------------------------------------
TypeOK ==
  /\ state \in ClientState
  /\ link \in Link
  /\ pending \in Seq(Callback)
  /\ waits \in [CoId -> Call \cup {0}]
  /\ free \in Seq(CoId)
  /\ inc \in 0..MaxTrans
  /\ faults \in 0..MaxFaults
  /\ issued \in 0..MaxCalls
  /\ executed \in [Call -> Nat]
  /\ got \in [Call -> Call \cup {0, Empty}]
  /\ co_of \in [Call -> CoId \cup {0}]
  /\ timed_out \subseteq Call
  /\ tried \in BOOLEAN

\* A transaction that waits is owed the callback of its command, by a
\* connection that exists: no wait is left to its time-out because the
\* connection broke (redis_client.cpp:10-15, 80-113).
WaitHasCallback ==
  \A c \in CoId : waits[c] # 0 =>
    /\ link \in {"connected", "freeing"}
    /\ \E i \in DOMAIN pending : pending[i].id = waits[c] /\ pending[i].co = c

\* Once the process has tried to connect, state_ says connected exactly while
\* hiredis has a connection: no command is given to a context that was freed
\* or replaced (redis_client.cpp:17-35, 44-69).
StateIsLinks ==
  /\ tried /\ state = "kConnected" => link \in {"connected", "freeing"}
  /\ link \in {"connected", "freeing"} => state = "kConnected"
  /\ link = "connecting" => state = "kConnecting"

\* A request is answered with the reply to another command only if that one is
\* earlier, went through the same coroutine, and a wait of that coroutine timed
\* out, at that command or before (redis_client.cpp:10-15, 80-96).
WrongReplyIsLate ==
  \A id \in Call : got[id] \in Call \ {id} =>
    /\ got[id] < id
    /\ co_of[got[id]] = co_of[id]
    /\ \E late \in timed_out : late <= got[id] /\ co_of[late] = co_of[id]

\* Redis executes a request's command at most once, and a reply answers one
\* request (redis_client.cpp:99-135, main.cpp:26-46).
answerBar == [id \in Call |-> IF got[id] \in Call THEN got[id] ELSE 0]
Calls == INSTANCE CallOnce WITH answer <- answerBar
ImplementsCallOnce == Calls!Spec

-----------------------------------------------------------------------------
(* The inductive invariant behind these. *)

Owes == DOMAIN pending

\* A coroutine that is free, or was never made, serves no request.
PoolInv ==
  /\ \A j \in DOMAIN free : free[j] <= inc /\ waits[free[j]] = 0
  /\ \A j, k \in DOMAIN free : free[j] = free[k] => j = k
  /\ \A c \in CoId : c > inc => waits[c] = 0

\* hiredis owes callbacks in the order of the requests.
InOrder ==
  /\ \A i, j \in Owes : i < j => pending[i].id < pending[j].id
  /\ \A i \in Owes : /\ pending[i].id <= issued
                     /\ co_of[pending[i].id] = pending[i].co

WaitsKnown == \A c \in CoId : waits[c] # 0 =>
                waits[c] <= issued /\ co_of[waits[c]] = c /\ got[waits[c]] = 0

GotKnown == \A id \in Call : got[id] # 0 => id <= issued

\* A wait of coroutine c timed out, at the command id or before.
LateAt(c, id) == \E late \in timed_out : late <= id /\ co_of[late] = c

\* A callback is owed to the command its coroutine waits for, or it is late.
LateOrAwaited ==
  \A i \in Owes :
    /\ waits[pending[i].co] = pending[i].id \/ LateAt(pending[i].co, pending[i].id)
    /\ waits[pending[i].co] # 0 => pending[i].id <= waits[pending[i].co]

\* A command that is owed a callback was executed once or not yet, and its
\* reply has answered nothing; a request to come has left no trace.
ExecutedOnce ==
  /\ \A i \in Owes : /\ executed[pending[i].id] = IF pending[i].done THEN 1 ELSE 0
                     /\ \A id \in Call : got[id] # pending[i].id
  /\ \A id \in Call : id > issued => executed[id] = 0

IInv == /\ TypeOK /\ StateIsLinks /\ PoolInv /\ InOrder /\ WaitsKnown /\ GotKnown
        /\ WaitHasCallback /\ LateOrAwaited /\ WrongReplyIsLate /\ ExecutedOnce

-----------------------------------------------------------------------------
\* Every command that was sent is answered, also if Redis never replies
\* (main.cpp:26-46, redis_client.cpp:80-84).
EveryCmdEnds == \A c \in CoId : waits[c] # 0 ~> waits[c] = 0

\* A client that has lost its connection, or failed to make one, gets one
\* (redis_client.cpp:44-69, main.cpp:66).
ClientHeals == tried /\ link = "none" ~> link = "connected"
=============================================================================
