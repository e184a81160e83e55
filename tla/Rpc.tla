-------------------------------- MODULE Rpc --------------------------------
(***************************************************************************)
(* Servers that call each other: SvrCommTrans (app/common/svr_comm_trans)   *)
(* and TransMgr::OnMsg in every server, with RabbitMQ between them.         *)
(*                                                                         *)
(* Each server is one thread, and the coroutine that runs, if any, is       *)
(* cur[s].  A wait is what CoWait says of it: it ends with a message or     *)
(* with a time-out, and how long 5 s are compared with a delivery is open.  *)
(* A co_id is all that connects an answer to a call: co_ids are recycled    *)
(* when a transaction ends and start at 1 again when a server restarts.     *)
(***************************************************************************)
EXTENDS Integers, Sequences, FiniteSets

CONSTANTS Server,
          Starter,      \* servers whose own timers start transactions
          MaxTrans,     \* RegisterCmd's count, the same at every server
          MaxCalls,     \* bound: messages sent by business code
          MaxFaults,    \* bound: lost connections and restarts
          NoReq         \* a transaction no message of another server started

ASSUME RpcAssumption == /\ MaxTrans \in Nat /\ MaxCalls \in Nat
                        /\ MaxFaults \in Nat
                        /\ Starter \subseteq Server

CoId == 1..MaxTrans
NoCo == 0
Call == 1..MaxCalls   \* messages, by the order in which they were sent

\* MsgHead.  An answer carries its request's cmd + 1; id stands for the body:
\* the request that is made or answered.
MsgHead == [cmd : {"req", "rsp"}, src_bus_id : Server, src_co_id : {NoCo} \cup CoId,
            dst_bus_id : Server, dst_co_id : {NoCo} \cup CoId, id : Call]

VARIABLES queue,    \* RabbitMQ's queue of each server
          cur,      \* the coroutine that has control at a server, or NoCo
          active,   \* CoPool::action_coroutine
          free,     \* CoPool::free_coroutine
          inc,      \* CoPool::inc_co_id
          req,      \* the request a coroutine's transaction serves
          waits,    \* the call a coroutine waits for, or 0
          faults,   \* lost connections and restarts so far
          issued,   \* history: messages sent
          caller,   \* history: the server and coroutine that sent a message
          executed, \* history: how many transactions a message started
          given_up, \* history: calls that timed out or whose server restarted
          answer    \* history: the message whose answer a call returned, or 0

server  == <<cur, active, free, inc, req, waits>>
history == <<issued, caller, executed, given_up, answer>>
vars    == <<queue, server, faults, history>>

-----------------------------------------------------------------------------
Init == /\ queue = [s \in Server |-> <<>>]
        /\ cur = [s \in Server |-> NoCo]
        /\ active = [s \in Server |-> {}]
        /\ free = [s \in Server |-> <<>>]
        /\ inc = [s \in Server |-> 0]
        /\ req = [s \in Server |-> [c \in CoId |-> NoReq]]
        /\ waits = [s \in Server |-> [c \in CoId |-> 0]]
        /\ faults = 0
        /\ issued = 0
        /\ caller = [id \in Call |-> NoReq]
        /\ executed = [id \in Call |-> 0]
        /\ given_up = {}
        /\ answer = [id \in Call |-> 0]

\* RabbitMQNet::SendMsg.  The message is lost when the sender or the receiver
\* is not connected, now or before it is delivered; nobody is told.
Publish(m) == \/ queue' = [queue EXCEPT ![m.dst_bus_id] = Append(@, m)]
              \/ UNCHANGED queue

\* The next delivery is handed to the main loop of s and acknowledged.
Delivery(s) == Head(queue[s])
Consume(s) == /\ cur[s] = NoCo
              /\ queue[s] # <<>>
              /\ queue' = [queue EXCEPT ![s] = Tail(@)]

\* CoPool::NewCoroutine
NewCoroutine(s, c) ==
  /\ active' = [active EXCEPT ![s] = @ \cup {c}]
  /\ \/ /\ free[s] = <<>>
        /\ c = inc[s] + 1
        /\ inc' = [inc EXCEPT ![s] = c]
        /\ UNCHANGED free
     \/ /\ free[s] # <<>>
        /\ c = Head(free[s])
        /\ free' = [free EXCEPT ![s] = Tail(@)]
        /\ UNCHANGED inc

\* CoPool::FreeCoroutine
FreeCoroutine(s, c) ==
  /\ active' = [active EXCEPT ![s] = @ \ {c}]
  /\ free' = [free EXCEPT ![s] = Append(@, c)]
  /\ UNCHANGED inc

HasTrans(s) == Cardinality(active[s]) < MaxTrans

\* OnMsg with co_id 0 takes a transaction from the pool and starts it.
StartTrans(s, c, r) ==
  /\ HasTrans(s)
  /\ NewCoroutine(s, c)
  /\ req' = [req EXCEPT ![s][c] = r]
  /\ cur' = [cur EXCEPT ![s] = c]
  /\ UNCHANGED waits

Wake(s, c) == /\ cur' = [cur EXCEPT ![s] = c]
              /\ waits' = [waits EXCEPT ![s][c] = 0]
              /\ UNCHANGED <<active, free, inc, req>>

-----------------------------------------------------------------------------
\* A timer of s calls OnMsg with a MsgHead that only has a cmd.
OnTimer(s) == /\ s \in Starter
              /\ cur[s] = NoCo
              /\ \E c \in CoId : StartTrans(s, c, NoReq)
              /\ UNCHANGED <<queue, faults, history>>

StartsTrans(m) == m.dst_co_id = NoCo /\ m.cmd = "req"

\* A request arrives and is executed.
OnRequest(s) ==
  /\ Consume(s)
  /\ StartsTrans(Delivery(s))
  /\ \E c \in CoId : StartTrans(s, c, Delivery(s))
  /\ executed' = [executed EXCEPT ![Delivery(s).id] = @ + 1]
  /\ UNCHANGED <<faults, issued, caller, given_up, answer>>

\* An answer arrives and wakes the coroutine it names.
OnReply(s) ==
  LET m == Delivery(s)
      c == m.dst_co_id
  IN  /\ Consume(s)
      /\ c \in active[s]
      /\ answer' = [answer EXCEPT ![waits[s][c]] = m.id]
      /\ Wake(s, c)
      /\ UNCHANGED <<faults, issued, caller, executed, given_up>>

\* OnMsg returns -1: no transaction is left, none is registered for the cmd,
\* or there is no such coroutine.
OnDropped(s) ==
  LET m == Delivery(s)
  IN  /\ Consume(s)
      /\ \/ StartsTrans(m) /\ ~HasTrans(s)
         \/ m.dst_co_id = NoCo /\ m.cmd = "rsp"
         \/ m.dst_co_id # NoCo /\ m.dst_co_id \notin active[s]
      /\ UNCHANGED <<server, faults, history>>

-----------------------------------------------------------------------------
Request(s, c, d) == [cmd |-> "req", src_bus_id |-> s, src_co_id |-> c,
                     dst_bus_id |-> d, dst_co_id |-> NoCo, id |-> issued + 1]

\* Mutant of Answer: the answer goes to the co_id of the transaction that
\* makes it.
Answer_OwnCo(s, m) == [cmd |-> "rsp", src_bus_id |-> s, src_co_id |-> NoCo,
                       dst_bus_id |-> m.src_bus_id, dst_co_id |-> cur[s],
                       id |-> m.id]

\* Mutant of Answer: the request's cmd and co_id are sent back as they are.
Answer_Echo(s, m) == [cmd |-> m.cmd, src_bus_id |-> s, src_co_id |-> NoCo,
                      dst_bus_id |-> m.src_bus_id, dst_co_id |-> m.dst_co_id,
                      id |-> m.id]

\* SendMsg(src_msg, msg)
Answer(s, m) == [cmd |-> "rsp", src_bus_id |-> s, src_co_id |-> NoCo,
                 dst_bus_id |-> m.src_bus_id, dst_co_id |-> m.src_co_id,
                 id |-> m.id]

Issue(s, c, d) == /\ issued < MaxCalls
                  /\ Publish(Request(s, c, d))
                  /\ issued' = issued + 1
                  /\ caller' = [caller EXCEPT ![issued + 1] = <<s, c>>]
                  /\ UNCHANGED <<faults, executed, given_up, answer>>

\* SendMsgThenYield: send a request that names this coroutine, and wait.
SendMsgThenYield(s, d) ==
  /\ cur[s] # NoCo
  /\ Issue(s, cur[s], d)
  /\ waits' = [waits EXCEPT ![s][cur[s]] = issued + 1]
  /\ cur' = [cur EXCEPT ![s] = NoCo]
  /\ UNCHANGED <<active, free, inc, req>>

\* SendMsg to a server: no answer is expected and src_co_id is not set.
SendMsg(s, d) == /\ cur[s] # NoCo
                 /\ Issue(s, NoCo, d)
                 /\ UNCHANGED server

\* The task ends.  If a request started it, it has answered, as the last thing
\* it did; unless it was left by an exception.
TaskEnds(s) ==
  LET c == cur[s]
  IN  /\ c # NoCo
      /\ \/ UNCHANGED queue
         \/ req[s][c] # NoReq /\ Publish(Answer(s, req[s][c]))
      /\ FreeCoroutine(s, c)
      /\ req' = [req EXCEPT ![s][c] = NoReq]
      /\ cur' = [cur EXCEPT ![s] = NoCo]
      /\ UNCHANGED <<waits, faults, history>>

\* Mutant of TimeOut: a coroutine that exists is taken for one that does not.
TimeOut_Inverted(s, c) ==
  /\ cur[s] = NoCo
  /\ c \notin active[s]
  /\ waits[s][c] # 0
  /\ given_up' = given_up \cup {waits[s][c]}
  /\ Wake(s, c)
  /\ UNCHANGED <<queue, faults, issued, caller, executed, answer>>

\* No answer within 5 s: SendMsgRpc throws "time out" in the task.
TimeOut(s, c) ==
  /\ cur[s] = NoCo
  /\ c \in active[s]
  /\ waits[s][c] # 0
  /\ given_up' = given_up \cup {waits[s][c]}
  /\ Wake(s, c)
  /\ UNCHANGED <<queue, faults, issued, caller, executed, answer>>

-----------------------------------------------------------------------------
\* The connection of s breaks: its exclusive queue goes with it.
ConnectionLost(s) == /\ faults < MaxFaults
                     /\ queue[s] # <<>>
                     /\ faults' = faults + 1
                     /\ queue' = [queue EXCEPT ![s] = <<>>]
                     /\ UNCHANGED <<server, history>>

\* s is restarted by supervisor, under the same name.
Restart(s) ==
  /\ faults < MaxFaults
  /\ faults' = faults + 1
  /\ queue' = [queue EXCEPT ![s] = <<>>]
  /\ cur' = [cur EXCEPT ![s] = NoCo]
  /\ active' = [active EXCEPT ![s] = {}]
  /\ free' = [free EXCEPT ![s] = <<>>]
  /\ inc' = [inc EXCEPT ![s] = 0]
  /\ req' = [req EXCEPT ![s] = [c \in CoId |-> NoReq]]
  /\ waits' = [waits EXCEPT ![s] = [c \in CoId |-> 0]]
  /\ given_up' = given_up \cup ({waits[s][c] : c \in CoId} \ {0})
  /\ UNCHANGED <<issued, caller, executed, answer>>

OnMsg(s) == OnRequest(s) \/ OnReply(s) \/ OnDropped(s)

Run(s) == TaskEnds(s) \/ \E d \in Server : SendMsgThenYield(s, d) \/ SendMsg(s, d)

Next == \E s \in Server :
          \/ OnTimer(s) \/ OnMsg(s) \/ Run(s)
          \/ \E c \in CoId : TimeOut(s, c)
          \/ ConnectionLost(s) \/ Restart(s)

Spec == Init /\ [][Next]_vars

\* A task that runs goes on, and it sends finitely many messages; the 1 ms
\* timer comes round however many messages there are.  Nothing is assumed of
\* deliveries: RabbitMQ may lose every message.
FairSpec == /\ Spec
            /\ \A s \in Server : WF_vars(Run(s))
            /\ \A s \in Server, c \in CoId : SF_vars(TimeOut(s, c))

-----------------------------------------------------------------------------
TypeOK ==
  /\ queue \in [Server -> Seq(MsgHead)]
  /\ cur \in [Server -> CoId \cup {NoCo}]
  /\ active \in [Server -> SUBSET CoId]
  /\ free \in [Server -> Seq(CoId)]
  /\ inc \in [Server -> 0..MaxTrans]
  /\ req \in [Server -> [CoId -> MsgHead \cup {NoReq}]]
  /\ waits \in [Server -> [CoId -> Call \cup {0}]]
  /\ faults \in 0..MaxFaults
  /\ issued \in 0..MaxCalls
  /\ caller \in [Call -> (Server \X (CoId \cup {NoCo})) \cup {NoReq}]
  /\ executed \in [Call -> Nat]
  /\ given_up \subseteq Call
  /\ answer \in [Call -> Call \cup {0}]

\* What trans_mgr.h:38 says, that OnMsg wakes the transaction that belongs to
\* co_id: a call returns the answer to that call.
RpcReturnsItsAnswer == \A id \in Call : answer[id] \in {0, id}

\* The only way to a wrong answer: an earlier call of the same server and
\* co_id was given up, and the answer is to that call or to a later one
\* that, in turn, returned the answer to an earlier one
\* (svr_comm_trans.cpp:49-62, trans_mgr.h:43-61).
WrongAnswerIsLate ==
  \A id \in Call : answer[id] \notin {0, id} =>
    /\ answer[id] < id
    /\ caller[answer[id]] = caller[id]
    /\ \E late \in given_up : late <= answer[id] /\ caller[late] = caller[id]

\* Messages are executed at most once, and an answer is returned at most once
\* (trans_mgr.h:43-61, svr_comm_trans.cpp:41-62).
Calls == INSTANCE CallOnce
ImplementsCallOnce == Calls!Spec

\* Every transaction ends, also when servers call each other with all their
\* transactions busy, so that each drops the other's requests.
EveryTransEnds ==
  \A s \in Server, c \in CoId : c \in active[s] ~> c \notin active[s]
=============================================================================
