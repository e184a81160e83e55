----------------------------- MODULE RpcProofs -----------------------------
(***************************************************************************)
(* Proofs about Rpc, for any number of servers, transactions, messages and  *)
(* faults.                                                                  *)
(*                                                                         *)
(* A message is in one place at a time: in a queue as a request, with the   *)
(* transaction it started, or in a queue as an answer.  An answer names the *)
(* server and coroutine that made the call, so what it can be mistaken for  *)
(* is a later call of the same ones; and that there is a later one while    *)
(* the answer is under way means that a call was given up.                  *)
(***************************************************************************)
EXTENDS Rpc, TLAPS

\* The call whose answer nobody returned.
NotReturned(id) == \A x \in Call : answer[x] # id

\* The coroutine that runs and those that wait are the active ones; the free
\* ones are not, and are there once.
PoolOf(s) ==
  /\ cur[s] # NoCo => cur[s] \in active[s]
  /\ \A c \in CoId : waits[s][c] # 0 <=> c \in active[s] /\ c # cur[s]
  /\ \A i \in DOMAIN free[s] : free[s][i] \notin active[s] /\ free[s][i] <= inc[s]
  /\ \A i, j \in DOMAIN free[s] : free[s][i] = free[s][j] => i = j
  /\ \A c \in CoId : c > inc[s] => c \notin active[s]
PoolInv == \A s \in Server : PoolOf(s)

\* What a request and an answer in the queue of s say of their call.
MsgOf(s, m) ==
  /\ m.id <= issued
  /\ m.cmd = "req" => /\ executed[m.id] = 0
                      /\ m.dst_co_id = NoCo
                      /\ caller[m.id] = <<m.src_bus_id, m.src_co_id>>
  /\ m.cmd = "rsp" => /\ executed[m.id] = 1
                      /\ caller[m.id] = <<s, m.dst_co_id>>
                      /\ NotReturned(m.id)
MsgInv == \A s \in Server : \A i \in DOMAIN queue[s] : MsgOf(s, queue[s][i])

OneMessage ==
  \A s, t \in Server : \A i \in DOMAIN queue[s], j \in DOMAIN queue[t] :
    queue[s][i].id = queue[t][j].id => s = t /\ i = j

Queued(id) == \E s \in Server : \E i \in DOMAIN queue[s] : queue[s][i].id = id

\* A transaction that serves a request is the only trace of it.
ServeOf(m) == /\ m.id <= issued
              /\ executed[m.id] = 1
              /\ caller[m.id] = <<m.src_bus_id, m.src_co_id>>
              /\ NotReturned(m.id)
              /\ ~Queued(m.id)
ServeInv ==
  \A s \in Server, c \in CoId : req[s][c] # NoReq => ServeOf(req[s][c])

OneServes ==
  \A s, t \in Server, c, d \in CoId :
    req[s][c] # NoReq /\ req[t][d] # NoReq /\ req[s][c].id = req[t][d].id
      => s = t /\ c = d

\* A coroutine waits for its latest call, which returned nothing yet.
WaitInv ==
  \A s \in Server, c \in CoId : waits[s][c] # 0 =>
    /\ waits[s][c] <= issued
    /\ caller[waits[s][c]] = <<s, c>>
    /\ answer[waits[s][c]] = 0
    /\ \A id \in Call : id <= issued /\ caller[id] = <<s, c>> => id <= waits[s][c]

HistoryInv ==
  \A id \in Call : /\ executed[id] \in {0, 1}
                   /\ id > issued => executed[id] = 0 /\ answer[id] = 0
                   /\ answer[id] # 0 => executed[answer[id]] = 1

GivenUpBefore(id) == \E late \in given_up : late <= id /\ caller[late] = caller[id]

\* A call whose answer may still come is waited for, or it or an earlier one of
\* the same coroutine was given up.
LateOrAwaited ==
  \A id \in Call, s \in Server, c \in CoId :
    id <= issued /\ caller[id] = <<s, c>> /\ NotReturned(id)
      => waits[s][c] = id \/ GivenUpBefore(id)

IInv == /\ TypeOK
        /\ PoolInv
        /\ MsgInv /\ OneMessage /\ ServeInv /\ OneServes
        /\ WaitInv /\ HistoryInv
        /\ LateOrAwaited /\ WrongAnswerIsLate

-----------------------------------------------------------------------------
LEMMA NoCoIsNone == NoCo \notin CoId
BY RpcAssumption DEF NoCo, CoId

LEMMA MsgType ==
  ASSUME NEW m \in MsgHead
  PROVE  /\ m.cmd \in {"req", "rsp"} /\ m.id \in Call /\ m.id \in Nat \ {0}
         /\ m.src_bus_id \in Server /\ m.src_co_id \in {NoCo} \cup CoId
         /\ m.dst_bus_id \in Server /\ m.dst_co_id \in {NoCo} \cup CoId
<1>1. m.id \in Call
  BY DEF MsgHead
<1>2. m.id \in Nat \ {0}
  BY <1>1, RpcAssumption DEF Call
<1> QED BY <1>1, <1>2 DEF MsgHead

LEMMA RequestType ==
  ASSUME TypeOK, issued < MaxCalls, NEW s \in Server, NEW c \in {NoCo} \cup CoId,
         NEW d \in Server
  PROVE  Request(s, c, d) \in MsgHead /\ issued + 1 \in Call
<1>1. issued + 1 \in Call
  BY RpcAssumption DEF TypeOK, Call
<1> QED BY <1>1 DEF Request, MsgHead

LEMMA AnswerType ==
  ASSUME NEW s \in Server, NEW m \in MsgHead
  PROVE  Answer(s, m) \in MsgHead
BY MsgType DEF Answer, MsgHead

LEMMA PublishType ==
  ASSUME TypeOK, NEW m \in MsgHead, Publish(m)
  PROVE  queue' \in [Server -> Seq(MsgHead)]
<1>1. \A q \in Seq(MsgHead) : Append(q, m) \in Seq(MsgHead)
  OBVIOUS
<1>2. m.dst_bus_id \in Server /\ queue[m.dst_bus_id] \in Seq(MsgHead)
  BY MsgType DEF TypeOK
<1>3. CASE queue' = [queue EXCEPT ![m.dst_bus_id] = Append(queue[m.dst_bus_id], m)]
  BY <1>1, <1>2, <1>3 DEF TypeOK
<1>4. CASE UNCHANGED queue
  BY <1>4 DEF TypeOK
<1> QED BY <1>3, <1>4 DEF Publish

\* What is delivered, and what is left of the queue.
LEMMA DeliveryType ==
  ASSUME TypeOK, NEW s \in Server, Consume(s)
  PROVE  Delivery(s) \in MsgHead /\ queue' \in [Server -> Seq(MsgHead)]
<1>1. \A q \in Seq(MsgHead) : q # <<>> => Head(q) \in MsgHead /\ Tail(q) \in Seq(MsgHead)
  OBVIOUS
<1>2. queue[s] \in Seq(MsgHead) /\ queue[s] # <<>>
  BY DEF TypeOK, Consume
<1>3. queue' = [queue EXCEPT ![s] = Tail(queue[s])]
  BY DEF Consume
<1>4. queue' \in [Server -> Seq(MsgHead)]
  BY <1>1, <1>2, <1>3 DEF TypeOK
<1>5. Delivery(s) \in MsgHead
  BY <1>1, <1>2 DEF Delivery
<1> QED BY <1>4, <1>5

LEMMA NewCoroutineType ==
  ASSUME TypeOK, NEW s \in Server, NEW c \in CoId, NewCoroutine(s, c)
  PROVE  /\ active' \in [Server -> SUBSET CoId]
         /\ free' \in [Server -> Seq(CoId)]
         /\ inc' \in [Server -> 0..MaxTrans]
<1>1. \A q \in Seq(CoId) : q # <<>> => Tail(q) \in Seq(CoId)
  OBVIOUS
<1>2. c \in 0..MaxTrans
  BY RpcAssumption DEF CoId
<1>3. active' \in [Server -> SUBSET CoId]
  BY DEF TypeOK, NewCoroutine
<1>4. free' \in [Server -> Seq(CoId)]
  <2>1. CASE UNCHANGED free
    BY <2>1 DEF TypeOK
  <2>2. CASE free[s] # <<>> /\ free' = [free EXCEPT ![s] = Tail(free[s])]
    BY <1>1, <2>2 DEF TypeOK
  <2> QED BY <2>1, <2>2 DEF NewCoroutine
<1>5. inc' \in [Server -> 0..MaxTrans]
  BY <1>2 DEF TypeOK, NewCoroutine
<1> QED BY <1>3, <1>4, <1>5

LEMMA StartType ==
  ASSUME TypeOK, NEW s \in Server, NEW c \in CoId, NEW r \in MsgHead \cup {NoReq},
         StartTrans(s, c, r)
  PROVE  /\ cur' \in [Server -> CoId \cup {NoCo}]
         /\ active' \in [Server -> SUBSET CoId]
         /\ free' \in [Server -> Seq(CoId)]
         /\ inc' \in [Server -> 0..MaxTrans]
         /\ req' \in [Server -> [CoId -> MsgHead \cup {NoReq}]]
         /\ waits' \in [Server -> [CoId -> Call \cup {0}]]
<1>1. req' \in [Server -> [CoId -> MsgHead \cup {NoReq}]]
  BY DEF TypeOK, StartTrans
<1>2. cur' \in [Server -> CoId \cup {NoCo}]
  BY DEF TypeOK, StartTrans
<1>3. NewCoroutine(s, c) /\ UNCHANGED waits
  BY DEF StartTrans
<1>4. waits' \in [Server -> [CoId -> Call \cup {0}]]
  BY <1>3 DEF TypeOK
<1>5. /\ active' \in [Server -> SUBSET CoId]
      /\ free' \in [Server -> Seq(CoId)]
      /\ inc' \in [Server -> 0..MaxTrans]
  BY <1>3, NewCoroutineType
<1> QED BY <1>1, <1>2, <1>4, <1>5

LEMMA WakeType ==
  ASSUME TypeOK, NEW s \in Server, NEW c \in CoId, Wake(s, c)
  PROVE  /\ cur' \in [Server -> CoId \cup {NoCo}]
         /\ waits' \in [Server -> [CoId -> Call \cup {0}]]
         /\ UNCHANGED <<active, free, inc, req>>
BY DEF TypeOK, Wake

LEMMA IssueType ==
  ASSUME TypeOK, NEW s \in Server, NEW c \in {NoCo} \cup CoId, NEW d \in Server,
         Issue(s, c, d)
  PROVE  /\ queue' \in [Server -> Seq(MsgHead)]
         /\ issued' \in 0..MaxCalls
         /\ caller' \in [Call -> (Server \X (CoId \cup {NoCo})) \cup {NoReq}]
         /\ UNCHANGED <<faults, executed, given_up, answer>>
<1>1. queue' \in [Server -> Seq(MsgHead)]
  BY RequestType, PublishType DEF Issue
<1>2. issued' \in 0..MaxCalls
  BY RpcAssumption DEF TypeOK, Issue
<1>3. caller' \in [Call -> (Server \X (CoId \cup {NoCo})) \cup {NoReq}]
  BY DEF TypeOK, Issue
<1> QED BY <1>1, <1>2, <1>3 DEF Issue

LEMMA RestartType ==
  ASSUME TypeOK, NEW s \in Server, Restart(s)
  PROVE  TypeOK'
<1>1. queue' \in [Server -> Seq(MsgHead)] /\ free' \in [Server -> Seq(CoId)]
  BY DEF TypeOK, Restart
<1>2. cur' \in [Server -> CoId \cup {NoCo}] /\ active' \in [Server -> SUBSET CoId]
  BY DEF TypeOK, Restart
<1>3. inc' \in [Server -> 0..MaxTrans] /\ faults' \in 0..MaxFaults
  BY RpcAssumption DEF TypeOK, Restart
<1>4. req' \in [Server -> [CoId -> MsgHead \cup {NoReq}]]
  BY DEF TypeOK, Restart
<1>5. waits' \in [Server -> [CoId -> Call \cup {0}]]
  BY DEF TypeOK, Restart
<1>6. given_up' \subseteq Call
  BY DEF TypeOK, Restart
<1> QED BY <1>1, <1>2, <1>3, <1>4, <1>5, <1>6 DEF TypeOK, Restart

LEMMA TypeStep == TypeOK /\ [Next]_vars => TypeOK'
<1> SUFFICES ASSUME TypeOK, [Next]_vars PROVE TypeOK'
  OBVIOUS
<1>1. ASSUME NEW s \in Server, OnTimer(s) PROVE TypeOK'
  BY <1>1, StartType DEF OnTimer, TypeOK, history
<1>2. ASSUME NEW s \in Server, OnRequest(s) PROVE TypeOK'
  <2>1. Delivery(s) \in MsgHead /\ queue' \in [Server -> Seq(MsgHead)]
    BY <1>2, DeliveryType DEF OnRequest
  <2>2. executed' \in [Call -> Nat]
    BY <1>2, <2>1, MsgType DEF OnRequest, TypeOK
  <2> QED BY <1>2, <2>1, <2>2, StartType DEF OnRequest, TypeOK
<1>3. ASSUME NEW s \in Server, OnReply(s) PROVE TypeOK'
  <2>1. Delivery(s) \in MsgHead /\ queue' \in [Server -> Seq(MsgHead)]
    BY <1>3, DeliveryType DEF OnReply
  <2>2. Delivery(s).dst_co_id \in CoId
    BY <1>3 DEF OnReply, TypeOK
  <2>3. answer' \in [Call -> Call \cup {0}]
    BY <1>3, <2>1, MsgType DEF OnReply, TypeOK
  <2> QED BY <1>3, <2>1, <2>2, <2>3, WakeType DEF OnReply, TypeOK
<1>4. ASSUME NEW s \in Server, OnDropped(s) PROVE TypeOK'
  BY <1>4, DeliveryType DEF OnDropped, TypeOK, server, history
<1>5. ASSUME NEW s \in Server, TaskEnds(s) PROVE TypeOK'
  <2>1. cur[s] \in CoId
    BY <1>5 DEF TaskEnds, TypeOK
  <2>2. req[s][cur[s]] # NoReq => req[s][cur[s]] \in MsgHead
    BY <2>1 DEF TypeOK
  <2>3. queue' \in [Server -> Seq(MsgHead)]
    BY <1>5, <2>2, AnswerType, PublishType DEF TaskEnds, TypeOK
  <2>4. \A q \in Seq(CoId) : Append(q, cur[s]) \in Seq(CoId)
    BY <2>1
  <2>5. active' \in [Server -> SUBSET CoId] /\ free' \in [Server -> Seq(CoId)]
    BY <1>5, <2>4 DEF TaskEnds, FreeCoroutine, TypeOK
  <2>6. req' \in [Server -> [CoId -> MsgHead \cup {NoReq}]]
    BY <1>5, <2>1 DEF TaskEnds, TypeOK
  <2> QED BY <1>5, <2>3, <2>5, <2>6 DEF TaskEnds, FreeCoroutine, TypeOK, history
<1>6. ASSUME NEW s \in Server, NEW d \in Server, SendMsgThenYield(s, d) PROVE TypeOK'
  <2>1. cur[s] \in CoId
    BY <1>6 DEF SendMsgThenYield, TypeOK
  <2>2. issued + 1 \in Call
    BY <1>6, <2>1, RequestType DEF SendMsgThenYield, Issue
  <2>3. waits' \in [Server -> [CoId -> Call \cup {0}]]
    BY <1>6, <2>1, <2>2 DEF SendMsgThenYield, TypeOK
  <2> QED BY <1>6, <2>1, <2>3, IssueType DEF SendMsgThenYield, TypeOK
<1>7. ASSUME NEW s \in Server, NEW d \in Server, SendMsg(s, d) PROVE TypeOK'
  BY <1>7, IssueType DEF SendMsg, TypeOK, server
<1>8. ASSUME NEW s \in Server, NEW c \in CoId, TimeOut(s, c) PROVE TypeOK'
  <2>1. waits[s][c] \in Call
    BY <1>8 DEF TimeOut, TypeOK
  <2> QED BY <1>8, <2>1, WakeType DEF TimeOut, TypeOK
<1>9. ASSUME NEW s \in Server, ConnectionLost(s) PROVE TypeOK'
  <2>1. queue' \in [Server -> Seq(MsgHead)] /\ faults' \in 0..MaxFaults
    BY <1>9, RpcAssumption DEF ConnectionLost, TypeOK
  <2> QED BY <1>9, <2>1 DEF ConnectionLost, TypeOK, server, history
<1>10. ASSUME NEW s \in Server, Restart(s) PROVE TypeOK'
  BY <1>10, RestartType
<1>11. CASE UNCHANGED vars
  BY <1>11 DEF vars, server, history, TypeOK
<1> QED BY <1>1, <1>2, <1>3, <1>4, <1>5, <1>6, <1>7, <1>8, <1>9, <1>10, <1>11
    DEF Next, OnMsg, Run

LEMMA InitTypeOK == Init => TypeOK
<1> SUFFICES ASSUME Init PROVE TypeOK
  OBVIOUS
<1>1. queue \in [Server -> Seq(MsgHead)] /\ free \in [Server -> Seq(CoId)]
  BY DEF Init
<1>2. inc \in [Server -> 0..MaxTrans] /\ faults \in 0..MaxFaults /\ issued \in 0..MaxCalls
  BY RpcAssumption DEF Init
<1> QED BY <1>1, <1>2 DEF Init, TypeOK

\* Every value of every variable is of its type: in particular whatever is in a
\* queue is a MsgHead of servers and coroutines there are.
THEOREM TypeCorrect == Spec => []TypeOK
BY InitTypeOK, TypeStep, PTL DEF Spec

-----------------------------------------------------------------------------
(* The pool. *)

LEMMA TailFacts ==
  ASSUME NEW S, NEW q \in Seq(S), q # <<>>
  PROVE  /\ 1 \in DOMAIN q /\ Head(q) = q[1] /\ Tail(q) \in Seq(S)
         /\ \A i \in DOMAIN Tail(q) : /\ i \in Nat /\ i # 0
                                     /\ i + 1 \in DOMAIN q /\ Tail(q)[i] = q[i + 1]
OBVIOUS

LEMMA PoolUnchanged ==
  ASSUME PoolInv, NEW s \in Server,
         cur'[s] = cur[s], active'[s] = active[s], free'[s] = free[s], inc'[s] = inc[s],
         waits'[s] = waits[s]
  PROVE  PoolOf(s)'
BY DEF PoolInv, PoolOf

\* The coroutine that starts was not active.
LEMMA StartPool ==
  ASSUME TypeOK, PoolInv, NEW s \in Server, NEW c \in CoId, NEW r, cur[s] = NoCo,
         StartTrans(s, c, r)
  PROVE  c \notin active[s] /\ PoolInv'
<1>1. PoolOf(s)
  BY DEF PoolInv
<1>2. /\ active' = [active EXCEPT ![s] = active[s] \cup {c}] /\ cur' = [cur EXCEPT ![s] = c]
      /\ UNCHANGED waits
  BY DEF StartTrans, NewCoroutine
<1>3. active'[s] = active[s] \cup {c} /\ cur'[s] = c /\ waits'[s] = waits[s]
  BY <1>2 DEF TypeOK
<1>4. c \notin active[s] =>
        \A d \in CoId : waits'[s][d] # 0 <=> d \in active'[s] /\ d # cur'[s]
  BY <1>1, <1>3, NoCoIsNone DEF PoolOf
<1>5. CASE free[s] = <<>> /\ c = inc[s] + 1 /\ inc' = [inc EXCEPT ![s] = c] /\ UNCHANGED free
  <2>1. inc[s] \in Nat /\ c > inc[s] /\ inc'[s] = c /\ DOMAIN free'[s] = {}
    BY <1>5, RpcAssumption DEF TypeOK
  <2>2. c \notin active[s]
    BY <1>1, <2>1 DEF PoolOf
  <2>3. \A d \in CoId : d > inc'[s] => d > inc[s] /\ d # c
    BY <2>1, RpcAssumption DEF CoId
  <2>4. PoolOf(s)'
    <3>1. \A d \in CoId : waits'[s][d] # 0 <=> d \in active'[s] /\ d # cur'[s]
      BY <1>4, <2>2
    <3>2. \A d \in CoId : d > inc'[s] => d \notin active'[s]
      BY <1>1, <1>3, <2>3 DEF PoolOf
    <3> QED BY <1>3, <2>1, <3>1, <3>2 DEF PoolOf
  <2> QED BY <1>2, <1>3, <1>5, <2>2, <2>4, PoolUnchanged DEF PoolInv, TypeOK
<1>6. CASE free[s] # <<>> /\ c = Head(free[s]) /\ free' = [free EXCEPT ![s] = Tail(free[s])]
           /\ UNCHANGED inc
  <2>1. free[s] \in Seq(CoId) /\ free'[s] = Tail(free[s])
    BY <1>6 DEF TypeOK
  <2>2. /\ 1 \in DOMAIN free[s] /\ c = free[s][1]
        /\ \A i \in DOMAIN free'[s] : /\ i \in Nat /\ i # 0
                                      /\ i + 1 \in DOMAIN free[s] /\ free'[s][i] = free[s][i + 1]
    BY <1>6, <2>1, TailFacts
  <2>3. c \notin active[s] /\ c <= inc[s]
    BY <1>1, <2>2 DEF PoolOf
  <2>4. \A i \in DOMAIN free'[s] : i + 1 # 1
    BY <2>2
  <2>5. \A i \in DOMAIN free'[s] : free'[s][i] # c
    BY <1>1, <2>2, <2>4 DEF PoolOf
  <2>6. \A i, j \in DOMAIN free'[s] : free'[s][i] = free'[s][j] => i = j
    <3> SUFFICES ASSUME NEW i \in DOMAIN free'[s], NEW j \in DOMAIN free'[s],
                        free'[s][i] = free'[s][j]
                 PROVE  i = j
      OBVIOUS
    <3>1. i + 1 = j + 1
      BY <1>1, <2>2 DEF PoolOf
    <3> QED BY <2>2, <3>1
  <2>7. \A d \in CoId : d > inc[s] => d # c
    BY <2>3, RpcAssumption DEF CoId, TypeOK
  <2>8. PoolOf(s)'
    <3>1. \A d \in CoId : waits'[s][d] # 0 <=> d \in active'[s] /\ d # cur'[s]
      BY <1>4, <2>3
    <3>2. \A i \in DOMAIN free'[s] : free'[s][i] \notin active'[s] /\ free'[s][i] <= inc'[s]
      BY <1>1, <1>3, <1>6, <2>2, <2>5 DEF PoolOf
    <3>3. \A d \in CoId : d > inc'[s] => d \notin active'[s]
      BY <1>1, <1>3, <1>6, <2>7 DEF PoolOf
    <3> QED BY <1>3, <2>6, <3>1, <3>2, <3>3 DEF PoolOf
  <2> QED BY <1>2, <1>3, <1>6, <2>3, <2>8, PoolUnchanged DEF PoolInv, TypeOK
<1> QED BY <1>5, <1>6 DEF StartTrans, NewCoroutine

LEMMA WakePool ==
  ASSUME TypeOK, PoolInv, NEW s \in Server, NEW c \in CoId, c \in active[s],
         cur[s] = NoCo, Wake(s, c)
  PROVE  PoolInv'
<1>1. cur'[s] = c /\ \A d \in CoId : waits'[s][d] = IF d = c THEN 0 ELSE waits[s][d]
  BY DEF TypeOK, Wake
<1>2. PoolOf(s)'
  BY <1>1, NoCoIsNone DEF PoolInv, PoolOf, Wake
<1>3. ASSUME NEW t \in Server, t # s PROVE PoolOf(t)'
  BY <1>3, PoolUnchanged DEF TypeOK, Wake
<1> QED BY <1>2, <1>3 DEF PoolInv

LEMMA YieldPool ==
  ASSUME TypeOK, PoolInv, NEW s \in Server, NEW d \in Server, SendMsgThenYield(s, d)
  PROVE  PoolInv'
<1>1. cur[s] \in CoId /\ issued + 1 # 0
  BY RpcAssumption DEF TypeOK, SendMsgThenYield
<1>2. /\ cur'[s] = NoCo /\ UNCHANGED <<active, free, inc>>
      /\ \A c \in CoId : waits'[s][c] = IF c = cur[s] THEN issued + 1 ELSE waits[s][c]
  BY <1>1 DEF TypeOK, SendMsgThenYield
<1>3. PoolOf(s)'
  BY <1>1, <1>2, NoCoIsNone DEF PoolInv, PoolOf
<1>4. ASSUME NEW t \in Server, t # s PROVE PoolOf(t)'
  BY <1>2, <1>4, PoolUnchanged DEF TypeOK, SendMsgThenYield
<1> QED BY <1>3, <1>4 DEF PoolInv

LEMMA TaskEndsPool ==
  ASSUME TypeOK, PoolInv, NEW s \in Server, TaskEnds(s)
  PROVE  PoolInv'
<1> DEFINE c == cur[s]
<1>1. c \in CoId /\ c \in active[s] /\ inc[s] \in Nat /\ free[s] \in Seq(CoId)
  BY RpcAssumption DEF TypeOK, TaskEnds, PoolInv, PoolOf
<1>2. c <= inc[s]
  BY <1>1, RpcAssumption DEF PoolInv, PoolOf, CoId
<1>3. /\ cur'[s] = NoCo /\ active'[s] = active[s] \ {c} /\ free'[s] = Append(free[s], c)
      /\ UNCHANGED <<inc, waits>>
  BY DEF TypeOK, TaskEnds, FreeCoroutine
<1>4. /\ free'[s][Len(free[s]) + 1] = c
      /\ \A i \in DOMAIN free[s] : free'[s][i] = free[s][i]
      /\ \A i \in DOMAIN free'[s] : i \in DOMAIN free[s] \/ i = Len(free[s]) + 1
  BY <1>1, <1>3
<1>5. \A i \in DOMAIN free[s] : free[s][i] # c
  BY <1>1 DEF PoolInv, PoolOf
<1>6. \A i \in DOMAIN free'[s] : free'[s][i] \notin active'[s] /\ free'[s][i] <= inc'[s]
  BY <1>2, <1>3, <1>4 DEF PoolInv, PoolOf
<1>7. \A i, j \in DOMAIN free'[s] : free'[s][i] = free'[s][j] => i = j
  BY <1>4, <1>5 DEF PoolInv, PoolOf
<1>8. \A d \in CoId : waits'[s][d] # 0 <=> d \in active'[s] /\ d # cur'[s]
  BY <1>3, NoCoIsNone DEF PoolInv, PoolOf
<1>9. PoolOf(s)'
  BY <1>3, <1>6, <1>7, <1>8 DEF PoolInv, PoolOf
<1>10. ASSUME NEW t \in Server, t # s PROVE PoolOf(t)'
  BY <1>3, <1>10, PoolUnchanged DEF TypeOK, TaskEnds, FreeCoroutine
<1> QED BY <1>9, <1>10 DEF PoolInv

LEMMA RestartPool ==
  ASSUME TypeOK, PoolInv, NEW s \in Server, Restart(s)
  PROVE  PoolInv'
<1>1. /\ cur'[s] = NoCo /\ active'[s] = {} /\ free'[s] = <<>>
      /\ \A c \in CoId : waits'[s][c] = 0
  BY DEF TypeOK, Restart
<1>2. PoolOf(s)'
  BY <1>1 DEF PoolOf
<1>3. ASSUME NEW t \in Server, t # s PROVE PoolOf(t)'
  BY <1>3, PoolUnchanged DEF TypeOK, Restart
<1> QED BY <1>2, <1>3 DEF PoolInv

LEMMA PoolStep == TypeOK /\ PoolInv /\ [Next]_vars => PoolInv'
<1> SUFFICES ASSUME TypeOK, PoolInv, [Next]_vars PROVE PoolInv'
  OBVIOUS
<1>1. ASSUME NEW s \in Server, OnTimer(s) PROVE PoolInv'
  BY <1>1, StartPool DEF OnTimer
<1>2. ASSUME NEW s \in Server, OnRequest(s) PROVE PoolInv'
  BY <1>2, StartPool DEF OnRequest, Consume
<1>3. ASSUME NEW s \in Server, OnReply(s) PROVE PoolInv'
  <2>1. Delivery(s).dst_co_id \in CoId
    BY <1>3 DEF OnReply, TypeOK
  <2> QED BY <1>3, <2>1, WakePool DEF OnReply, Consume
<1>4. ASSUME NEW s \in Server, NEW c \in CoId, TimeOut(s, c) PROVE PoolInv'
  BY <1>4, WakePool DEF TimeOut
<1>5. ASSUME UNCHANGED server PROVE PoolInv'
  BY <1>5, PoolUnchanged DEF server, PoolInv
<1> QED BY <1>1, <1>2, <1>3, <1>4, <1>5, YieldPool, TaskEndsPool, RestartPool
    DEF Next, OnMsg, Run, OnDropped, SendMsg, ConnectionLost, vars

-----------------------------------------------------------------------------
(* Where a message is. *)

MsgsInv == MsgInv /\ OneMessage /\ ServeInv /\ OneServes

\* Queues lose messages at their heads, or all of them.
Shifted == \E k \in [Server -> Nat] :
             \A t \in Server : \A i \in DOMAIN queue'[t] :
               i + k[t] \in DOMAIN queue[t] /\ queue'[t][i] = queue[t][i + k[t]]

LEMMA ShiftedFacts ==
  ASSUME TypeOK, TypeOK', OneMessage, Shifted
  PROVE  /\ OneMessage'
         /\ \A id : Queued(id)' => Queued(id)
         /\ \A t \in Server : \A i \in DOMAIN queue'[t] :
              \E j \in DOMAIN queue[t] : queue'[t][i] = queue[t][j]
<1>1. PICK k \in [Server -> Nat] :
        \A t \in Server : \A i \in DOMAIN queue'[t] :
          i + k[t] \in DOMAIN queue[t] /\ queue'[t][i] = queue[t][i + k[t]]
  BY DEF Shifted
<1>2. \A t \in Server : k[t] \in Nat /\ \A i \in DOMAIN queue'[t] : i \in Nat
  BY DEF TypeOK
<1>3. ASSUME NEW s \in Server, NEW t \in Server,
             NEW i \in DOMAIN queue'[s], NEW j \in DOMAIN queue'[t],
             queue'[s][i].id = queue'[t][j].id
      PROVE  s = t /\ i = j
  <2>1. s = t /\ i + k[s] = j + k[t]
    BY <1>1, <1>3 DEF OneMessage
  <2> QED BY <1>2, <2>1
<1>4. OneMessage'
  BY <1>3 DEF OneMessage
<1> QED BY <1>1, <1>4 DEF Queued

LEMMA SameQueueIsShifted == ASSUME TypeOK, UNCHANGED queue PROVE Shifted
<1> DEFINE k == [t \in Server |-> 0]
<1>1. k \in [Server -> Nat] /\ \A t \in Server : k[t] = 0
  OBVIOUS
<1>2. \A t \in Server : \A i \in DOMAIN queue[t] : i + 0 = i
  BY DEF TypeOK
<1> HIDE DEF k
<1> QED BY <1>1, <1>2 DEF Shifted

LEMMA LostQueueIsShifted ==
  ASSUME TypeOK, NEW s \in Server, queue' = [queue EXCEPT ![s] = <<>>]
  PROVE  Shifted
<1> DEFINE k == [t \in Server |-> 0]
<1>1. k \in [Server -> Nat] /\ \A t \in Server : k[t] = 0
  OBVIOUS
<1>2. \A t \in Server : \A i \in DOMAIN queue[t] : i + 0 = i
  BY DEF TypeOK
<1>3. \A t \in Server : \A i \in DOMAIN queue'[t] : t # s /\ queue'[t] = queue[t]
  BY DEF TypeOK
<1> HIDE DEF k
<1> QED BY <1>1, <1>2, <1>3 DEF Shifted

\* The message that is handled was the first of its queue, and is nowhere else.
LEMMA ConsumeFacts ==
  ASSUME TypeOK, OneMessage, NEW s \in Server, Consume(s),
         NEW m, m = Delivery(s)
  PROVE  /\ Shifted
         /\ m \in MsgHead
         /\ Queued(m.id) /\ ~Queued(m.id)'
         /\ 1 \in DOMAIN queue[s] /\ m = queue[s][1]
<1> DEFINE k == [t \in Server |-> IF t = s THEN 1 ELSE 0]
<1>1. k \in [Server -> Nat] /\ \A t \in Server : k[t] = IF t = s THEN 1 ELSE 0
  OBVIOUS
<1> HIDE DEF k
<1>2. queue[s] \in Seq(MsgHead) /\ queue[s] # <<>> /\ queue' = [queue EXCEPT ![s] = Tail(queue[s])]
  BY DEF TypeOK, Consume
<1>3. /\ 1 \in DOMAIN queue[s] /\ Head(queue[s]) = queue[s][1]
      /\ \A i \in DOMAIN Tail(queue[s]) : /\ i \in Nat /\ i # 0 /\ i + 1 \in DOMAIN queue[s]
                                         /\ Tail(queue[s])[i] = queue[s][i + 1]
  BY <1>2, TailFacts
<1>4. m = queue[s][1] /\ m \in MsgHead
  BY <1>2, <1>3 DEF Delivery
<1>5. queue'[s] = Tail(queue[s]) /\ \A t \in Server : t # s => queue'[t] = queue[t]
  BY <1>2 DEF TypeOK
<1>6. \A t \in Server : \A i \in DOMAIN queue[t] : i + 0 = i /\ i \in Nat
  BY DEF TypeOK
<1>7. Shifted
  <2>1. ASSUME NEW t \in Server, NEW i \in DOMAIN queue'[t]
        PROVE  i + k[t] \in DOMAIN queue[t] /\ queue'[t][i] = queue[t][i + k[t]]
    <3>1. CASE t = s
      BY <1>1, <1>3, <1>5, <3>1
    <3>2. CASE t # s
      BY <1>1, <1>5, <1>6, <3>2
    <3> QED BY <3>1, <3>2
  <2> QED BY <1>1, <2>1 DEF Shifted
<1>8. Queued(m.id)
  BY <1>3, <1>4 DEF Queued
<1>9. ASSUME NEW t \in Server, NEW i \in DOMAIN queue'[t], queue'[t][i].id = m.id
      PROVE  FALSE
  <2>1. CASE t # s
    BY <1>3, <1>4, <1>5, <1>9, <2>1 DEF OneMessage
  <2>2. CASE t = s
    <3>1. /\ i \in Nat /\ i # 0 /\ i + 1 \in DOMAIN queue[s]
          /\ queue[s][i + 1].id = queue[s][1].id
      BY <1>3, <1>4, <1>5, <1>9, <2>2
    <3>2. i + 1 = 1
      BY <1>3, <3>1 DEF OneMessage
    <3> QED BY <3>1, <3>2
  <2> QED BY <2>1, <2>2
<1>10. ~Queued(m.id)'
  <2> SUFFICES ASSUME NEW t \in Server, NEW i \in DOMAIN queue'[t],
                      queue'[t][i].id = m.id
               PROVE  FALSE
    BY DEF Queued
  <2> QED BY <1>9
<1> QED BY <1>3, <1>4, <1>7, <1>8, <1>10

LEMMA AppendFacts ==
  ASSUME TypeOK, NEW m \in MsgHead,
         queue' = [queue EXCEPT ![m.dst_bus_id] = Append(queue[m.dst_bus_id], m)]
  PROVE  \A t \in Server : \A i \in DOMAIN queue'[t] :
             \/ i \in DOMAIN queue[t] /\ queue'[t][i] = queue[t][i]
             \/ t = m.dst_bus_id /\ i = Len(queue[t]) + 1 /\ queue'[t][i] = m
<1>1. m.dst_bus_id \in Server
  BY MsgType
<1>2. ASSUME NEW q \in Seq(MsgHead), NEW i \in DOMAIN Append(q, m)
      PROVE  \/ i \in DOMAIN q /\ Append(q, m)[i] = q[i]
             \/ i = Len(q) + 1 /\ Append(q, m)[i] = m
  <2>1. DOMAIN q = 1..Len(q) /\ DOMAIN Append(q, m) = 1..(Len(q) + 1) /\ Len(q) \in Nat
    OBVIOUS
  <2>2. CASE i = Len(q) + 1
    BY <2>2
  <2>3. CASE i # Len(q) + 1
    <3>1. i \in 1..Len(q)
      BY <2>1, <2>3
    <3> QED BY <2>1, <3>1
  <2> QED BY <2>2, <2>3
<1>3. \A t \in Server : queue[t] \in Seq(MsgHead)
  BY DEF TypeOK
<1>4. \A t \in Server : queue'[t] = IF t = m.dst_bus_id THEN Append(queue[t], m) ELSE queue[t]
  BY <1>1 DEF TypeOK
<1> QED BY <1>2, <1>3, <1>4

LEMMA QueuedType ==
  ASSUME NEW q \in [Server -> Seq(MsgHead)]
  PROVE  \A t \in Server : \A i \in DOMAIN q[t] : q[t][i] \in MsgHead /\ q[t][i].id \in Call
<1>1. \A t \in Server : q[t] \in Seq(MsgHead)
  OBVIOUS
<1>2. \A e \in Seq(MsgHead) : \A i \in DOMAIN e : e[i] \in MsgHead
  OBVIOUS
<1> QED BY <1>1, <1>2, MsgType

\* Messages that stay in a queue, or are lost, while what is known of them stays.
LEMMA ShiftedMsgs ==
  ASSUME TypeOK, TypeOK', MsgInv, OneMessage, Shifted,
         \A t \in Server, m \in MsgHead : MsgOf(t, m) /\ Queued(m.id)' => MsgOf(t, m)'
  PROVE  MsgInv' /\ OneMessage'
<1>1. ASSUME NEW t \in Server, NEW i \in DOMAIN queue'[t] PROVE MsgOf(t, queue[t][i])'
  <2>1. PICK m : m = queue'[t][i]
    OBVIOUS
  <2>2. m \in MsgHead
    BY <2>1, QueuedType DEF TypeOK
  <2>3. Queued(m.id)'
    BY <2>1 DEF Queued
  <2>4. MsgOf(t, m)
    BY <2>1, ShiftedFacts DEF MsgInv
  <2>5. MsgOf(t, m)'
    BY <2>2, <2>3, <2>4
  <2> QED BY <2>1, <2>5 DEF MsgOf, NotReturned
<1> QED BY <1>1, ShiftedFacts DEF MsgInv

LEMMA MsgsKept ==
  ASSUME TypeOK, TypeOK', MsgsInv, Shifted, UNCHANGED <<issued, caller, executed, answer>>,
         \A s \in Server, c \in CoId : req'[s][c] \in {req[s][c], NoReq}
  PROVE  MsgsInv'
<1>1. MsgInv' /\ OneMessage'
  <2>1. \A t \in Server, m \in MsgHead : MsgOf(t, m) => MsgOf(t, m)'
    BY DEF MsgOf, NotReturned
  <2> QED BY <2>1, ShiftedMsgs DEF MsgsInv
<1>2. ServeInv'
  BY ShiftedFacts DEF MsgsInv, ServeInv, ServeOf, NotReturned
<1>3. OneServes'
  BY DEF MsgsInv, OneServes
<1> QED BY <1>1, <1>2, <1>3 DEF MsgsInv

\* The request that is executed leaves its queue for its transaction.
LEMMA OnRequestMsgs ==
  ASSUME TypeOK, TypeOK', MsgsInv, HistoryInv, NEW s \in Server, OnRequest(s)
  PROVE  MsgsInv'
<1>1. PICK m : m = Delivery(s)
  OBVIOUS
<1>2. PICK c \in CoId : StartTrans(s, c, m)
  BY <1>1 DEF OnRequest
<1>3. /\ Shifted /\ m \in MsgHead /\ Queued(m.id) /\ ~Queued(m.id)'
      /\ 1 \in DOMAIN queue[s] /\ m = queue[s][1] /\ m.cmd = "req" /\ m.id \in Call
  BY <1>1, ConsumeFacts, MsgType DEF OnRequest, MsgsInv, StartsTrans
<1>4. m.id <= issued /\ executed[m.id] = 0 /\ caller[m.id] = <<m.src_bus_id, m.src_co_id>>
  BY <1>3 DEF MsgsInv, MsgInv, MsgOf
<1>5. NotReturned(m.id)
  BY <1>3, <1>4, MsgType DEF HistoryInv, NotReturned
<1>6. /\ \A id \in Call : executed'[id] = IF id = m.id THEN 1 ELSE executed[id]
      /\ UNCHANGED <<issued, caller, answer>>
  BY <1>1, <1>3, <1>4 DEF OnRequest, TypeOK
<1>7. \A t \in Server, d \in CoId : req'[t][d] = IF t = s /\ d = c THEN m ELSE req[t][d]
  BY <1>2 DEF StartTrans, TypeOK
<1>8. MsgInv' /\ OneMessage'
  <2>1. ASSUME NEW t \in Server, NEW e \in MsgHead, MsgOf(t, e), Queued(e.id)'
        PROVE  MsgOf(t, e)'
    <3>1. e.id # m.id /\ e.id \in Call
      BY <1>3, <2>1, MsgType
    <3> QED BY <1>6, <2>1, <3>1 DEF MsgOf, NotReturned
  <2> QED BY <1>3, <2>1, ShiftedMsgs DEF MsgsInv
<1>9. ASSUME NEW t \in Server, NEW d \in CoId, req'[t][d] # NoReq
      PROVE  ServeOf(req[t][d])'
  <2>1. CASE t = s /\ d = c
    BY <1>3, <1>4, <1>5, <1>6, <1>7, <2>1 DEF ServeOf, NotReturned
  <2>2. CASE ~(t = s /\ d = c)
    <3>1. PICK e : e = req[t][d]
      OBVIOUS
    <3>2. req'[t][d] = e /\ ServeOf(e) /\ e \in MsgHead
      BY <1>7, <1>9, <2>2, <3>1 DEF MsgsInv, ServeInv, TypeOK
    <3>3. e.id # m.id /\ e.id \in Call /\ ~Queued(e.id)'
      BY <1>3, <3>2, ShiftedFacts, MsgType DEF ServeOf, MsgsInv
    <3>4. ServeOf(e)'
      BY <1>6, <3>2, <3>3 DEF ServeOf, NotReturned
    <3> QED BY <3>2, <3>4 DEF ServeOf, NotReturned
  <2> QED BY <2>1, <2>2
<1>10. \A t \in Server, d \in CoId : req[t][d] # NoReq => req[t][d].id # m.id
  BY <1>3 DEF MsgsInv, ServeInv, ServeOf
<1>11. OneServes'
  BY <1>7, <1>10 DEF MsgsInv, OneServes
<1> QED BY <1>8, <1>9, <1>11 DEF MsgsInv, ServeInv

\* What a call is when its answer arrives.
LEMMA OnReplyFacts ==
  ASSUME TypeOK, PoolInv, MsgsInv, WaitInv, NEW s \in Server, OnReply(s),
         NEW m, m = Delivery(s)
  PROVE  /\ m \in MsgHead /\ m.id \in Call /\ m.dst_co_id \in CoId
         /\ Shifted /\ Queued(m.id) /\ ~Queued(m.id)'
         /\ executed[m.id] = 1 /\ m.id <= issued
         /\ caller[m.id] = <<s, m.dst_co_id>> /\ NotReturned(m.id)
         /\ waits[s][m.dst_co_id] \in Call /\ m.id <= waits[s][m.dst_co_id]
         /\ \A id \in Call :
              answer'[id] = IF id = waits[s][m.dst_co_id] THEN m.id ELSE answer[id]
<1>1. Consume(s) /\ m.dst_co_id \in active[s] /\ cur[s] = NoCo
  BY DEF OnReply, Consume
<1>2. /\ Shifted /\ m \in MsgHead /\ Queued(m.id) /\ ~Queued(m.id)'
      /\ 1 \in DOMAIN queue[s] /\ m = queue[s][1] /\ m.id \in Call
  BY <1>1, ConsumeFacts, MsgType DEF MsgsInv
<1>3. m.dst_co_id \in CoId
  BY <1>1 DEF TypeOK
<1>4. MsgOf(s, m)
  BY <1>2 DEF MsgsInv, MsgInv
<1>5. m.cmd = "rsp"
  BY <1>2, <1>3, <1>4, MsgType, NoCoIsNone DEF MsgOf
<1>6. waits[s][m.dst_co_id] # 0
  BY <1>1, <1>3, NoCoIsNone DEF PoolInv, PoolOf
<1>7. waits[s][m.dst_co_id] \in Call
  BY <1>3, <1>6 DEF TypeOK
<1>8. m.id <= waits[s][m.dst_co_id]
  BY <1>2, <1>3, <1>4, <1>5, <1>6 DEF MsgOf, WaitInv
<1>9. \A id \in Call :
        answer'[id] = IF id = waits[s][m.dst_co_id] THEN m.id ELSE answer[id]
  BY <1>7 DEF OnReply, TypeOK
<1> QED BY <1>2, <1>3, <1>4, <1>5, <1>7, <1>8, <1>9 DEF MsgOf

LEMMA OnReplyMsgs ==
  ASSUME TypeOK, TypeOK', PoolInv, MsgsInv, WaitInv, NEW s \in Server, OnReply(s)
  PROVE  MsgsInv'
<1>1. PICK m : m = Delivery(s)
  OBVIOUS
<1>2. /\ m \in MsgHead /\ m.id \in Call /\ Shifted /\ Queued(m.id) /\ ~Queued(m.id)'
      /\ \A id \in Call : answer'[id] \in {answer[id], m.id}
  BY <1>1, OnReplyFacts
<1>3. UNCHANGED <<req, issued, caller, executed>>
  BY DEF OnReply, Wake
<1>4. \A id : id # m.id /\ NotReturned(id) => NotReturned(id)'
  BY <1>2 DEF NotReturned
<1>5. MsgInv' /\ OneMessage'
  <2>1. ASSUME NEW t \in Server, NEW e \in MsgHead, MsgOf(t, e), Queued(e.id)'
        PROVE  MsgOf(t, e)'
    BY <1>2, <1>3, <1>4, <2>1 DEF MsgOf
  <2> QED BY <1>2, <2>1, ShiftedMsgs DEF MsgsInv
<1>6. ASSUME NEW t \in Server, NEW d \in CoId, req'[t][d] # NoReq
      PROVE  ServeOf(req[t][d])'
  <2>1. PICK e : e = req[t][d]
    OBVIOUS
  <2>2. req'[t][d] = e /\ ServeOf(e)
    BY <1>3, <1>6, <2>1 DEF MsgsInv, ServeInv
  <2>3. ~Queued(e.id)' /\ e.id # m.id
    BY <1>2, <2>2, ShiftedFacts DEF ServeOf, MsgsInv
  <2>4. ServeOf(e)'
    BY <1>3, <1>4, <2>2, <2>3 DEF ServeOf
  <2> QED BY <2>2, <2>4 DEF ServeOf, NotReturned
<1>7. OneServes'
  BY <1>3 DEF MsgsInv, OneServes
<1> QED BY <1>5, <1>6, <1>7 DEF MsgsInv, ServeInv

\* A message is sent that is nowhere yet.
LEMMA PublishMsgs ==
  ASSUME TypeOK, TypeOK', MsgInv, OneMessage, NEW m \in MsgHead, Publish(m), ~Queued(m.id),
         MsgOf(m.dst_bus_id, m)',
         \A t \in Server, e \in MsgHead : MsgOf(t, e) => MsgOf(t, e)'
  PROVE  /\ MsgInv' /\ OneMessage'
         /\ \A id : Queued(id)' => Queued(id) \/ id = m.id
<1>1. CASE UNCHANGED queue
  <2>1. Shifted
    BY <1>1, SameQueueIsShifted
  <2> QED BY <2>1, ShiftedMsgs, ShiftedFacts
<1>2. CASE queue' = [queue EXCEPT ![m.dst_bus_id] = Append(queue[m.dst_bus_id], m)]
  <2>1. \A t \in Server : \A i \in DOMAIN queue'[t] :
             \/ i \in DOMAIN queue[t] /\ queue'[t][i] = queue[t][i]
             \/ t = m.dst_bus_id /\ i = Len(queue[t]) + 1 /\ queue'[t][i] = m
    BY <1>2, AppendFacts
  <2>2. \A t \in Server : \A i \in DOMAIN queue[t] : queue[t][i] \in MsgHead
    BY QueuedType DEF TypeOK
  <2>3. ASSUME NEW t \in Server, NEW i \in DOMAIN queue'[t] PROVE MsgOf(t, queue[t][i])'
    <3>1. CASE i \in DOMAIN queue[t] /\ queue'[t][i] = queue[t][i]
      <4>1. PICK e : e = queue[t][i]
        OBVIOUS
      <4>2. MsgOf(t, e)'
        BY <2>2, <3>1, <4>1 DEF MsgInv
      <4> QED BY <3>1, <4>1, <4>2 DEF MsgOf, NotReturned
    <3>2. CASE t = m.dst_bus_id /\ queue'[t][i] = m
      BY <3>2 DEF MsgOf, NotReturned
    <3> QED BY <2>1, <3>1, <3>2
  <2>4. \A t \in Server : \A i \in DOMAIN queue[t] : queue[t][i].id # m.id
    BY DEF Queued
  <2>5. OneMessage'
    BY <2>1, <2>4 DEF OneMessage
  <2> QED BY <2>1, <2>3, <2>5 DEF MsgInv, Queued
<1> QED BY <1>1, <1>2 DEF Publish

\* The transaction ends with its answer, which takes its place.
LEMMA AnswerMsgs ==
  ASSUME TypeOK, TypeOK', MsgsInv, NEW s \in Server, TaskEnds(s),
         req[s][cur[s]] # NoReq, Publish(Answer(s, req[s][cur[s]]))
  PROVE  MsgsInv'
<1>1. PICK c \in CoId : c = cur[s]
  BY DEF TaskEnds, TypeOK
<1>2. PICK r \in MsgHead : r = req[s][c] /\ r # NoReq
  BY <1>1 DEF TypeOK
<1>3. PICK m : m = Answer(s, r)
  OBVIOUS
<1>4. /\ m \in MsgHead /\ m.id = r.id /\ m.cmd = "rsp"
      /\ m.dst_bus_id = r.src_bus_id /\ m.dst_co_id = r.src_co_id
  BY <1>3, AnswerType DEF Answer
<1>5. ServeOf(r) /\ Publish(m)
  BY <1>1, <1>2, <1>3 DEF MsgsInv, ServeInv
<1>6. UNCHANGED <<issued, caller, executed, answer>>
  BY DEF TaskEnds, history
<1>7. \A t \in Server, e \in MsgHead : MsgOf(t, e) => MsgOf(t, e)'
  BY <1>6 DEF MsgOf, NotReturned
<1>8. MsgOf(m.dst_bus_id, m)'
  BY <1>4, <1>5, <1>6 DEF ServeOf, MsgOf, NotReturned
<1>9. MsgInv' /\ OneMessage' /\ \A id : Queued(id)' => Queued(id) \/ id = m.id
  BY <1>4, <1>5, <1>7, <1>8, PublishMsgs DEF ServeOf, MsgsInv
<1>10. \A t \in Server, d \in CoId :
         req'[t][d] = IF t = s /\ d = c THEN NoReq ELSE req[t][d]
  BY <1>1 DEF TaskEnds, TypeOK
<1>11. ASSUME NEW t \in Server, NEW d \in CoId, req'[t][d] # NoReq
       PROVE  ServeOf(req[t][d])'
  <2>1. PICK e : e = req[t][d]
    OBVIOUS
  <2>2. req'[t][d] = e /\ ServeOf(e) /\ ~(t = s /\ d = c)
    BY <1>10, <1>11, <2>1 DEF MsgsInv, ServeInv
  <2>3. e.id # r.id
    BY <1>2, <1>10, <1>11, <2>1, <2>2 DEF MsgsInv, OneServes
  <2>4. ServeOf(e)'
    BY <1>4, <1>6, <1>9, <2>2, <2>3 DEF ServeOf, NotReturned
  <2> QED BY <2>2, <2>4 DEF ServeOf, NotReturned
<1>12. OneServes'
  BY <1>10 DEF MsgsInv, OneServes
<1> QED BY <1>9, <1>11, <1>12 DEF MsgsInv, ServeInv

\* A new message has a number of its own.
LEMMA IssueFacts ==
  ASSUME TypeOK, HistoryInv, NEW s \in Server, NEW c \in {NoCo} \cup CoId, NEW d \in Server,
         Issue(s, c, d)
  PROVE  /\ issued + 1 \in Call /\ issued \in Nat /\ issued' = issued + 1
         /\ executed[issued + 1] = 0 /\ NotReturned(issued + 1)
         /\ \A id \in Call : caller'[id] = IF id = issued + 1 THEN <<s, c>> ELSE caller[id]
         /\ UNCHANGED <<executed, given_up, answer>>
<1>1. issued + 1 \in Call /\ issued \in Nat /\ issued' = issued + 1
  <2>1. issued < MaxCalls /\ issued' = issued + 1
    BY DEF Issue
  <2>2. issued \in Nat
    BY RpcAssumption DEF TypeOK
  <2> QED BY <2>1, <2>2, RequestType
<1>2. executed[issued + 1] = 0
  BY <1>1 DEF HistoryInv
<1>3. NotReturned(issued + 1)
  <2>1. issued + 1 # 0 /\ executed[issued + 1] # 1
    BY <1>1, <1>2
  <2> QED BY <2>1 DEF HistoryInv, NotReturned
<1>4. \A id \in Call : caller'[id] = IF id = issued + 1 THEN <<s, c>> ELSE caller[id]
  BY <1>1 DEF Issue, TypeOK
<1> QED BY <1>1, <1>2, <1>3, <1>4 DEF Issue

LEMMA IssueMsgs ==
  ASSUME TypeOK, TypeOK', MsgsInv, HistoryInv, NEW s \in Server, NEW c \in {NoCo} \cup CoId,
         NEW d \in Server, Issue(s, c, d), UNCHANGED req
  PROVE  MsgsInv'
<1>1. PICK m : m = Request(s, c, d)
  OBVIOUS
<1>2. /\ m \in MsgHead /\ m.id = issued + 1 /\ m.cmd = "req" /\ m.dst_co_id = NoCo
      /\ m.src_bus_id = s /\ m.src_co_id = c /\ m.dst_bus_id = d /\ Publish(m)
  BY <1>1, RequestType DEF Issue, Request
<1>3. /\ issued + 1 \in Call /\ issued \in Nat /\ issued' = issued + 1
      /\ executed[issued + 1] = 0
      /\ \A id \in Call : caller'[id] = IF id = issued + 1 THEN <<s, c>> ELSE caller[id]
      /\ UNCHANGED <<executed, answer>>
  BY IssueFacts
<1>4. \A id \in Call : id <= issued => id # issued + 1 /\ id <= issued' /\ caller'[id] = caller[id]
  BY <1>3, RpcAssumption DEF Call
<1>5. ASSUME NEW t \in Server, NEW e \in MsgHead, MsgOf(t, e) PROVE MsgOf(t, e)'
  <2>1. e.id \in Call /\ e.id <= issued
    BY <1>5, MsgType DEF MsgOf
  <2> QED BY <1>3, <1>4, <1>5, <2>1 DEF MsgOf, NotReturned
<1>6. \A t \in Server : \A i \in DOMAIN queue[t] :
        queue[t][i].id \in Call /\ queue[t][i].id <= issued
  BY QueuedType DEF MsgsInv, MsgInv, MsgOf, TypeOK
<1>7. ~Queued(m.id)
  BY <1>2, <1>4, <1>6 DEF Queued
<1>8. MsgOf(m.dst_bus_id, m)'
  BY <1>2, <1>3, RpcAssumption DEF MsgOf
<1>9. MsgInv' /\ OneMessage' /\ \A id : Queued(id)' => Queued(id) \/ id = m.id
  BY <1>2, <1>5, <1>7, <1>8, PublishMsgs DEF MsgsInv
<1>10. ASSUME NEW t \in Server, NEW e \in CoId, req'[t][e] # NoReq
       PROVE  ServeOf(req[t][e])'
  <2>1. PICK r : r = req[t][e]
    OBVIOUS
  <2>2. req'[t][e] = r /\ ServeOf(r)
    BY <1>10, <2>1 DEF MsgsInv, ServeInv
  <2>5. r \in MsgHead
    BY <1>10, <2>1 DEF TypeOK
  <2>3. r.id \in Call /\ r.id <= issued /\ r.id # issued + 1 /\ r.id <= issued'
        /\ caller'[r.id] = caller[r.id]
    BY <1>4, <2>2, <2>5, MsgType DEF ServeOf
  <2>4. ServeOf(r)'
    BY <1>2, <1>3, <1>9, <2>2, <2>3 DEF ServeOf, NotReturned
  <2> QED BY <2>2, <2>4 DEF ServeOf, NotReturned
<1>11. OneServes'
  BY DEF MsgsInv, OneServes
<1> QED BY <1>9, <1>10, <1>11 DEF MsgsInv, ServeInv

LEMMA MsgsStep == IInv /\ TypeOK' /\ [Next]_vars => MsgsInv'
<1> SUFFICES ASSUME IInv, TypeOK', [Next]_vars PROVE MsgsInv'
  OBVIOUS
<1>0. TypeOK /\ PoolInv /\ MsgsInv /\ WaitInv /\ HistoryInv
  BY DEF IInv, MsgsInv
<1>1. ASSUME NEW s \in Server, OnTimer(s) PROVE MsgsInv'
  <2>1. \A t \in Server, d \in CoId : req'[t][d] \in {req[t][d], NoReq}
    BY <1>0, <1>1 DEF OnTimer, StartTrans, TypeOK
  <2> QED BY <1>0, <1>1, <2>1, SameQueueIsShifted, MsgsKept DEF OnTimer, history
<1>2. ASSUME NEW s \in Server, OnRequest(s) PROVE MsgsInv'
  BY <1>0, <1>2, OnRequestMsgs
<1>3. ASSUME NEW s \in Server, OnReply(s) PROVE MsgsInv'
  BY <1>0, <1>3, OnReplyMsgs
<1>4. ASSUME NEW s \in Server, OnDropped(s) PROVE MsgsInv'
  <2>1. Shifted
    BY <1>0, <1>4, ConsumeFacts DEF OnDropped, MsgsInv
  <2> QED BY <1>0, <1>4, <2>1, MsgsKept DEF OnDropped, server, history
<1>5. ASSUME NEW s \in Server, TaskEnds(s) PROVE MsgsInv'
  <2>1. CASE UNCHANGED queue
    <3>1. \A t \in Server, d \in CoId : req'[t][d] \in {req[t][d], NoReq}
      BY <1>0, <1>5 DEF TaskEnds, TypeOK
    <3> QED BY <1>0, <1>5, <2>1, <3>1, SameQueueIsShifted, MsgsKept DEF TaskEnds, history
  <2> QED BY <1>0, <1>5, <2>1, AnswerMsgs DEF TaskEnds
<1>6. ASSUME NEW s \in Server, NEW d \in Server, SendMsgThenYield(s, d) PROVE MsgsInv'
  <2>1. cur[s] \in CoId
    BY <1>0, <1>6 DEF SendMsgThenYield, TypeOK
  <2> QED BY <1>0, <1>6, <2>1, IssueMsgs DEF SendMsgThenYield
<1>7. ASSUME NEW s \in Server, NEW d \in Server, SendMsg(s, d) PROVE MsgsInv'
  BY <1>0, <1>7, IssueMsgs DEF SendMsg, server
<1>8. ASSUME NEW s \in Server, NEW c \in CoId, TimeOut(s, c) PROVE MsgsInv'
  BY <1>0, <1>8, SameQueueIsShifted, MsgsKept DEF TimeOut, Wake
<1>9. ASSUME NEW s \in Server, ConnectionLost(s) PROVE MsgsInv'
  BY <1>0, <1>9, LostQueueIsShifted, MsgsKept DEF ConnectionLost, server, history
<1>10. ASSUME NEW s \in Server, Restart(s) PROVE MsgsInv'
  <2>1. \A t \in Server, d \in CoId : req'[t][d] \in {req[t][d], NoReq}
    BY <1>0, <1>10 DEF Restart, TypeOK
  <2> QED BY <1>0, <1>10, <2>1, LostQueueIsShifted, MsgsKept DEF Restart
<1>11. CASE UNCHANGED vars
  BY <1>0, <1>11, SameQueueIsShifted, MsgsKept DEF vars, server, history
<1> QED BY <1>1, <1>2, <1>3, <1>4, <1>5, <1>6, <1>7, <1>8, <1>9, <1>10, <1>11
    DEF Next, OnMsg, Run

-----------------------------------------------------------------------------
(* What became of the calls. *)

CallsInv == WaitInv /\ HistoryInv /\ LateOrAwaited /\ WrongAnswerIsLate

LEMMA CallType == \A id \in Call : id \in Nat /\ id # 0
BY RpcAssumption DEF Call

\* Waits end, and those that end without an answer are given up.
LEMMA GiveUpCalls ==
  ASSUME TypeOK, CallsInv, UNCHANGED <<issued, caller, executed, answer>>,
         given_up \subseteq given_up',
         \A s \in Server, c \in CoId :
           waits'[s][c] # waits[s][c] => waits'[s][c] = 0 /\ waits[s][c] \in given_up'
  PROVE  CallsInv'
<1>1. WaitInv'
  BY DEF CallsInv, WaitInv
<1>2. HistoryInv'
  BY DEF CallsInv, HistoryInv
<1>3. LateOrAwaited'
  <2> SUFFICES ASSUME NEW id \in Call, NEW s \in Server, NEW c \in CoId,
                      id <= issued, caller[id] = <<s, c>>, NotReturned(id)
               PROVE  waits'[s][c] = id \/ GivenUpBefore(id)'
    BY DEF LateOrAwaited, NotReturned
  <2>1. CASE GivenUpBefore(id)
    BY <2>1 DEF GivenUpBefore
  <2>2. CASE waits[s][c] = id /\ waits'[s][c] # id
    <3>1. id \in given_up' /\ id <= id
      BY <2>2, CallType
    <3> QED BY <3>1 DEF GivenUpBefore
  <2> QED BY <2>1, <2>2 DEF CallsInv, LateOrAwaited
<1>4. WrongAnswerIsLate'
  BY DEF CallsInv, WrongAnswerIsLate
<1> QED BY <1>1, <1>2, <1>3, <1>4 DEF CallsInv

LEMMA ExecuteCalls ==
  ASSUME TypeOK, MsgsInv, CallsInv, NEW s \in Server, OnRequest(s)
  PROVE  CallsInv'
<1>1. PICK m : m = Delivery(s)
  OBVIOUS
<1>2. m \in MsgHead /\ 1 \in DOMAIN queue[s] /\ m = queue[s][1] /\ m.id \in Call
      /\ m.cmd = "req"
  BY <1>1, ConsumeFacts, MsgType DEF OnRequest, MsgsInv, StartsTrans
<1>3. m.id <= issued /\ executed[m.id] = 0
  BY <1>2 DEF MsgsInv, MsgInv, MsgOf
<1>4. /\ \A id \in Call : executed'[id] = IF id = m.id THEN 1 ELSE executed[id]
      /\ UNCHANGED <<issued, caller, given_up, answer, waits>>
  BY <1>1, <1>2, <1>3 DEF OnRequest, StartTrans, TypeOK
<1>5. issued \in Nat /\ m.id \in Nat /\ \A id \in Call : id > issued => id # m.id
  BY <1>2, <1>3, RpcAssumption, CallType DEF TypeOK
<1>6. \A id \in Call : answer[id] # 0 => answer[id] \in Call
  BY DEF TypeOK
<1>7. HistoryInv'
  BY <1>4, <1>5, <1>6 DEF CallsInv, HistoryInv
<1>8. WaitInv' /\ WrongAnswerIsLate'
  BY <1>4 DEF CallsInv, WaitInv, WrongAnswerIsLate
<1>9. LateOrAwaited'
  BY <1>4 DEF CallsInv, LateOrAwaited, GivenUpBefore, NotReturned
<1> QED BY <1>7, <1>8, <1>9 DEF CallsInv

\* A call returns its own answer, or that of an earlier call, one of which was
\* given up: it is not the one that is waited for.
LEMMA ReturnCalls ==
  ASSUME TypeOK, PoolInv, MsgsInv, CallsInv, NEW s \in Server, OnReply(s)
  PROVE  CallsInv'
<1>1. PICK m : m = Delivery(s)
  OBVIOUS
<1>2. PICK c : c = m.dst_co_id
  OBVIOUS
<1>3. PICK w : w = waits[s][c]
  OBVIOUS
<1>4. /\ m.id \in Call /\ c \in CoId /\ executed[m.id] = 1 /\ m.id <= issued
      /\ caller[m.id] = <<s, c>> /\ NotReturned(m.id) /\ w \in Call /\ m.id <= w
      /\ \A id \in Call : answer'[id] = IF id = w THEN m.id ELSE answer[id]
  BY <1>1, <1>2, <1>3, OnReplyFacts DEF CallsInv
<1>5. /\ UNCHANGED <<issued, caller, executed, given_up>>
      /\ \A t \in Server, d \in CoId :
           waits'[t][d] = IF t = s /\ d = c THEN 0 ELSE waits[t][d]
  BY <1>1, <1>2, <1>4 DEF OnReply, Wake, TypeOK
<1>6. w <= issued /\ caller[w] = <<s, c>> /\ answer[w] = 0 /\ w # 0
  BY <1>3, <1>4, CallType DEF CallsInv, WaitInv
<1>7. m.id \in Nat /\ w \in Nat /\ issued \in Nat /\ m.id # 0
  BY <1>4, CallType, RpcAssumption DEF TypeOK
<1>8. WaitInv'
  <2> SUFFICES ASSUME NEW t \in Server, NEW d \in CoId, waits'[t][d] # 0
               PROVE  /\ waits[t][d] <= issued
                      /\ caller[waits[t][d]] = <<t, d>>
                      /\ answer'[waits[t][d]] = 0
                      /\ \A id \in Call : id <= issued /\ caller[id] = <<t, d>> => id <= waits[t][d]
    BY <1>5 DEF WaitInv
  <2>1. ~(t = s /\ d = c) /\ waits[t][d] # 0 /\ waits[t][d] \in Call
    BY <1>5 DEF TypeOK
  <2>2. waits[t][d] # w
    BY <1>6, <2>1 DEF CallsInv, WaitInv
  <2> QED BY <1>4, <2>1, <2>2 DEF CallsInv, WaitInv
<1>9. HistoryInv'
  <2>1. \A id \in Call : id > issued => id # w
    BY <1>6, <1>7, CallType
  <2> QED BY <1>4, <1>5, <2>1 DEF CallsInv, HistoryInv
<1>10. m.id = w \/ GivenUpBefore(m.id)
  BY <1>3, <1>4 DEF CallsInv, LateOrAwaited
<1>11. WrongAnswerIsLate'
  <2> SUFFICES ASSUME NEW id \in Call, answer'[id] \notin {0, id}
               PROVE  /\ answer'[id] < id
                      /\ caller[answer'[id]] = caller[id]
                      /\ \E late \in given_up : late <= answer'[id] /\ caller[late] = caller[id]
    BY <1>5 DEF WrongAnswerIsLate
  <2>1. CASE id = w
    BY <1>4, <1>6, <1>7, <1>10, <2>1 DEF GivenUpBefore
  <2>2. CASE id # w
    BY <1>4, <2>2 DEF CallsInv, WrongAnswerIsLate
  <2> QED BY <2>1, <2>2
<1>12. LateOrAwaited'
  <2> SUFFICES ASSUME NEW id \in Call, NEW t \in Server, NEW d \in CoId,
                      id <= issued, caller[id] = <<t, d>>, NotReturned(id)'
               PROVE  waits'[t][d] = id \/ GivenUpBefore(id)
    BY <1>5 DEF LateOrAwaited, GivenUpBefore
  <2>1. id # m.id
    BY <1>4 DEF NotReturned
  <2>2. NotReturned(id)
    <3> SUFFICES ASSUME NEW x \in Call, answer[x] = id PROVE FALSE
      BY DEF NotReturned
    <3>1. x # w
      BY <1>6, CallType
    <3> QED BY <1>4, <3>1 DEF NotReturned
  <2>3. CASE t = s /\ d = c /\ id = w
    <3>1. m.id # w /\ GivenUpBefore(m.id)
      BY <1>10, <2>1, <2>3
    <3>2. PICK late \in given_up : late <= m.id /\ caller[late] = caller[m.id]
      BY <3>1 DEF GivenUpBefore
    <3>3. late <= id
      BY <1>4, <1>7, <2>3, <3>2, CallType DEF TypeOK
    <3> QED BY <1>4, <2>3, <3>2, <3>3 DEF GivenUpBefore
  <2>4. CASE ~(t = s /\ d = c) \/ id # w
    <3>1. waits[t][d] = id \/ GivenUpBefore(id)
      BY <2>2 DEF CallsInv, LateOrAwaited
    <3> QED BY <1>3, <1>5, <2>4, <3>1
  <2> QED BY <2>3, <2>4
<1> QED BY <1>8, <1>9, <1>11, <1>12 DEF CallsInv

\* A message is sent; a coroutine that waits for its answer waits for nothing else.
LEMMA IssueCalls ==
  ASSUME TypeOK, PoolInv, CallsInv, NEW s \in Server, NEW c \in {NoCo} \cup CoId,
         NEW d \in Server, Issue(s, c, d),
         \/ c = NoCo /\ UNCHANGED waits
         \/ c = cur[s] /\ c \in CoId /\ waits' = [waits EXCEPT ![s][c] = issued + 1]
  PROVE  CallsInv'
<1>1. /\ issued + 1 \in Call /\ issued \in Nat /\ issued' = issued + 1
      /\ executed[issued + 1] = 0 /\ NotReturned(issued + 1)
      /\ \A id \in Call : caller'[id] = IF id = issued + 1 THEN <<s, c>> ELSE caller[id]
      /\ UNCHANGED <<executed, given_up, answer>>
  BY IssueFacts DEF CallsInv
<1>2. \A id \in Call : id <= issued =>
        id # issued + 1 /\ id < issued' /\ id <= issued' /\ caller'[id] = caller[id]
  BY <1>1, CallType
<1>3. \A id \in Call : id <= issued' <=> id <= issued \/ id = issued + 1
  BY <1>1, CallType
<1>4. c \in CoId => waits[s][c] = 0
  BY NoCoIsNone DEF PoolInv, PoolOf
<1>5. \A t \in Server, e \in CoId :
        waits'[t][e] = IF t = s /\ e = c THEN issued + 1 ELSE waits[t][e]
  BY NoCoIsNone DEF TypeOK
<1>6. answer[issued + 1] = 0
  BY <1>1 DEF CallsInv, HistoryInv
<1>7. WaitInv'
  <2> SUFFICES ASSUME NEW t \in Server, NEW e \in CoId, waits'[t][e] # 0
               PROVE  /\ waits'[t][e] <= issued'
                      /\ caller'[waits'[t][e]] = <<t, e>>
                      /\ answer[waits'[t][e]] = 0
                      /\ \A id \in Call : id <= issued' /\ caller'[id] = <<t, e>> => id <= waits'[t][e]
    BY <1>1 DEF WaitInv
  <2>1. CASE t = s /\ e = c
    BY <1>1, <1>5, <1>6, <2>1, CallType
  <2>2. CASE ~(t = s /\ e = c)
    <3>1. waits'[t][e] = waits[t][e] /\ waits[t][e] # 0 /\ waits[t][e] \in Call
      BY <1>5, <2>2 DEF TypeOK
    <3>2. /\ waits[t][e] <= issued /\ caller[waits[t][e]] = <<t, e>> /\ answer[waits[t][e]] = 0
          /\ \A id \in Call : id <= issued /\ caller[id] = <<t, e>> => id <= waits[t][e]
      BY <3>1 DEF CallsInv, WaitInv
    <3>3. <<t, e>> # <<s, c>>
      BY <2>2
    <3> QED BY <1>1, <1>2, <1>3, <3>1, <3>2, <3>3
  <2> QED BY <2>1, <2>2
<1>8. HistoryInv'
  BY <1>1, <1>3, CallType DEF CallsInv, HistoryInv
<1>9. \A id \in Call : id <= issued /\ GivenUpBefore(id) => GivenUpBefore(id)'
  <2> SUFFICES ASSUME NEW id \in Call, id <= issued, GivenUpBefore(id)
               PROVE  GivenUpBefore(id)'
    OBVIOUS
  <2>1. PICK late \in given_up : late <= id /\ caller[late] = caller[id]
    BY DEF GivenUpBefore
  <2>2. late \in Call /\ late <= issued
    BY <1>1, <2>1, CallType DEF TypeOK
  <2> QED BY <1>1, <1>2, <2>1, <2>2 DEF GivenUpBefore
<1>10. LateOrAwaited'
  <2> SUFFICES ASSUME NEW id \in Call, NEW t \in Server, NEW e \in CoId,
                      id <= issued', caller'[id] = <<t, e>>, NotReturned(id)
               PROVE  waits'[t][e] = id \/ GivenUpBefore(id)'
    BY <1>1 DEF LateOrAwaited, NotReturned
  <2>1. CASE id = issued + 1
    <3>1. t = s /\ e = c
      BY <1>1, <2>1
    <3> QED BY <1>5, <2>1, <3>1
  <2>2. CASE id <= issued
    <3>1. caller[id] = <<t, e>>
      BY <1>2, <2>2
    <3>2. waits[t][e] = id \/ GivenUpBefore(id)
      BY <2>2, <3>1 DEF CallsInv, LateOrAwaited
    <3>3. waits[t][e] = id => waits'[t][e] = id
      BY <1>4, <1>5, CallType
    <3> QED BY <1>9, <2>2, <3>2, <3>3
  <2> QED BY <1>3, <2>1, <2>2
<1>11. WrongAnswerIsLate'
  <2> SUFFICES ASSUME NEW id \in Call, answer[id] \notin {0, id}
               PROVE  /\ answer[id] < id
                      /\ caller'[answer[id]] = caller'[id]
                      /\ \E late \in given_up : late <= answer[id] /\ caller'[late] = caller'[id]
    BY <1>1 DEF WrongAnswerIsLate
  <2>1. answer[id] < id /\ caller[answer[id]] = caller[id] /\ answer[id] \in Call
    BY DEF CallsInv, WrongAnswerIsLate, TypeOK
  <2>2. PICK late \in given_up : late <= answer[id] /\ caller[late] = caller[id]
    BY DEF CallsInv, WrongAnswerIsLate
  <2>3. id <= issued
    BY <1>1, CallType DEF CallsInv, HistoryInv
  <2>4. late \in Call /\ late <= issued /\ answer[id] <= issued
    BY <1>1, <2>1, <2>2, <2>3, CallType DEF TypeOK
  <2> QED BY <1>2, <2>1, <2>2, <2>3, <2>4
<1> QED BY <1>7, <1>8, <1>10, <1>11 DEF CallsInv

LEMMA CallsStep == IInv /\ [Next]_vars => CallsInv'
<1> SUFFICES ASSUME IInv, [Next]_vars PROVE CallsInv'
  OBVIOUS
<1>0. TypeOK /\ PoolInv /\ MsgsInv /\ CallsInv
  BY DEF IInv, MsgsInv, CallsInv
<1>1. ASSUME NEW s \in Server, OnRequest(s) PROVE CallsInv'
  BY <1>0, <1>1, ExecuteCalls
<1>2. ASSUME NEW s \in Server, OnReply(s) PROVE CallsInv'
  BY <1>0, <1>2, ReturnCalls
<1>3. ASSUME NEW s \in Server, NEW d \in Server, SendMsgThenYield(s, d) PROVE CallsInv'
  <2>1. cur[s] \in CoId
    BY <1>0, <1>3 DEF SendMsgThenYield, TypeOK
  <2> QED BY <1>0, <1>3, <2>1, IssueCalls DEF SendMsgThenYield
<1>4. ASSUME NEW s \in Server, NEW d \in Server, SendMsg(s, d) PROVE CallsInv'
  BY <1>0, <1>4, IssueCalls DEF SendMsg, server
<1>5. ASSUME NEW s \in Server, NEW c \in CoId, TimeOut(s, c) PROVE CallsInv'
  <2>1. \A t \in Server, d \in CoId :
          waits'[t][d] # waits[t][d] => waits'[t][d] = 0 /\ waits[t][d] \in given_up'
    BY <1>0, <1>5 DEF TimeOut, Wake, TypeOK
  <2> QED BY <1>0, <1>5, <2>1, GiveUpCalls DEF TimeOut
<1>6. ASSUME NEW s \in Server, Restart(s) PROVE CallsInv'
  <2>1. \A t \in Server, d \in CoId :
          waits'[t][d] # waits[t][d] => waits'[t][d] = 0 /\ waits[t][d] \in given_up'
    BY <1>0, <1>6 DEF Restart, TypeOK
  <2> QED BY <1>0, <1>6, <2>1, GiveUpCalls DEF Restart
<1>7. ASSUME UNCHANGED <<waits, history>> PROVE CallsInv'
  BY <1>0, <1>7, GiveUpCalls DEF history
<1>8. ASSUME NEW s \in Server, OnTimer(s) \/ OnDropped(s) \/ TaskEnds(s) \/ ConnectionLost(s)
      PROVE  CallsInv'
  BY <1>7, <1>8 DEF OnTimer, OnDropped, TaskEnds, ConnectionLost, StartTrans, server
<1>9. CASE UNCHANGED vars
  BY <1>7, <1>9 DEF vars, server
<1> QED BY <1>1, <1>2, <1>3, <1>4, <1>5, <1>6, <1>8, <1>9 DEF Next, OnMsg, Run

-----------------------------------------------------------------------------
LEMMA InitIInv == Init => IInv
<1> SUFFICES ASSUME Init PROVE IInv
  OBVIOUS
<1>1. TypeOK
  BY InitTypeOK
<1>2. PoolInv
  BY DEF Init, PoolInv, PoolOf
<1>3. MsgInv /\ OneMessage /\ ServeInv /\ OneServes
  BY DEF Init, MsgInv, OneMessage, ServeInv, OneServes
<1>4. WaitInv /\ HistoryInv /\ WrongAnswerIsLate
  BY DEF Init, WaitInv, HistoryInv, WrongAnswerIsLate
<1>5. LateOrAwaited
  BY CallType DEF Init, LateOrAwaited
<1> QED BY <1>1, <1>2, <1>3, <1>4, <1>5 DEF IInv

\* The invariant is inductive.
THEOREM Invariance == Spec => []IInv
<1>1. IInv /\ [Next]_vars => IInv'
  <2> SUFFICES ASSUME IInv, [Next]_vars PROVE IInv'
    OBVIOUS
  <2>1. TypeOK' /\ PoolInv'
    BY TypeStep, PoolStep DEF IInv
  <2>2. MsgsInv' /\ CallsInv'
    BY <2>1, MsgsStep, CallsStep
  <2> QED BY <2>1, <2>2 DEF IInv, MsgsInv, CallsInv
<1> QED BY <1>1, InitIInv, PTL DEF Spec

\* A call returns another call's answer only after a call of the same server and
\* co_id was given up, however many servers and transactions there are.
THEOREM WrongAnswersAreLate == Spec => []WrongAnswerIsLate
<1>1. IInv => WrongAnswerIsLate
  BY DEF IInv
<1> QED BY <1>1, Invariance, PTL

\* What RabbitMQ still holds and what is served is about different calls, each
\* of them once.
THEOREM MessagesAreOne == Spec => [](OneMessage /\ ServeInv /\ OneServes)
<1>1. IInv => OneMessage /\ ServeInv /\ OneServes
  BY DEF IInv
<1> QED BY <1>1, Invariance, PTL

-----------------------------------------------------------------------------
(* The refinement: every step is one of CallOnce's, or none. *)

LEMMA IssueIsIssue ==
  ASSUME NEW s, NEW c, NEW d, Issue(s, c, d)
  PROVE  Calls!Issue
BY DEF Issue, Calls!Issue

LEMMA RequestIsExecute ==
  ASSUME IInv, NEW s \in Server, OnRequest(s)
  PROVE  \E id \in Calls!Call : Calls!Execute(id)
<1>1. PICK m : m = Delivery(s)
  OBVIOUS
<1>2. m \in MsgHead /\ 1 \in DOMAIN queue[s] /\ m = queue[s][1] /\ m.id \in Call
      /\ m.cmd = "req"
  BY <1>1, ConsumeFacts, MsgType DEF OnRequest, IInv, StartsTrans
<1>3. m.id <= issued /\ executed[m.id] = 0
  BY <1>2 DEF IInv, MsgInv, MsgOf
<1>4. executed' = [executed EXCEPT ![m.id] = 1] /\ UNCHANGED <<issued, answer>>
  BY <1>1, <1>3 DEF OnRequest
<1> QED BY <1>2, <1>3, <1>4 DEF Calls!Call, Call, Calls!Execute

LEMMA ReplyIsReturn ==
  ASSUME IInv, NEW s \in Server, OnReply(s)
  PROVE  \E id \in Calls!Call : \E a \in Calls!Call : Calls!Return(id, a)
<1>1. PICK m : m = Delivery(s)
  OBVIOUS
<1>2. PICK w : w = waits[s][m.dst_co_id]
  OBVIOUS
<1>3. /\ m.id \in Call /\ m.dst_co_id \in CoId /\ w \in Call
      /\ executed[m.id] = 1 /\ NotReturned(m.id)
  BY <1>1, <1>2, OnReplyFacts DEF IInv, MsgsInv
<1>4. w <= issued /\ answer[w] = 0
  BY <1>2, <1>3, CallType DEF IInv, WaitInv
<1>5. answer' = [answer EXCEPT ![w] = m.id] /\ UNCHANGED <<issued, executed>>
  BY <1>1, <1>2 DEF OnReply
<1> QED BY <1>3, <1>4, <1>5 DEF Calls!Call, Call, Calls!Return, NotReturned

\* The servers keep CallOnce's promise: whatever is lost or restarted, a message
\* is executed at most once and an answer is returned by at most one call.
THEOREM RpcRefinement == Spec => ImplementsCallOnce
<1>1. Init => Calls!Init
  BY DEF Init, Calls!Init, Call, Calls!Call
<1>2. IInv /\ [Next]_vars => [Calls!Next]_(Calls!vars)
  <2> SUFFICES ASSUME IInv, [Next]_vars PROVE [Calls!Next]_(Calls!vars)
    OBVIOUS
  <2>1. ASSUME NEW s \in Server, OnRequest(s) PROVE Calls!Next
    BY <2>1, RequestIsExecute DEF Calls!Next
  <2>2. ASSUME NEW s \in Server, OnReply(s) PROVE Calls!Next
    BY <2>2, ReplyIsReturn DEF Calls!Next
  <2>3. ASSUME NEW s \in Server, NEW d \in Server, SendMsgThenYield(s, d) \/ SendMsg(s, d)
        PROVE  Calls!Next
    BY <2>3, IssueIsIssue DEF SendMsgThenYield, SendMsg, Calls!Next
  <2>4. ASSUME NEW s \in Server, NEW c \in CoId, TimeOut(s, c) PROVE UNCHANGED Calls!vars
    BY <2>4 DEF TimeOut, Calls!vars
  <2>5. CASE UNCHANGED vars
    BY <2>5 DEF vars, history, Calls!vars
  <2>6. ASSUME NEW s \in Server, OnTimer(s) \/ OnDropped(s) \/ TaskEnds(s) \/ ConnectionLost(s)
                                  \/ Restart(s)
        PROVE  UNCHANGED Calls!vars
    BY <2>6 DEF OnTimer, OnDropped, TaskEnds, ConnectionLost, Restart, history, Calls!vars
  <2> QED BY <2>1, <2>2, <2>3, <2>4, <2>5, <2>6 DEF Next, OnMsg, Run
<1> QED BY <1>1, <1>2, Invariance, PTL DEF Spec, ImplementsCallOnce, Calls!Spec
=============================================================================
