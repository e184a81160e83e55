-------------------------- MODULE RedisProxyProofs --------------------------
(***************************************************************************)
(* Proofs about RedisProxy, for any number of transactions, requests and    *)
(* faults.                                                                  *)
(***************************************************************************)
EXTENDS RedisProxy, TLAPS

LEMMA EmptyIsNone == Empty \notin Call /\ Empty # 0
  BY ProxyAssumption DEF Call

LEMMA NewCoIsCo ==
  ASSUME TypeOK, HasTrans
  PROVE  /\ NewCo \in CoId
         /\ RestCo \in Seq(CoId)
         /\ NewInc \in 0..MaxTrans
         /\ inc <= NewInc
<1> USE DEF TypeOK, HasTrans, NewCo, RestCo, NewInc, CoId
<1>1. CASE free = <<>>
  BY <1>1, ProxyAssumption
<1>2. CASE free # <<>>
  BY <1>2, ProxyAssumption
<1> QED BY <1>1, <1>2

LEMMA AnswersType ==
  ASSUME TypeOK, NEW c \in CoId, waits[c] # 0, NEW r \in Call \cup {Empty},
         Answers(c, r)
  PROVE  /\ got' \in [Call -> Call \cup {0, Empty}]
         /\ waits' \in [CoId -> Call \cup {0}]
         /\ free' \in Seq(CoId)
         /\ inc' \in 0..MaxTrans
  BY DEF TypeOK, Answers

LEMMA TypeStep == TypeOK /\ [Next]_vars => TypeOK'
<1> SUFFICES ASSUME TypeOK, [Next]_vars PROVE TypeOK'
  OBVIOUS
<1>1. CASE Reconnect
  BY <1>1, ProxyAssumption DEF Reconnect, TypeOK, Fault, Link, ClientState,
                               coVars, history
<1>2. ASSUME NEW status \in {"REDIS_OK", "REDIS_ERR"}, ConnectCallback(status)
      PROVE  TypeOK'
  BY <1>2, ProxyAssumption DEF ConnectCallback, TypeOK, Fault, Link,
                               ClientState, coVars, history
<1>3. CASE Break
  BY <1>3, ProxyAssumption DEF Break, TypeOK, Fault, Link, coVars, history
<1>4. CASE DisconnectCallback
  BY <1>4 DEF DisconnectCallback, TypeOK, Link, ClientState, coVars, history
<1>5. CASE CmdSent
  <2> USE <1>5 DEF CmdSent, Arrives, TypeOK
  <2>1. issued + 1 \in Call /\ issued' \in 0..MaxCalls
    BY ProxyAssumption DEF Call
  <2>2. [id |-> issued + 1, co |-> NewCo, done |-> FALSE] \in Callback
    BY <2>1, NewCoIsCo DEF Callback
  <2>3. pending' \in Seq(Callback)
    BY <2>2 DEF Owed
  <2> QED BY <2>1, <2>3, NewCoIsCo
<1>6. CASE CmdRefused
  <2> USE <1>6 DEF CmdRefused, Arrives, TypeOK
  <2>1. issued + 1 \in Call /\ issued' \in 0..MaxCalls
    BY ProxyAssumption DEF Call
  <2>2. faults' \in 0..MaxFaults
    BY ProxyAssumption DEF Fault
  <2>3. free' \in Seq(CoId)
    BY NewCoIsCo
  <2> QED BY <2>1, <2>2, <2>3, NewCoIsCo
<1>7. CASE Dropped
  BY <1>7, ProxyAssumption DEF Dropped, Arrives, TypeOK, coVars
<1>8. CASE Crash
  <2> USE <1>8 DEF Crash, Arrives, Boot, TypeOK
  <2>1. issued' \in 0..MaxCalls
    BY ProxyAssumption
  <2>2. link' \in Link /\ inc' \in 0..MaxTrans
    BY ProxyAssumption DEF Link
  <2>3. waits' \in [CoId -> Call \cup {0}]
    OBVIOUS
  <2>4. pending' \in Seq(Callback) /\ free' \in Seq(CoId)
    OBVIOUS
  <2> QED BY <2>1, <2>2, <2>3, <2>4
<1>9. CASE Reply
  <2> USE <1>9 DEF Reply
  <2>1. Head(pending) \in Callback /\ Tail(pending) \in Seq(Callback)
    BY DEF TypeOK
  <2>2. PICK r \in {Head(pending).id, Empty} : GetCallback(Head(pending), r)
    OBVIOUS
  <2>3. r \in Call \cup {Empty} /\ Head(pending).co \in CoId
    BY <2>1, <2>2 DEF Callback
  <2>4. CASE waits[Head(pending).co] # 0
    <3>1. Answers(Head(pending).co, r)
      BY <2>2, <2>4 DEF GetCallback
    <3> QED BY <2>1, <2>3, <2>4, <3>1, AnswersType DEF TypeOK
  <2>5. CASE waits[Head(pending).co] = 0
    BY <2>1, <2>2, <2>5 DEF TypeOK, GetCallback, coVars
  <2> QED BY <2>4, <2>5
<1>10. CASE NullReply
  <2> USE <1>10 DEF NullReply
  <2>1. Head(pending) \in Callback /\ Tail(pending) \in Seq(Callback)
    BY DEF TypeOK
  <2>2. Head(pending).co \in CoId
    BY <2>1 DEF Callback
  <2>3. CASE waits[Head(pending).co] # 0
    <3>1. Answers(Head(pending).co, Empty)
      BY <2>3 DEF GetCallback
    <3> QED BY <2>1, <2>2, <2>3, <3>1, AnswersType DEF TypeOK
  <2>4. CASE waits[Head(pending).co] = 0
    BY <2>1, <2>4 DEF TypeOK, GetCallback, coVars
  <2> QED BY <2>3, <2>4
<1>11. ASSUME NEW i \in DOMAIN pending, Execute(i) PROVE TypeOK'
  <2> USE <1>11 DEF Execute, TypeOK
  <2>1. pending[i] \in Callback
    OBVIOUS
  <2>2. [pending[i] EXCEPT !.done = TRUE] \in Callback
    BY <2>1 DEF Callback
  <2>3. pending' \in Seq(Callback)
    BY <2>2
  <2>4. executed' \in [Call -> Nat]
    BY <2>1 DEF Callback
  <2> QED BY <2>3, <2>4 DEF coVars
<1>12. ASSUME NEW c \in CoId, TimeOut(c) PROVE TypeOK'
  <2> USE <1>12 DEF TimeOut
  <2>1. waits[c] \in Call
    BY DEF TypeOK
  <2> QED BY <2>1, AnswersType DEF TypeOK
<1>13. CASE UNCHANGED vars
  BY <1>13 DEF TypeOK, vars, coVars, history
<1> QED BY <1>1, <1>2, <1>3, <1>4, <1>5, <1>6, <1>7, <1>8, <1>9, <1>10, <1>11,
           <1>12, <1>13 DEF Next, OnRequest, OnReply

LEMMA InitTypeOK == Init => TypeOK
<1> SUFFICES ASSUME Init PROVE TypeOK
  OBVIOUS
<1> USE DEF Init, TypeOK
<1>1. link \in Link
  BY DEF Link
<1>2. inc \in 0..MaxTrans /\ faults \in 0..MaxFaults /\ issued \in 0..MaxCalls
  BY ProxyAssumption
<1>3. pending \in Seq(Callback) /\ free \in Seq(CoId)
  OBVIOUS
<1> QED BY <1>1, <1>2, <1>3

\* Every value of every variable is of its type.
THEOREM TypeCorrect == Spec => []TypeOK
  BY InitTypeOK, TypeStep, PTL DEF Spec

LEMMA LinkStep == TypeOK /\ StateIsLinks /\ [Next]_vars => StateIsLinks'
<1> SUFFICES ASSUME TypeOK, StateIsLinks, [Next]_vars PROVE StateIsLinks'
  OBVIOUS
<1> USE DEF StateIsLinks
<1>1. CASE Reconnect
  BY <1>1 DEF Reconnect, NotNeedReconnect, InMainLoop
<1>2. ASSUME NEW status \in {"REDIS_OK", "REDIS_ERR"}, ConnectCallback(status)
      PROVE  StateIsLinks'
  BY <1>2 DEF ConnectCallback
<1>3. CASE Break \/ DisconnectCallback
  BY <1>3 DEF Break, DisconnectCallback
<1>4. CASE OnRequest
  BY <1>4 DEF OnRequest, CmdSent, CmdRefused, Dropped, Crash, Boot
<1>5. CASE OnReply
  BY <1>5 DEF OnReply, Reply, NullReply
<1>6. ASSUME NEW i \in DOMAIN pending, Execute(i) PROVE StateIsLinks'
  BY <1>6 DEF Execute
<1>7. ASSUME NEW c \in CoId, TimeOut(c) PROVE StateIsLinks'
  BY <1>7 DEF TimeOut
<1>8. CASE UNCHANGED vars
  BY <1>8 DEF vars
<1> QED BY <1>1, <1>2, <1>3, <1>4, <1>5, <1>6, <1>7, <1>8 DEF Next

\* state_ follows the connection (redis_client.cpp:17-35, 44-69): a command
\* never meets a context that was freed.
THEOREM StateFollowsLink == Spec => []StateIsLinks
<1>1. Init => StateIsLinks
  BY DEF Init, StateIsLinks
<1> QED BY <1>1, LinkStep, TypeCorrect, PTL DEF Spec

-----------------------------------------------------------------------------
(* Every step preserves IInv: one lemma for each kind of step. *)

\* What is known of the callback that is due next.
LEMMA HeadFacts ==
  ASSUME TypeOK, InOrder, pending # <<>>
  PROVE  /\ Head(pending) = pending[1] /\ 1 \in DOMAIN pending
         /\ DOMAIN Tail(pending) = 1..(Len(pending) - 1)
         /\ \A i \in 1..(Len(pending) - 1) : /\ Tail(pending)[i] = pending[i + 1]
                                             /\ i + 1 \in DOMAIN pending
                                             /\ pending[1].id < pending[i + 1].id
  BY DEF TypeOK, InOrder, Owes

LEMMA EntryTypes ==
  ASSUME TypeOK, NEW i \in DOMAIN pending
  PROVE  /\ pending[i].id \in Call /\ pending[i].id \in Nat \ {0}
         /\ pending[i].co \in CoId /\ pending[i].done \in BOOLEAN
<1>1. pending[i] \in Callback
  BY DEF TypeOK
<1>2. /\ pending[i].id \in Call /\ pending[i].co \in CoId
      /\ pending[i].done \in BOOLEAN
  BY <1>1 DEF Callback
<1> QED BY <1>2, ProxyAssumption DEF Call

\* NewCoroutine gives a coroutine that serves no request; the others that are
\* free stay so.
LEMMA NewCoIsFree ==
  ASSUME TypeOK, PoolInv, HasTrans
  PROVE  /\ waits[NewCo] = 0
         /\ NewCo <= NewInc
         /\ \A j \in DOMAIN RestCo : /\ RestCo[j] # NewCo
                                     /\ RestCo[j] <= NewInc
                                     /\ waits[RestCo[j]] = 0
         /\ \A j, k \in DOMAIN RestCo : RestCo[j] = RestCo[k] => j = k
         /\ \A c \in CoId : c > NewInc => waits[c] = 0
<1>1. CASE free = <<>>
  BY <1>1, NewCoIsCo DEF TypeOK, PoolInv, HasTrans, NewCo, RestCo, NewInc, CoId
<1>2. CASE free # <<>>
  <2>1. /\ RestCo = Tail(free) /\ NewCo = free[1] /\ 1 \in DOMAIN free
        /\ NewInc = inc
    BY <1>2 DEF TypeOK, RestCo, NewCo, NewInc
  <2>2. DOMAIN RestCo = 1..(Len(free) - 1)
    BY <1>2, <2>1 DEF TypeOK
  <2>3. \A j \in DOMAIN RestCo : RestCo[j] = free[j + 1] /\ j + 1 \in DOMAIN free
    BY <1>2, <2>1, <2>2 DEF TypeOK
  <2>4. \A j \in DOMAIN RestCo : j \in Nat /\ j + 1 # 1
    BY <2>2
  <2>5. \A j, k \in DOMAIN RestCo : j + 1 = k + 1 => j = k
    BY <2>4
  <2> QED BY <2>1, <2>3, <2>4, <2>5 DEF PoolInv
<1> QED BY <1>1, <1>2

\* The steps that concern the connection only.
LEMMA QuietStep ==
  ASSUME IInv, UNCHANGED <<pending, coVars, history>>,
         \/ link \in {"connected", "freeing"} => link' \in {"connected", "freeing"}
         \/ pending = <<>>
  PROVE  /\ PoolInv' /\ InOrder' /\ WaitsKnown' /\ GotKnown'
         /\ WaitHasCallback' /\ LateOrAwaited' /\ WrongReplyIsLate' /\ ExecutedOnce'
<1> USE DEF IInv, coVars, history
<1>1. PoolInv'
  BY DEF PoolInv
<1>2. InOrder' /\ WaitsKnown' /\ GotKnown'
  BY DEF InOrder, Owes, WaitsKnown, GotKnown
<1>3. WaitHasCallback'
  BY DEF WaitHasCallback
<1>4. LateOrAwaited' /\ WrongReplyIsLate'
  BY DEF LateOrAwaited, LateAt, Owes, WrongReplyIsLate
<1>5. ExecutedOnce'
  BY DEF ExecutedOnce, Owes
<1> QED BY <1>1, <1>2, <1>3, <1>4, <1>5

LEMMA AnswersPool ==
  ASSUME TypeOK, PoolInv, NEW c \in CoId, waits[c] # 0, NEW r, Answers(c, r)
  PROVE  PoolInv'
<1> USE DEF Answers
<1>1. c <= inc
  BY DEF PoolInv, TypeOK, CoId
<1>2. /\ DOMAIN free' = 1..(Len(free) + 1)
      /\ free'[Len(free) + 1] = c
      /\ \A j \in DOMAIN free : free'[j] = free[j] /\ free[j] # c
      /\ \A j \in DOMAIN free' : j \in DOMAIN free \/ j = Len(free) + 1
  BY DEF TypeOK, PoolInv
<1>3. \A d \in CoId : waits'[d] = IF d = c THEN 0 ELSE waits[d]
  BY DEF TypeOK
<1>4. \A j \in DOMAIN free : free[j] \in CoId
  BY DEF TypeOK
<1>5. \A j \in DOMAIN free' : free'[j] <= inc' /\ waits'[free'[j]] = 0
  BY <1>1, <1>2, <1>3, <1>4 DEF PoolInv
<1>6. \A j, k \in DOMAIN free' : free'[j] = free'[k] => j = k
  BY <1>2 DEF PoolInv
<1>7. \A d \in CoId : d > inc' => waits'[d] = 0
  BY <1>3 DEF PoolInv
<1> QED BY <1>5, <1>6, <1>7 DEF PoolInv

\* A callback is called: the wait of its coroutine, if there is one, ends.
LEMMA PopStep ==
  ASSUME IInv, pending # <<>>, NEW r \in {Head(pending).id, Empty},
         pending' = Tail(pending), GetCallback(Head(pending), r),
         UNCHANGED <<link, issued, executed, co_of, timed_out>>
  PROVE  /\ PoolInv' /\ InOrder' /\ WaitsKnown' /\ GotKnown'
         /\ WaitHasCallback' /\ LateOrAwaited' /\ WrongReplyIsLate' /\ ExecutedOnce'
<1> DEFINE c == pending[1].co
           m == pending[1].id
           w == waits[c]
<1> USE DEF IInv
<1>1. /\ 1 \in DOMAIN pending /\ Head(pending) = pending[1]
      /\ c \in CoId /\ m \in Call /\ m \in Nat /\ w \in Call \cup {0}
      /\ r \in {m, Empty}
  BY HeadFacts, EntryTypes DEF TypeOK
<1>2. /\ DOMAIN pending' = 1..(Len(pending) - 1)
      /\ \A i \in DOMAIN pending' : /\ pending'[i] = pending[i + 1]
                                    /\ i + 1 \in DOMAIN pending
                                    /\ m < pending[i + 1].id
  BY HeadFacts
<1>3. /\ \A d \in CoId : waits'[d] = IF d = c THEN 0 ELSE waits[d]
      /\ \A id \in Call : got'[id] = IF w # 0 /\ id = w THEN r ELSE got[id]
  BY <1>1 DEF GetCallback, Answers, coVars, TypeOK
<1>4. \A d \in CoId : d # c /\ waits[d] # 0 =>
        waits[d] \in Call /\ waits[d] # w /\ got'[waits[d]] = got[waits[d]]
  BY <1>1, <1>3 DEF TypeOK, WaitsKnown
<1>5. \A i \in DOMAIN pending' : /\ pending[i + 1].id \in Call
                                 /\ pending[i + 1].id \in Nat \ {0}
                                 /\ pending[i + 1].co \in CoId
  BY <1>2, EntryTypes
<1>6. PoolInv'
  BY <1>1, AnswersPool DEF GetCallback, coVars, PoolInv
<1>7. InOrder'
  <2>1. ASSUME NEW i \in Owes', NEW j \in Owes', i < j
        PROVE  pending'[i].id < pending'[j].id
    <3>1. i + 1 < j + 1
      BY <1>2, <2>1 DEF Owes
    <3> QED BY <1>2, <3>1 DEF Owes, InOrder
  <2>2. ASSUME NEW i \in Owes'
        PROVE  /\ pending'[i].id <= issued'
               /\ co_of'[pending'[i].id] = pending'[i].co
    BY <1>2 DEF Owes, InOrder
  <2> QED BY <2>1, <2>2 DEF InOrder
<1>8. WaitsKnown'
  BY <1>3, <1>4 DEF WaitsKnown
<1>9. GotKnown'
  <2>1. w # 0 => w <= issued
    BY <1>1 DEF WaitsKnown
  <2> QED BY <1>3, <2>1 DEF GotKnown
<1>10. WaitHasCallback'
  <2> SUFFICES ASSUME NEW d \in CoId, waits'[d] # 0
               PROVE  /\ link' \in {"connected", "freeing"}
                      /\ \E i \in DOMAIN pending' :
                           pending'[i].id = waits'[d] /\ pending'[i].co = d
    BY DEF WaitHasCallback
  <2>1. d # c /\ waits'[d] = waits[d]
    BY <1>3
  <2>2. PICK i \in DOMAIN pending : pending[i].id = waits[d] /\ pending[i].co = d
    BY <2>1 DEF WaitHasCallback
  <2>3. i # 1
    BY <2>1, <2>2
  <2>4. i - 1 \in DOMAIN pending' /\ (i - 1) + 1 = i
    BY <1>2, <2>3 DEF TypeOK
  <2>5. pending'[i - 1] = pending[i]
    BY <1>2, <2>4
  <2>6. link \in {"connected", "freeing"}
    BY <2>1 DEF WaitHasCallback
  <2> QED BY <2>1, <2>2, <2>4, <2>5, <2>6
<1>11. w # 0 /\ w # m => m < w /\ LateAt(c, m)
  <2>1. \A x, y \in Nat : x <= y /\ x # y => x < y
    OBVIOUS
  <2>2. w # 0 => w \in Nat
    BY <1>1 DEF Call
  <2> QED BY <1>1, <2>1, <2>2 DEF LateOrAwaited, Owes
<1>12. LateOrAwaited'
  <2> SUFFICES ASSUME NEW i \in DOMAIN pending'
               PROVE  LET e == pending[i + 1]
                      IN  /\ waits'[e.co] = e.id \/ LateAt(e.co, e.id)
                          /\ waits'[e.co] # 0 => e.id <= waits'[e.co]
    BY <1>2 DEF LateOrAwaited, LateAt, Owes
  <2> DEFINE e == pending[i + 1]
  <2>1. CASE e.co # c
    BY <1>2, <1>3, <1>5, <2>1 DEF LateOrAwaited, Owes
  <2>2. CASE e.co = c
    <3>1. waits'[e.co] = 0
      BY <1>3, <1>5, <2>2
    <3>2. LateAt(c, e.id)
      <4>1. CASE w # e.id
        BY <1>2, <2>2, <4>1 DEF LateOrAwaited, Owes
      <4>2. CASE w = e.id
        <5>1. w # 0 /\ w # m
          BY <1>1, <1>2, <1>5, <4>2
        <5>2. PICK late \in timed_out : late <= m /\ co_of[late] = c
          BY <1>11, <5>1 DEF LateAt
        <5>3. late \in Nat
          BY DEF TypeOK, Call
        <5>4. late <= e.id
          BY <1>1, <1>2, <1>5, <5>2, <5>3
        <5> QED BY <5>2, <5>4 DEF LateAt
      <4> QED BY <4>1, <4>2
    <3> QED BY <2>2, <3>1, <3>2
  <2> QED BY <2>1, <2>2
<1>13. WrongReplyIsLate'
  <2> SUFFICES ASSUME NEW id \in Call, got'[id] \in Call \ {id}
               PROVE  /\ got'[id] < id
                      /\ co_of[got'[id]] = co_of[id]
                      /\ LateAt(co_of[id], got'[id])
    BY DEF WrongReplyIsLate, LateAt
  <2>1. CASE w # 0 /\ id = w
    <3>1. got'[id] = m /\ m # w
      BY <1>1, <1>3, <2>1, EmptyIsNone
    <3>2. co_of[m] = c /\ co_of[w] = c
      BY <1>1, <2>1 DEF InOrder, Owes, WaitsKnown
    <3> QED BY <1>11, <2>1, <3>1, <3>2
  <2>2. CASE ~(w # 0 /\ id = w)
    BY <1>3, <2>2 DEF WrongReplyIsLate, LateAt
  <2> QED BY <2>1, <2>2
<1>14. ExecutedOnce'
  <2>1. ASSUME NEW i \in Owes'
        PROVE  /\ executed'[pending'[i].id] = IF pending'[i].done THEN 1 ELSE 0
               /\ \A id \in Call : got'[id] # pending'[i].id
    <3>1. /\ executed[pending[i + 1].id] = IF pending[i + 1].done THEN 1 ELSE 0
          /\ \A id \in Call : got[id] # pending[i + 1].id
      BY <1>2 DEF ExecutedOnce, Owes
    <3>2. m # pending[i + 1].id /\ Empty # pending[i + 1].id
      BY <1>1, <1>2, <1>5, EmptyIsNone DEF Owes
    <3> QED BY <1>1, <1>2, <1>3, <3>1, <3>2 DEF Owes
  <2> QED BY <2>1 DEF ExecutedOnce
<1> QED BY <1>6, <1>7, <1>8, <1>9, <1>10, <1>12, <1>13, <1>14

LEMMA TimeOutStep ==
  ASSUME IInv, NEW c \in CoId, TimeOut(c)
  PROVE  /\ PoolInv' /\ InOrder' /\ WaitsKnown' /\ GotKnown'
         /\ WaitHasCallback' /\ LateOrAwaited' /\ WrongReplyIsLate' /\ ExecutedOnce'
<1> DEFINE w == waits[c]
<1> USE DEF IInv
<1>1. /\ w \in Call /\ w \in Nat /\ w # 0 /\ w <= issued /\ co_of[w] = c
      /\ UNCHANGED <<pending, link, issued, executed, co_of>>
      /\ timed_out' = timed_out \cup {w}
  BY DEF TimeOut, TypeOK, WaitsKnown, Call
<1>2. /\ \A d \in CoId : waits'[d] = IF d = c THEN 0 ELSE waits[d]
      /\ \A id \in Call : got'[id] = IF id = w THEN Empty ELSE got[id]
  BY DEF TimeOut, Answers, TypeOK
<1>3. \A d \in CoId : d # c /\ waits[d] # 0 =>
        waits[d] \in Call /\ waits[d] # w /\ got'[waits[d]] = got[waits[d]]
  BY <1>1, <1>2 DEF TypeOK, WaitsKnown
<1>5. PoolInv'
  BY <1>1, AnswersPool DEF TimeOut
<1>6. InOrder'
  BY <1>1 DEF InOrder, Owes
<1>7. WaitsKnown' /\ GotKnown'
  BY <1>1, <1>2, <1>3 DEF WaitsKnown, GotKnown
<1>8. WaitHasCallback'
  BY <1>1, <1>2 DEF WaitHasCallback
<1>9. LateOrAwaited'
  <2> SUFFICES ASSUME NEW i \in DOMAIN pending
               PROVE  LET e == pending[i]
                      IN  /\ waits'[e.co] = e.id \/ LateAt(e.co, e.id)'
                          /\ waits'[e.co] # 0 => e.id <= waits'[e.co]
    BY <1>1 DEF LateOrAwaited, LateAt, Owes
  <2> DEFINE e == pending[i]
  <2>1. e.co \in CoId /\ e.id \in Nat
    BY EntryTypes
  <2>2. CASE e.co # c
    BY <1>1, <1>2, <2>1, <2>2 DEF LateOrAwaited, LateAt, Owes
  <2>3. CASE e.co = c
    <3>1. waits'[e.co] = 0
      BY <1>2, <2>3
    <3>2. CASE w = e.id
      BY <1>1, <2>1, <2>3, <3>1, <3>2 DEF LateAt
    <3>3. CASE w # e.id
      BY <1>1, <2>3, <3>1, <3>3 DEF LateOrAwaited, LateAt, Owes
    <3> QED BY <3>2, <3>3
  <2> QED BY <2>2, <2>3
<1>10. WrongReplyIsLate'
  BY <1>1, <1>2, EmptyIsNone DEF WrongReplyIsLate
<1>11. ExecutedOnce'
  <2>1. \A i \in Owes : pending[i].id # Empty
    BY EntryTypes, EmptyIsNone DEF Owes
  <2> QED BY <1>1, <1>2, <2>1 DEF ExecutedOnce, Owes
<1> QED BY <1>5, <1>6, <1>7, <1>8, <1>9, <1>10, <1>11

\* What every arriving request leaves alone.
LEMMA ArrivesFacts ==
  ASSUME IInv, Arrives
  PROVE  /\ issued + 1 \in Call /\ issued + 1 \in Nat /\ issued \in Nat
         /\ issued' = issued + 1
         /\ executed' = executed /\ timed_out' = timed_out
         /\ \A i \in Owes : pending[i].id # issued + 1 /\ pending[i].id < issued + 1
         /\ \A id \in Call : got[id] \in Call => id # issued + 1 /\ got[id] # issued + 1
         /\ got[issued + 1] = 0
         /\ \A c \in CoId : waits[c] # 0 => waits[c] # issued + 1
         /\ executed[issued + 1] = 0
<1> USE DEF IInv, Arrives
<1>1. /\ issued + 1 \in Call /\ issued + 1 \in Nat /\ issued \in Nat
      /\ issued' = issued + 1
      /\ executed' = executed /\ timed_out' = timed_out
  BY ProxyAssumption DEF TypeOK, Call
<1>2. \A i \in Owes : pending[i].id # issued + 1 /\ pending[i].id < issued + 1
  BY <1>1, EntryTypes DEF InOrder, Owes
<1>3. got[issued + 1] = 0
  BY <1>1 DEF GotKnown
<1>4. ASSUME NEW id \in Call, got[id] \in Call
      PROVE  id # issued + 1 /\ got[id] # issued + 1
  <2>1. id <= issued /\ id \in Nat /\ got[id] \in Nat
    BY <1>4 DEF GotKnown, Call
  <2>2. got[id] <= id
    BY <1>4, <2>1 DEF WrongReplyIsLate
  <2> QED BY <1>1, <2>1, <2>2
<1>5. \A c \in CoId : waits[c] # 0 => waits[c] # issued + 1
  BY <1>1 DEF WaitsKnown, TypeOK, Call
<1>6. executed[issued + 1] = 0
  BY <1>1 DEF ExecutedOnce
<1> QED BY <1>1, <1>2, <1>3, <1>4, <1>5, <1>6

\* What is known of earlier requests does not depend on the new one.
LEMMA HistoryKept ==
  ASSUME IInv, Arrives, NEW c, co_of' = [co_of EXCEPT ![issued + 1] = c]
  PROVE  /\ \A id \in Call : id # issued + 1 => co_of'[id] = co_of[id]
         /\ \A d \in CoId, id \in Call : id <= issued /\ LateAt(d, id)
              => \E late \in timed_out' : late <= id /\ co_of'[late] = d
<1> USE DEF IInv
<1>1. \A id \in Call : id # issued + 1 => co_of'[id] = co_of[id]
  BY DEF TypeOK
<1>2. ASSUME NEW d, NEW id \in Call, id <= issued, LateAt(d, id)
      PROVE  \E late \in timed_out' : late <= id /\ co_of'[late] = d
  <2>1. PICK late \in timed_out : late <= id /\ co_of[late] = d
    BY <1>2 DEF LateAt
  <2>2. late \in Call /\ late \in Nat /\ id \in Nat /\ issued \in Nat
    BY DEF TypeOK, Call
  <2>3. late # issued + 1
    BY <1>2, <2>1, <2>2
  <2>4. late \in timed_out' /\ co_of'[late] = d
    BY <1>1, <2>1, <2>2, <2>3 DEF Arrives
  <2> QED BY <2>1, <2>4
<1> QED BY <1>1, <1>2

\* A new request is not answered with a reply, so it cannot be with a wrong one.
LEMMA WrongRepliesKept ==
  ASSUME IInv, Arrives, NEW c,
         co_of' = co_of \/ co_of' = [co_of EXCEPT ![issued + 1] = c],
         got' = got \/ got' = [got EXCEPT ![issued + 1] = Empty]
  PROVE  WrongReplyIsLate'
<1> DEFINE id1 == issued + 1
<1> USE DEF IInv
<1>1. /\ issued \in Nat /\ id1 \in Call /\ timed_out' = timed_out
      /\ \A id \in Call : got[id] \in Call => id # id1 /\ got[id] # id1
  BY ArrivesFacts
<1>2. \A id \in Call : id # id1 => co_of'[id] = co_of[id]
  BY DEF TypeOK
<1> SUFFICES ASSUME NEW id \in Call, got'[id] \in Call \ {id}
             PROVE  /\ got'[id] < id
                    /\ co_of'[got'[id]] = co_of'[id]
                    /\ \E late \in timed_out' :
                         late <= got'[id] /\ co_of'[late] = co_of'[id]
  BY DEF WrongReplyIsLate
<1>3. got'[id] = got[id] /\ id # id1
  BY <1>1, EmptyIsNone DEF TypeOK
<1>4. got[id] < id /\ co_of[got[id]] = co_of[id] /\ LateAt(co_of[id], got[id])
  BY <1>3 DEF WrongReplyIsLate, LateAt
<1>5. co_of'[id] = co_of[id] /\ co_of'[got[id]] = co_of[got[id]]
  BY <1>1, <1>2, <1>3
<1>6. PICK late \in timed_out : late <= got[id] /\ co_of[late] = co_of[id]
  BY <1>4 DEF LateAt
<1>7. late # id1 /\ late \in Call
  <2>1. /\ late \in Nat /\ late \in Call /\ got[id] \in Nat /\ id \in Nat
        /\ id <= issued
    BY <1>3 DEF TypeOK, Call, GotKnown
  <2> QED BY <1>1, <1>4, <1>6, <2>1
<1> QED BY <1>1, <1>2, <1>3, <1>4, <1>5, <1>6, <1>7

LEMMA CmdSentStep ==
  ASSUME IInv, CmdSent
  PROVE  /\ PoolInv' /\ InOrder' /\ WaitsKnown' /\ GotKnown'
         /\ WaitHasCallback' /\ LateOrAwaited' /\ WrongReplyIsLate' /\ ExecutedOnce'
<1> DEFINE id1 == issued + 1
           n == Len(pending) + 1
<1> USE DEF IInv
<1>1. /\ id1 \in Call /\ id1 \in Nat /\ issued \in Nat /\ issued' = id1
      /\ executed' = executed /\ timed_out' = timed_out /\ got' = got
      /\ link = "connected" /\ link' = link
      /\ \A i \in Owes : pending[i].id # id1 /\ pending[i].id < id1
      /\ \A id \in Call : got[id] \in Call => id # id1 /\ got[id] # id1
      /\ got[id1] = 0 /\ executed[id1] = 0
      /\ \A c \in CoId : waits[c] # 0 => waits[c] # id1
  BY ArrivesFacts DEF CmdSent
<1>2. /\ NewCo \in CoId /\ waits[NewCo] = 0
      /\ free' = RestCo /\ inc' = NewInc
      /\ \A d \in CoId : waits'[d] = IF d = NewCo THEN id1 ELSE waits[d]
  BY NewCoIsCo, NewCoIsFree DEF CmdSent, TypeOK
<1>3. /\ \A id \in Call : co_of'[id] = IF id = id1 THEN NewCo ELSE co_of[id]
      /\ \A d \in CoId, id \in Call : id <= issued /\ LateAt(d, id)
              => \E late \in timed_out' : late <= id /\ co_of'[late] = d
  BY <1>1, HistoryKept DEF CmdSent, TypeOK
<1>4. /\ DOMAIN pending' = 1..n /\ n \in Nat
      /\ pending'[n] = [id |-> id1, co |-> NewCo, done |-> FALSE]
      /\ \A i \in Owes : pending'[i] = pending[i] /\ i \in DOMAIN pending'
      /\ \A i \in DOMAIN pending' : i \in Owes \/ i = n
      /\ \A i \in Owes : i \in Nat /\ i < n
  BY DEF CmdSent, Owed, TypeOK, Owes
<1>5. \A i \in Owes : /\ pending[i].id \in Call /\ pending[i].id \in Nat \ {0}
                      /\ pending[i].co \in CoId
  BY EntryTypes DEF Owes
<1>6. PoolInv'
  <2>1. HasTrans
    BY DEF CmdSent
  <2>2. \A j \in DOMAIN RestCo : RestCo[j] \in CoId
    BY <2>1, NewCoIsCo
  <2>3. \A j \in DOMAIN RestCo : RestCo[j] <= inc' /\ waits'[RestCo[j]] = 0
    BY <1>2, <2>1, <2>2, NewCoIsFree
  <2>4. \A d \in CoId : d > inc' => waits'[d] = 0
    <3> SUFFICES ASSUME NEW d \in CoId, d > inc' PROVE waits'[d] = 0
      OBVIOUS
    <3>1. d # NewCo
      BY <1>2, <2>1, NewCoIsFree, NewCoIsCo DEF CoId
    <3> QED BY <1>2, <2>1, <3>1, NewCoIsFree
  <2> QED BY <1>2, <2>1, <2>3, <2>4, NewCoIsFree DEF PoolInv
<1>7. InOrder'
  <2>1. ASSUME NEW i \in Owes', NEW j \in Owes', i < j
        PROVE  pending'[i].id < pending'[j].id
    <3>1. i \in Owes
      BY <1>4, <2>1 DEF Owes
    <3>2. CASE j \in Owes
      BY <1>4, <2>1, <3>1, <3>2 DEF InOrder
    <3>3. CASE j = n
      BY <1>1, <1>4, <3>1, <3>3
    <3> QED BY <1>4, <3>2, <3>3 DEF Owes
  <2>2. ASSUME NEW i \in Owes'
        PROVE  /\ pending'[i].id <= issued'
               /\ co_of'[pending'[i].id] = pending'[i].co
    <3>1. CASE i \in Owes
      BY <1>1, <1>3, <1>4, <1>5, <3>1 DEF InOrder
    <3>2. CASE i = n
      BY <1>1, <1>3, <1>4, <3>2
    <3> QED BY <1>4, <3>1, <3>2 DEF Owes
  <2> QED BY <2>1, <2>2 DEF InOrder
<1>8. WaitsKnown'
  <2> SUFFICES ASSUME NEW d \in CoId, waits'[d] # 0
               PROVE  /\ waits'[d] <= issued' /\ co_of'[waits'[d]] = d
                      /\ got'[waits'[d]] = 0
    BY DEF WaitsKnown
  <2>1. CASE d = NewCo
    BY <1>1, <1>2, <1>3, <2>1
  <2>2. CASE d # NewCo
    <3>1. waits'[d] = waits[d] /\ waits[d] \in Call /\ waits[d] # id1
      BY <1>1, <1>2, <2>2 DEF TypeOK
    <3>2. waits[d] \in Nat /\ waits[d] <= issued
      BY <3>1 DEF WaitsKnown, Call
    <3> QED BY <1>1, <1>3, <3>1, <3>2 DEF WaitsKnown
  <2> QED BY <2>1, <2>2
<1>9. GotKnown'
  BY <1>1 DEF GotKnown, Call
<1>10. WaitHasCallback'
  <2> SUFFICES ASSUME NEW d \in CoId, waits'[d] # 0
               PROVE  \E i \in DOMAIN pending' :
                        pending'[i].id = waits'[d] /\ pending'[i].co = d
    BY <1>1 DEF WaitHasCallback
  <2>1. CASE d = NewCo
    BY <1>2, <1>4, <2>1
  <2>2. CASE d # NewCo
    <3>1. PICK i \in DOMAIN pending : pending[i].id = waits[d] /\ pending[i].co = d
      BY <1>2, <2>2 DEF WaitHasCallback
    <3> QED BY <1>2, <1>4, <2>2, <3>1 DEF Owes
  <2> QED BY <2>1, <2>2
<1>11. LateOrAwaited'
  <2> SUFFICES ASSUME NEW i \in DOMAIN pending'
               PROVE  LET e == pending'[i]
                      IN  /\ \/ waits'[e.co] = e.id
                             \/ \E late \in timed_out' :
                                  late <= e.id /\ co_of'[late] = e.co
                          /\ waits'[e.co] # 0 => e.id <= waits'[e.co]
    BY DEF LateOrAwaited, LateAt, Owes
  <2>1. CASE i = n
    BY <1>1, <1>2, <1>4, <2>1
  <2>2. CASE i \in Owes
    <3> DEFINE e == pending[i]
    <3>1. /\ pending'[i] = e /\ e.co \in CoId /\ e.id \in Call /\ e.id \in Nat \ {0}
          /\ e.id <= issued
      BY <1>4, <1>5, <2>2 DEF InOrder
    <3>2. CASE e.co # NewCo
      BY <1>2, <1>3, <2>2, <3>1, <3>2 DEF LateOrAwaited
    <3>3. CASE e.co = NewCo
      <4>1. LateAt(e.co, e.id)
        BY <1>2, <2>2, <3>1, <3>3 DEF LateOrAwaited
      <4>2. waits'[e.co] = id1 /\ e.id <= id1
        BY <1>1, <1>2, <3>1, <3>3
      <4> QED BY <1>3, <3>1, <4>1, <4>2
    <3> QED BY <3>2, <3>3
  <2> QED BY <1>4, <2>1, <2>2
<1>12. WrongReplyIsLate'
  BY <1>1, WrongRepliesKept DEF CmdSent
<1>13. ExecutedOnce'
  <2>1. \A id \in Call : got[id] # id1
    BY <1>1
  <2>2. ASSUME NEW i \in Owes'
        PROVE  /\ executed'[pending'[i].id] = IF pending'[i].done THEN 1 ELSE 0
               /\ \A id \in Call : got'[id] # pending'[i].id
    <3>1. CASE i \in Owes
      BY <1>1, <1>4, <3>1 DEF ExecutedOnce
    <3>2. CASE i = n
      BY <1>1, <1>4, <2>1, <3>2
    <3> QED BY <1>4, <3>1, <3>2 DEF Owes
  <2>3. \A id \in Call : id > issued' => executed'[id] = 0
    BY <1>1 DEF ExecutedOnce, Call
  <2> QED BY <2>2, <2>3 DEF ExecutedOnce
<1> QED BY <1>6, <1>7, <1>8, <1>9, <1>10, <1>11, <1>12, <1>13

LEMMA CmdRefusedStep ==
  ASSUME IInv, CmdRefused
  PROVE  /\ PoolInv' /\ InOrder' /\ WaitsKnown' /\ GotKnown'
         /\ WaitHasCallback' /\ LateOrAwaited' /\ WrongReplyIsLate' /\ ExecutedOnce'
<1> DEFINE id1 == issued + 1
           n == Len(RestCo) + 1
<1> USE DEF IInv
<1>1. /\ id1 \in Call /\ id1 \in Nat /\ issued \in Nat /\ issued' = id1
      /\ executed' = executed /\ timed_out' = timed_out
      /\ UNCHANGED <<link, pending, waits>>
      /\ \A i \in Owes : pending[i].id # id1 /\ pending[i].id < id1
      /\ got[id1] = 0 /\ executed[id1] = 0
      /\ \A c \in CoId : waits[c] # 0 => waits[c] # id1
  BY ArrivesFacts DEF CmdRefused
<1>2. \A id \in Call : got'[id] = IF id = id1 THEN Empty ELSE got[id]
  BY DEF CmdRefused, TypeOK
<1>3. /\ \A id \in Call : id # id1 => co_of'[id] = co_of[id]
      /\ \A d \in CoId, id \in Call : id <= issued /\ LateAt(d, id)
              => \E late \in timed_out' : late <= id /\ co_of'[late] = d
  BY HistoryKept DEF CmdRefused
<1>4. \A i \in Owes : /\ pending[i].id \in Call /\ pending[i].id \in Nat \ {0}
                      /\ pending[i].co \in CoId /\ pending[i].id <= issued
  BY EntryTypes DEF Owes, InOrder
<1>5. PoolInv'
  <2>1. HasTrans
    BY DEF CmdRefused
  <2>2. /\ DOMAIN free' = 1..n /\ n \in Nat /\ free'[n] = NewCo
        /\ \A j \in DOMAIN RestCo : free'[j] = RestCo[j]
        /\ \A j \in DOMAIN free' : j \in DOMAIN RestCo \/ j = n
    BY <2>1, NewCoIsCo DEF CmdRefused
  <2>3. inc' = NewInc
    BY DEF CmdRefused
  <2>4. \A j \in DOMAIN free' : free'[j] <= inc' /\ waits'[free'[j]] = 0
    BY <1>1, <2>1, <2>2, <2>3, NewCoIsFree
  <2>5. \A j, k \in DOMAIN free' : free'[j] = free'[k] => j = k
    BY <2>1, <2>2, NewCoIsFree
  <2> QED BY <1>1, <2>1, <2>3, <2>4, <2>5, NewCoIsFree DEF PoolInv
<1>6. InOrder'
  BY <1>1, <1>3, <1>4 DEF InOrder, Owes
<1>7. WaitsKnown'
  <2> SUFFICES ASSUME NEW d \in CoId, waits[d] # 0
               PROVE  /\ waits[d] <= issued' /\ co_of'[waits[d]] = d
                      /\ got'[waits[d]] = 0
    BY <1>1 DEF WaitsKnown
  <2>1. waits[d] \in Call /\ waits[d] # id1 /\ waits[d] \in Nat
    BY <1>1 DEF TypeOK, Call
  <2> QED BY <1>1, <1>2, <1>3, <2>1 DEF WaitsKnown
<1>8. GotKnown'
  BY <1>1, <1>2 DEF GotKnown, Call
<1>9. WaitHasCallback'
  BY <1>1 DEF WaitHasCallback
<1>10. LateOrAwaited'
  BY <1>1, <1>3, <1>4 DEF LateOrAwaited, LateAt, Owes
<1>11. WrongReplyIsLate'
  BY WrongRepliesKept DEF CmdRefused
<1>12. ExecutedOnce'
  <2>1. \A i \in Owes : pending[i].id # Empty
    BY <1>4, EmptyIsNone
  <2>2. \A id \in Call : id > issued' => executed'[id] = 0
    BY <1>1 DEF ExecutedOnce, Call
  <2> QED BY <1>1, <1>2, <2>1, <2>2 DEF ExecutedOnce, Owes
<1> QED BY <1>5, <1>6, <1>7, <1>8, <1>9, <1>10, <1>11, <1>12

LEMMA DroppedStep ==
  ASSUME IInv, Dropped
  PROVE  /\ PoolInv' /\ InOrder' /\ WaitsKnown' /\ GotKnown'
         /\ WaitHasCallback' /\ LateOrAwaited' /\ WrongReplyIsLate' /\ ExecutedOnce'
<1> USE DEF IInv
<1>1. /\ issued \in Nat /\ issued' = issued + 1
      /\ UNCHANGED <<link, pending, coVars, executed, got, co_of, timed_out>>
  BY ArrivesFacts DEF Dropped
<1>2. PoolInv'
  BY <1>1 DEF PoolInv, coVars
<1>3. InOrder'
  BY <1>1, EntryTypes DEF InOrder, Owes
<1>4. WaitsKnown'
  BY <1>1 DEF WaitsKnown, coVars, TypeOK, Call
<1>5. GotKnown'
  BY <1>1 DEF GotKnown, Call
<1>6. WaitHasCallback' /\ LateOrAwaited' /\ WrongReplyIsLate'
  BY <1>1 DEF WaitHasCallback, LateOrAwaited, LateAt, Owes, WrongReplyIsLate, coVars
<1>7. ExecutedOnce'
  BY <1>1 DEF ExecutedOnce, Owes, Call
<1> QED BY <1>2, <1>3, <1>4, <1>5, <1>6, <1>7

LEMMA CrashStep ==
  ASSUME IInv, Crash
  PROVE  /\ PoolInv' /\ InOrder' /\ WaitsKnown' /\ GotKnown'
         /\ WaitHasCallback' /\ LateOrAwaited' /\ WrongReplyIsLate' /\ ExecutedOnce'
<1> USE DEF IInv
<1>1. /\ issued \in Nat /\ issued' = issued + 1
      /\ UNCHANGED <<executed, got, co_of, timed_out>>
      /\ pending' = <<>> /\ free' = <<>> /\ DOMAIN pending' = {} /\ DOMAIN free' = {}
      /\ \A c \in CoId : waits'[c] = 0
  BY ArrivesFacts DEF Crash, Boot
<1>2. PoolInv' /\ InOrder' /\ WaitsKnown' /\ WaitHasCallback' /\ LateOrAwaited'
  BY <1>1 DEF PoolInv, InOrder, Owes, WaitsKnown, WaitHasCallback, LateOrAwaited
<1>3. GotKnown'
  BY <1>1 DEF GotKnown, Call
<1>4. WrongReplyIsLate'
  BY <1>1 DEF WrongReplyIsLate
<1>5. ExecutedOnce'
  BY <1>1 DEF ExecutedOnce, Owes, Call
<1> QED BY <1>2, <1>3, <1>4, <1>5

LEMMA ExecuteStep ==
  ASSUME IInv, NEW k \in DOMAIN pending, Execute(k)
  PROVE  /\ PoolInv' /\ InOrder' /\ WaitsKnown' /\ GotKnown'
         /\ WaitHasCallback' /\ LateOrAwaited' /\ WrongReplyIsLate' /\ ExecutedOnce'
<1> USE DEF IInv
<1>1. /\ UNCHANGED <<link, coVars, issued, got, co_of, timed_out>>
      /\ DOMAIN pending' = DOMAIN pending
      /\ \A i \in DOMAIN pending :
           /\ pending'[i].id = pending[i].id /\ pending'[i].co = pending[i].co
           /\ pending'[i].done = IF i = k THEN TRUE ELSE pending[i].done
  <2>1. \A i \in DOMAIN pending : pending[i] \in Callback
    BY DEF TypeOK
  <2>2. \A i \in DOMAIN pending :
          pending'[i] = IF i = k THEN [pending[k] EXCEPT !.done = TRUE] ELSE pending[i]
    BY DEF Execute, TypeOK
  <2>3. \A e \in Callback : LET f == [e EXCEPT !.done = TRUE]
                            IN  f.id = e.id /\ f.co = e.co /\ f.done = TRUE
    BY DEF Callback
  <2> QED BY <2>1, <2>2, <2>3 DEF Execute, TypeOK
<1>2. \A id \in Call : executed'[id] = IF id = pending[k].id THEN executed[id] + 1
                                                             ELSE executed[id]
  BY DEF Execute, TypeOK
<1>3. PoolInv' /\ WaitsKnown' /\ GotKnown'
  BY <1>1 DEF PoolInv, WaitsKnown, GotKnown, coVars
<1>4. InOrder'
  BY <1>1 DEF InOrder, Owes
<1>5. WaitHasCallback' /\ WrongReplyIsLate'
  <2>1. WaitHasCallback'
    <3> SUFFICES ASSUME NEW d \in CoId, waits[d] # 0
                 PROVE  /\ link' \in {"connected", "freeing"}
                        /\ \E i \in DOMAIN pending' :
                             pending'[i].id = waits[d] /\ pending'[i].co = d
      BY <1>1 DEF WaitHasCallback, coVars
    <3>1. PICK i \in DOMAIN pending : pending[i].id = waits[d] /\ pending[i].co = d
      BY DEF WaitHasCallback
    <3> QED BY <1>1, <3>1 DEF WaitHasCallback
  <2>2. WrongReplyIsLate'
    BY <1>1 DEF WrongReplyIsLate
  <2> QED BY <2>1, <2>2
<1>6. LateOrAwaited'
  BY <1>1 DEF LateOrAwaited, LateAt, Owes, coVars
<1>7. ExecutedOnce'
  <2>1. executed[pending[k].id] = 0
    BY DEF Execute, ExecutedOnce, Owes
  <2>2. ASSUME NEW i \in Owes
        PROVE  /\ pending[i].id \in Call
               /\ pending[i].id = pending[k].id => i = k
    <3>1. /\ pending[i].id \in Call /\ pending[i].id \in Nat
          /\ pending[k].id \in Nat /\ i \in Nat /\ k \in Nat
      BY EntryTypes DEF Owes, TypeOK
    <3>2. i < k => pending[i].id < pending[k].id
      BY DEF InOrder, Owes
    <3>3. k < i => pending[k].id < pending[i].id
      BY DEF InOrder, Owes
    <3> QED BY <3>1, <3>2, <3>3
  <2>3. ASSUME NEW i \in Owes
        PROVE  executed'[pending'[i].id] = IF pending'[i].done THEN 1 ELSE 0
    <3>1. pending'[i].id = pending[i].id
      BY <1>1 DEF Owes
    <3>2. CASE i = k
      <4>1. executed'[pending'[i].id] = 1
        BY <1>2, <2>1, <2>2, <3>1, <3>2
      <4>2. pending'[i].done = TRUE
        BY <1>1, <3>2
      <4> QED BY <4>1, <4>2
    <3>3. CASE i # k
      <4>1. pending'[i].done = pending[i].done
        BY <1>1, <3>3 DEF Owes
      <4>2. executed'[pending[i].id] = executed[pending[i].id]
        BY <1>2, <2>2, <3>3
      <4>3. executed[pending[i].id] = IF pending[i].done THEN 1 ELSE 0
        BY DEF ExecutedOnce
      <4> QED BY <3>1, <4>1, <4>2, <4>3
    <3> QED BY <3>2, <3>3
  <2>4. pending[k].id <= issued /\ pending[k].id \in Nat /\ issued \in Nat
    BY EntryTypes DEF InOrder, Owes, TypeOK
  <2>5. \A id \in Call : id > issued' => executed'[id] = 0
    BY <1>1, <1>2, <2>4 DEF ExecutedOnce, Call
  <2>6. \A i \in Owes' : \A id \in Call : got'[id] # pending'[i].id
    BY <1>1 DEF ExecutedOnce, Owes
  <2>7. Owes' = Owes
    BY <1>1 DEF Owes
  <2> QED BY <2>3, <2>5, <2>6, <2>7 DEF ExecutedOnce
<1> QED BY <1>3, <1>4, <1>5, <1>6, <1>7

LEMMA InitIInv == Init => IInv
<1> SUFFICES ASSUME Init PROVE IInv
  OBVIOUS
<1>1. /\ DOMAIN pending = {} /\ DOMAIN free = {} /\ inc = 0 /\ link = "none"
      /\ tried = FALSE
      /\ \A c \in CoId : waits[c] = 0
      /\ \A id \in Call : got[id] = 0 /\ executed[id] = 0 /\ 0 \notin Call
  BY DEF Init, Call
<1>2. PoolInv /\ InOrder /\ WaitsKnown /\ GotKnown
  BY <1>1 DEF PoolInv, InOrder, Owes, WaitsKnown, GotKnown
<1>3. StateIsLinks /\ WaitHasCallback /\ LateOrAwaited
  BY <1>1 DEF StateIsLinks, WaitHasCallback, LateOrAwaited, Owes
<1>4. WrongReplyIsLate /\ ExecutedOnce
  BY <1>1 DEF WrongReplyIsLate, ExecutedOnce, Owes
<1> QED BY <1>2, <1>3, <1>4, InitTypeOK DEF IInv

LEMMA StepIInv == IInv /\ [Next]_vars => IInv'
<1> SUFFICES ASSUME IInv, [Next]_vars PROVE IInv'
  OBVIOUS
<1>1. TypeOK' /\ StateIsLinks'
  BY TypeStep, LinkStep DEF IInv
<1> SUFFICES /\ PoolInv' /\ InOrder' /\ WaitsKnown' /\ GotKnown'
             /\ WaitHasCallback' /\ LateOrAwaited' /\ WrongReplyIsLate'
             /\ ExecutedOnce'
  BY <1>1 DEF IInv
<1>2. CASE Reconnect
  <2>1. link \notin {"connected", "freeing"}
    BY <1>2 DEF Reconnect, NotNeedReconnect, IInv, StateIsLinks
  <2> QED BY <1>2, <2>1, QuietStep DEF Reconnect
<1>3. ASSUME NEW status \in {"REDIS_OK", "REDIS_ERR"}, ConnectCallback(status)
      PROVE  /\ PoolInv' /\ InOrder' /\ WaitsKnown' /\ GotKnown'
             /\ WaitHasCallback' /\ LateOrAwaited' /\ WrongReplyIsLate'
             /\ ExecutedOnce'
  <2>1. link \notin {"connected", "freeing"}
    BY <1>3 DEF ConnectCallback
  <2> QED BY <1>3, <2>1, QuietStep DEF ConnectCallback
<1>4. CASE Break
  BY <1>4, QuietStep DEF Break
<1>5. CASE DisconnectCallback
  BY <1>5, QuietStep DEF DisconnectCallback
<1>6. CASE OnRequest
  BY <1>6, CmdSentStep, CmdRefusedStep, DroppedStep, CrashStep DEF OnRequest
<1>7. CASE Reply
  <2>1. PICK r \in {Head(pending).id, Empty} : GetCallback(Head(pending), r)
    BY <1>7 DEF Reply
  <2> QED BY <1>7, <2>1, PopStep DEF Reply
<1>8. CASE NullReply
  BY <1>8, PopStep DEF NullReply
<1>9. ASSUME NEW i \in DOMAIN pending, Execute(i)
      PROVE  /\ PoolInv' /\ InOrder' /\ WaitsKnown' /\ GotKnown'
             /\ WaitHasCallback' /\ LateOrAwaited' /\ WrongReplyIsLate'
             /\ ExecutedOnce'
  BY <1>9, ExecuteStep
<1>10. ASSUME NEW c \in CoId, TimeOut(c)
       PROVE  /\ PoolInv' /\ InOrder' /\ WaitsKnown' /\ GotKnown'
              /\ WaitHasCallback' /\ LateOrAwaited' /\ WrongReplyIsLate'
              /\ ExecutedOnce'
  BY <1>10, TimeOutStep
<1>11. CASE UNCHANGED vars
  BY <1>11, QuietStep DEF vars
<1> QED BY <1>2, <1>3, <1>4, <1>5, <1>6, <1>7, <1>8, <1>9, <1>10, <1>11
        DEF Next, OnReply

THEOREM Invariance == Spec => []IInv
  BY InitIInv, StepIInv, PTL DEF Spec

\* A transaction that waits is owed a callback by a connection that exists
\* (redis_client.cpp:10-15, 80-113): none is left waiting by a broken one.
THEOREM WaitsAreOwed == Spec => []WaitHasCallback
<1>1. IInv => WaitHasCallback
  BY DEF IInv
<1> QED BY <1>1, Invariance, PTL

\* Replies are mixed up only by a time-out on the same coroutine
\* (redis_client.cpp:10-15, 80-96).
THEOREM WrongRepliesAreLate == Spec => []WrongReplyIsLate
<1>1. IInv => WrongReplyIsLate
  BY DEF IInv
<1> QED BY <1>1, Invariance, PTL

-----------------------------------------------------------------------------
(* The proxy implements CallOnce. *)

\* A request that was answered without a reply counts as not answered.
LEMMA AnswerKept ==
  ASSUME IInv,
         \/ got' = got
         \/ \E id \in Call : got[id] = 0 /\ got' = [got EXCEPT ![id] = Empty]
  PROVE  answerBar' = answerBar
<1>1. CASE got' = got
  BY <1>1 DEF answerBar
<1>2. CASE \E id \in Call : got[id] = 0 /\ got' = [got EXCEPT ![id] = Empty]
  <2>1. PICK k \in Call : got[k] = 0 /\ got' = [got EXCEPT ![k] = Empty]
    BY <1>2
  <2>2. \A id \in Call : id # k => got'[id] = got[id]
    BY <2>1 DEF IInv, TypeOK
  <2>3. got'[k] = Empty /\ got'[k] \notin Call /\ got[k] \notin Call
    BY <2>1, EmptyIsNone DEF IInv, TypeOK, Call
  <2>4. ASSUME NEW id \in Call
        PROVE  (IF got'[id] \in Call THEN got'[id] ELSE 0)
                 = (IF got[id] \in Call THEN got[id] ELSE 0)
    BY <2>2, <2>3
  <2> QED BY <2>4 DEF answerBar
<1> QED BY <1>1, <1>2

LEMMA RequestIsIssue == IInv /\ OnRequest => Calls!Issue
<1> SUFFICES ASSUME IInv, OnRequest PROVE Calls!Issue
  OBVIOUS
<1>1. Arrives /\ (got' = got \/ got' = [got EXCEPT ![issued + 1] = Empty])
  BY DEF OnRequest, CmdSent, CmdRefused, Dropped, Crash
<1>2. /\ issued + 1 \in Call /\ got[issued + 1] = 0
      /\ issued < MaxCalls /\ issued' = issued + 1 /\ executed' = executed
  BY <1>1, ArrivesFacts DEF Arrives
<1>3. answerBar' = answerBar
  BY <1>1, <1>2, AnswerKept
<1> QED BY <1>2, <1>3 DEF Calls!Issue

LEMMA ExecuteIsExecute ==
  ASSUME IInv, NEW k \in DOMAIN pending, Execute(k)
  PROVE  pending[k].id \in Call /\ Calls!Execute(pending[k].id)
<1> USE DEF IInv
<1>1. pending[k].id \in Call /\ pending[k].id <= issued
  BY EntryTypes DEF InOrder, Owes
<1>2. executed[pending[k].id] = 0
  BY DEF Execute, ExecutedOnce, Owes
<1>3. executed' = [executed EXCEPT ![pending[k].id] = 1]
  BY <1>2 DEF Execute
<1>4. answerBar' = answerBar /\ issued' = issued
  BY DEF answerBar, Execute
<1> QED BY <1>1, <1>2, <1>3, <1>4 DEF Calls!Execute

LEMMA PopIsReturn ==
  ASSUME IInv, pending # <<>>, NEW r \in {Head(pending).id, Empty},
         r # Empty => Head(pending).done, GetCallback(Head(pending), r),
         UNCHANGED <<issued, executed>>
  PROVE  [Calls!Next]_(Calls!vars)
<1> DEFINE c == pending[1].co
           m == pending[1].id
           w == waits[c]
<1> USE DEF IInv
<1>1. /\ 1 \in DOMAIN pending /\ Head(pending) = pending[1]
      /\ c \in CoId /\ m \in Call /\ r \in {m, Empty} /\ w \in Call \cup {0}
  BY HeadFacts, EntryTypes DEF TypeOK
<1>2. CASE w = 0
  BY <1>1, <1>2, AnswerKept DEF GetCallback, Calls!vars
<1>3. CASE w # 0
  <2>1. /\ w \in Call /\ w <= issued /\ got[w] = 0
        /\ got' = [got EXCEPT ![w] = r]
    BY <1>1, <1>3 DEF GetCallback, Answers, WaitsKnown
  <2>2. CASE r = Empty
    BY <2>1, <2>2, AnswerKept DEF Calls!vars
  <2>3. CASE r # Empty
    <3>1. r = m /\ executed[m] = 1
      BY <1>1, <2>3 DEF ExecutedOnce, Owes
    <3>2. \A other \in Call : answerBar[other] # m
      BY <1>1 DEF answerBar, ExecutedOnce, Owes, Call
    <3>3. answerBar[w] = 0
      BY <2>1 DEF answerBar, Call
    <3>4. answerBar' = [answerBar EXCEPT ![w] = m]
      <4>1. \A id \in Call : got'[id] = IF id = w THEN m ELSE got[id]
        BY <2>1, <3>1 DEF TypeOK
      <4>2. \A id \in Call : answerBar'[id] = IF id = w THEN m ELSE answerBar[id]
        BY <1>1, <4>1 DEF answerBar
      <4>3. answerBar' = [id \in Call |-> answerBar'[id]]
        BY DEF answerBar
      <4>4. answerBar = [id \in Call |-> answerBar[id]]
        BY DEF answerBar
      <4>5. answerBar' = [id \in Call |-> IF id = w THEN m ELSE answerBar[id]]
        BY <4>2, <4>3
      <4>6. [answerBar EXCEPT ![w] = m]
              = [id \in Call |-> IF id = w THEN m ELSE answerBar[id]]
        BY <2>1, <4>4
      <4> QED BY <4>5, <4>6
    <3>5. Calls!Return(w, m)
      BY <2>1, <3>1, <3>2, <3>3, <3>4 DEF Calls!Return, Calls!Call, Call
    <3> QED BY <1>1, <2>1, <3>5 DEF Calls!Next, Calls!Call, Call
  <2> QED BY <2>2, <2>3
<1> QED BY <1>2, <1>3

LEMMA TimeOutIsStutter ==
  ASSUME IInv, NEW c \in CoId, TimeOut(c)
  PROVE  UNCHANGED Calls!vars
<1>1. waits[c] \in Call /\ got[waits[c]] = 0
  BY DEF IInv, TypeOK, WaitsKnown, TimeOut
<1> QED BY <1>1, AnswerKept DEF TimeOut, Answers, Calls!vars

\* Redis executes a request's command at most once, and a reply answers one
\* request (redis_client.cpp:99-135, main.cpp:26-46).
THEOREM ProxyRefinement == Spec => ImplementsCallOnce
<1>1. Init => Calls!Init
  <2> SUFFICES ASSUME Init PROVE Calls!Init
    OBVIOUS
  <2>1. answerBar = [id \in Call |-> 0]
    BY DEF Init, answerBar, Call
  <2> QED BY <2>1 DEF Init, Calls!Init, Calls!Call, Call
<1>2. IInv /\ [Next]_vars => [Calls!Next]_(Calls!vars)
  <2> SUFFICES ASSUME IInv, [Next]_vars PROVE [Calls!Next]_(Calls!vars)
    OBVIOUS
  <2>1. CASE UNCHANGED <<issued, executed, got>>
    BY <2>1, AnswerKept DEF Calls!vars
  <2>2. CASE OnRequest
    BY <2>2, RequestIsIssue DEF Calls!Next
  <2>3. ASSUME NEW k \in DOMAIN pending, Execute(k)
        PROVE  [Calls!Next]_(Calls!vars)
    BY <2>3, ExecuteIsExecute DEF Calls!Next, Calls!Call, Call
  <2>4. CASE Reply
    <3>1. PICK r \in {Head(pending).id, Empty} : GetCallback(Head(pending), r)
      BY <2>4 DEF Reply
    <3> QED BY <2>4, <3>1, PopIsReturn DEF Reply
  <2>5. CASE NullReply
    BY <2>5, PopIsReturn DEF NullReply
  <2>6. ASSUME NEW c \in CoId, TimeOut(c) PROVE [Calls!Next]_(Calls!vars)
    BY <2>6, TimeOutIsStutter
  <2> QED BY <2>1, <2>2, <2>3, <2>4, <2>5, <2>6
          DEF Next, OnReply, Reconnect, ConnectCallback, Break,
              DisconnectCallback, history, vars
<1> QED BY <1>1, <1>2, Invariance, PTL DEF Spec, ImplementsCallOnce, Calls!Spec
=============================================================================
