---------------------------- MODULE CoTaskProofs ----------------------------
(***************************************************************************)
(* Proofs about CoTask, for any number of coroutines, addresses, messages   *)
(* and any time-outs of at least one second.  The argument: the inductive   *)
(* invariant IInv relates three structures that the code updates apart,     *)
(* timer_set_, cancel_list_ and co_id_timer_id_; each action lemma shows    *)
(* that one handler keeps them in step.                                     *)
(***************************************************************************)
EXTENDS TransMgr, TLAPS

\* Pool part of the invariant: GetCoId, NewCoroutine and FreeCoroutine only.
PoolTypes == /\ free_coroutine \in Seq(CoId)
             /\ action_coroutine \in SUBSET CoId
             /\ inc_co_id \in 0..MaxCo

LEMMA ModSmall == \A a, m \in Nat : a < m => a % m = a
  OBVIOUS

\* GetCoId hands out the next id as long as ids do not wrap.
LEMMA GetCoIdNext ==
  ASSUME inc_co_id \in Nat, inc_co_id < MaxCo
  PROVE  GetCoId = inc_co_id + 1
  BY CoIdAssumption, ModSmall DEF GetCoId

\* A coroutine that is started was not active, and the pool stays a partition.
LEMMA NewCoroutinePool ==
  ASSUME PoolTypes, PoolPartition, NEW c \in CoId, NewCoroutine(c)
  PROVE  /\ c \notin action_coroutine
         /\ action_coroutine' = action_coroutine \cup {c}
         /\ PoolTypes'
         /\ PoolPartition'
<1>1. CASE free_coroutine = <<>>
  <2>1. /\ c = inc_co_id + 1 /\ inc_co_id' = inc_co_id + 1
        /\ free_coroutine' = <<>>
        /\ action_coroutine' = action_coroutine \cup {c}
    BY <1>1, GetCoIdNext, CoIdAssumption DEF NewCoroutine, PoolTypes
  <2>2. action_coroutine = 1..inc_co_id
    <3>1. 1..Len(free_coroutine) = {}
      BY <1>1
    <3> QED BY <3>1 DEF PoolPartition
  <2> QED BY <1>1, <2>1, <2>2, CoIdAssumption DEF PoolTypes, PoolPartition, CoId, NewCoroutine
<1>2. CASE free_coroutine # <<>>
  <2>1. /\ c = Head(free_coroutine) /\ free_coroutine' = Tail(free_coroutine)
        /\ inc_co_id' = inc_co_id
        /\ action_coroutine' = action_coroutine \cup {c}
    BY <1>2 DEF NewCoroutine
  <2>2. Len(free_coroutine) \in Nat \ {0} /\ c = free_coroutine[1]
    BY <1>2, <2>1 DEF PoolTypes
  <2>3. /\ free_coroutine' \in Seq(CoId)
        /\ Len(free_coroutine') = Len(free_coroutine) - 1
        /\ \A i \in 1..Len(free_coroutine') :
             free_coroutine'[i] = free_coroutine[i + 1]
    BY <1>2, <2>1 DEF PoolTypes
  <2>4. c \notin action_coroutine
    BY <2>2 DEF PoolPartition
  <2>5. \A i, j \in 1..Len(free_coroutine') :
          free_coroutine'[i] = free_coroutine'[j] => i = j
    BY <2>2, <2>3 DEF PoolPartition
  <2>6. \A i \in 1..Len(free_coroutine') :
          free_coroutine'[i] \notin action_coroutine'
    BY <2>1, <2>2, <2>3 DEF PoolPartition
  <2>7. action_coroutine' \cup
          {free_coroutine'[i] : i \in 1..Len(free_coroutine')} = 1..inc_co_id'
    <3>1. \A i \in 2..Len(free_coroutine) :
            /\ i - 1 \in 1..Len(free_coroutine')
            /\ free_coroutine'[i - 1] = free_coroutine[i]
      BY <2>2, <2>3
    <3>2. {free_coroutine[i] : i \in 1..Len(free_coroutine)} =
          {c} \cup {free_coroutine'[i] : i \in 1..Len(free_coroutine')}
      BY <2>2, <2>3, <3>1
    <3> QED BY <2>1, <3>2 DEF PoolPartition
  <2> QED BY <2>1, <2>3, <2>4, <2>5, <2>6, <2>7 DEF PoolTypes, PoolPartition
<1> QED BY <1>1, <1>2

\* Freeing the running coroutine moves it from the map to the free list.
LEMMA FreeCoroutinePool ==
  ASSUME PoolTypes, PoolPartition, NEW c \in action_coroutine, FreeCoroutine(c)
  PROVE  PoolTypes' /\ PoolPartition'
<1>1. /\ free_coroutine' \in Seq(CoId)
      /\ Len(free_coroutine') = Len(free_coroutine) + 1
      /\ free_coroutine'[Len(free_coroutine) + 1] = c
      /\ \A i \in 1..Len(free_coroutine) : free_coroutine'[i] = free_coroutine[i]
  BY DEF FreeCoroutine, PoolTypes
<1>2. Len(free_coroutine) \in Nat BY DEF PoolTypes
<1>3. \A i \in 1..Len(free_coroutine) : free_coroutine[i] # c
  BY DEF PoolPartition
<1>4. \A i, j \in 1..Len(free_coroutine') :
        free_coroutine'[i] = free_coroutine'[j] => i = j
  BY <1>1, <1>2, <1>3 DEF PoolPartition
<1>5. \A i \in 1..Len(free_coroutine') :
        free_coroutine'[i] \notin action_coroutine'
  BY <1>1, <1>2 DEF PoolPartition, FreeCoroutine
<1>6. {free_coroutine'[i] : i \in 1..Len(free_coroutine')} =
      {c} \cup {free_coroutine[i] : i \in 1..Len(free_coroutine)}
  <2>1. \A i \in 1..Len(free_coroutine') :
          i \in 1..Len(free_coroutine) \/ i = Len(free_coroutine) + 1
    BY <1>1, <1>2
  <2>2. /\ \A i \in 1..Len(free_coroutine) : i \in 1..Len(free_coroutine')
        /\ Len(free_coroutine) + 1 \in 1..Len(free_coroutine')
    BY <1>1, <1>2
  <2> QED BY <1>1, <2>1, <2>2
<1> QED BY <1>1, <1>4, <1>5, <1>6 DEF FreeCoroutine, PoolTypes, PoolPartition

-----------------------------------------------------------------------------
(* The timer part of the invariant. *)

THEOREM InitIInv == Init => IInv
<1> SUFFICES ASSUME Init PROVE IInv
  OBVIOUS
<1> USE DEF Init, TimerInit
<1>1. TypeOK
  BY CoIdAssumption DEF TypeOK, TimerTypeOK
<1>2. PoolPartition
  <2>1. 1..Len(free_coroutine) = {} /\ 1..inc_co_id = {}
    OBVIOUS
  <2> QED BY <2>1 DEF PoolPartition
<1>3. AddressesDistinct /\ NodesWellFormed /\ StaleCancelsAreOld
  BY DEF AddressesDistinct, NodesWellFormed, StaleCancelsAreOld
<1>4. /\ CurIsActive /\ FlagsClear /\ TimerIdsOfParked
      /\ WaitHasArmedTimer /\ ArmedTimerHasWait
  BY DEF CurIsActive, FlagsClear, TimerIdsOfParked, WaitHasArmedTimer, ArmedTimerHasWait,
         Parked, Pending
<1> QED BY <1>1, <1>2, <1>3, <1>4 DEF IInv

\* Starting a coroutine touches no timer: a coroutine that is not active has
\* no entry in co_id_timer_id_ for CancelTimer to find.
LEMMA StartIInv ==
  ASSUME IInv, NEW c \in CoId,
         DoTack(c) \/ \E m \in Msg : StartWithMsg(c, m)
  PROVE  IInv'
<1> DEFINE Effect ==
      /\ InMainLoop
      /\ NewCoroutine(c)
      /\ CancelTimers(TimerOf(c))
      /\ ForgetTimer(c)
      /\ cur' = c
      /\ ret' = 0
      /\ UNCHANGED now
<1>1. /\ Effect
      /\ resume_by_time_out' \in [CoId -> BOOLEAN] /\ FlagsClear'
      /\ co_msg' \in [CoId -> Msg \cup {Garbage}]
  <2>1. CASE DoTack(c)
    BY <2>1 DEF DoTack, IInv, TypeOK, FlagsClear
  <2>2. CASE \E m \in Msg : StartWithMsg(c, m)
    BY <2>2 DEF StartWithMsg, IInv, TypeOK, FlagsClear
  <2> QED BY <2>1, <2>2
<1>2. /\ c \notin action_coroutine
      /\ action_coroutine' = action_coroutine \cup {c}
      /\ PoolTypes' /\ PoolPartition'
  BY <1>1, NewCoroutinePool DEF IInv, TypeOK, PoolTypes
<1>3. /\ timerVars' = timerVars
      /\ co_id_timer_id' = co_id_timer_id
  <2>1. co_id_timer_id[c] = NoTimer
    BY <1>2 DEF IInv, TimerIdsOfParked, Parked
  <2>2. TimerOf(c) = {}
    BY <2>1 DEF TimerOf
  <2> QED BY <1>1, <2>1, <2>2
          DEF CancelTimers, ForgetTimer, timerVars, IInv, TypeOK
<1>4. \A d \in CoId : Parked(d)' <=> Parked(d)
  BY <1>1, <1>2 DEF Parked, InMainLoop, NoCo, CoId
<1>5. Pending' = Pending /\ cancel_list' = cancel_list
  BY <1>3 DEF Pending, timerVars
<1>6. TypeOK'
  BY <1>1, <1>2, <1>3 DEF TypeOK, TimerTypeOK, PoolTypes, IInv, timerVars
<1>7. (AddressesDistinct /\ NodesWellFormed /\ StaleCancelsAreOld)'
  BY <1>1, <1>3, <1>5 DEF IInv, AddressesDistinct, NodesWellFormed,
     StaleCancelsAreOld, timerVars, Id
<1>8. TimerIdsOfParked'
  BY <1>3, <1>4 DEF IInv, TimerIdsOfParked
<1>9. WaitHasArmedTimer'
  BY <1>3, <1>4, <1>5 DEF IInv, WaitHasArmedTimer, Armed, Id
<1>10. ArmedTimerHasWait'
  <2>1. \A n \in Pending : n.task \in CoId
    BY CoIdAssumption DEF IInv, TypeOK, TimerTypeOK, Pending, TimerNode
  <2> QED BY <1>3, <1>4, <1>5, <2>1 DEF IInv, ArmedTimerHasWait, Armed, Id
<1>11. CurIsActive'
  BY <1>1, <1>2 DEF CurIsActive
<1> QED BY <1>1, <1>2, <1>6, <1>7, <1>8, <1>9, <1>10, <1>11 DEF IInv

LEMMA PendingTypes ==
  ASSUME IInv
  PROVE  /\ Pending \in SUBSET TimerNode
         /\ \A n \in Pending : n.task \in CoId /\ Id(n) \in TimerId
         /\ \A m, n \in Pending : Id(m) = Id(n) => m = n
<1>1. Pending \in SUBSET TimerNode
  BY DEF IInv, TypeOK, TimerTypeOK, Pending
<1>2. \A n \in Pending : n.task \in CoId /\ Id(n) \in TimerId
  BY <1>1, CoIdAssumption DEF TimerNode, Id, TimerId
<1>3. \A m, n \in Pending : Id(m) = Id(n) => m = n
  BY DEF IInv, TypeOK, TimerTypeOK, AddressesDistinct, Pending, Id
<1> QED BY <1>1, <1>2, <1>3

\* Arming a time-out: the fresh node has an address nobody holds and the
\* current second, so no entry of cancel_list_ matches it.
LEMMA YieldIInv ==
  ASSUME IInv, NEW p \in FreeAddr, NEW i \in Intervals, Yield(p, i)
  PROVE  IInv'
<1> DEFINE n == NewNode(p, now, i, cur, FALSE)
<1>1. /\ cur \in CoId /\ cur \in action_coroutine /\ cur # NoCo
      /\ now \in Nat /\ i \in Nat /\ i >= 1000
  BY TimeAssumption DEF Yield, IInv, TypeOK
<1>2. /\ n.ptr = p /\ n.at = now + i /\ n.seq = now \div 1000
      /\ n.task = cur /\ n.repeat = FALSE /\ n.interval = i
      /\ Id(n) = <<p, now \div 1000>>
  BY DEF NewNode, Id
<1>3. p \in Addr /\ \A m \in timer_set \cup time_out_set : m.ptr # p
  BY DEF FreeAddr
<1>4. now \div 1000 \in Nat /\ (now \div 1000 + 1) * 1000 > now
      /\ (now \div 1000 + 1) * 1000 <= now + i
  BY <1>1
<1>5. n \in TimerNode /\ Id(n) \in TimerId
  <2>1. n \in TimerNode
    BY <1>1, <1>3, <1>4, CoIdAssumption DEF NewNode, TimerNode
  <2> HIDE DEF n
  <2>2. <<p, now \div 1000>> \in TimerId
    BY <1>3, <1>4 DEF TimerId
  <2> QED BY <2>1, <2>2, <1>2
<1>6. /\ timer_set' = timer_set \cup {n}
      /\ cancel_list' = cancel_list /\ time_out_set' = time_out_set
      /\ todo' = todo /\ tick_now' = tick_now
      /\ co_id_timer_id' = [co_id_timer_id EXCEPT ![cur] = Id(n)]
      /\ cur' = NoCo /\ now' = now
      /\ free_coroutine' = free_coroutine
      /\ action_coroutine' = action_coroutine /\ inc_co_id' = inc_co_id
      /\ resume_by_time_out' = resume_by_time_out /\ co_msg' = co_msg
      /\ ret' = ret
  BY DEF Yield, AddTimer, poolVars
<1> HIDE DEF n
<1>7. Pending' = Pending \cup {n}
  BY <1>6 DEF Pending
<1>8. TypeOK'
  BY <1>5, <1>6 DEF IInv, TypeOK, TimerTypeOK
<1>9. PoolPartition' /\ CurIsActive' /\ FlagsClear'
  BY <1>6 DEF IInv, PoolPartition, CurIsActive, FlagsClear
<1>10. AddressesDistinct'
  BY <1>2, <1>3, <1>6 DEF IInv, AddressesDistinct
<1>11. NodesWellFormed'
  BY <1>2, <1>3, <1>4, <1>6 DEF IInv, NodesWellFormed
<1>12. StaleCancelsAreOld'
  BY <1>6, <1>7 DEF IInv, StaleCancelsAreOld, Id
<1>13. Id(n) \notin cancel_list
  <2>1. \A m \in Pending : Id(m) # Id(n)
    BY <1>2, <1>3 DEF Pending, Id, IInv, TypeOK, TimerTypeOK
  <2>2. Id(n)[2] = now \div 1000
    BY <1>2
  <2>3. ~((Id(n)[2] + 1) * 1000 <= now)
    BY <1>1, <1>4, <2>2
  <2> QED BY <2>1, <2>3 DEF IInv, StaleCancelsAreOld
<1>14. \A c \in CoId : Parked(c)' <=> Parked(c) \/ c = cur
  BY <1>1, <1>6 DEF Parked, NoCo, CoId
<1>15. /\ co_id_timer_id'[cur] = Id(n)
       /\ \A c \in CoId : c # cur => co_id_timer_id'[c] = co_id_timer_id[c]
  BY <1>1, <1>6 DEF IInv, TypeOK
<1>16. TimerIdsOfParked'
  BY <1>14, <1>15 DEF IInv, TimerIdsOfParked
<1>17. WaitHasArmedTimer'
  <2> SUFFICES ASSUME NEW c \in CoId, Parked(c)'
               PROVE  \E m \in Pending' : /\ m.task = c /\ Armed(m)'
                                          /\ Id(m)' = co_id_timer_id'[c]
    BY DEF WaitHasArmedTimer
  <2>1. CASE c = cur
    <3>1. PICK m \in Pending' : m = n
      BY <1>7
    <3>2. m.task = c /\ Id(m) = co_id_timer_id'[c] /\ Id(m) \notin cancel_list'
      BY <2>1, <3>1, <1>2, <1>6, <1>13, <1>15
    <3>3. Id(m)' = Id(m)
      BY DEF Id
    <3>4. Armed(m)'
      BY <3>1, <3>2, <3>3 DEF Armed
    <3> QED BY <3>1, <3>2, <3>3, <3>4
  <2>2. CASE c # cur
    <3>1. Parked(c)
      BY <2>2, <1>14
    <3>2. PICK m \in Pending : /\ m.task = c /\ Armed(m)
                               /\ Id(m) = co_id_timer_id[c]
      BY <3>1 DEF IInv, WaitHasArmedTimer
    <3>3. m \in Pending' /\ Armed(m)' /\ Id(m)' = co_id_timer_id'[c]
      BY <2>2, <3>2, <1>6, <1>7, <1>15 DEF Armed, Id
    <3> QED BY <3>2, <3>3
  <2> QED BY <2>1, <2>2
<1>18. ArmedTimerHasWait'
  <2> SUFFICES ASSUME NEW m \in Pending', Armed(m)'
               PROVE  (Parked(m.task) /\ co_id_timer_id[m.task] = Id(m))'
    BY DEF ArmedTimerHasWait
  <2>1. CASE m = n
    BY <2>1, <1>1, <1>2, <1>14, <1>15 DEF Id
  <2>2. CASE m \in Pending
    <3>1. Armed(m)
      BY <2>2, <1>6 DEF Armed, Id
    <3>2. m.task \in CoId /\ Parked(m.task) /\ co_id_timer_id[m.task] = Id(m)
      BY <2>2, <3>1, PendingTypes DEF IInv, ArmedTimerHasWait
    <3>3. m.task # cur
      BY <3>2 DEF Parked
    <3> QED BY <3>2, <3>3, <1>14, <1>15 DEF Id
  <2> QED BY <1>7, <2>1, <2>2
<1> QED BY <1>8, <1>9, <1>10, <1>11, <1>12, <1>16, <1>17, <1>18 DEF IInv

\* The running coroutine has no timer, so ending it changes the pool alone.
LEMMA FinishIInv ==
  ASSUME IInv, Finish
  PROVE  IInv'
<1>1. /\ cur \in CoId /\ cur \in action_coroutine /\ cur # NoCo
      /\ FreeCoroutine(cur) /\ cur' = NoCo /\ now' = now
      /\ timer_set' = timer_set /\ cancel_list' = cancel_list
      /\ time_out_set' = time_out_set /\ todo' = todo /\ tick_now' = tick_now
      /\ resume_by_time_out' = resume_by_time_out /\ co_msg' = co_msg
      /\ co_id_timer_id' = co_id_timer_id /\ ret' = ret
  BY DEF Finish, timerVars, IInv, CurIsActive, TypeOK
<1>2. PoolTypes' /\ PoolPartition'
  BY <1>1, FreeCoroutinePool DEF IInv, TypeOK, PoolTypes
<1>3. \A c \in CoId : Parked(c)' <=> Parked(c)
  BY <1>1 DEF Parked, FreeCoroutine, NoCo, CoId
<1>4. Pending' = Pending
  BY <1>1 DEF Pending
<1>5. TypeOK'
  BY <1>1, <1>2 DEF IInv, TypeOK, TimerTypeOK, PoolTypes
<1>6. CurIsActive' /\ FlagsClear'
  BY <1>1 DEF IInv, CurIsActive, FlagsClear
<1>7. (AddressesDistinct /\ NodesWellFormed /\ StaleCancelsAreOld)'
  BY <1>1, <1>4 DEF IInv, AddressesDistinct, NodesWellFormed,
     StaleCancelsAreOld, Id
<1>8. TimerIdsOfParked' /\ WaitHasArmedTimer'
  BY <1>1, <1>3, <1>4
     DEF IInv, TimerIdsOfParked, WaitHasArmedTimer, Armed, Id
<1>9. ArmedTimerHasWait'
  BY <1>1, <1>3, <1>4, PendingTypes DEF IInv, ArmedTimerHasWait, Armed, Id
<1> QED BY <1>2, <1>5, <1>6, <1>7, <1>8, <1>9 DEF IInv

\* The timer a suspended coroutine waits with, and what CancelTimer finds.
LEMMA ParkedTimer ==
  ASSUME IInv, NEW c \in CoId, Parked(c)
  PROVE  \E n \in Pending : /\ n.task = c /\ Id(n) \in TimerId
                            /\ co_id_timer_id[c] = Id(n)
                            /\ Id(n) \notin cancel_list
                            /\ TimerOf(c) = {Id(n)}
<1>1. PICK n \in Pending : /\ n.task = c /\ co_id_timer_id[c] = Id(n)
                           /\ Id(n) \notin cancel_list
  BY DEF IInv, WaitHasArmedTimer, Armed
<1>2. Id(n) \in TimerId
  BY PendingTypes
<1>3. TimerOf(c) = {Id(n)}
  BY <1>1, <1>2, ValueAssumption DEF TimerOf
<1> QED BY <1>1, <1>2, <1>3

\* Waking c keeps the other waits and their timers apart from c's.
LEMMA WakeKeepsOthers ==
  ASSUME IInv, NEW c \in CoId, Parked(c), cur = NoCo, cur' = c,
         action_coroutine' = action_coroutine, ForgetTimer(c)
  PROVE  /\ \A d \in CoId : Parked(d)' <=> Parked(d) /\ d # c
         /\ co_id_timer_id' \in [CoId -> TimerId \cup {NoTimer}]
         /\ co_id_timer_id'[c] = NoTimer
         /\ \A d \in CoId : d # c => co_id_timer_id'[d] = co_id_timer_id[d]
         /\ TimerIdsOfParked'
         /\ CurIsActive'
<1>1. \A d \in CoId : Parked(d)' <=> Parked(d) /\ d # c
  BY DEF Parked, NoCo, CoId
<1>2. /\ co_id_timer_id' \in [CoId -> TimerId \cup {NoTimer}]
      /\ co_id_timer_id'[c] = NoTimer
      /\ \A d \in CoId : d # c => co_id_timer_id'[d] = co_id_timer_id[d]
  BY DEF IInv, TypeOK, ForgetTimer
<1>3. TimerIdsOfParked'
  BY <1>1, <1>2 DEF IInv, TimerIdsOfParked
<1>4. CurIsActive'
  BY DEF CurIsActive, Parked
<1> QED BY <1>1, <1>2, <1>3, <1>4

\* A message ends a wait and leaves its timer cancelled but pending.
LEMMA ResumeIInv ==
  ASSUME IInv, NEW c \in CoId, NEW m \in Msg, ResumeOneWithMsg(c, m)
  PROVE  IInv'
<1>1. PICK n \in Pending : /\ n.task = c /\ Id(n) \in TimerId
                           /\ co_id_timer_id[c] = Id(n)
                           /\ Id(n) \notin cancel_list
                           /\ TimerOf(c) = {Id(n)}
  BY ParkedTimer DEF ResumeOneWithMsg
<1>2. /\ Parked(c) /\ cur = NoCo /\ cur' = c /\ ForgetTimer(c)
      /\ cancel_list' = cancel_list \cup {Id(n)}
      /\ timer_set' = timer_set /\ time_out_set' = time_out_set
      /\ todo' = todo /\ tick_now' = tick_now /\ now' = now
      /\ free_coroutine' = free_coroutine
      /\ action_coroutine' = action_coroutine /\ inc_co_id' = inc_co_id
      /\ co_msg' = [co_msg EXCEPT ![c] = m]
      /\ resume_by_time_out' = [resume_by_time_out EXCEPT ![c] = FALSE]
      /\ ret' \in {0, -1}
  BY <1>1 DEF ResumeOneWithMsg, InMainLoop, CancelTimers, ResumeWithMsg,
     YieldReturns, poolVars
<1>3. /\ \A d \in CoId : Parked(d)' <=> Parked(d) /\ d # c
      /\ co_id_timer_id' \in [CoId -> TimerId \cup {NoTimer}]
      /\ \A d \in CoId : d # c => co_id_timer_id'[d] = co_id_timer_id[d]
      /\ TimerIdsOfParked' /\ CurIsActive'
  BY <1>2, WakeKeepsOthers
<1>4. Pending' = Pending
  BY <1>2 DEF Pending
<1>5. TypeOK'
  BY <1>1, <1>2, <1>3 DEF IInv, TypeOK, TimerTypeOK
<1>6. /\ PoolPartition' /\ AddressesDistinct' /\ NodesWellFormed'
      /\ FlagsClear'
  BY <1>2 DEF IInv, TypeOK, PoolPartition, AddressesDistinct, NodesWellFormed,
     FlagsClear
<1>7. StaleCancelsAreOld'
  BY <1>2, <1>4 DEF IInv, StaleCancelsAreOld, Id
<1>8. WaitHasArmedTimer'
  <2> SUFFICES ASSUME NEW d \in CoId, Parked(d), d # c
               PROVE  \E k \in Pending : /\ k.task = d
                                         /\ Id(k) = co_id_timer_id'[d]
                                         /\ Id(k) \notin cancel_list'
    BY <1>3, <1>4 DEF WaitHasArmedTimer, Armed, Id
  <2>1. PICK k \in Pending : /\ k.task = d /\ Id(k) = co_id_timer_id[d]
                             /\ Id(k) \notin cancel_list
    BY DEF IInv, WaitHasArmedTimer, Armed
  <2>2. Id(k) # Id(n)
    BY <1>1, <2>1, PendingTypes
  <2> QED BY <1>2, <1>3, <2>1, <2>2
<1>9. ArmedTimerHasWait'
  <2> SUFFICES ASSUME NEW k \in Pending, Id(k) \notin cancel_list'
               PROVE  /\ k.task \in CoId /\ Parked(k.task) /\ k.task # c
                      /\ co_id_timer_id[k.task] = Id(k)
    BY <1>3, <1>4 DEF ArmedTimerHasWait, Armed, Id
  <2>1. k.task \in CoId /\ Parked(k.task) /\ co_id_timer_id[k.task] = Id(k)
    BY <1>2, PendingTypes DEF IInv, ArmedTimerHasWait, Armed
  <2> QED BY <1>1, <1>2, <2>1
<1> QED BY <1>3, <1>5, <1>6, <1>7, <1>8, <1>9 DEF IInv

\* Copying the due nodes out of timer_set_ leaves the pending nodes the same.
LEMMA TickStartIInv ==
  ASSUME IInv, TickStart
  PROVE  IInv'
<1> DEFINE D == Due(now)
<1>1. /\ time_out_set = {} /\ time_out_set' = D /\ todo' = D
      /\ timer_set' = timer_set \ D /\ tick_now' = now
      /\ cancel_list' = cancel_list /\ now' = now
      /\ free_coroutine' = free_coroutine
      /\ action_coroutine' = action_coroutine /\ inc_co_id' = inc_co_id
      /\ resume_by_time_out' = resume_by_time_out /\ co_msg' = co_msg
      /\ co_id_timer_id' = co_id_timer_id /\ cur' = cur /\ ret' = ret
  BY DEF TickStart, TickBegin, Ticking, coVars, poolVars
<1>2. D \in SUBSET timer_set /\ \A n \in D : n.at <= now
  BY DEF Due
<1> HIDE DEF D
<1>3. Pending' = Pending
  BY <1>1, <1>2 DEF Pending, IInv, TypeOK, TimerTypeOK
<1>4. TypeOK'
  BY <1>1, <1>2 DEF IInv, TypeOK, TimerTypeOK
<1>5. PoolPartition' /\ CurIsActive' /\ FlagsClear' /\ TimerIdsOfParked'
  BY <1>1 DEF IInv, PoolPartition, CurIsActive, FlagsClear, TimerIdsOfParked, Parked
<1>6. AddressesDistinct' /\ NodesWellFormed'
  BY <1>1, <1>2 DEF IInv, AddressesDistinct, NodesWellFormed
<1>7. StaleCancelsAreOld' /\ WaitHasArmedTimer' /\ ArmedTimerHasWait'
  BY <1>1, <1>3 DEF IInv, StaleCancelsAreOld, WaitHasArmedTimer,
     ArmedTimerHasWait, Armed, Parked, Id
<1> QED BY <1>4, <1>5, <1>6, <1>7 DEF IInv

\* Skipping a cancelled node removes it together with its entry.
LEMMA TickSkipIInv ==
  ASSUME IInv, NEW n \in todo, TickSkipOne(n)
  PROVE  IInv'
<1>1. /\ Id(n) \in cancel_list /\ cancel_list' = cancel_list \ {Id(n)}
      /\ todo' = todo \ {n} /\ timer_set' = timer_set
      /\ time_out_set' = time_out_set /\ tick_now' = tick_now /\ now' = now
      /\ free_coroutine' = free_coroutine
      /\ action_coroutine' = action_coroutine /\ inc_co_id' = inc_co_id
      /\ resume_by_time_out' = resume_by_time_out /\ co_msg' = co_msg
      /\ co_id_timer_id' = co_id_timer_id /\ cur' = cur /\ ret' = ret
  BY DEF TickSkipOne, TickSkip, coVars, poolVars
<1>2. n \in Pending /\ n \notin timer_set
  BY DEF Pending, IInv, NodesWellFormed, TypeOK, TimerTypeOK
<1>3. Pending' = Pending \ {n}
  BY <1>1, <1>2 DEF Pending
<1>4. TypeOK'
  BY <1>1 DEF IInv, TypeOK, TimerTypeOK
<1>5. /\ PoolPartition' /\ CurIsActive' /\ FlagsClear' /\ TimerIdsOfParked'
      /\ AddressesDistinct' /\ NodesWellFormed'
  BY <1>1 DEF IInv, PoolPartition, CurIsActive, FlagsClear, TimerIdsOfParked, Parked,
     AddressesDistinct, NodesWellFormed
<1>6. StaleCancelsAreOld'
  BY <1>1, <1>3 DEF IInv, StaleCancelsAreOld, Id
<1>7. \A k \in Pending' : Id(k) \notin cancel_list' <=> Id(k) \notin cancel_list
  BY <1>1, <1>2, <1>3, PendingTypes
<1>8. WaitHasArmedTimer'
  BY <1>1, <1>3, <1>7 DEF IInv, WaitHasArmedTimer, Armed, Parked, Id
<1>9. ArmedTimerHasWait'
  BY <1>1, <1>3, <1>7 DEF IInv, ArmedTimerHasWait, Armed, Parked, Id
<1> QED BY <1>4, <1>5, <1>6, <1>8, <1>9 DEF IInv

\* A time-out fires: it belongs to the wait its coroutine is in, and the entry
\* ResumeOne leaves in cancel_list_ is already older than the current second.
LEMMA TickFireIInv ==
  ASSUME IInv, NEW n \in todo, TickFireOne(n)
  PROVE  IInv'
<1> DEFINE c == n.task
<1>1. n \in Pending /\ n \in time_out_set /\ n \notin timer_set
  BY DEF Pending, IInv, NodesWellFormed, TypeOK, TimerTypeOK
<1>2. /\ c \in CoId /\ Parked(c) /\ co_id_timer_id[c] = Id(n)
      /\ Id(n) \in TimerId /\ c \in action_coroutine
  BY <1>1, PendingTypes
     DEF TickFireOne, TickFire, IInv, ArmedTimerHasWait, Armed, Parked
<1>3. TimerOf(c) = {Id(n)}
  BY <1>2, ValueAssumption DEF TimerOf
<1>4. ~n.repeat
  BY <1>1 DEF IInv, NodesWellFormed
<1>5. /\ cur = NoCo /\ cur' = c /\ ForgetTimer(c)
      /\ Id(n) \notin cancel_list
      /\ cancel_list' = cancel_list \cup {Id(n)}
      /\ todo' = todo \ {n} /\ timer_set' = timer_set
      /\ time_out_set' = time_out_set /\ tick_now' = tick_now /\ now' = now
      /\ free_coroutine' = free_coroutine
      /\ action_coroutine' = action_coroutine /\ inc_co_id' = inc_co_id
      /\ co_msg' = co_msg
      /\ resume_by_time_out' = [resume_by_time_out EXCEPT ![c] = FALSE]
      /\ ret' \in {0, -1}
  BY <1>2, <1>3, <1>4 DEF TickFireOne, TickFire, Resume, YieldReturns, poolVars
<1>6. /\ \A d \in CoId : Parked(d)' <=> Parked(d) /\ d # c
      /\ co_id_timer_id' \in [CoId -> TimerId \cup {NoTimer}]
      /\ \A d \in CoId : d # c => co_id_timer_id'[d] = co_id_timer_id[d]
      /\ TimerIdsOfParked' /\ CurIsActive'
  BY <1>2, <1>5, WakeKeepsOthers
<1>7. Pending' = Pending \ {n}
  BY <1>1, <1>5 DEF Pending
<1>8. TypeOK'
  BY <1>2, <1>5, <1>6 DEF IInv, TypeOK, TimerTypeOK
<1>9. /\ PoolPartition' /\ AddressesDistinct' /\ NodesWellFormed'
      /\ FlagsClear'
  BY <1>5 DEF IInv, TypeOK, PoolPartition, AddressesDistinct, NodesWellFormed,
     FlagsClear
<1>10. StaleCancelsAreOld'
  <2>1. n \in TimerNode /\ Id(n)[2] = n.seq
    BY <1>1, PendingTypes DEF Id
  <2>2. n.seq \in Nat /\ n.at \in Nat /\ now \in Nat
    BY <2>1 DEF TimerNode, IInv, TypeOK
  <2>3. (n.seq + 1) * 1000 <= n.at /\ n.at <= now
    BY <1>1 DEF IInv, NodesWellFormed
  <2>4. (Id(n)[2] + 1) * 1000 <= now
    BY <2>1, <2>2, <2>3
  <2> QED BY <1>5, <1>7, <2>4 DEF IInv, StaleCancelsAreOld, Id
<1>11. WaitHasArmedTimer'
  <2> SUFFICES ASSUME NEW d \in CoId, Parked(d), d # c
               PROVE  \E k \in Pending' : /\ k.task = d
                                          /\ Id(k) = co_id_timer_id'[d]
                                          /\ Id(k) \notin cancel_list'
    BY <1>6 DEF WaitHasArmedTimer, Armed, Id
  <2>1. PICK k \in Pending : /\ k.task = d /\ Id(k) = co_id_timer_id[d]
                             /\ Id(k) \notin cancel_list
    BY DEF IInv, WaitHasArmedTimer, Armed
  <2>2. Id(k) # Id(n)
    BY <1>1, <2>1, PendingTypes
  <2> QED BY <1>5, <1>6, <1>7, <2>1, <2>2
<1>12. ArmedTimerHasWait'
  <2> SUFFICES ASSUME NEW k \in Pending', Id(k) \notin cancel_list'
               PROVE  /\ k.task \in CoId /\ Parked(k.task) /\ k.task # c
                      /\ co_id_timer_id[k.task] = Id(k)
    BY <1>6 DEF ArmedTimerHasWait, Armed, Id
  <2>1. k.task \in CoId /\ Parked(k.task) /\ co_id_timer_id[k.task] = Id(k)
    BY <1>5, <1>7, PendingTypes DEF IInv, ArmedTimerHasWait, Armed
  <2> QED BY <1>2, <1>5, <2>1
<1> QED BY <1>6, <1>8, <1>9, <1>10, <1>11, <1>12 DEF IInv

LEMMA TickFinishIInv ==
  ASSUME IInv, TickFinish
  PROVE  IInv'
<1>1. /\ time_out_set' = {} /\ todo = {} /\ todo' = todo
      /\ timer_set' = timer_set /\ tick_now' = tick_now
      /\ cancel_list' = cancel_list /\ now' = now
      /\ free_coroutine' = free_coroutine
      /\ action_coroutine' = action_coroutine /\ inc_co_id' = inc_co_id
      /\ resume_by_time_out' = resume_by_time_out /\ co_msg' = co_msg
      /\ co_id_timer_id' = co_id_timer_id /\ cur' = cur /\ ret' = ret
  BY DEF TickFinish, TickEnd, coVars, poolVars
<1>2. Pending' = Pending
  BY <1>1 DEF Pending
<1>3. TypeOK'
  BY <1>1 DEF IInv, TypeOK, TimerTypeOK
<1>4. /\ PoolPartition' /\ CurIsActive' /\ FlagsClear' /\ TimerIdsOfParked'
      /\ AddressesDistinct' /\ NodesWellFormed'
  BY <1>1 DEF IInv, PoolPartition, CurIsActive, FlagsClear, TimerIdsOfParked, Parked,
     AddressesDistinct, NodesWellFormed
<1>5. StaleCancelsAreOld' /\ WaitHasArmedTimer' /\ ArmedTimerHasWait'
  BY <1>1, <1>2 DEF IInv, StaleCancelsAreOld, WaitHasArmedTimer,
     ArmedTimerHasWait, Armed, Parked, Id
<1> QED BY <1>3, <1>4, <1>5 DEF IInv

\* What is stale or due stays stale or due: this is where the clock has to be
\* monotone.
LEMMA ClockIInv ==
  ASSUME IInv, Clock
  PROVE  IInv'
<1>1. /\ now' = now + ClockStep /\ ClockStep \in Nat
      /\ time_out_set' = time_out_set /\ todo' = todo
      /\ timer_set' = timer_set /\ tick_now' = tick_now
      /\ cancel_list' = cancel_list
      /\ free_coroutine' = free_coroutine
      /\ action_coroutine' = action_coroutine /\ inc_co_id' = inc_co_id
      /\ resume_by_time_out' = resume_by_time_out /\ co_msg' = co_msg
      /\ co_id_timer_id' = co_id_timer_id /\ cur' = cur /\ ret' = ret
  BY TimeAssumption DEF Clock, timerVars, coVars, poolVars
<1>2. Pending' = Pending
  BY <1>1 DEF Pending
<1>3. now \in Nat /\ now' \in Nat /\ now <= now'
  BY <1>1 DEF IInv, TypeOK
<1>4. TypeOK'
  BY <1>1, <1>3 DEF IInv, TypeOK, TimerTypeOK
<1>5. PoolPartition' /\ CurIsActive' /\ FlagsClear' /\ TimerIdsOfParked' /\ AddressesDistinct'
  BY <1>1 DEF IInv, PoolPartition, CurIsActive, FlagsClear, TimerIdsOfParked, Parked,
     AddressesDistinct
<1>6. NodesWellFormed'
  <2>1. \A n \in time_out_set : n.at \in Nat
    BY DEF IInv, TypeOK, TimerTypeOK, TimerNode
  <2> QED BY <1>1, <1>3, <2>1 DEF IInv, NodesWellFormed
<1>7. StaleCancelsAreOld'
  <2>1. \A id \in cancel_list : id[2] \in Nat
    BY DEF IInv, TypeOK, TimerTypeOK, TimerId
  <2> QED BY <1>1, <1>2, <1>3, <2>1 DEF IInv, StaleCancelsAreOld, Id
<1>8. WaitHasArmedTimer' /\ ArmedTimerHasWait'
  BY <1>1, <1>2 DEF IInv, WaitHasArmedTimer, ArmedTimerHasWait, Armed, Parked,
     Id
<1> QED BY <1>4, <1>5, <1>6, <1>7, <1>8 DEF IInv

LEMMA StutterIInv ==
  ASSUME IInv, UNCHANGED vars
  PROVE  IInv'
  BY DEF vars, timerVars, coVars, poolVars, IInv, TypeOK, TimerTypeOK,
     PoolPartition, CurIsActive, FlagsClear, AddressesDistinct, NodesWellFormed,
     StaleCancelsAreOld, TimerIdsOfParked, WaitHasArmedTimer,
     ArmedTimerHasWait, Armed, Parked, Pending, Id

LEMMA NextIInv == IInv /\ [Next]_vars => IInv'
<1> SUFFICES ASSUME IInv, [Next]_vars PROVE IInv'
  OBVIOUS
<1>1. CASE Start
  BY <1>1, StartIInv DEF Start
<1>2. CASE Deliver
  BY <1>2, ResumeIInv DEF Deliver
<1>3. CASE Run
  BY <1>3, FinishIInv, YieldIInv DEF Run
<1>4. CASE Tick
  BY <1>4, TickStartIInv, TickSkipIInv, TickFireIInv, TickFinishIInv DEF Tick
<1>5. CASE Clock
  BY <1>5, ClockIInv
<1>6. CASE UNCHANGED vars
  BY <1>6, StutterIInv
<1> QED BY <1>1, <1>2, <1>3, <1>4, <1>5, <1>6 DEF Next

THEOREM Invariance == Spec => []IInv
<1>1. Init => IInv
  BY InitIInv
<1>2. IInv /\ [Next]_vars => IInv'
  BY NextIInv
<1> QED BY <1>1, <1>2, PTL DEF Spec

\* CoTask's variables have the types the code gives them.
THEOREM TypeCorrect == Spec => []TypeOK
  BY Invariance, PTL DEF IInv

\* No suspended coroutine is ever without an armed time-out, however co_ids
\* and timer addresses are recycled.
THEOREM WaitsAreTimed == Spec => []WaitHasArmedTimer
  BY Invariance, PTL DEF IInv

\* No armed time-out outlives the wait it was armed for.
THEOREM TimersAreOwned == Spec => []ArmedTimerHasWait
  BY Invariance, PTL DEF IInv

\* A cancellation that designates no pending timer (a time-out leaves one behind
\* each time it fires, co_task.h:33-36) is of an earlier second: no timer armed
\* now can match it.
THEOREM StaleCancelsStayOld == Spec => []StaleCancelsAreOld
  BY Invariance, PTL DEF IInv

\* A coroutine's stack is never on the free list and in use at once.
THEOREM PoolIsPartitioned == Spec => []PoolPartition
  BY Invariance, PTL DEF IInv

-----------------------------------------------------------------------------
(* CoTask implements CoWait: every step of CoTask is a step of CoWait or       *)
(* leaves what CoWait sees unchanged.  The deadline of a waiting coroutine is  *)
(* that of the node co_id_timer_id_ designates, so the proof rests on IInv:    *)
(* that node exists, is unique, and a node that fires belongs to the wait its  *)
(* coroutine is in.                                                            *)

LEMMA ChooseById ==
  ASSUME NEW P, NEW n \in P, \A m, k \in P : Id(m) = Id(k) => m = k
  PROVE  (CHOOSE m \in P : Id(m) = Id(n)) = n
  OBVIOUS

LEMMA DueOfParked ==
  ASSUME IInv, NEW n \in Pending, NEW c \in CoId, co_id_timer_id[c] = Id(n)
  PROVE  DueOf(c) = n.at
  BY PendingTypes, ChooseById, ValueAssumption DEF DueOf

\* A wait that a step does not end keeps its deadline.
LEMMA DueKept ==
  ASSUME IInv, IInv', NEW d \in CoId, co_id_timer_id'[d] = co_id_timer_id[d],
         \A k \in Pending : Id(k) = co_id_timer_id[d] => k \in Pending'
  PROVE  DueOf(d)' = DueOf(d)
<1>1. CASE co_id_timer_id[d] = NoTimer
  BY <1>1 DEF DueOf
<1>2. CASE co_id_timer_id[d] # NoTimer
  <2>1. Parked(d)
    BY <1>2 DEF IInv, TimerIdsOfParked
  <2>2. PICK k \in Pending : Id(k) = co_id_timer_id[d]
    BY <2>1 DEF IInv, WaitHasArmedTimer
  <2>3. k \in Pending' /\ \A m, l \in Pending' : Id(m) = Id(l) => m = l
    BY <2>2 DEF IInv, TypeOK, TimerTypeOK, AddressesDistinct, Pending, Id
  <2>4. (CHOOSE m \in Pending' : Id(m) = Id(k)) = k
    BY <2>3, ChooseById
  <2>5. DueOf(d)' = k.at
    BY <1>2, <2>2, <2>4 DEF DueOf, Id
  <2> QED BY <2>2, <2>5, DueOfParked
<1> QED BY <1>1, <1>2

\* phaseBar and dueBar change at c alone when PhaseOf and DueOf do.
LEMMA PhaseBarExcept ==
  ASSUME NEW c \in CoId, NEW v, PhaseOf(c)' = v,
         \A d \in CoId : d # c => PhaseOf(d)' = PhaseOf(d)
  PROVE  phaseBar' = [phaseBar EXCEPT ![c] = v]
  BY DEF phaseBar

LEMMA DueBarExcept ==
  ASSUME NEW c \in CoId, NEW v, DueOf(c)' = v,
         \A d \in CoId : d # c => DueOf(d)' = DueOf(d)
  PROVE  dueBar' = [dueBar EXCEPT ![c] = v]
  BY DEF dueBar

LEMMA NoneRunsInMain ==
  ASSUME cur = NoCo
  PROVE  Wait!NoneRuns
  BY DEF Wait!NoneRuns, phaseBar, PhaseOf, NoCo, CoId

THEOREM InitMaps == Init => Wait!Init
  BY DEF Init, Wait!Init, phaseBar, dueBar, PhaseOf, DueOf

LEMMA StartMaps ==
  ASSUME IInv, IInv', NEW c \in CoId,
         DoTack(c) \/ \E m \in Msg : StartWithMsg(c, m)
  PROVE  Wait!Begin(c)
<1>1. /\ cur = NoCo /\ cur' = c /\ ret' = 0 /\ now' = now
      /\ NewCoroutine(c) /\ CancelTimers(TimerOf(c)) /\ ForgetTimer(c)
  BY DEF DoTack, StartWithMsg, InMainLoop
<1>2. c \notin action_coroutine /\ action_coroutine' = action_coroutine \cup {c}
  BY <1>1, NewCoroutinePool DEF IInv, TypeOK, PoolTypes
<1>3. co_id_timer_id' = co_id_timer_id /\ Pending' = Pending
  <2>1. co_id_timer_id[c] = NoTimer
    BY <1>2 DEF IInv, TimerIdsOfParked, Parked
  <2> QED BY <1>1, <2>1 DEF CancelTimers, ForgetTimer, Pending, IInv, TypeOK
<1>4. phaseBar' = [phaseBar EXCEPT ![c] = "running"] /\ phaseBar[c] = "idle"
  <2>1. PhaseOf(c)' = "running" /\ PhaseOf(c) = "idle"
    BY <1>1, <1>2 DEF PhaseOf
  <2>2. \A d \in CoId : d # c => PhaseOf(d)' = PhaseOf(d)
    BY <1>1, <1>2 DEF PhaseOf, NoCo, CoId
  <2>3. phaseBar[c] = "idle"
    BY <2>1 DEF phaseBar
  <2> QED BY <2>1, <2>2, <2>3, PhaseBarExcept
<1>5. dueBar' = dueBar
  BY <1>3, DueKept DEF dueBar
<1> QED BY <1>1, <1>4, <1>5, NoneRunsInMain DEF Wait!Begin

LEMMA YieldMaps ==
  ASSUME IInv, IInv', NEW co \in CoId, co = cur,
         NEW p \in FreeAddr, NEW i \in Intervals, Yield(p, i)
  PROVE  Wait!Wait(co, i)
<1> DEFINE n == NewNode(p, now, i, co, FALSE)
<1>1. co \in action_coroutine /\ co # NoCo /\ n.at = now + i
  BY DEF Yield, NewNode
<1>2. /\ Pending' = Pending \cup {n}
      /\ co_id_timer_id' = [co_id_timer_id EXCEPT ![co] = Id(n)]
      /\ cur' = NoCo /\ now' = now /\ ret' = ret
      /\ action_coroutine' = action_coroutine
  BY DEF Yield, AddTimer, poolVars, Pending
<1> HIDE DEF n
<1>3. /\ phaseBar' = [phaseBar EXCEPT ![co] = "waiting"]
      /\ phaseBar[co] = "running"
  <2>1. PhaseOf(co)' = "waiting" /\ PhaseOf(co) = "running"
    BY <1>1, <1>2 DEF PhaseOf
  <2>2. \A d \in CoId : d # co => PhaseOf(d)' = PhaseOf(d)
    BY <1>1, <1>2 DEF PhaseOf, NoCo, CoId
  <2>3. phaseBar[co] = "running"
    BY <2>1 DEF phaseBar
  <2> QED BY <2>1, <2>2, <2>3, PhaseBarExcept
<1>4. /\ co_id_timer_id'[co] = Id(n)
      /\ \A d \in CoId : d # co => co_id_timer_id'[d] = co_id_timer_id[d]
  BY <1>1, <1>2 DEF IInv, TypeOK
<1>5. \A d \in CoId : d # co => DueOf(d)' = DueOf(d)
  BY <1>2, <1>4, DueKept
<1>6. DueOf(co)' = n.at
  <2>1. n \in Pending' /\ \A m, l \in Pending' : Id(m) = Id(l) => m = l
    BY <1>2 DEF IInv, TypeOK, TimerTypeOK, AddressesDistinct, Pending, Id
  <2>2. (CHOOSE m \in Pending' : Id(m) = Id(n)) = n
    BY <2>1, ChooseById
  <2>3. Id(n) # NoTimer
    <3>1. n \in TimerNode
      BY <2>1 DEF IInv, TypeOK, TimerTypeOK, Pending
    <3>2. Id(n) \in TimerId
      BY <3>1 DEF TimerNode, TimerId, Id
    <3> QED BY <3>2, ValueAssumption
  <2> QED BY <1>4, <2>2, <2>3 DEF DueOf, Id
<1>7. dueBar' = [dueBar EXCEPT ![co] = now + i]
  BY <1>1, <1>5, <1>6, DueBarExcept
<1> QED BY <1>2, <1>3, <1>7 DEF Wait!Wait

LEMMA FinishMaps ==
  ASSUME IInv, IInv', NEW co \in CoId, co = cur, Finish
  PROVE  Wait!End(co)
<1>1. /\ co \in action_coroutine /\ cur' = NoCo
      /\ action_coroutine' = action_coroutine \ {co}
      /\ Pending' = Pending /\ co_id_timer_id' = co_id_timer_id
      /\ now' = now /\ ret' = ret
  BY DEF Finish, FreeCoroutine, timerVars, Pending, IInv, CurIsActive
<1>2. phaseBar' = [phaseBar EXCEPT ![co] = "idle"] /\ phaseBar[co] = "running"
  <2>1. PhaseOf(co)' = "idle" /\ PhaseOf(co) = "running"
    BY <1>1 DEF PhaseOf
  <2>2. \A d \in CoId : d # co => PhaseOf(d)' = PhaseOf(d)
    BY <1>1 DEF PhaseOf, NoCo, CoId
  <2>3. phaseBar[co] = "running"
    BY <2>1 DEF phaseBar
  <2> QED BY <2>1, <2>2, <2>3, PhaseBarExcept
<1>3. dueBar' = dueBar
  BY <1>1, DueKept DEF dueBar
<1> QED BY <1>1, <1>2, <1>3 DEF Wait!End

\* What waking c, by whatever cause, looks like to CoWait.
LEMMA WakeMaps ==
  ASSUME IInv, IInv', NEW c \in CoId, Parked(c), cur = NoCo, cur' = c,
         action_coroutine' = action_coroutine, ForgetTimer(c),
         \A k \in Pending : k.task # c => k \in Pending'
  PROVE  /\ Wait!NoneRuns
         /\ phaseBar[c] = "waiting"
         /\ phaseBar' = [phaseBar EXCEPT ![c] = "running"]
         /\ dueBar' = [dueBar EXCEPT ![c] = NoTimer]
<1>1. /\ co_id_timer_id'[c] = NoTimer
      /\ \A d \in CoId : d # c => co_id_timer_id'[d] = co_id_timer_id[d]
  BY WakeKeepsOthers
<1>2. phaseBar[c] = "waiting" /\ phaseBar' = [phaseBar EXCEPT ![c] = "running"]
  <2>1. PhaseOf(c)' = "running" /\ PhaseOf(c) = "waiting"
    BY DEF PhaseOf, Parked
  <2>2. \A d \in CoId : d # c => PhaseOf(d)' = PhaseOf(d)
    BY DEF PhaseOf, NoCo, CoId
  <2>3. phaseBar[c] = "waiting"
    BY <2>1 DEF phaseBar
  <2> QED BY <2>1, <2>2, <2>3, PhaseBarExcept
<1>3. \A d \in CoId : d # c => DueOf(d)' = DueOf(d)
  <2> SUFFICES ASSUME NEW d \in CoId, d # c
               PROVE  DueOf(d)' = DueOf(d)
    OBVIOUS
  <2>1. \A k \in Pending : Id(k) = co_id_timer_id[d] => k \in Pending'
    <3> SUFFICES ASSUME NEW k \in Pending, Id(k) = co_id_timer_id[d]
                 PROVE  k.task = d
      OBVIOUS
    <3>1. Parked(d)
      BY PendingTypes, ValueAssumption DEF IInv, TimerIdsOfParked
    <3>2. PICK l \in Pending : l.task = d /\ Id(l) = co_id_timer_id[d]
      BY <3>1 DEF IInv, WaitHasArmedTimer
    <3> QED BY <3>2, PendingTypes
  <2> QED BY <1>1, <2>1, DueKept
<1>4. DueOf(c)' = NoTimer
  BY <1>1 DEF DueOf
<1>5. dueBar' = [dueBar EXCEPT ![c] = NoTimer]
  BY <1>3, <1>4, DueBarExcept
<1> QED BY <1>2, <1>5, NoneRunsInMain

LEMMA ResumeMaps ==
  ASSUME IInv, IInv', NEW c \in CoId, NEW m \in Msg, ResumeOneWithMsg(c, m)
  PROVE  Wait!WakeByMsg(c)
<1>1. /\ Parked(c) /\ cur = NoCo /\ cur' = c /\ ForgetTimer(c)
      /\ Pending' = Pending /\ action_coroutine' = action_coroutine
      /\ now' = now
  BY DEF ResumeOneWithMsg, InMainLoop, CancelTimers, ResumeWithMsg,
     YieldReturns, poolVars, Pending
<1>2. ret' = 0
  BY DEF ResumeOneWithMsg, ResumeWithMsg, YieldReturns, IInv, FlagsClear
<1> QED BY <1>1, <1>2, WakeMaps DEF Wait!WakeByMsg, Wait!Wake

LEMMA TickFireMaps ==
  ASSUME IInv, IInv', NEW n \in todo, TickFireOne(n)
  PROVE  Wait!WakeByTimeOut(n.task)
<1> DEFINE c == n.task
<1>1. n \in Pending /\ n \in time_out_set /\ ~n.repeat
  BY DEF Pending, IInv, NodesWellFormed, TypeOK, TimerTypeOK
<1>2. /\ c \in CoId /\ Parked(c) /\ co_id_timer_id[c] = Id(n)
      /\ c \in action_coroutine
  BY <1>1, PendingTypes
     DEF TickFireOne, TickFire, IInv, ArmedTimerHasWait, Armed, Parked
<1>3. /\ cur = NoCo /\ cur' = c /\ ForgetTimer(c) /\ ret' = -1 /\ now' = now
      /\ action_coroutine' = action_coroutine
      /\ Pending' = (timer_set \cup (todo \ {n}))
  BY <1>1, <1>2 DEF TickFireOne, TickFire, Resume, YieldReturns, poolVars,
     Pending
<1>4. \A k \in Pending : k.task # c => k \in Pending'
  BY <1>3 DEF Pending
<1>5. DueOf(c) = n.at /\ n.at <= now
  BY <1>1, <1>2, DueOfParked DEF IInv, NodesWellFormed
<1>6. dueBar[c] <= now
  BY <1>2, <1>5 DEF dueBar
<1> QED BY <1>2, <1>3, <1>4, <1>6, WakeMaps DEF Wait!WakeByTimeOut, Wait!Wake

\* The other steps of a tick move or drop nodes nobody waits with.
LEMMA TickStutters ==
  ASSUME IInv, IInv',
         TickStart \/ TickFinish \/ \E n \in todo : TickSkipOne(n)
  PROVE  UNCHANGED Wait!vars
<1>1. /\ now' = now /\ ret' = ret /\ cur' = cur
      /\ action_coroutine' = action_coroutine
      /\ co_id_timer_id' = co_id_timer_id
  BY DEF TickStart, TickFinish, TickSkipOne, coVars, poolVars
<1>2. \A k \in Pending : Id(k) \notin cancel_list => k \in Pending'
  <2>1. CASE TickStart
    BY <2>1 DEF TickStart, TickBegin, Pending, Ticking, IInv, TypeOK,
       TimerTypeOK
  <2>2. CASE TickFinish
    BY <2>2 DEF TickFinish, TickEnd, Pending
  <2>3. CASE \E n \in todo : TickSkipOne(n)
    BY <2>3 DEF TickSkipOne, TickSkip, Pending
  <2> QED BY <2>1, <2>2, <2>3
<1>3. \A d \in CoId, k \in Pending :
        Id(k) = co_id_timer_id[d] => Id(k) \notin cancel_list
  <2> SUFFICES ASSUME NEW d \in CoId, NEW k \in Pending,
                      Id(k) = co_id_timer_id[d]
               PROVE  Id(k) \notin cancel_list
    OBVIOUS
  <2>1. Parked(d)
    BY PendingTypes, ValueAssumption DEF IInv, TimerIdsOfParked
  <2> QED BY <2>1 DEF IInv, WaitHasArmedTimer, Armed
<1>4. dueBar' = dueBar
  BY <1>1, <1>2, <1>3, DueKept DEF dueBar
<1>5. phaseBar' = phaseBar
  BY <1>1 DEF phaseBar, PhaseOf
<1> QED BY <1>1, <1>4, <1>5 DEF Wait!vars

LEMMA ClockMaps ==
  ASSUME IInv, IInv', Clock
  PROVE  [Wait!Clock]_(Wait!vars)
<1>1. /\ now' = now + ClockStep /\ ret' = ret /\ cur' = cur
      /\ action_coroutine' = action_coroutine /\ Pending' = Pending
      /\ co_id_timer_id' = co_id_timer_id
  BY DEF Clock, timerVars, coVars, poolVars, Pending
<1>2. dueBar' = dueBar /\ phaseBar' = phaseBar
  BY <1>1, DueKept DEF dueBar, phaseBar, PhaseOf
<1>3. now' = now \/ now' > now
  BY <1>1, TimeAssumption DEF IInv, TypeOK
<1> QED BY <1>1, <1>2, <1>3 DEF Wait!Clock, Wait!vars

LEMMA StutterMaps ==
  ASSUME UNCHANGED vars
  PROVE  UNCHANGED Wait!vars
  BY DEF vars, timerVars, coVars, poolVars, Wait!vars, phaseBar, dueBar,
     PhaseOf, DueOf, Pending, Id

LEMMA NextMaps == IInv /\ IInv' /\ [Next]_vars => [Wait!Next]_(Wait!vars)
<1> SUFFICES ASSUME IInv, IInv', [Next]_vars
             PROVE  [Wait!Next]_(Wait!vars)
  OBVIOUS
<1>1. CASE Start
  BY <1>1, StartMaps DEF Start, Wait!Next
<1>2. CASE Deliver
  BY <1>2, ResumeMaps DEF Deliver, Wait!Next
<1>3. CASE Run
  <2>1. CASE Finish
    <3>1. cur \in CoId
      BY <2>1 DEF Finish, IInv, TypeOK
    <3> QED BY <2>1, <3>1, FinishMaps DEF Wait!Next
  <2>2. CASE \E p \in FreeAddr, i \in Intervals : Yield(p, i)
    <3>1. PICK p \in FreeAddr, i \in Intervals : Yield(p, i)
      BY <2>2
    <3>2. cur \in CoId
      BY <3>1 DEF Yield, IInv, TypeOK
    <3> QED BY <3>1, <3>2, YieldMaps DEF Wait!Next
  <2> QED BY <1>3, <2>1, <2>2 DEF Run
<1>4. CASE Tick
  <2>1. CASE \E n \in todo : TickFireOne(n)
    <3>1. PICK n \in todo : TickFireOne(n)
      BY <2>1
    <3>2. n.task \in CoId
      BY PendingTypes DEF Pending
    <3> QED BY <3>1, <3>2, TickFireMaps DEF Wait!Next
  <2>2. CASE TickStart \/ TickFinish \/ \E n \in todo : TickSkipOne(n)
    BY <2>2, TickStutters
  <2> QED BY <1>4, <2>1, <2>2 DEF Tick
<1>5. CASE Clock
  BY <1>5, ClockMaps DEF Wait!Next
<1>6. CASE UNCHANGED vars
  BY <1>6, StutterMaps
<1> QED BY <1>1, <1>2, <1>3, <1>4, <1>5, <1>6 DEF Next

\* CoTask keeps the promise CoWait states.
THEOREM Refinement == Spec => ImplementsCoWait
<1>1. Init => Wait!Init
  BY InitMaps
<1>2. IInv /\ IInv' /\ [Next]_vars => [Wait!Next]_(Wait!vars)
  BY NextMaps
<1> QED BY <1>1, <1>2, Invariance, PTL DEF Spec, Wait!Spec, ImplementsCoWait

-----------------------------------------------------------------------------
(* TransMgr, for any commands and pool sizes.  It only restricts CoTask, so   *)
(* everything proved of CoTask holds of it; what is added is that            *)
(* transaction objects are conserved.                                        *)

LEMMA TNextIsNext == [TNext]_allVars => [Next]_vars
<1> SUFFICES ASSUME [TNext]_allVars PROVE [Next]_vars
  OBVIOUS
<1>1. CASE \E cmd \in Cmd, m \in Msg : OnRequest(cmd, m)
  <2>1. PICK cmd \in Cmd, m \in Msg, c \in CoId : StartWithMsg(c, m)
    BY <1>1 DEF OnRequest
  <2> QED BY <2>1 DEF Next, Start
<1>2. CASE \E c \in CoId, m \in Msg : OnReply(c, m)
  BY <1>2 DEF OnReply, Next, Deliver
<1>3. CASE TYield
  BY <1>3 DEF TYield, Next, Run
<1>4. CASE TaskEnds
  BY <1>4 DEF TaskEnds, Next, Run
<1>5. CASE TickTimeOutCo
  BY <1>5 DEF TickTimeOutCo, Next
<1>6. CASE TClock
  BY <1>6 DEF TClock, Next
<1>7. CASE UNCHANGED allVars
  BY <1>7 DEF allVars
<1> QED BY <1>1, <1>2, <1>3, <1>4, <1>5, <1>6, <1>7 DEF TNext

\* TransMgr uses CoTask as CoTask is meant to be used.
THEOREM TransMgrIsCoTask == TSpec => Spec
<1>1. TInit => Init
  BY DEF TInit
<1> QED BY <1>1, TNextIsNext, PTL DEF TSpec, Spec

\* So no transaction waits without an armed time-out.
THEOREM TransWaitsAreTimed == TSpec => []WaitHasArmedTimer
  BY TransMgrIsCoTask, WaitsAreTimed, PTL

LEMMA TransHasCmd == \A t \in Trans : t[1] \in Cmd
  BY DEF Trans

LEMMA TInitTInv == TInit => TInv
<1> SUFFICES ASSUME TInit PROVE TInv
  OBVIOUS
<1>1. \A cmd \in Cmd : /\ Count[cmd] \in Nat
                       /\ trans_map[cmd] = [i \in 1..Count[cmd] |-> <<cmd, i>>]
                       /\ Len(trans_map[cmd]) = Count[cmd]
                       /\ trans_map[cmd] \in Seq(Trans)
  <2> TAKE cmd \in Cmd
  <2>1. Count[cmd] \in Nat /\ trans_map[cmd] = [i \in 1..Count[cmd] |-> <<cmd, i>>]
    BY CountAssumption DEF TInit
  <2>2. \A i \in 1..Count[cmd] : <<cmd, i>> \in Trans
    BY DEF Trans
  <2>3. trans_map[cmd] \in Seq(Trans)
    BY <2>1, <2>2
  <2>4. Len(trans_map[cmd]) = Count[cmd]
    BY <2>1
  <2> QED BY <2>1, <2>3, <2>4
<1>2. TTypeOK
  BY <1>1 DEF TInit, TTypeOK
<1>3. PoolsWellFormed
  <2>1. \A cmd \in Cmd : \A i, j \in 1..Len(trans_map[cmd]) :
          /\ trans_map[cmd][i][1] = cmd
          /\ trans_map[cmd][i] = trans_map[cmd][j] => i = j
    <3> TAKE cmd \in Cmd
    <3>1. 1..Len(trans_map[cmd]) = 1..Count[cmd]
      BY <1>1
    <3>2. \A i \in 1..Count[cmd] : trans_map[cmd][i] = <<cmd, i>>
      BY <1>1
    <3> TAKE i, j \in 1..Len(trans_map[cmd])
    <3>3. trans_map[cmd][i] = <<cmd, i>> /\ trans_map[cmd][j] = <<cmd, j>>
      BY <3>1, <3>2
    <3> QED BY <3>3
  <2>2. \A t \in Trans : InPool(t) # {} /\ trans_co[t] = NoCo
    <3> TAKE t \in Trans
    <3> USE DEF TInit
    <3>1. \E cmd \in Cmd : \E i \in 1..Count[cmd] : t = <<cmd, i>>
      BY DEF Trans
    <3>2. PICK cmd \in Cmd : \E i \in 1..Count[cmd] : t = <<cmd, i>>
      BY <3>1
    <3>3. PICK i \in 1..Count[cmd] : t = <<cmd, i>>
      BY <3>2
    <3>4. i \in InPool(t)
      BY <1>1, <3>3 DEF InPool
    <3> QED BY <3>4
  <2> QED BY <2>1, <2>2 DEF PoolsWellFormed
<1>4. CoIsHolder
  BY CountAssumption DEF TInit, Init, CoIsHolder, NoCo, CoId
<1> QED BY <1>2, <1>3, <1>4 DEF TInv

\* A started transaction leaves its pool for the coroutine that runs it.
LEMMA OnRequestTInv ==
  ASSUME IInv, TInv, NEW cmd \in Cmd, NEW m \in Msg, OnRequest(cmd, m)
  PROVE  TInv'
<1> DEFINE pool == trans_map[cmd]
<1>1. PICK c \in CoId, t \in Trans :
        /\ pool # <<>> /\ t = Last(pool)
        /\ trans_map' = [trans_map EXCEPT ![cmd] = Front(pool)]
        /\ StartWithMsg(c, m)
        /\ held' = [held EXCEPT ![c] = t]
        /\ trans_co' = [trans_co EXCEPT ![t] = c]
  BY DEF OnRequest, GetShared
<1>2. c \notin action_coroutine /\ action_coroutine' = action_coroutine \cup {c}
  BY <1>1, NewCoroutinePool DEF StartWithMsg, IInv, TypeOK, PoolTypes
<1>3. /\ pool \in Seq(Trans) /\ Len(pool) \in Nat /\ Len(pool) > 0
      /\ t = pool[Len(pool)]
  BY <1>1 DEF TInv, TTypeOK, Last
<1>4. /\ Front(pool) \in Seq(Trans) /\ Len(Front(pool)) = Len(pool) - 1
      /\ \A i \in 1..(Len(pool) - 1) : Front(pool)[i] = pool[i]
  BY <1>3 DEF Front
<1>5. t[1] = cmd /\ trans_co[t] = NoCo /\ held[c] = NoTrans
  <2>1. t[1] = cmd
    BY <1>3 DEF TInv, PoolsWellFormed
  <2>2. Len(pool) \in InPool(t)
    BY <1>3, <2>1 DEF InPool
  <2>3. trans_co[t] = NoCo
    BY <1>1, <2>2 DEF TInv, PoolsWellFormed
  <2>4. held[c] = NoTrans
    BY <1>2, <1>1 DEF TInv, CoIsHolder
  <2> QED BY <2>1, <2>3, <2>4
<1>6. trans_map'[cmd] = Front(pool)
      /\ \A k \in Cmd : k # cmd => trans_map'[k] = trans_map[k]
  BY <1>1 DEF TInv, TTypeOK
<1>7. held'[c] = t /\ \A k \in CoId : k # c => held'[k] = held[k]
  BY <1>1 DEF TInv, TTypeOK
<1>8. trans_co'[t] = c /\ \A u \in Trans : u # t => trans_co'[u] = trans_co[u]
  BY <1>1 DEF TInv, TTypeOK
<1> HIDE DEF pool
<1>9. TTypeOK'
  BY <1>1, <1>4 DEF TInv, TTypeOK
<1>10. CoIsHolder'
  <2>1. t # NoTrans
    BY <1>1, CountAssumption
  <2>2. \A k \in CoId : k \in action_coroutine' <=> held'[k] # NoTrans
    BY <1>2, <1>7, <2>1 DEF TInv, CoIsHolder
  <2>3. \A k \in CoId : held[k] # t
    BY <1>1, <1>5 DEF TInv, CoIsHolder, NoCo, CoId
  <2>4. \A u \in Trans, k \in CoId : trans_co'[u] = k <=> held'[k] = u
    BY <1>1, <1>5, <1>7, <1>8, <2>1, <2>3, CountAssumption DEF TInv, CoIsHolder
  <2> QED BY <2>2, <2>4 DEF CoIsHolder
<1>11. PoolsWellFormed'
  <2>1. \A k \in Cmd : \A i, j \in 1..Len(trans_map'[k]) :
          /\ trans_map'[k][i][1] = k
          /\ trans_map'[k][i] = trans_map'[k][j] => i = j
    <3> SUFFICES ASSUME NEW k \in Cmd, NEW i \in 1..Len(trans_map'[k]),
                        NEW j \in 1..Len(trans_map'[k])
                 PROVE  /\ trans_map'[k][i][1] = k
                        /\ trans_map'[k][i] = trans_map'[k][j] => i = j
      OBVIOUS
    <3>1. CASE k # cmd
      BY <3>1, <1>6 DEF TInv, PoolsWellFormed
    <3>2. CASE k = cmd
      <4>1. i \in 1..(Len(pool) - 1) /\ j \in 1..(Len(pool) - 1)
        BY <3>2, <1>4, <1>6
      <4>2. i \in 1..Len(trans_map[cmd]) /\ j \in 1..Len(trans_map[cmd])
        BY <4>1, <1>3 DEF pool
      <4>3. trans_map'[k][i] = trans_map[cmd][i] /\ trans_map'[k][j] = trans_map[cmd][j]
        BY <3>2, <4>1, <1>4, <1>6 DEF pool
      <4> QED BY <3>2, <4>2, <4>3 DEF TInv, PoolsWellFormed
    <3> QED BY <3>1, <3>2
  <2>2. \A u \in Trans : InPool(u)' # {} <=> trans_co'[u] = NoCo
    <3> SUFFICES ASSUME NEW u \in Trans
                 PROVE  InPool(u)' # {} <=> trans_co'[u] = NoCo
      OBVIOUS
    <3>0. u[1] \in Cmd
      BY TransHasCmd
    <3>1. CASE u[1] # cmd
      <4>1. InPool(u)' = InPool(u)
        BY <3>0, <3>1, <1>6 DEF InPool
      <4>2. u # t
        BY <3>1, <1>5
      <4> QED BY <4>1, <4>2, <1>8 DEF TInv, PoolsWellFormed
    <3>2. CASE u[1] = cmd /\ u # t
      <4>1. \A i \in InPool(u) : i \in 1..(Len(pool) - 1)
        BY <3>2, <1>3 DEF InPool, pool
      <4>2. InPool(u)' = InPool(u)
        BY <3>2, <4>1, <1>3, <1>4, <1>6 DEF InPool, pool
      <4> QED BY <4>2, <3>2, <1>8 DEF TInv, PoolsWellFormed
    <3>3. CASE u = t
      <4>1. \A i \in 1..(Len(pool) - 1) : pool[i] # t
        BY <1>3 DEF TInv, PoolsWellFormed, pool
      <4>2. InPool(u)' = {}
        BY <3>3, <4>1, <1>4, <1>5, <1>6 DEF InPool
      <4>3. trans_co'[u] # NoCo
        BY <3>3, <1>8 DEF NoCo, CoId
      <4> QED BY <4>2, <4>3
    <3> QED BY <3>1, <3>2, <3>3
  <2> QED BY <2>1, <2>2 DEF PoolsWellFormed
<1> QED BY <1>9, <1>10, <1>11 DEF TInv

\* An ended transaction goes from its coroutine to the back of its pool.
LEMMA TaskEndsTInv ==
  ASSUME IInv, TInv, TaskEnds
  PROVE  TInv'
<1>1. PICK c \in CoId : c = cur
  BY DEF TaskEnds, Finish, IInv, TypeOK, NoCo
<1>2. c \in action_coroutine /\ action_coroutine' = action_coroutine \ {c}
  BY <1>1 DEF TaskEnds, Finish, FreeCoroutine, IInv, CurIsActive, NoCo, CoId
<1>3. PICK t \in Trans : t = held[c]
  BY <1>1, <1>2 DEF TInv, TTypeOK, CoIsHolder
<1>4. PICK cmd \in Cmd : cmd = t[1]
  BY TransHasCmd
<1> DEFINE pool == trans_map[cmd]
<1>5. /\ trans_map' = [trans_map EXCEPT ![cmd] = Append(pool, t)]
      /\ held' = [held EXCEPT ![c] = NoTrans]
      /\ trans_co' = [trans_co EXCEPT ![t] = NoCo]
  BY <1>1, <1>3, <1>4 DEF TaskEnds, PutBack
<1>6. pool \in Seq(Trans) /\ Len(pool) \in Nat
  BY DEF TInv, TTypeOK
<1>7. /\ Append(pool, t) \in Seq(Trans)
      /\ Len(Append(pool, t)) = Len(pool) + 1
      /\ Append(pool, t)[Len(pool) + 1] = t
      /\ \A i \in 1..Len(pool) : Append(pool, t)[i] = pool[i]
  BY <1>6
<1>8. trans_co[t] = c /\ InPool(t) = {}
  BY <1>3 DEF TInv, CoIsHolder, PoolsWellFormed, NoCo, CoId
<1>9. trans_map'[cmd] = Append(pool, t)
      /\ \A k \in Cmd : k # cmd => trans_map'[k] = trans_map[k]
  BY <1>5 DEF TInv, TTypeOK
<1>10. held'[c] = NoTrans /\ \A k \in CoId : k # c => held'[k] = held[k]
  BY <1>5 DEF TInv, TTypeOK
<1>11. trans_co'[t] = NoCo
       /\ \A u \in Trans : u # t => trans_co'[u] = trans_co[u]
  BY <1>5 DEF TInv, TTypeOK
<1>12. \A i \in 1..Len(pool) : pool[i] # t
  BY <1>4, <1>8 DEF InPool
<1> HIDE DEF pool
<1>13. TTypeOK'
  BY <1>5, <1>7 DEF TInv, TTypeOK
<1>14. CoIsHolder'
  <2>1. \A k \in CoId : k \in action_coroutine' <=> held'[k] # NoTrans
    BY <1>2, <1>10 DEF TInv, CoIsHolder
  <2>2. \A u \in Trans, k \in CoId : trans_co'[u] = k <=> held'[k] = u
    <3> SUFFICES ASSUME NEW u \in Trans, NEW k \in CoId
                 PROVE  trans_co'[u] = k <=> held'[k] = u
      OBVIOUS
    <3>1. u # NoTrans /\ k # NoCo
      BY CountAssumption DEF NoCo, CoId
    <3>2. trans_co[u] = k <=> held[k] = u
      BY DEF TInv, CoIsHolder
    <3> QED BY <3>1, <3>2, <1>3, <1>8, <1>10, <1>11
  <2> QED BY <2>1, <2>2 DEF CoIsHolder
<1>15. PoolsWellFormed'
  <2>1. \A k \in Cmd : \A i, j \in 1..Len(trans_map'[k]) :
          /\ trans_map'[k][i][1] = k
          /\ trans_map'[k][i] = trans_map'[k][j] => i = j
    <3> SUFFICES ASSUME NEW k \in Cmd, NEW i \in 1..Len(trans_map'[k]),
                        NEW j \in 1..Len(trans_map'[k])
                 PROVE  /\ trans_map'[k][i][1] = k
                        /\ trans_map'[k][i] = trans_map'[k][j] => i = j
      OBVIOUS
    <3>1. CASE k # cmd
      BY <3>1, <1>9 DEF TInv, PoolsWellFormed
    <3>2. CASE k = cmd
      <4>1. \A x \in 1..Len(pool) : pool[x][1] = cmd
        BY DEF TInv, PoolsWellFormed, pool
      <4>2. \A x, y \in 1..Len(pool) : pool[x] = pool[y] => x = y
        BY DEF TInv, PoolsWellFormed, pool
      <4>3. \A x \in 1..(Len(pool) + 1) : x \in 1..Len(pool) \/ x = Len(pool) + 1
        BY <1>6
      <4>4. i \in 1..(Len(pool) + 1) /\ j \in 1..(Len(pool) + 1)
        BY <3>2, <1>7, <1>9
      <4> QED BY <3>2, <4>1, <4>2, <4>3, <4>4, <1>4, <1>7, <1>9, <1>12
    <3> QED BY <3>1, <3>2
  <2>2. \A u \in Trans : InPool(u)' # {} <=> trans_co'[u] = NoCo
    <3> SUFFICES ASSUME NEW u \in Trans
                 PROVE  InPool(u)' # {} <=> trans_co'[u] = NoCo
      OBVIOUS
    <3>0. u[1] \in Cmd
      BY TransHasCmd
    <3>1. CASE u[1] # cmd
      <4>1. InPool(u)' = InPool(u)
        BY <3>0, <3>1, <1>9 DEF InPool
      <4>2. u # t
        BY <3>1, <1>4
      <4> QED BY <4>1, <4>2, <1>11 DEF TInv, PoolsWellFormed
    <3>2. CASE u[1] = cmd /\ u # t
      <4>1. \A i \in 1..(Len(pool) + 1) :
              Append(pool, t)[i] = u <=> i \in 1..Len(pool) /\ pool[i] = u
        BY <3>2, <1>6, <1>7
      <4>2. InPool(u)' = InPool(u)
        BY <3>2, <4>1, <1>6, <1>7, <1>9 DEF InPool, pool
      <4> QED BY <4>2, <3>2, <1>11 DEF TInv, PoolsWellFormed
    <3>3. CASE u = t
      <4>1. Len(pool) + 1 \in InPool(u)'
        BY <3>3, <1>4, <1>6, <1>7, <1>9 DEF InPool
      <4> QED BY <4>1, <3>3, <1>11
    <3> QED BY <3>1, <3>2, <3>3
  <2> QED BY <2>1, <2>2 DEF PoolsWellFormed
<1> QED BY <1>13, <1>14, <1>15 DEF TInv

LEMMA TNextTInv == IInv /\ TInv /\ [TNext]_allVars => TInv'
<1> SUFFICES ASSUME IInv, TInv, [TNext]_allVars PROVE TInv'
  OBVIOUS
<1>1. CASE \E cmd \in Cmd, m \in Msg : OnRequest(cmd, m)
  BY <1>1, OnRequestTInv
<1>2. CASE TaskEnds
  BY <1>2, TaskEndsTInv
<1>3. CASE UNCHANGED <<transVars, action_coroutine>>
  BY <1>3 DEF transVars, TInv, TTypeOK, PoolsWellFormed, CoIsHolder, InPool
<1>4. CASE \E c \in CoId, m \in Msg : OnReply(c, m)
  BY <1>3, <1>4 DEF OnReply, ResumeOneWithMsg, poolVars
<1>5. CASE TYield
  BY <1>3, <1>5 DEF TYield, Yield, poolVars
<1>6. CASE TickTimeOutCo
  BY <1>3, <1>6 DEF TickTimeOutCo, Tick, TickStart, TickSkipOne, TickFireOne,
                    TickFinish, coVars, poolVars
<1>7. CASE TClock
  BY <1>3, <1>7 DEF TClock, Clock, coVars, poolVars
<1>8. CASE UNCHANGED allVars
  BY <1>3, <1>8 DEF allVars, vars, coVars, poolVars
<1> QED BY <1>1, <1>2, <1>4, <1>5, <1>6, <1>7, <1>8 DEF TNext

\* The strengthening of TransConserved and CoIsHolder is invariant: every pool
\* holds its own objects once, and _co is NoCo exactly for those in a pool.
THEOREM TransInvariance == TSpec => []TInv
<1>1. TSpec => []IInv
  BY TransMgrIsCoTask, Invariance, PTL
<1> QED BY <1>1, TInitTInv, TNextTInv, PTL DEF TSpec

\* trans_mgr.h, object_pool.h: no transaction object is lost or handed to two
\* requests, for any commands, pool sizes and number of coroutines.
THEOREM TransAreConserved == TSpec => []TransConserved
<1>1. TInv => TransConserved
  <2> SUFFICES ASSUME TInv, NEW t \in Trans
               PROVE  \/ (\E i \in InPool(t) : InPool(t) = {i}) /\ Holders(t) = {}
                      \/ InPool(t) = {} /\ \E c \in CoId : Holders(t) = {c}
    BY DEF TransConserved
  <2>0. t[1] \in Cmd
    BY TransHasCmd
  <2>1. CASE trans_co[t] = NoCo
    <3>1. PICK i : i \in InPool(t)
      BY <2>1 DEF TInv, PoolsWellFormed
    <3>2. InPool(t) = {i}
      BY <2>0, <3>1 DEF TInv, PoolsWellFormed, InPool
    <3>3. Holders(t) = {}
      BY <2>1 DEF TInv, CoIsHolder, Holders, NoCo, CoId
    <3> QED BY <3>1, <3>2, <3>3
  <2>2. CASE trans_co[t] # NoCo
    <3>1. trans_co[t] \in CoId /\ InPool(t) = {}
      BY <2>2 DEF TInv, TTypeOK, PoolsWellFormed
    <3>2. Holders(t) = {trans_co[t]}
      BY <3>1 DEF TInv, CoIsHolder, Holders
    <3> QED BY <3>1, <3>2
  <2> QED BY <2>1, <2>2
<1> QED BY <1>1, TransInvariance, PTL

\* svr_comm_trans.cpp:16-28: a transaction's _co is the coroutine it runs in.
THEOREM TransCoIsHolder == TSpec => []CoIsHolder
  BY TransInvariance, PTL DEF TInv
=============================================================================
