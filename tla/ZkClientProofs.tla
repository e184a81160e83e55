--------------------------- MODULE ZkClientProofs ---------------------------
(***************************************************************************)
(* Proofs about ZkClient, for any number of polls, faults and sessions.     *)
(*                                                                         *)
(* Reconnect throws the session away by what state_ says, so the invariant  *)
(* says that state_ never calls for it while ZooKeeper has the session:     *)
(* a broken connection leaves kConnecting, and kDisConnected is set only    *)
(* by the expiry of the session, or before there was one.                   *)
(***************************************************************************)
EXTENDS ZkClient, TLAPS

TypeOK == /\ state \in ClientState /\ handle \in HandleState
          /\ session \in 0..last /\ alive \subseteq 1..last /\ last \in Nat

SessionIsWanted == session \in alive => state \in {"kConnected", "kConnecting"}

IInv == TypeOK /\ StateIsHandles /\ SessionIsWanted

\* What EventLoopOnce is given: the handle in use, or a new one.
Given(h, s) ==
  \/ h = handle /\ s = session
  \/ /\ h = "notconnected" /\ s = NoSession
     /\ state \notin {"kConnected", "kConnecting", "kDisConnecting"}

LEMMA Watcher ==
  /\ DefaultWatcher("ZOO_CONNECTED_STATE") => state' = "kConnected"
  /\ DefaultWatcher("ZOO_CONNECTING_STATE") => state' = "kConnecting"
  /\ DefaultWatcher("ZOO_EXPIRED_SESSION_STATE") => state' = "kDisConnected"
BY DEF DefaultWatcher

\* One poll keeps the session, unless ZooKeeper has given it up.
LEMMA PollStep ==
  ASSUME IInv, NEW h, NEW s, Given(h, s), EventLoopOnce(h, s)
  PROVE  IInv' /\ (session \in alive' => session' = session)
<1>1. /\ s \in 0..last /\ h \in HandleState /\ last \in Nat
      /\ s \in alive => s = session /\ state \in {"kConnected", "kConnecting"}
      /\ session \in alive => s = session
      /\ last > 0 /\ state = "kConnected" => h = "connected"
      /\ h = "connected" => state = "kConnected" /\ handle = "connected"
  BY DEF IInv, TypeOK, StateIsHandles, SessionIsWanted, Given, HandleState, NoSession
<1>2. CASE h = "notconnected" /\ handle' = "connecting" /\ session' = s
           /\ UNCHANGED <<state, alive, last, faults>>
  BY <1>1, <1>2 DEF IInv, TypeOK, StateIsHandles, SessionIsWanted, HandleState
<1>3. CASE h = "connecting" /\ handle' = "associating" /\ session' = s
           /\ UNCHANGED <<state, alive, last, faults>>
  BY <1>1, <1>3 DEF IInv, TypeOK, StateIsHandles, SessionIsWanted, HandleState
<1>4. CASE s = NoSession /\ last' = last + 1 /\ alive' = alive \cup {last'}
           /\ handle' = "connected" /\ session' = last' /\ state' = "kConnected"
  <2>1. session \notin alive'
    BY <1>1, <1>4 DEF IInv, TypeOK, NoSession
  <2>2. TypeOK'
    BY <1>4 DEF IInv, TypeOK, ClientState, HandleState
  <2> QED BY <1>4, <2>1, <2>2 DEF IInv, StateIsHandles, SessionIsWanted
<1>5. CASE s \in alive /\ handle' = "connected" /\ session' = s /\ state' = "kConnected"
           /\ UNCHANGED <<alive, last>>
  BY <1>1, <1>5 DEF IInv, TypeOK, StateIsHandles, SessionIsWanted, ClientState, HandleState
<1>6. CASE s \notin alive \cup {NoSession} /\ handle' = "expired" /\ session' = s
           /\ state' = "kDisConnected" /\ UNCHANGED <<alive, last>>
  BY <1>1, <1>6 DEF IInv, TypeOK, StateIsHandles, SessionIsWanted, ClientState, HandleState
<1>7. CASE Break(h, s)
  <2>1. CASE h = "connected"
    <3>1. state' = "kConnecting" /\ handle' = "notconnected" /\ session' = s
          /\ UNCHANGED <<alive, last>>
      BY <1>7, <2>1, Watcher DEF Break
    <3> QED BY <1>1, <3>1 DEF IInv, TypeOK, StateIsHandles, SessionIsWanted, ClientState,
                             HandleState
  <2>2. CASE h # "connected"
    <3>1. handle' = "notconnected" /\ session' = s /\ UNCHANGED <<state, alive, last>>
      BY <1>7, <2>2 DEF Break
    <3> QED BY <1>1, <2>2, <3>1 DEF IInv, TypeOK, StateIsHandles, SessionIsWanted, HandleState
  <2> QED BY <2>1, <2>2
<1>8. CASE Quiet(h, s)
  BY <1>1, <1>8 DEF IInv, TypeOK, StateIsHandles, SessionIsWanted, Quiet
<1> QED BY <1>2, <1>3, <1>4, <1>5, <1>6, <1>7, <1>8, Watcher DEF EventLoopOnce, Progress

LEMMA Step == IInv /\ [Next]_vars => IInv' /\ (session \in alive' => session' = session)
<1> SUFFICES ASSUME IInv, [Next]_vars
             PROVE  IInv' /\ (session \in alive' => session' = session)
  OBVIOUS
<1>1. CASE InitLoop
  BY <1>1, PollStep DEF InitLoop, Given
<1>2. CASE Check
  <2>1. Given(Reconnect[1], Reconnect[2])
    BY DEF Given, Reconnect, NotNeedReconnect
  <2> QED BY <1>2, <2>1, PollStep DEF Check, Polls
<1>3. CASE Expire
  BY <1>3 DEF Expire, IInv, TypeOK, StateIsHandles, SessionIsWanted
<1>4. CASE UNCHANGED vars
  BY <1>4 DEF vars, IInv, TypeOK, StateIsHandles, SessionIsWanted
<1> QED BY <1>1, <1>2, <1>3, <1>4 DEF Next

\* The invariant is inductive, from any value state_ may have at first.
THEOREM Invariance == Spec => []IInv
<1>1. Init => IInv
  BY DEF Init, IInv, TypeOK, StateIsHandles, SessionIsWanted, HandleState, NoSession
<1> QED BY <1>1, Step, PTL DEF Spec

\* ZooCmd's question to state_ is answered rightly once there was a session.
THEOREM StateFollowsHandle == Spec => []StateIsHandles
<1>1. IInv => StateIsHandles
  BY DEF IInv
<1> QED BY <1>1, Invariance, PTL

\* No poll throws away a session ZooKeeper still has, however the connection
\* breaks and heals.
THEOREM SessionsAreKept == Spec => LiveSessionIsKept
<1>1. IInv /\ [Next]_vars => [(session \in alive' => session' = session)]_vars
  BY Step
<1> QED BY <1>1, Invariance, PTL DEF Spec, LiveSessionIsKept
=============================================================================
