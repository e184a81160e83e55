------------------------------ MODULE ZkClient ------------------------------
(***************************************************************************)
(* The session of one server with ZooKeeper: ZooKeeperClient                *)
(* (app/common/zookeeper_client.{h,cpp}) and ClientBase                     *)
(* (commlib/client_base.h).  The C client library is external: a zhandle_t  *)
(* goes from notconnected through connecting and associating to connected,  *)
(* one step in each zookeeper_process, because Check polls without waiting. *)
(***************************************************************************)
EXTENDS Integers

CONSTANTS BootLoops,   \* how often Init polls: 10
          MaxFaults,   \* bound: lost connections and expiries
          MaxSessions  \* bound: sessions ZooKeeper gives out

ASSUME ZkAssumption == /\ BootLoops \in Nat \ {0}
                       /\ MaxFaults \in Nat /\ MaxSessions \in Nat

\* kUnset: the uninitialised state_ holds none of the enumerators.
ClientState == {"kConnecting", "kConnected", "kDisConnecting", "kDisConnected",
                "kExpired", "kUnset"}
HandleState == {"notconnected", "connecting", "associating", "connected",
                "expired"}
NoSession   == 0

VARIABLES state,    \* ClientBase::state_
          handle,   \* what state zkhandle_ is in
          session,  \* its session, or NoSession
          boot,     \* calls of EventLoopOnce Init has left; 0 once it returned
          up,       \* Init returned true, so AppBase polls Check
          alive,    \* ZooKeeper: sessions that are not expired
          last,     \* ZooKeeper: sessions given out
          faults    \* lost connections and expiries so far

vars == <<state, handle, session, boot, up, alive, last, faults>>

-----------------------------------------------------------------------------
\* state_ is not initialised; zookeeper_init has made a handle.
Init == /\ state \in ClientState
        /\ handle = "notconnected"
        /\ session = NoSession
        /\ boot = BootLoops
        /\ up = FALSE
        /\ alive = {}
        /\ last = 0
        /\ faults = 0

\* Mutant of DefaultWatcher: only what ends or begins a session is handled.
DefaultWatcher_NoConnecting(zoo_state) ==
  state' = CASE zoo_state = "ZOO_CONNECTED_STATE"  -> "kConnected"
             [] zoo_state = "ZOO_CONNECTING_STATE" -> state
             [] zoo_state = "ZOO_EXPIRED_SESSION_STATE" -> "kDisConnected"

\* DefaultWatcher, for session events
DefaultWatcher(zoo_state) ==
  state' = CASE zoo_state = "ZOO_CONNECTED_STATE"  -> "kConnected"
             [] zoo_state = "ZOO_CONNECTING_STATE" -> "kConnecting"
             [] zoo_state = "ZOO_EXPIRED_SESSION_STATE" -> "kDisConnected"

\* zookeeper_process takes a handle in state h, with session s, one step on.
\* A handle that had no session gets a new one, one whose session is gone is
\* told so.
Progress(h, s) ==
  \/ /\ h = "notconnected"
     /\ handle' = "connecting"
     /\ session' = s
     /\ UNCHANGED <<state, alive, last, faults>>
  \/ /\ h = "connecting"
     /\ handle' = "associating"
     /\ session' = s
     /\ UNCHANGED <<state, alive, last, faults>>
  \/ /\ h = "associating"
     /\ s = NoSession
     /\ last < MaxSessions
     /\ last' = last + 1
     /\ alive' = alive \cup {last'}
     /\ handle' = "connected"
     /\ session' = last'
     /\ DefaultWatcher("ZOO_CONNECTED_STATE")
     /\ UNCHANGED faults
  \/ /\ h = "associating"
     /\ s \in alive
     /\ handle' = "connected"
     /\ session' = s
     /\ DefaultWatcher("ZOO_CONNECTED_STATE")
     /\ UNCHANGED <<alive, last, faults>>
  \/ /\ h = "associating"
     /\ s \notin alive \cup {NoSession}
     /\ handle' = "expired"
     /\ session' = s
     /\ DefaultWatcher("ZOO_EXPIRED_SESSION_STATE")
     /\ UNCHANGED <<alive, last, faults>>

\* The connection breaks.  Only a handle that was connected reports it.
Break(h, s) ==
  /\ h \in {"connecting", "associating", "connected"}
  /\ faults < MaxFaults
  /\ faults' = faults + 1
  /\ handle' = "notconnected"
  /\ session' = s
  /\ IF h = "connected" THEN DefaultWatcher("ZOO_CONNECTING_STATE")
                        ELSE UNCHANGED state
  /\ UNCHANGED <<alive, last>>

Quiet(h, s) == /\ handle' = h
               /\ session' = s
               /\ UNCHANGED <<state, alive, last, faults>>

EventLoopOnce(h, s) == Progress(h, s) \/ Break(h, s) \/ Quiet(h, s)

\* The loop in ZooKeeperClient::Init.
InitLoop ==
  /\ boot > 0
  /\ EventLoopOnce(handle, session)
  /\ up' = (state' = "kConnected")
  /\ boot' = IF state' \in {"kConnected", "kDisConnected"} THEN 0 ELSE boot - 1

\* Mutant of NotNeedReconnect: kConnecting is forgotten.
NotNeedReconnect_Connecting == state \in {"kConnected", "kDisConnecting"}

NotNeedReconnect == state \in {"kConnected", "kConnecting", "kDisConnecting"}

\* Reconnect: the handle in use afterwards, and its session.  It closes a handle
\* and opens another without touching state_.
Reconnect == IF NotNeedReconnect THEN <<handle, session>>
                                 ELSE <<"notconnected", NoSession>>

\* Check, every 100 ms: the handle in use is polled once.
Polls(step) == boot = 0 /\ up /\ step /\ UNCHANGED <<boot, up>>
Check == Polls(EventLoopOnce(Reconnect[1], Reconnect[2]))

\* ZooKeeper has not heard of the client for 5 s.
Expire == /\ session \in alive
          /\ faults < MaxFaults
          /\ faults' = faults + 1
          /\ alive' = alive \ {session}
          /\ UNCHANGED <<state, handle, session, boot, up, last>>

Next == InitLoop \/ Check \/ Expire

Spec == Init /\ [][Next]_vars

\* The timer polls again and again, and once the network works each poll takes
\* the handle one step on, if it can get on at all.
FairSpec == Spec /\ WF_vars(Polls(Progress(Reconnect[1], Reconnect[2])))

-----------------------------------------------------------------------------
\* What ZooCmd asks before it uses the handle: state_ says connected exactly
\* while the handle is, once there has been a session at all; before that,
\* state_ may hold anything (zookeeper_client.cpp:7-24, client_base.h:25).
StateIsHandles ==
  /\ handle = "connected" => state = "kConnected"
  /\ last > 0 /\ state = "kConnected" => handle = "connected"

\* The session, and with it the server's node and watch, is not thrown away
\* while ZooKeeper still has it, however often the connection breaks
\* (zookeeper_client.cpp:167-178).
LiveSessionIsKept == [][(session \in alive' => session' = session)]_vars

\* A broken connection is replaced, or the session is found to have expired.
BrokenConnectionHeals ==
  up /\ state = "kConnecting" ~> state \in {"kConnected", "kDisConnected"}

\* zookeeper.h:430-432: a session is established when ZOO_CONNECTED_STATE is
\* received, so one that is opened in the place of an expired one needs time.
ExpiredClientReconnects == up /\ handle = "expired" ~> handle = "connected"
=============================================================================
