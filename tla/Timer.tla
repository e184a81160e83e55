------------------------------- MODULE Timer -------------------------------
(***************************************************************************)
(* class Timer (commlib/timer.h): one-shot and repeating timers kept in a   *)
(* std::set ordered by deadline, cancelled lazily through cancel_list_.     *)
(*                                                                         *)
(* A TimeInfo is a heap object: AddTimer takes an address that no live      *)
(* TimeInfo occupies, and an address is free again once the last            *)
(* shared_ptr to its TimeInfo is gone.  A TimerId is the pair of that       *)
(* address and the second in which the timer was armed, so two timers that  *)
(* occupy one address one after the other can carry the same TimerId.       *)
(***************************************************************************)
EXTENDS Integers, FiniteSets

CONSTANTS Addr,   \* addresses the allocator hands out for TimeInfo objects
          Task    \* the callables a timer may run

VARIABLES timer_set,     \* Timer::timer_set_, the armed nodes
          cancel_list,   \* Timer::cancel_list_, a set of TimerIds
          time_out_set,  \* the vector of due nodes DoTimeOutTask is walking
          todo,          \* the part of time_out_set it has not reached
          tick_now       \* the now_ms argument of that DoTimeOutTask

timerVars == <<timer_set, cancel_list, time_out_set, todo, tick_now>>

TimerId   == Addr \X Nat
TimerNode == [at : Nat, ptr : Addr, seq : Nat, interval : Nat,
              repeat : BOOLEAN, task : Task]

\* The key cancel_list_ is searched with.
Id(n) == <<n.ptr, n.seq>>

\* The nodes that are armed and that some DoTimeOutTask will still reach.
Pending == timer_set \cup todo

\* time_out_set holds a shared_ptr to each of its nodes until it is destroyed.
FreeAddr == Addr \ {n.ptr : n \in timer_set \cup time_out_set}

Ticking == time_out_set # {}

-----------------------------------------------------------------------------
TimerInit == /\ timer_set = {}
             /\ cancel_list = {}
             /\ time_out_set = {}
             /\ todo = {}
             /\ tick_now = 0

\* Mutant of NewNode: seq is left at its default.
NewNode_NoSeq(p, now, interval, task, repeat) ==
  [at |-> now + interval, ptr |-> p, seq |-> 0,
   interval |-> interval, repeat |-> repeat, task |-> task]

\* Mutant of NewNode: seq is the second of the deadline.
NewNode_DeadlineSeq(p, now, interval, task, repeat) ==
  [at |-> now + interval, ptr |-> p, seq |-> (now + interval) \div 1000,
   interval |-> interval, repeat |-> repeat, task |-> task]

\* The node AddTimer(now, interval, task, repeat) makes at address p.
NewNode(p, now, interval, task, repeat) ==
  [at |-> now + interval, ptr |-> p, seq |-> now \div 1000,
   interval |-> interval, repeat |-> repeat, task |-> task]

\* AddTimer: emplace the node; its TimerId is what the caller keeps.
AddTimer(n) ==
  /\ n.ptr \in FreeAddr
  /\ timer_set' = timer_set \cup {n}
  /\ UNCHANGED <<cancel_list, time_out_set, todo, tick_now>>

\* One CancelTimer call for each TimerId of ids.
CancelTimers(ids) ==
  /\ cancel_list' = cancel_list \cup ids
  /\ UNCHANGED <<timer_set, time_out_set, todo, tick_now>>

\* Mutant of Due: deadlines are compared in whole seconds.
Due_WholeSeconds(now) == {n \in timer_set : n.at \div 1000 <= now \div 1000}

\* timer_set_.begin() .. lower_bound(now_ms + 1)
Due(now) == {n \in timer_set : n.at <= now}

\* Entry of DoTimeOutTask: copy the due nodes out and erase them.  With no due
\* node the function returns without an effect.
TickBegin(now) ==
  /\ ~Ticking
  /\ Due(now) # {}
  /\ time_out_set' = Due(now)
  /\ todo' = Due(now)
  /\ timer_set' = timer_set \ Due(now)
  /\ tick_now' = now
  /\ UNCHANGED cancel_list

\* n is next in the walk.  Nodes of one deadline are ordered by address, which
\* is arbitrary with respect to the order they were armed in.
IsNext(n) == n \in todo /\ \A o \in todo : n.at <= o.at

\* Mutant of TickSkip: break instead of continue, the rest of the walk is lost.
TickSkip_Break(n) ==
  /\ IsNext(n)
  /\ Id(n) \in cancel_list
  /\ cancel_list' = cancel_list \ {Id(n)}
  /\ todo' = {}
  /\ UNCHANGED <<timer_set, time_out_set, tick_now>>

\* The node was cancelled: drop it together with the cancel_list_ entry.
TickSkip(n) ==
  /\ IsNext(n)
  /\ Id(n) \in cancel_list
  /\ cancel_list' = cancel_list \ {Id(n)}
  /\ todo' = todo \ {n}
  /\ UNCHANGED <<timer_set, time_out_set, tick_now>>

\* The node is run.  Its task cancels the timers in ids; a repeating node is
\* emplaced again afterwards.
TickFire(n, ids) ==
  /\ IsNext(n)
  /\ Id(n) \notin cancel_list
  /\ cancel_list' = cancel_list \cup ids
  /\ todo' = todo \ {n}
  /\ timer_set' = IF n.repeat
                  THEN timer_set \cup {[n EXCEPT !.at = tick_now + n.interval]}
                  ELSE timer_set
  /\ UNCHANGED <<time_out_set, tick_now>>

\* The walk is over and the vector, with its shared_ptrs, is destroyed.
TickEnd ==
  /\ Ticking
  /\ todo = {}
  /\ time_out_set' = {}
  /\ UNCHANGED <<timer_set, cancel_list, todo, tick_now>>

-----------------------------------------------------------------------------
TimerTypeOK ==
  /\ timer_set \in SUBSET TimerNode
  /\ cancel_list \in SUBSET TimerId
  /\ time_out_set \in SUBSET TimerNode
  /\ todo \in SUBSET time_out_set
  /\ tick_now \in Nat
=============================================================================
