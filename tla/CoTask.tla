------------------------------- MODULE CoTask -------------------------------
(***************************************************************************)
(* Coroutines with timed waits: class CoTask and class CoYield              *)
(* (commlib/co/co_task.h, co_task.cpp) on top of class CoPool               *)
(* (commlib/co/coroutine.h, coroutine.cpp) and class Timer.                 *)
(*                                                                         *)
(* One thread runs everything.  The main context (libevent callbacks)       *)
(* starts coroutines, resumes them with messages and ticks the timer; at    *)
(* most one coroutine runs at a time, and it gives control back only by     *)
(* yielding or by ending.  A Coroutine object is recycled through           *)
(* free_coroutine and keeps its co_id for ever.                             *)
(***************************************************************************)
EXTENDS Timer, Sequences

CONSTANTS MaxCo,      \* bound: Coroutine objects (1 MB stacks) that may exist
          CoIdMod,    \* co_ids are unsigned: 2^32 in the code
          Msg,        \* messages a coroutine may be resumed with
          Garbage,    \* a CoMsg pointer nobody has written yet
          Intervals,  \* time-outs coroutines yield with, ms
          ClockStep,  \* granularity of the clock, ms
          MaxNow,     \* bound: the clock stops here
          NoTimer     \* co_id_timer_id_ has no entry

CoId == 1..MaxCo
NoCo == 0             \* control is in the main context

\* 0 is skipped by GetCoId, so CoIdMod - 1 ids are usable.
ASSUME CoIdAssumption == /\ MaxCo \in Nat /\ CoIdMod \in Nat
                         /\ MaxCo < CoIdMod
                         /\ Task = CoId
\* Every caller waits at least a second: 5000 is the default of CoYield::Yield
\* and Trans::Yield, test/test_co.cpp uses 1000, nothing else is passed.
ASSUME TimeAssumption == /\ Intervals \in SUBSET Nat
                         /\ \A i \in Intervals : i >= 1000
                         /\ ClockStep \in Nat /\ MaxNow \in Nat
ASSUME ValueAssumption == Garbage \notin Msg /\ NoTimer \notin TimerId

VARIABLES now,                 \* time_mgr::now_ms()
          free_coroutine,      \* CoPool::free_coroutine, by co_id
          action_coroutine,    \* keys of CoPool::action_coroutine
          inc_co_id,           \* CoPool::inc_co_id
          resume_by_time_out,  \* Coroutine::resume_by_time_out
          co_msg,              \* Coroutine::co_msg
          co_id_timer_id,      \* CoTask::co_id_timer_id_
          cur,                 \* the coroutine that has control, or NoCo
          ret                  \* what Yield returned to cur when it last woke

poolVars == <<free_coroutine, action_coroutine, inc_co_id>>
coVars   == <<poolVars, resume_by_time_out, co_msg, co_id_timer_id, cur, ret>>
vars     == <<timerVars, now, coVars>>

-----------------------------------------------------------------------------
Init == /\ TimerInit
        /\ now = 0
        /\ free_coroutine = <<>>
        /\ action_coroutine = {}
        /\ inc_co_id = 0
        /\ resume_by_time_out = [c \in CoId |-> FALSE]
        /\ co_msg = [c \in CoId |-> Garbage]
        /\ co_id_timer_id = [c \in CoId |-> NoTimer]
        /\ cur = NoCo
        /\ ret = 0

\* Suspended in Yield.
Parked(c) == c \in action_coroutine /\ c # cur

\* A callback of the main loop: nothing runs, no DoTimeOutTask is on the stack.
InMainLoop == cur = NoCo /\ ~Ticking

\* CoPool::GetCoId
GetCoId == LET next == (inc_co_id + 1) % CoIdMod
           IN  IF next = 0 THEN 1 ELSE next

\* CoPool::NewCoroutine: reuse the object that has been free the longest, or
\* make one.  Neither co_msg nor resume_by_time_out is reset.
NewCoroutine(c) ==
  /\ action_coroutine' = action_coroutine \cup {c}
  /\ \/ /\ free_coroutine = <<>>
        /\ inc_co_id < MaxCo
        /\ c = GetCoId
        /\ inc_co_id' = GetCoId
        /\ UNCHANGED free_coroutine
     \/ /\ free_coroutine # <<>>
        /\ c = Head(free_coroutine)
        /\ free_coroutine' = Tail(free_coroutine)
        /\ UNCHANGED inc_co_id

\* Mutant of FreeCoroutine: the entry of action_coroutine is not erased.
FreeCoroutine_KeepsEntry(c) ==
  /\ free_coroutine' = Append(free_coroutine, c)
  /\ UNCHANGED <<action_coroutine, inc_co_id>>

\* CoPool::FreeCoroutine
FreeCoroutine(c) ==
  /\ free_coroutine' = Append(free_coroutine, c)
  /\ action_coroutine' = action_coroutine \ {c}
  /\ UNCHANGED inc_co_id

\* Mutant of TimerOf: a resumed coroutine's timer is forgotten, not cancelled.
TimerOf_NoCancel(c) == {}

\* CoTask::CancelTimer: the TimerIds it hands to Timer::CancelTimer.
TimerOf(c) == IF co_id_timer_id[c] = NoTimer THEN {} ELSE {co_id_timer_id[c]}
ForgetTimer(c) == co_id_timer_id' = [co_id_timer_id EXCEPT ![c] = NoTimer]

\* Mutant of YieldReturns: the flag itself is returned.
YieldReturns_Flag(c, flag) ==
  /\ ret' = IF flag THEN 1 ELSE 0
  /\ resume_by_time_out' = [resume_by_time_out EXCEPT ![c] = FALSE]
  /\ cur' = c

\* The tail of CoPool::Yield, which the swap into c runs: report the flag and
\* clear it.
YieldReturns(c, flag) ==
  /\ ret' = IF flag THEN -1 ELSE 0
  /\ resume_by_time_out' = [resume_by_time_out EXCEPT ![c] = FALSE]
  /\ cur' = c

\* CoPool::Resume of a waiting coroutine
Resume(c, time_out) == YieldReturns(c, time_out) /\ UNCHANGED co_msg

\* CoPool::ResumeWithMsg of a waiting coroutine: the flag is left as it is.
ResumeWithMsg(c, m) ==
  /\ co_msg' = [co_msg EXCEPT ![c] = m]
  /\ YieldReturns(c, resume_by_time_out[c])

-----------------------------------------------------------------------------
\* AddTack, then ResumeOneWithMsg, as TransMgr::OnMsg starts a transaction.
StartWithMsg(c, m) ==
  /\ InMainLoop
  /\ NewCoroutine(c)
  /\ CancelTimers(TimerOf(c))
  /\ ForgetTimer(c)
  /\ co_msg' = [co_msg EXCEPT ![c] = m]
  /\ cur' = c
  /\ ret' = 0
  /\ UNCHANGED <<now, resume_by_time_out>>

\* DoTack: start a coroutine without a message.
DoTack(c) ==
  /\ InMainLoop
  /\ NewCoroutine(c)
  /\ CancelTimers(TimerOf(c))
  /\ ForgetTimer(c)
  /\ resume_by_time_out' = [resume_by_time_out EXCEPT ![c] = FALSE]
  /\ cur' = c
  /\ ret' = 0
  /\ UNCHANGED <<now, co_msg>>

\* The running coroutine calls CoYield::Yield(i): arm the time-out, swap to
\* the main context.
Yield(p, i) ==
  /\ cur # NoCo
  /\ cur \in action_coroutine
  /\ now + i <= MaxNow
  /\ LET n == NewNode(p, now, i, cur, FALSE)
     IN  /\ AddTimer(n)
         /\ co_id_timer_id' = [co_id_timer_id EXCEPT ![cur] = Id(n)]
  /\ cur' = NoCo
  /\ UNCHANGED <<now, poolVars, resume_by_time_out, co_msg, ret>>

\* The task returns: ~CoYield frees the coroutine, uc_link resumes main.
Finish ==
  /\ cur # NoCo
  /\ FreeCoroutine(cur)
  /\ cur' = NoCo
  /\ UNCHANGED <<timerVars, now, resume_by_time_out, co_msg, co_id_timer_id,
                 ret>>

\* CoTask::ResumeOneWithMsg on a suspended coroutine (a co_id that is not in
\* action_coroutine has no timer either and changes nothing).
ResumeOneWithMsg(c, m) ==
  /\ InMainLoop
  /\ Parked(c)
  /\ CancelTimers(TimerOf(c))
  /\ ForgetTimer(c)
  /\ ResumeWithMsg(c, m)
  /\ UNCHANGED <<now, poolVars>>

\* DoTimeOutTask, called every millisecond (TransMgr) or every 100 ms (AppBase).
TickStart == TickBegin(now) /\ UNCHANGED <<now, coVars>>

\* The walk goes on while no coroutine runs.
TickSkipOne(n) == cur = NoCo /\ TickSkip(n) /\ UNCHANGED <<now, coVars>>

\* The node's task is ResumeOne(co_id, true).  It cancels the very timer that
\* is firing, which timer_set_ no longer holds, and resumes the coroutine.
TickFireOne(n) ==
  LET c == n.task
  IN  /\ cur = NoCo
      /\ TickFire(n, TimerOf(c))
      /\ ForgetTimer(c)
      /\ IF c \in action_coroutine
         THEN Resume(c, TRUE)
         ELSE UNCHANGED <<cur, ret, resume_by_time_out, co_msg>>
      /\ UNCHANGED <<now, poolVars>>

TickFinish == cur = NoCo /\ TickEnd /\ UNCHANGED <<now, coVars>>

\* Time passes, also while a coroutine runs or a tick is under way.
Clock == /\ now + ClockStep <= MaxNow
         /\ now' = now + ClockStep
         /\ UNCHANGED <<timerVars, coVars>>

Start == \E c \in CoId : DoTack(c) \/ \E m \in Msg : StartWithMsg(c, m)

Deliver == \E c \in CoId, m \in Msg : ResumeOneWithMsg(c, m)

Run == Finish \/ \E p \in FreeAddr, i \in Intervals : Yield(p, i)

Tick == TickStart \/ (\E n \in todo : TickSkipOne(n) \/ TickFireOne(n))
                  \/ TickFinish

Next == Start \/ Deliver \/ Run \/ Tick \/ Clock

Spec == Init /\ [][Next]_vars

\* The loop comes round to its timers again and again however many messages
\* it handles (SF), a walk and a coroutine that were begun get on, and the
\* clock runs.  Nothing is assumed of messages.
FairSpec == /\ Spec
            /\ SF_vars(TickStart)
            /\ WF_vars(\E n \in todo : TickSkipOne(n) \/ TickFireOne(n))
            /\ WF_vars(TickFinish)
            /\ WF_vars(Run)
            /\ WF_vars(Clock)

-----------------------------------------------------------------------------
TypeOK ==
  /\ TimerTypeOK
  /\ now \in Nat
  /\ free_coroutine \in Seq(CoId)
  /\ action_coroutine \in SUBSET CoId
  /\ inc_co_id \in 0..MaxCo
  /\ resume_by_time_out \in [CoId -> BOOLEAN]
  /\ co_msg \in [CoId -> Msg \cup {Garbage}]
  /\ co_id_timer_id \in [CoId -> TimerId \cup {NoTimer}]
  /\ cur \in CoId \cup {NoCo}
  /\ ret \in {0, -1}

Armed(n) == n \in Pending /\ Id(n) \notin cancel_list

\* A suspended coroutine always has its time-out armed: no wait can be left
\* without a wake-up, whatever timers its predecessors under the same co_id or
\* at the same address cancelled (co_task.h:22-26, timer.h:36-52).
WaitHasArmedTimer ==
  \A c \in CoId : Parked(c) =>
    \E n \in Pending : /\ n.task = c
                       /\ Id(n) = co_id_timer_id[c]
                       /\ Armed(n)

\* An armed timer belongs to the wait its coroutine is in now.  A message that
\* ended the wait disarmed it, so it cannot time out a later wait, nor a later
\* task that runs under the same recycled co_id (co_task.h:33-41).
ArmedTimerHasWait ==
  \A n \in Pending : Armed(n) =>
    Parked(n.task) /\ co_id_timer_id[n.task] = Id(n)

\* The free list and the active map partition the coroutines that were made:
\* no stack is handed out twice, none is lost (coroutine.cpp:4-26, 57-63).
PoolPartition ==
  /\ \A i, j \in 1..Len(free_coroutine) :
       free_coroutine[i] = free_coroutine[j] => i = j
  /\ \A i \in 1..Len(free_coroutine) : free_coroutine[i] \notin action_coroutine
  /\ action_coroutine \cup {free_coroutine[i] : i \in 1..Len(free_coroutine)}
       = 1..inc_co_id

\* What makes the timer safe for CoTask.  A time-out cancels the timer that is
\* firing, so cancel_list_ keeps an entry that designates nothing; such an
\* entry is stale: it is older than the current second, and no timer armed
\* from now on can match it (timer.h:31, 47-52; co_task.h:33-36).
StaleCancelsAreOld ==
  \A id \in cancel_list :
    (\E n \in Pending : Id(n) = id) \/ (id[2] + 1) * 1000 <= now

\* The memory of a TimeInfo is not shared while anything refers to it.
AddressesDistinct ==
  \A m, n \in timer_set \cup time_out_set : m.ptr = n.ptr => m = n

NodesWellFormed ==
  /\ timer_set \cap time_out_set = {}
  /\ \A n \in timer_set \cup time_out_set :
       /\ ~n.repeat
       /\ (n.seq + 1) * 1000 <= n.at
  /\ \A n \in time_out_set : n.at <= now

\* Only a suspended coroutine has an entry in co_id_timer_id_.
TimerIdsOfParked ==
  \A c \in CoId : co_id_timer_id[c] # NoTimer => Parked(c)

CurIsActive == cur # NoCo => cur \in action_coroutine

\* A suspended coroutine's flag is clear, so a message cannot be reported as a
\* time-out: ResumeWithMsg leaves the flag as it finds it.
FlagsClear == \A c \in CoId : ~resume_by_time_out[c]

\* The inductive invariant behind WaitHasArmedTimer and ArmedTimerHasWait.
IInv == /\ TypeOK
        /\ PoolPartition
        /\ CurIsActive
        /\ FlagsClear
        /\ AddressesDistinct
        /\ NodesWellFormed
        /\ StaleCancelsAreOld
        /\ TimerIdsOfParked
        /\ WaitHasArmedTimer
        /\ ArmedTimerHasWait

\* Every wait ends: the coroutine is resumed by a message or by its time-out
\* (Yield, co_task.h:22-26; TickTimeOutCo, trans_mgr.h:66-68).
EveryWaitEnds == \A c \in CoId : Parked(c) ~> ~Parked(c)

-----------------------------------------------------------------------------
(* CoTask implements CoWait. *)

PhaseOf(c) == IF c \notin action_coroutine THEN "idle"
              ELSE IF c = cur THEN "running" ELSE "waiting"

\* The deadline of the timer co_id_timer_id_ records.
DueOf(c) == IF co_id_timer_id[c] = NoTimer THEN NoTimer
            ELSE (CHOOSE n \in Pending : Id(n) = co_id_timer_id[c]).at

phaseBar == [c \in CoId |-> PhaseOf(c)]
dueBar   == [c \in CoId |-> DueOf(c)]

Wait == INSTANCE CoWait WITH Co <- CoId, Idle <- NoTimer,
                             phase <- phaseBar, due <- dueBar

\* A Yield returns once, 0 for a message and -1 only after its time-out is
\* due, and one coroutine runs at a time (co_task.h:22-41, coroutine.cpp:28-55).
ImplementsCoWait == Wait!Spec
=============================================================================
