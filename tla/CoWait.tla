------------------------------- MODULE CoWait -------------------------------
(***************************************************************************)
(* What CoTask promises the code that waits in a coroutine: one coroutine   *)
(* has control at a time; Yield(i) returns exactly once, 0 because somebody *)
(* resumed this wait with a message, or -1 because at least i ms went by.   *)
(***************************************************************************)
EXTENDS Integers

CONSTANTS Co,         \* coroutines
          Intervals,  \* time-outs, ms
          Idle        \* no due time

VARIABLES now,    \* the clock, ms
          phase,  \* idle, running or waiting
          due,    \* when a waiting coroutine may time out
          ret     \* what the last Yield returned to the running coroutine

vars == <<now, phase, due, ret>>

Init == /\ now = 0
        /\ phase = [c \in Co |-> "idle"]
        /\ due = [c \in Co |-> Idle]
        /\ ret = 0

NoneRuns == \A c \in Co : phase[c] # "running"

Begin(c) == /\ NoneRuns
            /\ phase[c] = "idle"
            /\ phase' = [phase EXCEPT ![c] = "running"]
            /\ ret' = 0
            /\ UNCHANGED <<now, due>>

Wait(c, i) == /\ phase[c] = "running"
              /\ phase' = [phase EXCEPT ![c] = "waiting"]
              /\ due' = [due EXCEPT ![c] = now + i]
              /\ UNCHANGED <<now, ret>>

Wake(c, r) == /\ NoneRuns
              /\ phase[c] = "waiting"
              /\ phase' = [phase EXCEPT ![c] = "running"]
              /\ due' = [due EXCEPT ![c] = Idle]
              /\ ret' = r
              /\ UNCHANGED now

WakeByMsg(c) == Wake(c, 0)

WakeByTimeOut(c) == phase[c] = "waiting" /\ due[c] <= now /\ Wake(c, -1)

End(c) == /\ phase[c] = "running"
          /\ phase' = [phase EXCEPT ![c] = "idle"]
          /\ UNCHANGED <<now, due, ret>>

Clock == now' > now /\ UNCHANGED <<phase, due, ret>>

Next == \/ \E c \in Co : \/ Begin(c) \/ WakeByMsg(c) \/ WakeByTimeOut(c)
                         \/ End(c) \/ \E i \in Intervals : Wait(c, i)
        \/ Clock

Spec == Init /\ [][Next]_vars
=============================================================================
