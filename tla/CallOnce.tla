------------------------------ MODULE CallOnce ------------------------------
(***************************************************************************)
(* What the servers promise of the messages they send each other: a message *)
(* is executed at most once and only after it was sent, and what a call     *)
(* returns is the answer of some executed call, used for no other call.     *)
(* It does not promise that it is the answer of that call.                  *)
(***************************************************************************)
EXTENDS Integers

CONSTANT MaxCalls  \* bound: messages sent

VARIABLES issued,    \* messages 1..issued have been sent
          executed,  \* how many transactions were started for a message
          answer     \* the message whose answer a call returned, or 0

vars == <<issued, executed, answer>>
Call == 1..MaxCalls

Init == /\ issued = 0
        /\ executed = [id \in Call |-> 0]
        /\ answer = [id \in Call |-> 0]

Issue == /\ issued < MaxCalls
         /\ issued' = issued + 1
         /\ UNCHANGED <<executed, answer>>

Execute(id) == /\ id <= issued
               /\ executed[id] = 0
               /\ executed' = [executed EXCEPT ![id] = 1]
               /\ UNCHANGED <<issued, answer>>

Return(id, a) == /\ id <= issued
                 /\ answer[id] = 0
                 /\ executed[a] = 1
                 /\ \A other \in Call : answer[other] # a
                 /\ answer' = [answer EXCEPT ![id] = a]
                 /\ UNCHANGED <<issued, executed>>

Next == \/ Issue
        \/ \E id \in Call : Execute(id) \/ \E a \in Call : Return(id, a)

Spec == Init /\ [][Next]_vars
=============================================================================
