----------------------------- MODULE MqNetProofs -----------------------------
(***************************************************************************)
(* Proofs about MqNet, for any number of requests, connections and faults.  *)
(*                                                                         *)
(* What a connection has achieved is not in the client: it follows from     *)
(* what is left of its declarations.  So the invariant says what each stage *)
(* of the set-up implies at the broker, and which flags it allows.          *)
(***************************************************************************)
EXTENDS MqNet, TLAPS

\* What is left of Declarations after one, two, three of them.
AfterExchange == <<"declareQueue", "bindQueue", "consume">>
AfterQueue    == <<"bindQueue", "consume">>
AfterBind     == <<"consume">>

LEMMA Suffixes ==
  /\ Head(Declarations) = "declareExchange" /\ Tail(Declarations) = AfterExchange
  /\ Head(AfterExchange) = "declareQueue" /\ Tail(AfterExchange) = AfterQueue
  /\ Head(AfterQueue) = "bindQueue" /\ Tail(AfterQueue) = AfterBind
  /\ Head(AfterBind) = "consume" /\ Tail(AfterBind) = <<>>
  /\ Declarations # <<>> /\ AfterExchange # <<>> /\ AfterQueue # <<>> /\ AfterBind # <<>>
<1>1. Head(Declarations) = "declareExchange" /\ Declarations # <<>>
  BY DEF Declarations
<1>2. Tail(Declarations) = AfterExchange
  BY DEF Declarations, AfterExchange
<1>3. Head(AfterExchange) = "declareQueue" /\ AfterExchange # <<>>
  BY DEF AfterExchange
<1>4. Tail(AfterExchange) = AfterQueue
  BY DEF AfterExchange, AfterQueue
<1>5. Head(AfterQueue) = "bindQueue" /\ AfterQueue # <<>>
  BY DEF AfterQueue
<1>6. Tail(AfterQueue) = AfterBind
  BY DEF AfterQueue, AfterBind
<1>7. Head(AfterBind) = "consume" /\ AfterBind # <<>> /\ Tail(AfterBind) = <<>>
  BY DEF AfterBind
<1> QED BY <1>1, <1>2, <1>3, <1>4, <1>5, <1>6, <1>7
-----------------------------------------------------------------------------
Stages == {Declarations, AfterExchange, AfterQueue, AfterBind, <<>>}

\* Nothing has been declared on a connection that is being opened, and nothing
\* has been sent on it.
OpeningIsFresh ==
  link = "opening" =>
    /\ todo = Declarations /\ ~refused /\ ~declares
    /\ ~send_channel_succ /\ ~recv_channel_succ
    /\ \A r \in Req : sent_on[r] # conn

\* channel_consume_ has all it asked for.
AllDeclared == todo = <<>> /\ ~refused

\* What the broker has of a connection that is up.
StageAtBroker ==
  link = "up" =>
    /\ todo \in Stages
    /\ recv_channel_succ => exchange
    /\ todo \in {AfterQueue, AfterBind} \/ AllDeclared => owner = conn
    /\ todo = AfterBind \/ AllDeclared => bound
    /\ AllDeclared => consumed

\* channel_send_ is made when all is declared.
SendIsLast ==
  link = "up" /\ (send_channel_succ \/ declares) => AllDeclared

\* A channel that is closed has nothing left.
RefusedIsDone == link = "up" /\ refused => todo = <<>>

\* A client that was usable is, as long as the connection stays.
UsableStays ==
  \A r \in Req : was_usable[r] /\ sent_on[r] = conn /\ link = "up" => Usable

SentBefore == \A r \in Req : sent_on[r] <= conn

IInv == /\ TypeOK
        /\ OpeningIsFresh /\ StageAtBroker /\ SendIsLast /\ RefusedIsDone
        /\ UsableStays /\ SentBefore
        /\ UsableLosesNoAnswer /\ ExchangeIsThere

-----------------------------------------------------------------------------
LEMMA TodoType == /\ <<>> \in Todo /\ Declarations \in Todo
                  /\ \A t \in Todo : t # <<>> => Tail(t) \in Todo
<1>1. <<>> \in Todo
  BY DEF Todo
<1>2. Declarations \in Todo
  BY DEF Todo, Declarations
<1>3. ASSUME NEW t \in Todo, t # <<>> PROVE Tail(t) \in Todo
  BY <1>3 DEF Todo
<1> QED BY <1>1, <1>2, <1>3

LEMMA InitTypeOK == Init => TypeOK
<1> SUFFICES ASSUME Init PROVE TypeOK
  OBVIOUS
<1>1. conn \in 0..MaxConn /\ owner \in 0..MaxConn /\ faults \in 0..MaxFaults
  BY MqAssumption DEF Init, NoConn
<1>2. sent_on \in [Req -> 0..MaxConn]
  BY MqAssumption DEF Init, NoConn
<1>3. todo \in Todo
  BY TodoType DEF Init
<1> QED BY <1>1, <1>2, <1>3 DEF Init, TypeOK

LEMMA DownType == TypeOK /\ Down /\ faults' \in 0..MaxFaults => TypeOK'
BY TodoType DEF TypeOK, Down, broker, history, ClientState

LEMMA FaultType == TypeOK /\ Fault => faults' \in 0..MaxFaults
BY MqAssumption DEF TypeOK, Fault

LEMMA AnswersType ==
  ASSUME TypeOK, NEW what, Answers(what),
         exchange' \in BOOLEAN, recv_channel_succ' \in BOOLEAN, refused' \in BOOLEAN,
         declares' \in BOOLEAN, owner' \in 0..MaxConn, bound' \in BOOLEAN,
         consumed' \in BOOLEAN
  PROVE  TypeOK'
BY TodoType DEF TypeOK, Answers, history

LEMMA QueueGoneType ==
  TypeOK /\ QueueGone =>
    /\ owner' \in 0..MaxConn /\ bound' \in BOOLEAN /\ consumed' \in BOOLEAN
    /\ req' \in [Req -> {"new", "dropped", "sent", "queued", "received", "lost",
                          "no_exchange"}]
<1> SUFFICES ASSUME TypeOK, QueueGone
             PROVE  /\ owner' = 0 /\ bound' = FALSE /\ consumed' = FALSE
                    /\ req' \in [Req -> {"new", "dropped", "sent", "queued", "received",
                                        "lost", "no_exchange"}]
  BY MqAssumption
<1>1. owner' = 0 /\ bound' = FALSE /\ consumed' = FALSE
  BY DEF QueueGone, NoConn
<1>2. req' \in [Req -> {"new", "dropped", "sent", "queued", "received", "lost",
                       "no_exchange"}]
  BY DEF TypeOK, QueueGone
<1> QED BY <1>1, <1>2

LEMMA TypeStep == TypeOK /\ [Next]_vars => TypeOK'
<1> SUFFICES ASSUME TypeOK, [Next]_vars PROVE TypeOK'
  OBVIOUS
<1>1. CASE Reconnect
  <2>1. conn' \in 0..MaxConn
    BY <1>1, MqAssumption DEF Reconnect, TypeOK
  <2> QED BY <1>1, <2>1, TodoType DEF Reconnect, TypeOK, broker, history, ClientState
<1>2. CASE OnConnected
  BY <1>2 DEF OnConnected, TypeOK, history, ClientState
<1>3. CASE Refused
  BY <1>3, DownType, FaultType DEF Refused
<1>4. CASE Closed
  BY <1>4, DownType, FaultType DEF Closed
<1>5. CASE LinkDies
  BY <1>5, FaultType DEF LinkDies, TypeOK, client, broker, history
<1>6. CASE LinkError
  BY <1>6, DownType DEF LinkError, TypeOK
<1>7. CASE Heartbeat
  BY <1>7, DownType DEF Heartbeat, TypeOK
<1>8. CASE ExchangeOk
  BY <1>8, AnswersType DEF ExchangeOk, TypeOK
<1>9. CASE QueueOk
  BY <1>9, AnswersType DEF QueueOk, TypeOK
<1>10. CASE BindOk
  BY <1>10, AnswersType DEF BindOk, TypeOK
<1>11. CASE ConsumeOk
  BY <1>11, AnswersType DEF ConsumeOk, TypeOK
<1>12. CASE QueueLocked
  BY <1>12, TodoType DEF QueueLocked, TypeOK, client, broker, history
<1>13. CASE SendExchangeOk
  BY <1>13 DEF SendExchangeOk, TypeOK, broker, history
<1>14. CASE Restart
  BY <1>14, FaultType, TodoType DEF Restart, TypeOK, broker, history
<1>15. CASE BrokerRestarts
  BY <1>15, FaultType, QueueGoneType DEF BrokerRestarts, TypeOK, client, history
<1>16. ASSUME NEW c \in Conn, BrokerDrops(c) PROVE TypeOK'
  BY <1>16, QueueGoneType DEF BrokerDrops, TypeOK, client, library, history
<1>17. ASSUME NEW r \in Req, SendMsg(r) PROVE TypeOK'
  BY <1>17 DEF SendMsg, MaySend, Usable, TypeOK, client, library, broker, history
<1>18. ASSUME NEW r \in Req, AnswerRouted(r) PROVE TypeOK'
  BY <1>18 DEF AnswerRouted, TypeOK, client, library, broker, history
<1>19. ASSUME NEW r \in Req, OnMessage(r) PROVE TypeOK'
  BY <1>19 DEF OnMessage, TypeOK, client, library, broker, history
<1>20. CASE UNCHANGED vars
  BY <1>20 DEF TypeOK, vars, client, library, broker, history
<1> QED BY <1>1, <1>2, <1>3, <1>4, <1>5, <1>6, <1>7, <1>8, <1>9, <1>10, <1>11, <1>12,
           <1>13, <1>14, <1>15, <1>16, <1>17, <1>18, <1>19, <1>20 DEF Next, Setup

-----------------------------------------------------------------------------
\* All that IInv says but for the types.
Core == /\ OpeningIsFresh /\ StageAtBroker /\ SendIsLast /\ RefusedIsDone
        /\ UsableStays /\ SentBefore
        /\ UsableLosesNoAnswer /\ ExchangeIsThere

LEMMA ReceivingStep == IInv => UsableMeansReceiving
BY DEF IInv, SendIsLast, StageAtBroker, UsableMeansReceiving, Usable

LEMMA InitCore == Init => Core
BY DEF Init, Core, OpeningIsFresh, StageAtBroker, SendIsLast, RefusedIsDone, UsableStays, SentBefore,
       UsableLosesNoAnswer, ExchangeIsThere, NoConn

\* A connection that is not opening or up: nothing is said of it.
LEMMA LinkGone ==
  ASSUME IInv, link' \notin {"opening", "up"}, conn' = conn, UNCHANGED history,
         \A r \in Req : req'[r] # "no_exchange"
  PROVE  Core'
BY DEF IInv, Core, OpeningIsFresh, StageAtBroker, SendIsLast, RefusedIsDone, UsableStays, SentBefore,
       UsableLosesNoAnswer, ExchangeIsThere, history

LEMMA ReconnectStep == IInv /\ Reconnect => Core'
<1> SUFFICES ASSUME IInv, Reconnect PROVE Core'
  OBVIOUS
<1>1. conn \in Nat /\ conn' = conn + 1 /\ link' = "opening" /\ UNCHANGED <<req, history>>
  BY MqAssumption DEF IInv, TypeOK, Reconnect
<1>2. \A r \in Req : sent_on[r] \in Nat /\ sent_on'[r] <= conn' /\ sent_on'[r] # conn'
  BY <1>1, MqAssumption DEF IInv, TypeOK, SentBefore, history
<1>3. OpeningIsFresh'
  BY <1>2 DEF OpeningIsFresh, Reconnect
<1> QED BY <1>1, <1>2, <1>3 DEF Core, StageAtBroker, SendIsLast, RefusedIsDone, UsableStays, SentBefore,
           IInv, UsableLosesNoAnswer, ExchangeIsThere

LEMMA OnConnectedStep == IInv /\ OnConnected => Core'
BY Suffixes DEF IInv, Core, OnConnected, OpeningIsFresh, StageAtBroker, SendIsLast, RefusedIsDone,
   UsableStays, SentBefore, UsableLosesNoAnswer, ExchangeIsThere, AllDeclared, Stages, history

\* A declaration is answered: what the broker has fits what is left.
LEMMA DeclaredStep ==
  ASSUME IInv, NEW what, Answers(what), StageAtBroker', SendIsLast', RefusedIsDone',
         recv_channel_succ => recv_channel_succ'
  PROVE  Core'
<1>1. link = "up" /\ UNCHANGED <<link, conn, req, history, send_channel_succ>>
  BY DEF Answers
<1> QED BY <1>1 DEF IInv, Core, OpeningIsFresh, UsableStays, Usable, SentBefore,
           UsableLosesNoAnswer, ExchangeIsThere, history

LEMMA ExchangeOkStep == IInv /\ ExchangeOk => Core'
<1> SUFFICES ASSUME IInv, ExchangeOk PROVE Core'
  OBVIOUS
<1>1. todo = Declarations /\ todo' = AfterExchange /\ link = "up"
  BY Suffixes DEF IInv, StageAtBroker, Stages, ExchangeOk, Answers
<1>2. ~send_channel_succ /\ ~declares
  BY <1>1, Suffixes DEF IInv, SendIsLast, AllDeclared
<1>3. StageAtBroker' /\ SendIsLast' /\ RefusedIsDone'
  BY <1>1, <1>2, Suffixes
     DEF IInv, ExchangeOk, Answers, StageAtBroker, SendIsLast, RefusedIsDone, AllDeclared,
         Stages
<1> QED BY <1>3, DeclaredStep DEF ExchangeOk

LEMMA QueueOkStep == IInv /\ QueueOk => Core'
<1> SUFFICES ASSUME IInv, QueueOk PROVE Core'
  OBVIOUS
<1>1. todo = AfterExchange /\ todo' = AfterQueue /\ link = "up"
  BY Suffixes DEF IInv, StageAtBroker, Stages, QueueOk, Answers
<1>2. ~send_channel_succ /\ ~declares
  BY <1>1, Suffixes DEF IInv, SendIsLast, AllDeclared
<1>3. StageAtBroker' /\ SendIsLast' /\ RefusedIsDone'
  BY <1>1, <1>2, Suffixes
     DEF IInv, QueueOk, Answers, StageAtBroker, SendIsLast, RefusedIsDone, AllDeclared,
         Stages
<1> QED BY <1>3, DeclaredStep DEF QueueOk

LEMMA BindOkStep == IInv /\ BindOk => Core'
<1> SUFFICES ASSUME IInv, BindOk PROVE Core'
  OBVIOUS
<1>1. todo = AfterQueue /\ todo' = AfterBind /\ link = "up"
  BY Suffixes DEF IInv, StageAtBroker, Stages, BindOk, Answers
<1>2. ~send_channel_succ /\ ~declares
  BY <1>1, Suffixes DEF IInv, SendIsLast, AllDeclared
<1>3. StageAtBroker' /\ SendIsLast' /\ RefusedIsDone'
  BY <1>1, <1>2, Suffixes
     DEF IInv, BindOk, Answers, StageAtBroker, SendIsLast, RefusedIsDone, AllDeclared,
         Stages
<1> QED BY <1>3, DeclaredStep DEF BindOk

\* Only here channel_send_ declares, and all is declared indeed: the channel
\* was not closed, because it had something left.
LEMMA ConsumeOkStep == IInv /\ ConsumeOk => Core'
<1> SUFFICES ASSUME IInv, ConsumeOk PROVE Core'
  OBVIOUS
<1>1. todo = AfterBind /\ todo' = <<>> /\ link = "up"
  BY Suffixes DEF IInv, StageAtBroker, Stages, ConsumeOk, Answers
<1>2. ~refused
  BY <1>1, Suffixes DEF IInv, RefusedIsDone
<1>3. StageAtBroker' /\ SendIsLast' /\ RefusedIsDone'
  BY <1>1, <1>2, Suffixes
     DEF IInv, ConsumeOk, Answers, StageAtBroker, SendIsLast, RefusedIsDone, AllDeclared,
         Stages
<1> QED BY <1>3, DeclaredStep DEF ConsumeOk

LEMMA QueueLockedStep == IInv /\ QueueLocked => Core'
<1> SUFFICES ASSUME IInv, QueueLocked PROVE Core'
  OBVIOUS
<1>1. todo = AfterExchange /\ todo' = <<>> /\ refused' /\ link = "up"
  BY Suffixes DEF IInv, StageAtBroker, Stages, QueueLocked
<1>2. ~send_channel_succ /\ ~declares
  BY <1>1, Suffixes DEF IInv, SendIsLast, AllDeclared
<1> QED BY <1>1, <1>2, Suffixes
   DEF IInv, QueueLocked, Core, OpeningIsFresh, StageAtBroker, SendIsLast, AllDeclared,
       UsableStays, Usable, SentBefore, UsableLosesNoAnswer, ExchangeIsThere, RefusedIsDone,
       Stages, client, broker, history

LEMMA SendExchangeOkStep == IInv /\ SendExchangeOk => Core'
BY DEF IInv, SendExchangeOk, Core, OpeningIsFresh, StageAtBroker, SendIsLast, AllDeclared,
       UsableStays, Usable, SentBefore, UsableLosesNoAnswer, ExchangeIsThere, RefusedIsDone,
       broker, history

\* A connection that goes was not the owner's, as long as the newest is up.
LEMMA BrokerDropsStep ==
  ASSUME IInv, NEW c \in Conn, BrokerDrops(c)
  PROVE  Core'
<1>1. UNCHANGED <<client, library, exchange, history>>
  BY DEF BrokerDrops
<1>2. CASE link \notin {"opening", "up"}
  <2>1. \A r \in Req : req'[r] # "no_exchange"
    BY DEF IInv, TypeOK, ExchangeIsThere, BrokerDrops, QueueGone
  <2> QED BY <1>1, <1>2, <2>1, LinkGone DEF library
<1>3. CASE link = "opening"
  <2>1. \A r \in Req : req'[r] # "no_exchange"
    BY DEF IInv, TypeOK, ExchangeIsThere, BrokerDrops, QueueGone
  <2> QED BY <1>1, <1>3, <2>1
      DEF IInv, Core, OpeningIsFresh, StageAtBroker, SendIsLast, RefusedIsDone, UsableStays,
          SentBefore, UsableLosesNoAnswer, ExchangeIsThere, client, library, history
<1>4. CASE link = "up" /\ owner # c
  BY <1>1, <1>4
  DEF IInv, BrokerDrops, Core, OpeningIsFresh, StageAtBroker, SendIsLast, RefusedIsDone,
      AllDeclared, UsableStays, Usable, SentBefore, UsableLosesNoAnswer, ExchangeIsThere,
      client, library, history
<1>5. CASE link = "up" /\ owner = c
  <2>1. c # conn /\ QueueGone
    BY <1>5 DEF BrokerDrops
  <2>2. ~Usable /\ todo \notin {AfterQueue, AfterBind} /\ ~AllDeclared
    BY <1>5, <2>1 DEF IInv, StageAtBroker, SendIsLast, Usable
  <2>3. StageAtBroker'
    BY <1>1, <1>5, <2>2 DEF IInv, StageAtBroker, AllDeclared, client, library
  <2>4. UsableLosesNoAnswer'
    BY <1>1, <1>5, <2>2 DEF IInv, UsableStays, UsableLosesNoAnswer, library, history
  <2>5. ExchangeIsThere'
    BY <2>1 DEF IInv, TypeOK, ExchangeIsThere, QueueGone
  <2> QED BY <1>1, <1>5, <2>3, <2>4, <2>5
      DEF IInv, Core, OpeningIsFresh, SendIsLast, RefusedIsDone, AllDeclared, UsableStays,
          Usable, SentBefore, client, library, history
<1> QED BY <1>2, <1>3, <1>4, <1>5

LEMMA BrokerRestartsStep == IInv /\ BrokerRestarts => Core'
<1> SUFFICES ASSUME IInv, BrokerRestarts PROVE Core'
  OBVIOUS
<1>1. \A r \in Req : req'[r] # "no_exchange"
  BY DEF IInv, TypeOK, ExchangeIsThere, BrokerRestarts, QueueGone
<1>2. CASE link = "opening"
  BY <1>1, <1>2
  DEF IInv, BrokerRestarts, Core, OpeningIsFresh, StageAtBroker, SendIsLast, RefusedIsDone,
      UsableStays, SentBefore, UsableLosesNoAnswer, ExchangeIsThere, client, history
<1>3. CASE link # "opening"
  BY <1>1, <1>3, LinkGone DEF BrokerRestarts
<1> QED BY <1>2, <1>3

\* What is sent while a connection is opened is dropped, and what is sent on one
\* that is up finds the exchange.
LEMMA SendMsgStep ==
  ASSUME IInv, NEW r \in Req, SendMsg(r)
  PROVE  Core'
<1>1. UNCHANGED <<client, library, broker>> /\ req[r] = "new"
  BY DEF SendMsg
<1>2. CASE MaySend
  <2>1. link # "opening"
    BY <1>2 DEF IInv, OpeningIsFresh, MaySend
  <2>2. link = "up" => exchange
    BY <1>2 DEF IInv, StageAtBroker, MaySend
  <2>3. req' = [req EXCEPT ![r] = IF link # "up" THEN "lost" ELSE "sent"]
    BY <1>2, <2>2 DEF SendMsg
  <2>4. /\ sent_on' = [sent_on EXCEPT ![r] = conn]
        /\ was_usable' = [was_usable EXCEPT ![r] = Usable]
    BY <1>2 DEF SendMsg
  <2>5. UsableLosesNoAnswer' /\ ExchangeIsThere'
    BY <1>1, <2>3, <2>4 DEF IInv, TypeOK, UsableLosesNoAnswer, ExchangeIsThere, library
  <2>6. UsableStays' /\ SentBefore'
    <3>1. conn' = conn /\ link' = link /\ Usable' = Usable /\ conn <= conn
      BY <1>1, MqAssumption DEF IInv, TypeOK, Usable, client, library
    <3>2. /\ sent_on'[r] = conn /\ was_usable'[r] = Usable
          /\ \A q \in Req \ {r} : sent_on'[q] = sent_on[q] /\ was_usable'[q] = was_usable[q]
      BY <2>4 DEF IInv, TypeOK
    <3> QED BY <3>1, <3>2 DEF IInv, UsableStays, SentBefore
  <2> QED BY <1>1, <2>1, <2>5, <2>6
      DEF IInv, Core, OpeningIsFresh, StageAtBroker, SendIsLast, RefusedIsDone, AllDeclared,
          client, library, broker
<1>3. CASE ~MaySend
  <2>1. req' = [req EXCEPT ![r] = "dropped"] /\ UNCHANGED history
    BY <1>3 DEF SendMsg
  <2> QED BY <1>1, <2>1
      DEF IInv, TypeOK, Core, OpeningIsFresh, StageAtBroker, SendIsLast, RefusedIsDone,
          AllDeclared, UsableStays, Usable, SentBefore, UsableLosesNoAnswer, ExchangeIsThere,
          client, library, broker, history
<1> QED BY <1>2, <1>3

LEMMA AnswerRoutedStep ==
  ASSUME IInv, NEW r \in Req, AnswerRouted(r)
  PROVE  Core'
<1>1. UNCHANGED <<client, library, broker, history>>
  BY DEF AnswerRouted
<1>2. req' = [req EXCEPT ![r] = IF bound THEN "queued" ELSE "lost"]
  BY DEF AnswerRouted
<1>3. was_usable[r] /\ sent_on[r] = conn /\ link = "up" => bound
  BY ReceivingStep DEF IInv, UsableStays, UsableMeansReceiving
<1>4. UsableLosesNoAnswer' /\ ExchangeIsThere'
  BY <1>1, <1>2, <1>3
  DEF IInv, TypeOK, UsableLosesNoAnswer, ExchangeIsThere, library, history
<1> QED BY <1>1, <1>4
    DEF IInv, Core, OpeningIsFresh, StageAtBroker, SendIsLast, RefusedIsDone, AllDeclared,
        UsableStays, Usable, SentBefore, client, library, broker, history

LEMMA OnMessageStep ==
  ASSUME IInv, NEW r \in Req, OnMessage(r)
  PROVE  Core'
<1>1. UNCHANGED <<client, library, broker, history>>
  BY DEF OnMessage
<1>2. req' = [req EXCEPT ![r] = "received"]
  BY DEF OnMessage
<1> QED BY <1>1, <1>2
    DEF IInv, TypeOK, Core, OpeningIsFresh, StageAtBroker, SendIsLast, RefusedIsDone,
        AllDeclared, UsableStays, Usable, SentBefore, UsableLosesNoAnswer, ExchangeIsThere,
        client, library, broker, history

LEMMA CoreStep == IInv /\ [Next]_vars => Core'
<1> SUFFICES ASSUME IInv, [Next]_vars PROVE Core'
  OBVIOUS
<1>0. \A r \in Req : req[r] # "no_exchange"
  BY DEF IInv, ExchangeIsThere
<1>1. ASSUME Down PROVE Core'
  BY <1>0, <1>1, LinkGone DEF Down
<1>2. CASE LinkDies
  BY <1>0, <1>2, LinkGone DEF LinkDies
<1>3. CASE Restart
  BY <1>0, <1>3, LinkGone DEF Restart
<1>4. CASE UNCHANGED vars
  BY <1>4 DEF IInv, Core, OpeningIsFresh, StageAtBroker, SendIsLast, RefusedIsDone,
     AllDeclared, UsableStays, Usable, SentBefore, UsableLosesNoAnswer, ExchangeIsThere,
     vars, client, library, broker, history
<1> QED BY <1>1, <1>2, <1>3, <1>4, ReconnectStep, OnConnectedStep, ExchangeOkStep,
           QueueOkStep, BindOkStep, ConsumeOkStep, QueueLockedStep, SendExchangeOkStep,
           BrokerDropsStep, BrokerRestartsStep, SendMsgStep, AnswerRoutedStep, OnMessageStep
    DEF Next, Setup, Refused, Closed, LinkError, Heartbeat

-----------------------------------------------------------------------------
\* The invariant is inductive: each stage of the set-up leads to the next.
THEOREM Invariance == Spec => []IInv
<1>1. Init => IInv
  BY InitTypeOK, InitCore DEF IInv, Core
<1>2. IInv /\ [Next]_vars => IInv'
  BY TypeStep, CoreStep DEF IInv, Core
<1> QED BY <1>1, <1>2, PTL DEF Spec

\* Every value of every variable is of its type.
THEOREM TypeCorrect == Spec => []TypeOK
<1>1. IInv => TypeOK
  BY DEF IInv
<1> QED BY <1>1, Invariance, PTL

\* Whoever waits for send_channel_success_ or asks IsUsable may rely on it:
\* answers reach the client as long as its connection is up.
THEOREM UsableMeansReceivingHolds == Spec => []UsableMeansReceiving
BY Invariance, ReceivingStep, PTL

\* What a usable client asks is answered, unless its connection goes.
THEOREM UsableLosesNoAnswerHolds == Spec => []UsableLosesNoAnswer
<1>1. IInv => UsableLosesNoAnswer
  BY DEF IInv
<1> QED BY <1>1, Invariance, PTL

\* SendMsg never publishes to an exchange that is not there.
THEOREM ExchangeIsThereHolds == Spec => []ExchangeIsThere
<1>1. IInv => ExchangeIsThere
  BY DEF IInv
<1> QED BY <1>1, Invariance, PTL
=============================================================================
