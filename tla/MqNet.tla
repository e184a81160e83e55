------------------------------- MODULE MqNet -------------------------------
(***************************************************************************)
(* The connection of one server to RabbitMQ: RabbitMQNet                    *)
(* (app/common/mq_net.{h,cpp}), ClientBase and AppBase's two timers.        *)
(*                                                                         *)
(* AMQP-CPP and the broker are external.  A connection is a number; its     *)
(* channel for consuming has one declaration under way at a time.  The      *)
(* queue bears the name of the server and is exclusive: it belongs to the   *)
(* connection that declared it until the broker gives that connection up,   *)
(* which may be long after the client did.                                  *)
(***************************************************************************)
EXTENDS Integers, Sequences

CONSTANTS Req,       \* requests of the server's own transactions
          MaxConn,   \* bound: connections
          MaxFaults  \* bound: broken, refused and closed connections, restarts

ASSUME MqAssumption == MaxConn \in Nat /\ MaxFaults \in Nat

\* kUnset: the uninitialised state_ holds none of the enumerators.
ClientState == {"kConnecting", "kConnected", "kDisConnecting", "kDisConnected",
                "kExpired", "kUnset"}
Conn   == 1..MaxConn
NoConn == 0

\* Mutants of Declarations: one of them is forgotten.
Declarations_NoBind    == <<"declareExchange", "declareQueue", "consume">>
Declarations_NoConsume == <<"declareExchange", "declareQueue", "bindQueue">>

\* What channel_consume_ is asked for, in this order.
Declarations == <<"declareExchange", "declareQueue", "bindQueue", "consume">>

VARIABLES state,              \* ClientBase::state_
          made,               \* connection_ is not null
          send_channel_succ, recv_channel_succ,
          conn,     \* AMQP-CPP: the newest connection
          link,     \* AMQP-CPP: what has become of it
          todo,     \* AMQP-CPP: declarations channel_consume_ has left
          refused,  \* AMQP-CPP: the broker closed channel_consume_
          declares, \* AMQP-CPP: channel_send_ declares the exchange
          exchange, \* broker: the exchange exists
          open,     \* broker: connections it has not given up
          owner,    \* broker: whose the queue is, or NoConn
          bound,    \* broker: the queue is bound to the server's key
          consumed, \* broker: the queue has its consumer
          faults,
          req,      \* what became of a request and its answer
          sent_on,  \* history: the connection a request was published on
          was_usable \* history: what IsUsable said then

client  == <<state, made, send_channel_succ, recv_channel_succ>>
library == <<conn, link, todo, refused, declares>>
broker  == <<exchange, open, owner, bound, consumed>>
history == <<sent_on, was_usable>>
vars    == <<client, library, broker, faults, req, history>>

-----------------------------------------------------------------------------
Init == /\ state \in ClientState
        /\ made = FALSE
        /\ send_channel_succ = FALSE /\ recv_channel_succ = FALSE
        /\ conn = NoConn /\ link = "none" /\ todo = <<>>
        /\ refused = FALSE /\ declares = FALSE
        /\ exchange \in BOOLEAN   \* another server may have declared it
        /\ open = {} /\ owner = NoConn /\ bound = FALSE /\ consumed = FALSE
        /\ faults = 0
        /\ req = [r \in Req |-> "new"]
        /\ sent_on = [r \in Req |-> NoConn]
        /\ was_usable = [r \in Req |-> FALSE]

Fault == faults < MaxFaults /\ faults' = faults + 1

\* ClientBase::NotNeedReconnect
NotNeedReconnect == state \in {"kConnected", "kConnecting", "kDisConnecting"}

\* Mutant of Reconnect: what the last connection achieved is not forgotten.
Reconnect_KeepsFlags ==
  /\ ~NotNeedReconnect
  /\ conn < MaxConn
  /\ state' = "kConnecting" /\ made' = TRUE
  /\ conn' = conn + 1 /\ link' = "opening" /\ todo' = Declarations
  /\ refused' = FALSE /\ declares' = FALSE
  /\ UNCHANGED <<send_channel_succ, recv_channel_succ, broker, faults, req, history>>

\* Reconnect, when Init calls it and every 2 s.
Reconnect ==
  /\ ~NotNeedReconnect
  /\ conn < MaxConn
  /\ state' = "kConnecting" /\ made' = TRUE
  /\ send_channel_succ' = FALSE /\ recv_channel_succ' = FALSE
  /\ conn' = conn + 1 /\ link' = "opening" /\ todo' = Declarations
  /\ refused' = FALSE /\ declares' = FALSE
  /\ UNCHANGED <<broker, faults, req, history>>

\* MyHandler::onConnected
OnConnected ==
  /\ link = "opening"
  /\ link' = "up"
  /\ state' = "kConnected"
  /\ open' = open \cup {conn}
  /\ UNCHANGED <<made, send_channel_succ, recv_channel_succ, conn, todo, refused,
                 declares, exchange, owner, bound, consumed, faults, req, history>>

\* MyHandler::onError, MyHandler::onClosed
Down == /\ link' = "down"
        /\ state' = "kDisConnected"
        /\ todo' = <<>> /\ declares' = FALSE
        /\ UNCHANGED <<made, send_channel_succ, recv_channel_succ, conn, refused,
                       broker, req, history>>

Refused == link = "opening" /\ Fault /\ Down
Closed  == link = "up" /\ Fault /\ Down

\* The network or the broker is gone, and nothing tells the client.
LinkDies == /\ link = "up"
            /\ Fault
            /\ link' = "dead"
            /\ UNCHANGED <<client, conn, todo, refused, declares, broker, req, history>>

\* The system gives the connection up by itself.
LinkError == link = "dead" /\ Down /\ UNCHANGED faults

\* Mutant of Heartbeat: it waits for a connection that is fully set up.
Heartbeat_OfUsable == /\ send_channel_succ /\ recv_channel_succ
                      /\ link = "dead" /\ Down /\ UNCHANGED faults

\* Heartbeat, every 30 s: what it writes to a dead connection fails.
Heartbeat == made /\ link = "dead" /\ Down /\ UNCHANGED faults

-----------------------------------------------------------------------------
\* The broker answers the declaration under way; the next one is sent then.
Answers(what) == /\ link = "up"
                 /\ todo # <<>>
                 /\ Head(todo) = what
                 /\ todo' = Tail(todo)
                 /\ UNCHANGED <<state, made, send_channel_succ, conn, link, open,
                                faults, req, history>>

ExchangeOk == /\ Answers("declareExchange")
              /\ exchange' = TRUE
              /\ recv_channel_succ' = TRUE
              /\ UNCHANGED <<refused, declares, owner, bound, consumed>>

QueueOk == /\ Answers("declareQueue")
           /\ owner \in {NoConn, conn}
           /\ owner' = conn
           /\ UNCHANGED <<recv_channel_succ, exchange, refused, declares, bound, consumed>>

BindOk == /\ Answers("bindQueue")
          /\ bound' = TRUE
          /\ UNCHANGED <<recv_channel_succ, exchange, refused, declares, owner, consumed>>

\* consumeQ.onSuccess
ConsumeOk == /\ Answers("consume")
             /\ consumed' = TRUE
             /\ declares' = TRUE
             /\ UNCHANGED <<recv_channel_succ, exchange, refused, owner, bound>>

\* The queue is another connection's: the broker closes the channel, which
\* fails what it had left, and nobody has asked to be told.
QueueLocked == /\ link = "up"
               /\ todo # <<>> /\ Head(todo) = "declareQueue"
               /\ owner \notin {NoConn, conn}
               /\ todo' = <<>>
               /\ refused' = TRUE
               /\ UNCHANGED <<client, conn, link, declares, broker, faults, req, history>>

\* send_channel.onSuccess, which calls send_channel_success_
SendExchangeOk == /\ link = "up"
                  /\ declares
                  /\ declares' = FALSE
                  /\ send_channel_succ' = TRUE
                  /\ UNCHANGED <<state, made, recv_channel_succ, conn, link, todo, refused,
                                 broker, faults, req, history>>

Setup == ExchangeOk \/ QueueOk \/ BindOk \/ ConsumeOk \/ QueueLocked \/ SendExchangeOk

\* The queue is deleted with its connection, and what is in it is lost.
QueueGone == /\ owner' = NoConn /\ bound' = FALSE /\ consumed' = FALSE
             /\ req' = [r \in Req |-> IF req[r] = "queued" THEN "lost" ELSE req[r]]

\* The broker gives up a connection the client has lost.
BrokerDrops(c) ==
  /\ c \in open
  /\ c # conn \/ link \notin {"opening", "up"}
  /\ open' = open \ {c}
  /\ IF owner = c THEN QueueGone ELSE UNCHANGED <<owner, bound, consumed, req>>
  /\ UNCHANGED <<client, library, exchange, faults, history>>

\* The broker is restarted: connections and queues are gone, and so is the
\* exchange, which is not durable.
BrokerRestarts ==
  /\ Fault
  /\ exchange' = FALSE /\ open' = {}
  /\ QueueGone
  /\ link' = IF link = "up" THEN "dead" ELSE link
  /\ UNCHANGED <<client, conn, todo, refused, declares, history>>

-----------------------------------------------------------------------------
\* IsUsable
Usable == send_channel_succ /\ recv_channel_succ

\* Mutant of MaySend: only the state of the connection is asked.
MaySend_State == state = "kConnected"

\* What SendMsg asks of the client.
MaySend == state = "kConnected" /\ recv_channel_succ

\* SendMsg of a request; its answer will name this server's key.  The broker
\* closes the channel that publishes to an exchange there is not.  A client
\* that takes itself for connected before it ever was follows a null pointer
\* (see Restart).
SendMsg(r) ==
  /\ made \/ state # "kConnected"
  /\ req[r] = "new"
  /\ IF MaySend
     THEN /\ req' = [req EXCEPT ![r] = IF link # "up" THEN "lost"
                                      ELSE IF exchange THEN "sent" ELSE "no_exchange"]
          /\ sent_on' = [sent_on EXCEPT ![r] = conn]
          /\ was_usable' = [was_usable EXCEPT ![r] = Usable]
     ELSE /\ req' = [req EXCEPT ![r] = "dropped"]
          /\ UNCHANGED history
  /\ UNCHANGED <<client, library, broker, faults>>

\* Somebody answered: the exchange has a queue for the server's key, or not.
AnswerRouted(r) == /\ req[r] = "sent"
                   /\ req' = [req EXCEPT ![r] = IF bound THEN "queued" ELSE "lost"]
                   /\ UNCHANGED <<client, library, broker, faults, history>>

\* consumeQ.onMessage: the message is handled and acknowledged.
OnMessage(r) == /\ req[r] = "queued"
                /\ consumed /\ owner = conn /\ link = "up"
                /\ req' = [req EXCEPT ![r] = "received"]
                /\ UNCHANGED <<client, library, broker, faults, history>>

\* The process ends and is started again: by an operator, or because SendMsg
\* followed the null channel_send_ of a client whose state_ happened to say
\* connected from the start.
Restart == /\ Fault
           /\ state' \in ClientState
           /\ made' = FALSE
           /\ send_channel_succ' = FALSE /\ recv_channel_succ' = FALSE
           /\ link' = "none" /\ todo' = <<>> /\ refused' = FALSE /\ declares' = FALSE
           /\ UNCHANGED <<conn, broker, req, history>>

Next == \/ Reconnect \/ OnConnected \/ Refused \/ Closed \/ LinkDies \/ LinkError
        \/ Heartbeat \/ Setup \/ Restart \/ BrokerRestarts
        \/ \E c \in Conn : BrokerDrops(c)
        \/ \E r \in Req : SendMsg(r) \/ AnswerRouted(r) \/ OnMessage(r)

Spec == Init /\ [][Next]_vars

\* Both timers repeat for ever; an attempt to connect ends, and the broker
\* answers what it is asked.  It need never give up a connection.
FairSpec == /\ Spec
            /\ WF_vars(Reconnect) /\ WF_vars(Heartbeat)
            /\ WF_vars(OnConnected) /\ WF_vars(Setup)

-----------------------------------------------------------------------------
Todo == Seq({"declareExchange", "declareQueue", "bindQueue", "consume"})

TypeOK == /\ state \in ClientState
          /\ made \in BOOLEAN
          /\ send_channel_succ \in BOOLEAN /\ recv_channel_succ \in BOOLEAN
          /\ conn \in 0..MaxConn
          /\ link \in {"none", "opening", "up", "dead", "down"}
          /\ todo \in Todo
          /\ refused \in BOOLEAN /\ declares \in BOOLEAN
          /\ exchange \in BOOLEAN /\ open \subseteq 0..MaxConn /\ owner \in 0..MaxConn
          /\ bound \in BOOLEAN /\ consumed \in BOOLEAN
          /\ faults \in 0..MaxFaults
          /\ req \in [Req -> {"new", "dropped", "sent", "queued", "received", "lost",
                           "no_exchange"}]
          /\ sent_on \in [Req -> 0..MaxConn]
          /\ was_usable \in [Req -> BOOLEAN]

\* A client that IsUsable calls usable, and every caller of
\* send_channel_success_, has its answers routed to it: the queue is its own,
\* bound and consumed, as long as the connection is up (mq_net.cpp:88-97).
UsableMeansReceiving ==
  Usable /\ link = "up" => owner = conn /\ bound /\ consumed

\* What a usable client asks is answered: an answer is lost only with the
\* connection the request was sent on, or because the request was sent when
\* recv_channel_succ_ was set but the queue not bound (mq_net.cpp:33, 66-78).
UsableLosesNoAnswer ==
  \A r \in Req : req[r] = "lost" =>
    ~was_usable[r] \/ sent_on[r] # conn \/ link # "up"

\* Nothing is published to an exchange that does not exist, so that the channel
\* for sending stays open (mq_net.cpp:33, 66-69).
ExchangeIsThere == \A r \in Req : req[r] # "no_exchange"

\* The set-up of a connection ends with a usable client, or without a queue
\* because an older connection still has it: from then on the client sends
\* and never receives (mq_net.cpp:72).
SetupEnds == link = "up" ~> Usable \/ refused \/ link # "up"

\* A connection that is lost is replaced, be it found by the heartbeat only
\* (mq_net.cpp:55-63, 100-107), as long as there is another to be had.
LostLinkIsReplaced ==
  made /\ link # "up" ~> link = "up" \/ ~made \/ conn = MaxConn
=============================================================================
