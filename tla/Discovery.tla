------------------------------ MODULE Discovery ------------------------------
(***************************************************************************)
(* Service discovery: AppBase::Init, AppBase::Watcher and GetServers        *)
(* (app/common/app_base.h) with ZooCmd and the completions of               *)
(* ZooKeeperClient (app/common/zookeeper_client.cpp) in every server, and   *)
(* ZooKeeper, which is external.                                            *)
(*                                                                         *)
(* A server registers an ephemeral node and leaves a one-shot watch on its  *)
(* parent; when the watch fires, a coroutine reads the children into the    *)
(* server list and leaves the next watch.  A completion is passed the       *)
(* address of a CoYield, which is that of the coroutine's stack: it names   *)
(* the coroutine, whatever task runs there by then.                         *)
(***************************************************************************)
EXTENDS Integers, SequencesExt

CONSTANTS Server,
          MaxCo,        \* coroutines of AppBase::co_task a server gets to use
          MaxBoots,     \* bound: how often a server is started
          MaxFaults     \* bound: lost connections, and requests whose answer
                        \* takes over 5 s

ASSUME DiscoveryAssumption ==
  MaxCo \in Nat \ {0} /\ MaxBoots \in Nat /\ MaxFaults \in Nat

CoId == 1..MaxCo
NoSession == 0
Job == {"none", "reg_wlist", "reg_create", "get", "get_wlist"}
Op  == {"list", "wlist", "create"}

VARIABLES conn,     \* of a server: off, up, broken, or expired for ever
          session,  \* its session with ZooKeeper
          job,      \* what each of its coroutines waits for
          free,     \* CoPool::free_coroutine
          inc,      \* CoPool::inc_co_id
          svr_set,  \* SvrList::svr_set
          sent,     \* requests ZooKeeper has not processed
          inbox,    \* answers and events not delivered
          watch,    \* the version of the children the watch was left at, or 0
          wanted,   \* the ZooKeeper client knows it has a watch, and leaves it
                    \* again on a new connection
          owner,    \* ZooKeeper: the session that owns the server's node
          alive,    \* ZooKeeper: sessions
          version,  \* ZooKeeper: of the children of /online_servers
          boots, faults, time_outs,
          read,     \* history: the version svr_set was read at
          confused  \* history: an answer was taken for one to another request

client == <<session, job, free, inc, svr_set>>
zk     == <<owner, alive, version>>
bounds == <<boots, faults, time_outs>>
vars   == <<conn, client, sent, inbox, watch, wanted, zk, bounds, read, confused>>

Registered == {s \in Server : owner[s] # NoSession}
Watching(s) == watch[s] # 0

-----------------------------------------------------------------------------
Init == /\ conn = [s \in Server |-> "off"]
        /\ session = [s \in Server |-> NoSession]
        /\ job = [s \in Server |-> [c \in CoId |-> "none"]]
        /\ free = [s \in Server |-> <<>>]
        /\ inc = [s \in Server |-> 0]
        /\ svr_set = [s \in Server |-> {}]
        /\ sent = [s \in Server |-> <<>>]
        /\ inbox = [s \in Server |-> <<>>]
        /\ watch = [s \in Server |-> 0]
        /\ wanted = [s \in Server |-> FALSE]
        /\ owner = [s \in Server |-> NoSession]
        /\ alive = {}
        /\ version = 1
        /\ boots = 0 /\ faults = 0 /\ time_outs = 0
        /\ read = [s \in Server |-> 0]
        /\ confused = FALSE

\* A ZooCmd operation on a connected client: coroutine c asks for op and waits,
\* as j.
Ask(s, c, op, j) == /\ sent' = [sent EXCEPT ![s] = Append(@, [op |-> op, co |-> c])]
                    /\ job' = [job EXCEPT ![s][c] = j]

\* The task in c ends and the coroutine is free.
Ends(s, c) == /\ job' = [job EXCEPT ![s][c] = "none"]
              /\ free' = [free EXCEPT ![s] = Append(@, c)]

\* CoPool::NewCoroutine: the coroutine that has been free longest, or a new one.
Takes(s, c) == \/ /\ free[s] # <<>> /\ c = Head(free[s])
                  /\ free' = [free EXCEPT ![s] = Tail(@)]
                  /\ UNCHANGED inc
               \/ /\ free[s] = <<>> /\ c = inc[s] + 1
                  /\ inc' = [inc EXCEPT ![s] = c]
                  /\ UNCHANGED free

Answer(ok, op, c) == [kind |-> "answer", op |-> op, co |-> c, ok |-> ok,
                      children |-> Registered, version |-> version]
Event == [kind |-> "watch"]

\* The servers whose watch a change of the children fires; a client that is
\* not connected is told when it is again.
Fired == {s \in Server : conn[s] = "up" /\ Watching(s)}

Nobody == [s \in Server |-> <<>>]
To(s, answer) == [Nobody EXCEPT ![s] = <<answer>>]

\* The children changed: the events go out, and the answers after them.
Notify(answers) ==
  /\ version' = version + 1
  /\ inbox' = [s \in Server |-> inbox[s] \o (IF s \in Fired THEN <<Event>> ELSE <<>>)
                                         \o answers[s]]
  /\ watch' = [s \in Server |-> IF s \in Fired THEN 0 ELSE watch[s]]

-----------------------------------------------------------------------------
\* AppBase::Init starts the task that registers the server, which first leaves
\* a watch.  The session ZooKeeper had with an earlier process is still there.
Boot(s) ==
  /\ conn[s] = "off"
  /\ boots < MaxBoots
  /\ boots' = boots + 1
  /\ conn' = [conn EXCEPT ![s] = "up"]
  /\ session' = [session EXCEPT ![s] = boots']
  /\ alive' = alive \cup {boots'}
  /\ inc' = [inc EXCEPT ![s] = 1]
  /\ Ask(s, 1, "wlist", "reg_wlist")
  /\ UNCHANGED <<free, svr_set, inbox, watch, wanted, owner, version, faults,
                 time_outs, read, confused>>

\* The process is killed.
Stop(s) ==
  /\ conn[s] # "off"
  /\ conn' = [conn EXCEPT ![s] = "off"]
  /\ job' = [job EXCEPT ![s] = [c \in CoId |-> "none"]]
  /\ free' = [free EXCEPT ![s] = <<>>]
  /\ svr_set' = [svr_set EXCEPT ![s] = {}]
  /\ sent' = [sent EXCEPT ![s] = <<>>]
  /\ inbox' = [inbox EXCEPT ![s] = <<>>]
  /\ watch' = [watch EXCEPT ![s] = 0]
  /\ wanted' = [wanted EXCEPT ![s] = FALSE]
  /\ read' = [read EXCEPT ![s] = 0]
  /\ UNCHANGED <<session, inc, zk, bounds, confused>>

\* ZooKeeper processes the next request of s.
Process(s) ==
  /\ conn[s] = "up" /\ sent[s] # <<>>
  /\ sent' = [sent EXCEPT ![s] = Tail(@)]
  /\ LET q == Head(sent[s])
     IN  \/ /\ q.op \in {"list", "wlist"}
            /\ inbox' = [inbox EXCEPT ![s] = Append(@, Answer(TRUE, q.op, q.co))]
            /\ watch' = [watch EXCEPT ![s] = IF q.op = "wlist" THEN version ELSE @]
            /\ UNCHANGED <<owner, version>>
         \/ /\ q.op = "create" /\ s \notin Registered
            /\ owner' = [owner EXCEPT ![s] = session[s]]
            /\ Notify(To(s, Answer(TRUE, q.op, q.co)))
         \/ /\ q.op = "create" /\ s \in Registered
            /\ inbox' = [inbox EXCEPT ![s] = Append(@, Answer(FALSE, q.op, q.co))]
            /\ UNCHANGED <<owner, version, watch>>
  /\ UNCHANGED <<conn, client, wanted, alive, bounds, read, confused>>

\* Mutants: the watch is not left again; the list is not cleared.
Continue_NoWatch(s, c, a) ==
  \/ /\ job[s][c] = "reg_wlist"
     /\ Ask(s, c, "create", "reg_create")
     /\ UNCHANGED <<free, svr_set, read>>
  \/ /\ job[s][c] = "get"
     /\ svr_set' = [svr_set EXCEPT ![s] = a.children]
     /\ read' = [read EXCEPT ![s] = a.version]
     /\ Ends(s, c)
     /\ UNCHANGED sent
  \/ /\ job[s][c] = "reg_create"
     /\ Ends(s, c)
     /\ UNCHANGED <<sent, svr_set, read>>
Continue_NoClear(s, c, a) ==
  \/ /\ job[s][c] = "reg_wlist"
     /\ Ask(s, c, "create", "reg_create")
     /\ UNCHANGED <<free, svr_set, read>>
  \/ /\ job[s][c] = "get"
     /\ svr_set' = [svr_set EXCEPT ![s] = @ \cup a.children]
     /\ read' = [read EXCEPT ![s] = a.version]
     /\ Ask(s, c, "wlist", "get_wlist")
     /\ UNCHANGED free
  \/ /\ job[s][c] \in {"reg_create", "get_wlist"}
     /\ Ends(s, c)
     /\ UNCHANGED <<sent, svr_set, read>>
\* Mutant: ZooCmd::Create does not wait for its answer.
Continue_CreateNoWait(s, c, a) ==
  \/ /\ job[s][c] = "reg_wlist"
     /\ sent' = [sent EXCEPT ![s] = Append(@, [op |-> "create", co |-> c])]
     /\ Ends(s, c)
     /\ UNCHANGED <<svr_set, read>>
  \/ /\ job[s][c] = "get"
     /\ svr_set' = [svr_set EXCEPT ![s] = a.children]
     /\ read' = [read EXCEPT ![s] = a.version]
     /\ Ask(s, c, "wlist", "get_wlist")
     /\ UNCHANGED free
  \/ /\ job[s][c] = "get_wlist"
     /\ Ends(s, c)
     /\ UNCHANGED <<sent, svr_set, read>>
\* The task in c goes on with what it asked for: a, or nothing if the wait
\* timed out or the request failed.
Continue(s, c, a) ==
  LET up == conn[s] = "up"
      goes_on(op, j) == IF up THEN Ask(s, c, op, j) /\ UNCHANGED free
                              ELSE Ends(s, c) /\ UNCHANGED sent
  IN  \/ /\ job[s][c] = "reg_wlist"
         /\ goes_on("create", "reg_create")
         /\ UNCHANGED <<svr_set, read>>
      \/ /\ job[s][c] = "get"
         /\ svr_set' = [svr_set EXCEPT ![s] = IF a.ok THEN a.children ELSE {}]
         /\ read' = [read EXCEPT ![s] = IF a.ok THEN a.version ELSE 0]
         /\ goes_on("wlist", "get_wlist")
      \/ /\ job[s][c] \in {"reg_create", "get_wlist"}
         /\ Ends(s, c)
         /\ UNCHANGED <<sent, svr_set, read>>

\* What the operation a task waits in was sent as, and whether its completion
\* hands over the names of the children or a path.
OpOf(j) == CASE j = "reg_create" -> "create"
             [] j = "get" -> "list"
             [] j \in {"reg_wlist", "get_wlist"} -> "wlist"
SameType(op, j) == (op = "create") <=> (OpOf(j) = "create")

Failed(op, c) == [kind |-> "answer", op |-> op, co |-> c, ok |-> FALSE,
                  children |-> {}, version |-> 0]

\* AppBase::Watcher starts GetServers in a new coroutine.
StartGetServers(s) == \E c \in CoId : /\ Takes(s, c)
                                      /\ Ask(s, c, "list", "get")
                                      /\ UNCHANGED <<svr_set, read, confused>>

\* Mutant of Complete: a completion with an error resumes nobody.
Complete_IgnoresErrors(s, a) ==
  IF ~ a.ok \/ job[s][a.co] = "none"
  THEN UNCHANGED <<job, free, svr_set, sent, read, confused>>
  ELSE Continue(s, a.co, a) /\ UNCHANGED confused

\* A completion resumes the coroutine at its CoYield: nothing happens if no task
\* waits there, and what a GetServers makes of a path is anybody's guess.
Complete(s, a) ==
  LET j == job[s][a.co]
  IN  \/ /\ j = "none"
         /\ UNCHANGED <<job, free, svr_set, sent, read, confused>>
      \/ /\ j # "none"
         /\ ~ a.ok \/ SameType(a.op, j)
         /\ Continue(s, a.co, a)
         /\ UNCHANGED confused
      \/ /\ j # "none"
         /\ a.ok /\ ~ SameType(a.op, j)
         /\ \E seen \in SUBSET Server :
              Continue(s, a.co, [a EXCEPT !.children = seen, !.version = 0])
         /\ confused' = TRUE

\* ZooKeeperClient::Check processes the next answer or event.
Deliver(s) ==
  /\ conn[s] \in {"up", "broken"} /\ inbox[s] # <<>>
  /\ inbox' = [inbox EXCEPT ![s] = Tail(@)]
  /\ LET m == Head(inbox[s])
     IN  \/ /\ m.kind = "watch"
            /\ wanted' = [wanted EXCEPT ![s] = FALSE]
            /\ StartGetServers(s)
         \/ /\ m.kind = "answer"
            /\ wanted' = [wanted EXCEPT ![s] = @ \/ (m.ok /\ m.op = "wlist")]
            /\ Complete(s, m)
            /\ UNCHANGED inc
  /\ UNCHANGED <<conn, session, watch, zk, bounds>>

\* The wait of the task in c ends after 5 s; the request stays out.
TimeOut(s, c) ==
  /\ faults + time_outs < MaxFaults
  /\ conn[s] = "up"
  /\ job[s][c] # "none"
  /\ time_outs' = time_outs + 1
  /\ Continue(s, c, Failed(OpOf(job[s][c]), c))
  /\ UNCHANGED <<conn, session, inc, inbox, watch, wanted, zk, boots, faults,
                 confused>>

\* The answers among what is not delivered, in their order.
AnswersIn(box) ==
  LET upto[i \in 0..Len(box)] ==
        IF i = 0 THEN <<>>
        ELSE IF box[i].kind = "answer" THEN Append(upto[i - 1], box[i])
        ELSE upto[i - 1]
  IN  upto[Len(box)]

\* The connection of s breaks.  Its requests are answered with an error; the
\* watch the client knows of is left again when it reconnects.
Break(s) ==
  /\ faults + time_outs < MaxFaults
  /\ conn[s] = "up"
  /\ faults' = faults + 1
  /\ conn' = [conn EXCEPT ![s] = "broken"]
  /\ LET asked == AnswersIn(inbox[s]) \o sent[s]
     IN  inbox' = [inbox EXCEPT ![s] =
                     [i \in DOMAIN asked |-> Failed(asked[i].op, asked[i].co)]]
  /\ sent' = [sent EXCEPT ![s] = <<>>]
  /\ watch' = [watch EXCEPT ![s] = CASE ~ wanted[s] -> 0
                                     [] wanted[s] /\ Contains(inbox[s], Event) -> version - 1
                                     [] OTHER -> version]
  /\ UNCHANGED <<client, wanted, zk, boots, time_outs, read, confused>>

\* The client has a connection again, with its session if ZooKeeper still has
\* that; a session that expired is never replaced (see ZkClient).
Heal(s) ==
  /\ conn[s] = "broken" /\ inbox[s] = <<>>
  /\ IF session[s] \in alive
     THEN /\ conn' = [conn EXCEPT ![s] = "up"]
          /\ IF Watching(s) /\ watch[s] < version
             THEN /\ inbox' = [inbox EXCEPT ![s] = <<Event>>]
                  /\ watch' = [watch EXCEPT ![s] = 0]
             ELSE UNCHANGED <<inbox, watch>>
     ELSE /\ conn' = [conn EXCEPT ![s] = "expired"]
          /\ UNCHANGED <<inbox, watch>>
  /\ UNCHANGED <<client, sent, wanted, zk, bounds, read, confused>>

\* ZooKeeper ends a session it has not heard of, and removes its node.
Expire(x) ==
  /\ x \in alive
  /\ \A s \in Server : session[s] = x => conn[s] # "up"
  /\ alive' = alive \ {x}
  /\ owner' = [s \in Server |-> IF owner[s] = x THEN NoSession ELSE owner[s]]
  /\ IF \E s \in Server : owner[s] = x
     THEN Notify(Nobody)
     ELSE UNCHANGED <<inbox, watch, version>>
  /\ UNCHANGED <<conn, client, sent, wanted, bounds, read, confused>>

Next == \/ \E s \in Server : \/ Boot(s) \/ Stop(s) \/ Process(s) \/ Deliver(s)
                             \/ Break(s) \/ Heal(s)
                             \/ \E c \in CoId : TimeOut(s, c)
        \/ \E x \in alive : Expire(x)

Spec == Init /\ [][Next]_vars

\* Check runs every 100 ms; ZooKeeper answers, keeps connections up after they
\* broke, and ends sessions nobody uses.
FairSpec == /\ Spec
            /\ \A s \in Server : WF_vars(Process(s)) /\ WF_vars(Deliver(s))
                                /\ WF_vars(Heal(s))
            /\ \A x \in 1..MaxBoots : WF_vars(Expire(x))

-----------------------------------------------------------------------------
Request == [op : Op, co : CoId]
Message == {Event} \cup [kind : {"answer"}, op : Op, co : CoId, ok : BOOLEAN,
                         children : SUBSET Server, version : Nat]

TypeOK ==
  /\ conn \in [Server -> {"off", "up", "broken", "expired"}]
  /\ session \in [Server -> 0..MaxBoots]
  /\ job \in [Server -> [CoId -> Job]]
  /\ free \in [Server -> Seq(CoId)]
  /\ inc \in [Server -> 0..MaxCo]
  /\ svr_set \in [Server -> SUBSET Server]
  /\ sent \in [Server -> Seq(Request)]
  /\ inbox \in [Server -> Seq(Message)]
  /\ watch \in [Server -> Nat]
  /\ wanted \in [Server -> BOOLEAN]
  /\ owner \in [Server -> 0..MaxBoots]
  /\ alive \subseteq 1..MaxBoots
  /\ version \in Nat \ {0}
  /\ boots \in 0..MaxBoots /\ faults \in Nat /\ time_outs \in Nat
  /\ read \in [Server -> Nat]
  /\ confused \in BOOLEAN

Reading(s) == \/ Contains(inbox[s], Event)
              \/ \E c \in CoId : job[s][c] \in {"get", "get_wlist"}
Starting(s) == \E c \in CoId : job[s][c] \in {"reg_wlist", "reg_create"}

\* No connection was lost and no wait timed out so far; servers may have been
\* killed and sessions of theirs may have expired.
Undisturbed == faults = 0 /\ time_outs = 0

\* A server never stops listening: it has a watch on the children, or is about
\* to be told of a change, or a task of it is on its way to the call that
\* leaves the next watch (GetServers, app_base.h:25-35, 92-94).
WatchChainUnbroken ==
  \A s \in Server : Undisturbed /\ conn[s] = "up" =>
    Watching(s) \/ Reading(s) \/ \E c \in CoId : job[s][c] = "reg_wlist"

\* A server at rest whose list is wrong has missed a change that came between
\* its reading of the children and its leaving of the watch (app_base.h:27-34),
\* or never was told to read them; its list is never wrong otherwise.
StaleOnlyByWindow ==
  \A s \in Server :
    Undisturbed /\ conn[s] = "up" /\ ~ Reading(s) /\ ~ Starting(s)
      => svr_set[s] = Registered \/ read[s] < watch[s]

\* No task is ever handed the answer to another kind of request, unless a wait
\* timed out: a client that lost its connection has told every task so before
\* it can ask again (zookeeper_client.cpp:44-77, 180-199, 257-292).
OnlyTimeOutsConfuse == confused => time_outs > 0

\* Once the children no longer change, a server that was told of a change comes
\* to rest, also when connections break (app_base.h:25-35): no task of it is
\* left waiting.
EveryReadingEnds == \A s \in Server : Reading(s) ~> ~ Reading(s)

\* A server that goes on running is registered (readme.md:9, app_base.h:89-98).
EveryServerRegisters ==
  \A s \in Server : <>[](conn[s] = "up") => <>[](s \in Registered)
=============================================================================
