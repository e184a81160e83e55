# Verification project for qserver

`qserver` is a small C++11 framework for back-end servers that talk to each other
through RabbitMQ, find each other through ZooKeeper and reach Redis through a proxy
server. Every server is one thread running a libevent loop; business code runs in
stackful coroutines ("transactions") that are written sequentially and suspended while
they wait for a message, a Redis reply or a ZooKeeper answer. This directory holds TLA+
models of that machinery, TLC configurations that check them, and TLAPS proofs.

Paths below are relative to `src/src/` unless they say otherwise.

## 1. Inventory

| Component | Source | State | Operations |
|---|---|---|---|
| Timer | `commlib/timer.h` | `timer_set_` (deadline-ordered nodes), `cancel_list_` (pairs of address and arming second), the batch `DoTimeOutTask` walks | `AddTimer`, `CancelTimer`, `DoTimeOutTask`, `Clear` |
| CoPool | `commlib/co/coroutine.{h,cpp}` | `free_coroutine` (FIFO), `action_coroutine`, `inc_co_id`; per coroutine `co_msg`, `resume_by_time_out` | `NewCoroutine`, `Yield`, `Resume`, `ResumeWithMsg`, `FreeCoroutine`, `GetCoId` |
| CoTask, CoYield | `commlib/co/co_task.{h,cpp}` | `co_id_timer_id_`; one `CoYield` on each coroutine's stack | `AddTack`, `DoTack`, `Yield`, `ResumeOne`, `ResumeOneWithMsg`, `CancelTimer`, `DoTimeOutTask`, `ResumeAll` |
| TransMgr, ObjectPool, Trans | `commlib/trans/*`, `commlib/object_pool.h` | `trans_map_`: per command a LIFO pool of transaction objects; the shared_ptr held by a coroutine's task | `RegisterCmd`, `OnMsg`, `TickTimeOutCo`, `get_shared` and its deleter |
| SvrCommTrans (RPC) | `app/common/svr_comm_trans.{h,cpp}` | `_co`, `_redis_handler` of the transaction in progress | `DoTask`, `SendMsg`, reply, `SendMsgThenYield`, `SendMsgRpc`, `SendMsgRpcByType` |
| RabbitMQNet | `app/common/mq_net.{h,cpp}`, `commlib/client_base.h` | connection state, two channels, `send_channel_succ_`, `recv_channel_succ_` | `Reconnect`, `SendMsg`, `Heartbeat`, the AMQP callbacks |
| ZooKeeperClient, ZooCmd | `app/common/zookeeper_client.{h,cpp}` | `state_`, the session handle, outstanding completions | `Init`, `Check`, `Reconnect`, `Create`, `Set`, `Get`, `WGet`, `GetChildren`, `WGetChildRen`, watchers and completions |
| Discovery (AppBase, SvrList) | `app/common/app_base.h`, `svr_list.{h,cpp}` | `svr_by_type`, `svr_set`; the ephemeral node and the watch in ZooKeeper | start-up registration, `Watcher`, `GetServers`, `AddSvr`, `RemoveSvr`, `Clear` |
| RedisClient, RedisCmd | `app/redissvr/redis_client.{h,cpp}` | `state_`, hiredis context and its queue of pending callbacks | `Reconnect`, `Cmd`, `FormattedCmd`, `Yield`, connect/disconnect/reply callbacks |
| Redis proxy transaction | `app/redissvr/main.cpp`, `app/common/redis_actuator.cpp`, `convert_reply_help.h` | the request in progress, the converted reply | `TransRedisCmd::Task`, `ReplyToPb`, `PbToReply`, `recv` |
| redis-plus-plus front end | `commlib/redis/*` | command buffers, reply objects | command formatting, reply parsing, sds strings |
| ConsistentHash | `commlib/consistent_hash.hpp` | the ring | `AddNode`, `RemoveNode`, `GetNode` |
| Timers of libevent | `app/common/event_help.h` | `EventInfo` | `EvAddTimer`, `CB` |
| Configuration, logging, utilities | `*_toml.hpp`, `commlib/logging.*`, `get_ip.h`, ... | none that matters | start-up only |

**How they interact.** A libevent callback (a RabbitMQ delivery, a 1 ms tick, a Redis or
ZooKeeper answer) runs in the main context. `RabbitMQNet` hands a delivery to
`TransMgr::OnMsg`, which starts a coroutine for a request (`co_id == 0`) or resumes the
coroutine the reply names. A coroutine that waits arms a `Timer` node through `CoTask`
and swaps back to the main context; the 1 ms tick (`TransMgr`) and a 100 ms tick
(`AppBase`) fire due nodes. Redis and ZooKeeper callbacks carry the *address* of the
waiting coroutine's `CoYield`.

**What is hard.** One thread, but many transactions interleave at every wait; coroutine
objects, co_ids, stack addresses and `TimeInfo` addresses are all recycled; an answer can
arrive after its wait timed out; connections drop with requests in flight; servers are
restarted by supervisor with their co_ids starting at 1 again; ZooKeeper watches are
one-shot and sessions expire.

## 2. Correctness properties, by component

* **Timer.** No two armed timers share a TimerId; a cancellation silences exactly the timer it names.
* **CoTask.** Every wait has exactly one armed time-out; a time-out only reaches the wait that armed it, not before it is due; every wait ends; a stack is never in use twice. As a whole: it implements `CoWait`.
* **TransMgr.** Transaction objects are conserved: each is in its pool or held by one coroutine; the object's `_co` is the coroutine that runs it; an exhausted pool fills up again.
* **RPC.** A call returns the answer to that call; a request runs at most once; a reply answers a request that was sent.
* **RabbitMQNet.** A client that believes it is connected can send and receive; a lost connection is eventually replaced.
* **Discovery.** The list eventually equals the set of registered servers; a running server eventually is registered.
* **Redis proxy.** Each proxied request gets exactly one answer; a Redis reply reaches the command that asked for it.
* **Redis front end.** A command is written whole, with one argument per word; a call that returns returns what Redis' reply stands for; a reply is freed once.
* **ConsistentHash.** Keys of a node that stays do not move when another one joins or leaves.

## 3. Plan

The core comes first: everything a server does runs in a coroutine that waits with a
time-out. The rest builds on the promise that core makes (`CoWait`).

| Order | Module | Models | Composes | State |
|---|---|---|---|---|
| 1 | `Timer` | `Timer` with recycled addresses | | done |
| 2 | `CoTask` | `CoPool`, `CoTask`, `CoYield` | extends `Timer` | done |
| 3 | `CoWait` | abstract: what a wait promises | implemented by `CoTask` | done |
| 4 | `CoTaskProofs` | proofs about `CoTask` and `TransMgr` | `CoTask`, `CoWait`, `TransMgr` | done |
| 5 | `TransMgr` | `TransMgr`, `ObjectPool`, `DoTask` | extends `CoTask` | done |
| 6 | `Rpc`, `CallOnce` | servers calling each other over RabbitMQ; abstract: at most once | uses `CoWait`'s promise, implements `CallOnce` | done |
| 7 | `ConsistentHash`, `ConsistentHashProofs` | the ring | | done |
| 8 | `ZkClient` | ZooKeeper session of one server | | done |
| 9 | `Discovery` | registration, watches, `GetServers`, time-outs | uses `ZkClient`'s result that an expired session is final | done |
| 10 | `RedisProxy`, `RedisProxyProofs` | `RedisClient`, `RedisCmd`, `TransRedisCmd`: the reply queue and `CoYield` addresses | uses `CoWait`'s promise, implements `CallOnce` | done |
| 11 | `MqNet`, `MqNetProofs` | the AMQP connection of one server: callbacks, exclusive queue, deaf connections | | done |
| 12 | `CommandFormat`, `RedisReply`, `RedisCommands`, `RedisCall` | a Redis call from its format to its result, with the unassigned variable of `PbToReply` | `RedisCall` extends the other three | done |
| 13 | `RpcProofs`, `ZkClientProofs` | proofs | `Rpc`, `CallOnce`, `ZkClient` | done |
| 14 | `DiscoveryProofs` | proofs | `Discovery` | done |
| 15 | `RedisCallProofs` | proofs | `CommandFormat`, `RedisReply`, `RedisCall` | done |

Abstract specifications worth stating: `CoWait` (a wait ends once, and not early) and
`CallOnce` (a call executes at most once, and returns at most one answer, which answers no
other call), which both the RPC between servers and the Redis proxy implement.

## 4. What models what

A name in a model is the name in the code where there is one (`timer_set`,
`cancel_list`, `action_coroutine`, `free_coroutine`, `inc_co_id`, `co_id_timer_id`,
`trans_map`, `svr_set`, `hash_list`). `PROJECT.json` maps each definition to its lines.

* **Timer.tla.** A node is a deadline, an address, and what the `TimeInfo` holds. An
  address is free again once no node has it, so a `TimerId` (address and second) may be
  reused. `DoTimeOutTask` is a sequence of steps (`TickBegin`, `TickSkip` or `TickFire` per
  node, `TickEnd`), because a fired task runs coroutines that arm and cancel timers while
  the batch is walked. The module has no `Next` of its own: `CoTask`, the timer's only
  client, says what is armed, cancelled and run.
* **CoTask.tla.** One action per entry into or out of a coroutine: `DoTack`,
  `StartWithMsg` (`AddTack` followed by `ResumeOneWithMsg`, as in `OnMsg`), `Yield`, `Finish`
  (the task returns, `~CoYield` frees the coroutine), `ResumeOneWithMsg`, and the tick. `cur`
  is the coroutine that has control, so nothing of the main loop happens while it runs.
  `CoIdMod` is the width of `inc_co_id`, which skips 0. `co_msg` is `Garbage` until it is set.
* **TransMgr.tla** extends `CoTask` with the pools, the shared_ptr each task holds, and
  `SvrCommTrans::_co`. `OnMsg` is the only entry, so it restricts `CoTask`'s starts to those
  that get an object.
* **Rpc.tla** is several servers. A transaction starts by a message or a timer, sends
  requests and waits, or sends one-way messages; it ends, answering or (an exception)
  not. Waits are `CoWait`'s, without clock: any wait may time out. `Publish` may lose the
  message, `ConnectionLost` and `Restart` lose the queue; a restarted server's co_ids start at 1.
  The pool is one per server (`MaxTrans`), and a message's body is the number of the request.
* **ConsistentHash.tla.** `Points[n]` are the codes of a node's replicas, for *any* hash
  function; codes are the keys of `hash_list_`, already negated, and so are a key's.
* **ZkClient.tla.** The C library is external: one state change per `zookeeper_process`, as
  `Check` polls with a zero time-out. Init starts from every value of `state_`, which the
  code does not initialise.
* **Discovery.tla.** Per server: its connection, what each of its coroutines waits for, its
  list. ZooKeeper is external: sessions, the ephemeral node, one-shot watches, answers and
  events in order. A completion names the coroutine (its `CoYield` is on that stack), so an
  answer may meet another task's wait; a path taken for a vector of strings is undefined
  behaviour and yields any list. The servers that `discovery` itself is not (every server but
  the one of type `discovery` registers) are those in `Server`.

* **RedisProxy.tla.** A request either sends its command and waits (`CmdSent`), is answered at once
  (`CmdRefused`), finds no transaction (`Dropped`), or meets a null context (`Crash`: `state_` is not
  initialised and may say connected). A transaction that wakes answers and ends without another wait,
  so waking and ending are one step, and a coroutine is active exactly while it waits. hiredis is
  external: `pending` are the callbacks it owes, in order; a broken connection runs them all
  without a reply (`freeing`) before `DisconnectCallback`, and nothing else of the loop happens meanwhile.
  `GetCallback` follows the address of a `CoYield`, which names whatever task has that coroutine *then*.
  Only transactions are at these addresses: the tasks of discovery, in the Redis proxy too, run in `AppBase::co_task`
  (`app_base.h:128`), transactions in `TransMgr::co_task_` (`trans_mgr.h:76`), and each `CoTask` has a `CoPool` of its own whose
  stacks are never freed.
  A reply is the number of its command, `Empty` is the answer without one (an error, nil or an
  exception). `got` is what the transaction answers; whether that message arrives is `Rpc`'s matter.
* **MqNet.tla.** One server and its broker. Connections are numbers; `conn` is the newest, `link` what
  has become of it. `channel_consume_` sends one declaration at a time, so `todo` is what it has left of
  exchange, queue, binding and consumer; each has its answer (`ExchangeOk` ... `ConsumeOk`), and the last
  starts `channel_send_` (`declares`). A queue that is another connection's closes the channel (`QueueLocked`,
  remembered in `refused`), and the code has no `onError` there. The broker keeps the exclusive queue
  for a connection until it gives that one up (`BrokerDrops`), and loses exchange and queues when it is restarted.
  `LinkDies` is a connection lost silently, which only `Heartbeat` finds. Init and `Restart` take any value of
  the uninitialised `state_`. A request is published, answered by somebody, routed to the queue or lost;
  `sent_on` and `was_usable` remember the connection it went out on and what `IsUsable` said.
* **RedisCall.tla** is one transaction's calls of `Redis()`, and extends three modules. *CommandFormat*
  has `redisvFormatCommand`: a text is a sequence of pieces with lengths, and the two byte counts of the
  code (`totlen` before, `pos` while writing) are computed as the code does. *RedisCommands* lists, per
  section of the front end, the formats of `command.h` and the results of `redis.cpp` and `redis.hpp`; within a
  section each format is paired with each result. *RedisReply* has the conversions (`ReplyToPb`,
  `PbToReply`), the parsers, the rewriters and `freeReplyObject`. `PbToReply` tells failure by a variable it
  assigns for strings and arrays only: for any other type both outcomes are possible. What the conversion allocates is
  named by its path in the reply and its part, so that a leak or a second free is seen. `IntLimit` is
  the first number too large for an `int`. Redis is external: `Encodings` are the replies that stand for a value of a type,
  `Foreign` those of other commands that a late answer may bring. `Answers` are Redis' replies to a command, nil
  included; `Returned` is what `RedisCmd::Cmd` and `FormattedCmd` leave of one: of nil and of an error nothing, and the answer
  without reply reads as a reply of type 0 (`NoReply`), which the caller converts like any other. `answer` therefore holds the
  reply the *proxy* answered with and the value *Redis'* reply stands for. (`RedisProxy` calls all of these `Empty`.)
  What the code does by recursion (conversion, freeing, parsing) is a function for each height of replies
  (`Trees`), or each rank of result types (`Types`), by way of the one below, so that it can be
  proved about; `Height` bounds the answers. What happens to the call between the
  servers and in the proxy is `Rpc`'s and `RedisProxy`'s matter.

## 5. What is checked

| Run | Instance | Shows |
|---|---|---|
| `cotask` | 2 coroutines, 3 addresses, ids mod 5, intervals 1 and 1.5 s, 2 s | waits and time-outs belong together; `CoTask` implements `CoWait`; every wait ends |
| `transmgr` | 3 commands with 2, 1 and 0 objects, 3 coroutines, 3 addresses, 2 s | objects are conserved; `_co` is right; an empty pool fills again |
| `rpc` | 2 servers of 1 transaction, both start, 3 messages, 2 faults | at most once; wrong answers only after a call was given up; every transaction ends, also when both servers are busy with a call to the other |
| `consistent_hash` | 5 nodes of 2 replicas, 10 codes, 3 of them shared | few keys move |
| `zk_client` | 10 polls at start, 3 faults, 3 sessions | a live session is kept; a broken connection heals or is found expired |
| `discovery` | 2 servers, 3 starts, 1 lost connection or late answer | the watch goes on; lists are stale through one window only; only time-outs mix answers up; tasks end |
| `redis_proxy` | 2 transactions, 4 requests, 2 faults | every command is answered; no wait outlives its connection; wrong replies only after a time-out on the same coroutine; a lost connection is replaced |
| `mq_net` | 2 requests, 3 connections, 3 faults | usable means receiving; answers to usable clients are lost with their connection only; the exchange is there; the set-up ends; a lost connection is replaced |
| `redis_call` | arguments of 0, 3, 10 and 10000 bytes, 2 texts, 3 numbers, arrays of at most 2, height at most 7, 2 calls, ints below 8 | commands are exact; a call returns what Redis' reply stands for, or throws if the proxy has no reply; replies are freed once; only the unassigned variable makes a call crash |

Why the bounds are enough: the hazards need two or three of a thing. Two coroutines and
three addresses let an address be free, be reused in the same second and in a later one
while another wait is pending; 2 s hold two full waits, one after the other, so that a stale cancellation meets a new
timer. Three messages let a call time out, another call take its co_id, and the late
answer arrive, with a third call it can be passed on to. In `redis_proxy` four requests on two
coroutines let a late reply be taken by the next command of its coroutine, that one's reply by a
third, and the pool be empty. In `rpc` one transaction per server makes the pool empty whenever a server waits, so that
two servers calling each other meet it; `RpcProofs` has the safety properties for any number. In
`mq_net` three connections let a queue outlive its connection while the second is refused and a third gets it.
In `redis_call` the lengths lie at the boundaries of a digit count (0 is an empty argument, 10000 begins a second
pass of `countDigits`' loop), no answer of the instance is higher than the seven nodes of `Height`, two elements make an array that is dropped after one
of them was converted, the second call finds what the first left in `_reply`, and the
cursors 8 and 16 do not fit an `int` of 4 bits, as 2^31 does not fit the real one. Shared codes occur between nodes
that are together on the ring and that are not. One server that starts three times, or one that
starts once beside one that starts twice, gives every order of registration, expiry and
event. In `Discovery` two coroutines suffice: a server has at most its registration and
one `GetServers` at a time while nothing times out; with time-outs a third is not taken
(`MaxCo` is then a bound). The properties of `discovery` that are about undisturbed servers say so
in their first condition, and are checked with all three starts; the fault comes at any
point beside them.

**Fairness.** `cotask` and `transmgr`: the loop's 1 ms and 100 ms timers repeat
for ever (`event_help.h:14-22`), so ticks are strongly fair against other events, and a tick
that began goes on; tasks that run reach their next wait or their end (the code's tasks
are finite); the clock goes on as far as the model has one. `rpc` assumes as much
of tasks and time-outs and nothing of deliveries. `zk_client`: the 100 ms timer polls,
and each poll eventually makes progress. `redis_proxy`: time-outs and the one-second timer come,
attempts to connect end (and only `MaxFaults` of them fail), callbacks of a freed connection are run; Redis need never reply. `mq_net`: the 2 s and 30 s timers (`Reconnect`,
`Heartbeat`) come, an attempt to connect ends, and the broker answers declarations; it need never give up a
connection. `discovery`: polls happen, ZooKeeper answers, expires unused
sessions. Nothing else is assumed fair: no message needs to arrive, no fault to stop
except by its bound.

`CHECK_DEADLOCK FALSE` is set where the bounds (clock, messages, starts) end every
behaviour; the ring never stops and is checked for it.

### Disagreements with the repository's own words

Each is a run that must fail, and a finding in `PROJECT.json`.

* `rpc_late_answer`: a co_id is not a wait. After a time-out the answer ends the next call
  made under that co_id (`trans_mgr.h:38`). `WrongAnswerIsLate` shows there is no other way.
* `zk_expiry`: after a session expired, the client closes and reopens its handle every
  100 ms and never connects (`zookeeper_client.cpp:167-178`).
* `discovery_restart`: a server restarted before its old session expired ends up
  unregistered (`app_base.h:95`).

More were met on the way and have no run of their own:

* A change of the children between `GetChildren` and `WGetChildRen` is lost until the next one, without any fault
  (`app_base.h:27-34`); `StaleOnlyByWindow` shows that this is the only way while connections hold.
* The comment at `zookeeper_client.cpp:17` says that an expired session puts the client in the expired
  state and closes its handle; `DefaultWatcher` in `ZkClient` shows that it is set to
  `kDisConnected`, and `kExpired` is set nowhere.
* A connection lost while the list is being read or the server registers ends discovery there, because
  the next `WGetChildRen` returns at once and nobody asks again: `WatchChainUnbroken` is stated
  for undisturbed servers because of it.
* After a time-out, ZooKeeper's late answer resumes the next wait on the same stack and may be of
  another type: `OnlyTimeOutsConfuse` says that there is no other way to it. In the same way a late Redis
  reply answers the next command of that coroutine (`WrongReplyIsLate`), that one's reply possibly a third;
  nothing drops the connection after a time-out, which would end the confusion.
* When the broker still has the queue for a lost connection, `declareQueue` is refused, nobody is
  told (`mq_net.cpp:72` has no `onError`), and the client stays connected, sending and deaf: hence
  `refused` in `SetupEnds`.
* `SendMsg` asks for `recv_channel_succ_` only (`mq_net.cpp:33`), not for `IsUsable`: a request sent before the queue
  is bound has its answer lost. `UsableLosesNoAnswer` speaks of usable clients because of it.
* Nil never reaches the caller of a command. `FormattedCmd` and `Cmd` return nothing for it (`redis_client.cpp:109`, `131`), so
  the answer has no reply, as after a failure, and the caller parses a reply of type 0. `GET` of a missing key, a `SET NX` that
  was refused and an `XREAD` that finds nothing end in an exception, or crash by the next item; `ResultIsReply` says
  so for every command. The front end expects otherwise: `rewrite_set_reply` makes a nil reply "a FALSE reply"
  (`redis/reply.cpp:98`), `xread` asks whether the reply is nil (`redis/redis.hpp:1159`), and `get` returns an `OptionalString`.
  Only the nil that stands inside an array, and the one `rewrite_georadius_reply` makes, is ever parsed.
* `PbToReply` (`convert_reply_help.h:21`) leaves its result variable unassigned for integers and nil. A reply is
  kept or dropped by what was on the stack, and a dropped one is dereferenced by the caller
  (`CrashNeedsUnassigned`).
* The cursor of a scan is a `long long` put into an `int` (`redis/reply.h:310`): `ResultIsReply` says what is left of it.
* Not modelled, but seen: the result of `req.ParseFromString` is not checked, `MsgHead.msg` is a proto3
  `string` that holds binary data, and `main` ignores the -1 of `AppBase::Init`.

## 6. What is proved

TLAPS proves, for any number of coroutines, addresses, commands, servers, messages, connections, sessions,
faults and nodes, and any intervals:

| Theorem | Property | Module |
|---|---|---|
| `TypeCorrect`, `StaleCancelsStayOld`, `WaitsAreTimed`, `TimersAreOwned`, `PoolIsPartitioned`, `Refinement` | `TypeOK`, `StaleCancelsAreOld`, `WaitHasArmedTimer`, `ArmedTimerHasWait`, `PoolPartition`, `ImplementsCoWait` | `CoTaskProofs` |
| `TransMgrIsCoTask`, `TransWaitsAreTimed`, `TransAreConserved`, `TransCoIsHolder` | the same of `TransMgr`; `TransConserved`, `CoIsHolder` | `CoTaskProofs` |
| `TypeCorrect`, `StateFollowsLink`, `WaitsAreOwed`, `WrongRepliesAreLate`, `ProxyRefinement` | `TypeOK`, `StateIsLinks`, `WaitHasCallback`, `WrongReplyIsLate`, `ImplementsCallOnce` | `RedisProxyProofs` |
| `TypeCorrect`, `WrongAnswersAreLate`, `MessagesAreOne`, `RpcRefinement` | `TypeOK`, `WrongAnswerIsLate`, `ImplementsCallOnce` | `RpcProofs` |
| `UsableMeansReceivingHolds`, `UsableLosesNoAnswerHolds`, `ExchangeIsThereHolds` | `UsableMeansReceiving`, `UsableLosesNoAnswer`, `ExchangeIsThere` | `MqNetProofs` |
| `StateFollowsHandle`, `SessionsAreKept` | `StateIsHandles`, `LiveSessionIsKept` | `ZkClientProofs` |
| `TypeCorrect`, `NobodyIsConfused`, `ServersKeepListening`, `ListsAreStaleByTheWindow` | `TypeOK`, `OnlyTimeOutsConfuse`, `WatchChainUnbroken`, `StaleOnlyByWindow` | `DiscoveryProofs` |
| `RemovedNodesGetNoKeys`, `RingFollowsMembers`, `JoinMovesFewKeys`, `LeaveMovesFewKeys` | the ring's properties | `ConsistentHashProofs` |
| `DigitsAreCounted`, `BytesAreCounted`, `CommandsAreExact` | what `CommandIsExact` asks of one command | `RedisCallProofs` |
| `CommandsStayExact`, `CrashesNeedUnassigned`, `RepliesStayFreedOnce`, `ResultsStayReplies` | `CommandIsExact`, `CrashNeedsUnassigned`, `RepliesAreFreedOnce`, `ResultIsReply` | `RedisCallProofs` |

**Assumptions.** Each is a named `ASSUME`: every interval is at least 1000 ms (the code only
uses `Yield`'s default, 5000), the clock does not go back (the code reads the system clock,
so this is an assumption about the machine), co_ids do not wrap while their number is
below `CoIdMod`, constants of the bounds are numbers, a server has a coroutine to register in (`MaxCo`), and a word has a byte
(`WordBytes`). The height of replies and `IntLimit` are any positive numbers, arrays may have any number of elements,
lengths of arguments are numbers, and so are those that decimal strings stand for. Nothing is assumed of the hash.

**The argument for CoTask.** `WaitHasArmedTimer` is not inductive. A time-out cancels the
timer that is firing, which leaves an entry in `cancel_list_` for ever; it would silence a
new timer with the same address and second. `IInv` therefore adds that entries which match no
pending timer are *old*: their second lies before the current one, because a timer fires at
least one interval (one second) after it was armed (`StaleCancelsAreOld`). New timers
carry the current second, so they never match. The other conjuncts say that addresses of live
nodes are distinct, that a node's second is that of its arming, that a wait's `TimerId` names a
node that resumes that wait, that no time-out flag is left set, and that the
coroutine in control is active. `Invariance` proves it action by action.

**Refinement.** A coroutine is idle, running or waiting in `CoWait` according to
`action_coroutine` and `cur`, and due at the deadline of its armed timer. `IInv` supplies what
the step of a fired node needs: that the coroutine it resumes waits, and that this is its
timer and due.

**TransMgr.** Each of its steps is a step of `CoTask` (`TransMgrIsCoTask`), so all of the
above carries over. `TInv` adds that each pool holds its own objects, each once, exactly
those no coroutine runs.

**RedisProxy.** `WrongReplyIsLate` is about the past, so `IInv` carries what makes the next wrong
reply late: callbacks are owed in the order of requests, each for a coroutine that waits for exactly
that command or had a time-out at it or before (`LateOrAwaited`), and never for a command later than the one waited
for. A wait that an early reply ended leaves a callback that is late by the same witness. The refinement adds
`ExecutedOnce`: the reply of an owed callback has answered nothing yet.

**Rpc.** A message is in one place at a time: in one queue, once, or with one transaction that has not answered it
(`MsgInv`, `OneMessage`, `ServeInv`, `OneServes`), so it is executed and answered once whatever is lost.
`LateOrAwaited` says that a call which has not returned is still waited for by the coroutine that made it, or that it or an
earlier call of the same server and co_id was given up; since an answer names the co_id it goes to and
nothing else, a coroutine that takes the answer to another call has one given up behind it. Restarts give up
the calls of the process, whose co_ids begin again.

**MqNet.** What the client believes and what the broker has meet in `StageAtBroker`: while a connection is
up, what is left of the declarations (`todo`) says which of them the broker has carried out, and
`SendIsLast` that `channel_send_` is started by the last of them. Usable thus implies all, and `UsableStays` keeps
that true for requests sent earlier on the same connection. A broker that restarts takes the connection
with it, which is why each property speaks of a connection that is up.

**ZkClient.** `SessionIsWanted`: while ZooKeeper has the session, `state_` is connected or connecting, for which
`Check` does not reconnect. This is what fails once the session has expired.

**Discovery.** None of the three properties is inductive, because each is about what tasks believe and
breaks by what is under way. `IInv` (checked by TLC on the instances of both runs before it was proved) therefore says of
every queue:

* `WaitsAreAsked`: while no wait timed out, a request that is out or an answer that is in is for a coroutine that waits for
  just that, and no two are for the same coroutine. It survives a lost connection, because the errors
  `Break` puts into the inbox are one for each of them. So the answer that resumes a task is its own, and `OnlyTimeOutsConfuse` follows.
* `AnswersLeaveWatch`: while nothing was disturbed, the answer to a call that leaves a watch is in the inbox with the watch still
  there or with the event that took it *behind* it. When the task ends with that answer, the server still has a watch or will be told
  (`WatchChainUnbroken`). This is where ZooKeeper's order of answers and events is used.
* `ListsAreOfVersions`: a watch is of the present version of the children, and a list, answered or read, that is of the present version
  is the one ZooKeeper has. A change ends every watch of a connected server, so a server at rest has a watch of the present version: its
  list was read at that version and is right, or earlier, which is the window (`StaleOnlyByWindow`).

Free coroutines have no task (`PoolOf`), so a new `GetServers` cannot be confused with a task that waits.
`AnswersIn` is recursive; the induction over an inbox that `AnswersInFacts` needs is done from the least-number principle
(`LeastNumber`, `NumberInduction`), which needs no operator as a parameter and so is within the provers' reach.

**ConsistentHash.** `HashInv` says which codes are on the ring: only members' own, and
all of a member's that nobody shares. The action properties follow from the order of codes alone.

**CommandFormat.** Nothing here is a state machine: the theorems are about what recursive functions compute. A
function defined by recursion is a `CHOOSE`, so each is first shown to exist (`IterationIsDefined` for the loops over a
sequence, `DescentIsDefined` for recursion that goes on by a smaller number), by induction on a *set* of
numbers. `DigitsAreCounted` compares the loop that takes four digits at once with the one that takes one. `BytesAreCounted`
has the invariant `Counted` of the loop over the format: `totlen` is what the arguments found so far will need when they are
written. `CommandsAreExact` goes through the words of a format: after the last letter of word *j* the arguments
found are those of the words before (`Pushed`), the one under way is word *j*'s and touched (`Within`), and the values
left are those that the first *j* words do not take. Texts are as long as they are: the code counts in `int`s.

**RedisCall.** `CallInv` (checked by TLC on the instance of `redis_call` before it was proved) relates what is allocated to what is
held: from the answer to the end of the method, `heap` is what `freeReplyObject` would free of the reply at hand (`Owned`),
so the end frees everything once, whoever's answer it was and whether or not the parser threw. What has to be shown of the conversion is that each of its
outcomes, at each path, allocates just that, and has no reply only for a node of a type whose outcome is unassigned (`Sound`). `OutcomesAreSound` shows it by induction on the height, and
`PassIsSound` for one pass of the loop over the elements: what is freed of an array that is dropped is what its
elements so far have. A rewrite changes the type, and with it what would be freed: `RewriteSet` lets the string go because an
integer's string is not freed. `DroppedNeedsUnassigned` carries the reason of a missing reply from the conversion to the crash;
`CommandIsExact` follows from `CommandsAreExact`. As in *CommandFormat*, the functions by height are first shown to exist, all by one lemma
(`LevelsAreDefined`).

`ResultIsReply` is the longest of these proofs. It says of every result type of the front end that the parser inverts what
Redis writes for it, through both conversions, and that it throws when the proxy has no reply:

* `Survives`: what comes out of the conversion of a reply is that reply or nothing. An array that has lost an element is dropped whole
  (`Built` is what the loop over the elements has), so no method ever parses an array with a hole.
* `EncodingsAreGood`, by induction on the rank of the type: what Redis writes for a value of the type comes through,
  and is parsed into that value (`Good`). The case that takes work is that of key-value pairs (`FlatPairsAreGood`,
  `NestedPairsAreGood`): the parser tells their two forms by the first element alone, which is right because the first of a pair is never
  itself sent as an array (`WellFormed`).
* `SectionsAreSound`: all results of the front end are of such types, and a reply is rewritten before it is parsed only for the
  one type its rewriter is for (`SoundWants`). `AnswersAreRight` puts both together, one lemma for each way a method takes its
  reply (nil apart, which the proxy keeps: `ReturnedIsRight`), and `CutNumbers` says what is left of a cursor.
* `NothingThrows`, by induction on the rank: the fields of an answer without reply are of no type, optional ones included. So the call
  throws (`NothingIsThrown`), after any rewrite and for any way a method takes its reply.
* `ResultInv` (checked by TLC too) carries this from the answer, through the reply received and perhaps rewritten, to the result.

## 7. What is only model-checked, and what is not modelled

Only model-checked: liveness (`EveryWaitEnds`, `PoolRefills`, `EveryTransEnds`,
`BrokenConnectionHeals`, `EveryReadingEnds`, `EveryCmdEnds`, `ClientHeals`, `SetupEnds`,
`LostLinkIsReplaced`), which TLAPS cannot prove under fairness. Every safety invariant
of a passing run is proved.

Not modelled:

* `ResumeAll`, `RemoveSvr`, `ObjectPool::get` and the ZooKeeper operations which nothing calls; the
  lists by type of `SvrList`, a second copy of `svr_set` that is written with it.
* Of the front end: publish/subscribe and the formatters of transactions, which no method of `Redis` uses; the
  growth of `sds` buffers, the printing of numbers, and memory running out.
* libevent's timers (taken as the fairness of the ticks), configuration, logging and the deployment scripts, except
  that a server is restarted under the same name.
* Everything under `third/`: about two thirds of the repository's lines are vendored
  headers of libraries (spdlog, cpptoml, ZooKeeper's client). What the code uses of ZooKeeper, and of hiredis
  and AMQP-CPP, which the repository does not contain, is modelled from its use.

A transaction's own business code is any sequence of the calls it may make, with one restriction: in `Rpc` a task answers at
most once, as the last thing it does, while `SendMsg` could be called for the same request at any time and more than once. All
transactions of the repository that answer do it so.
