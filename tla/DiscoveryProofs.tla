--------------------------- MODULE DiscoveryProofs ---------------------------
(***************************************************************************)
(* Proofs about Discovery, for any number of servers, coroutines, starts    *)
(* and faults.  The argument: as long as no wait timed out, what ZooKeeper  *)
(* has to process or has answered is exactly what the waiting coroutines    *)
(* asked, each for one (WaitsAreAsked); as long as no connection was lost   *)
(* either, an answer to a call that leaves a watch is in the inbox with the *)
(* watch still there or with the event that ended it behind it              *)
(* (AnswersLeaveWatch), and the versions of the children tell which lists   *)
(* are those ZooKeeper has (ListsAreOfVersions).                            *)
(***************************************************************************)
EXTENDS Discovery, TLAPS, WellFoundedInduction

\* CoPool: a free coroutine has no task, and is free once.
PoolOf(s) ==
  /\ \A i, j \in DOMAIN free[s] : free[s][i] = free[s][j] => i = j
  /\ \A i \in DOMAIN free[s] : free[s][i] <= inc[s] /\ job[s][free[s][i]] = "none"
  /\ \A c \in CoId : c > inc[s] => job[s][c] = "none"

\* A process that does not run has nothing.
OffOf(s) ==
  conn[s] = "off" => /\ free[s] = <<>> /\ sent[s] = <<>> /\ inbox[s] = <<>>
                     /\ watch[s] = 0
                     /\ \A c \in CoId : job[s][c] = "none"

Waits(jobs, q) == jobs[q.co] # "none" /\ OpOf(jobs[q.co]) = q.op

IsAnswer(m) == m.kind = "answer"

\* Nothing is asked or answered of coroutine c.
Clear(box, out, c) ==
  /\ \A i \in DOMAIN box : IsAnswer(box[i]) => box[i].co # c
  /\ \A i \in DOMAIN out : out[i].co # c

\* What is answered or asked is what the coroutine waits for, and nothing else
\* is answered or asked of the same coroutine.
Asked(box, out, jobs) ==
  /\ \A i \in DOMAIN box : IsAnswer(box[i]) => Waits(jobs, box[i])
  /\ \A i \in DOMAIN out : Waits(jobs, out[i])
  /\ \A i, j \in DOMAIN box : IsAnswer(box[i]) /\ IsAnswer(box[j])
                                => (box[i].co = box[j].co => i = j)
  /\ \A i, j \in DOMAIN out : out[i].co = out[j].co => i = j
  /\ \A i \in DOMAIN box, j \in DOMAIN out :
       IsAnswer(box[i]) => box[i].co # out[j].co

AskedOf(s) == Asked(inbox[s], sent[s], job[s])

WaitsAreAsked == time_outs = 0 => \A s \in Server : AskedOf(s)

\* A connection is lost by a fault only.
LinksHold == faults = 0 => \A s \in Server : conn[s] \in {"off", "up"}

\* An answer to a call that leaves a watch comes with the watch, or before the
\* event of the change that took it.
LeavesWatch(box, w) ==
  \A i \in DOMAIN box :
    IsAnswer(box[i]) /\ box[i].op = "wlist"
      => w # 0 \/ \E k \in DOMAIN box : k > i /\ box[k] = Event

WatchOf(s) == LeavesWatch(inbox[s], watch[s])

AnswersLeaveWatch == Undisturbed => \A s \in Server : WatchOf(s)

\* A watch is of the present version; a list of the present version, answered
\* or read, is the one ZooKeeper has.
VersionsOf(s) ==
  /\ Watching(s) => watch[s] = version
  /\ \A i \in DOMAIN inbox[s] :
       IsAnswer(inbox[s][i]) =>
         /\ inbox[s][i].version <= version
         /\ inbox[s][i].op = "list" /\ inbox[s][i].version = version
              => inbox[s][i].children = Registered
  /\ read[s] <= version
  /\ read[s] = version => svr_set[s] = Registered

ListsAreOfVersions == Undisturbed => \A s \in Server : VersionsOf(s)

PoolInv == \A s \in Server : PoolOf(s) /\ OffOf(s)

IInv == /\ TypeOK /\ PoolInv
        /\ WaitsAreAsked /\ OnlyTimeOutsConfuse
        /\ LinksHold /\ AnswersLeaveWatch /\ WatchChainUnbroken
        /\ ListsAreOfVersions

-----------------------------------------------------------------------------
(* Sequences, and what Break makes of the inbox. *)

LEMMA HeadTailFacts ==
  ASSUME NEW S, NEW q \in Seq(S), q # <<>>
  PROVE  /\ 1 \in DOMAIN q /\ Head(q) = q[1] /\ Head(q) \in S
         /\ Tail(q) \in Seq(S)
         /\ DOMAIN Tail(q) = 1..(Len(q) - 1)
         /\ \A i \in DOMAIN Tail(q) : i + 1 \in DOMAIN q /\ Tail(q)[i] = q[i + 1]
  OBVIOUS

LEMMA AppendFacts ==
  ASSUME NEW S, NEW q \in Seq(S), NEW e \in S
  PROVE  /\ Append(q, e) \in Seq(S)
         /\ DOMAIN Append(q, e) = 1..(Len(q) + 1)
         /\ Append(q, e)[Len(q) + 1] = e
         /\ \A i \in DOMAIN q : Append(q, e)[i] = q[i]
         /\ Len(q) + 1 \in DOMAIN Append(q, e)
         /\ \A i \in DOMAIN q : i \in DOMAIN Append(q, e)
         /\ \A i \in DOMAIN Append(q, e) : i \in DOMAIN q \/ i = Len(q) + 1
  OBVIOUS

LEMMA LeastNumber ==
  ASSUME NEW T, T \subseteq Nat, T # {}
  PROVE  \E n \in T : \A m \in T : n <= m
<1>1. IsWellFoundedOn(OpToRel(<, Nat), Nat)
  BY NatLessThanWellFounded
<1>2. PICK n \in T : \A m \in T : ~ (<<m, n>> \in OpToRel(<, Nat))
  BY <1>1, WFMin
<1>3. \A m \in T : ~ (m < n)
  BY <1>2 DEF OpToRel
<1> QED BY <1>3

\* Induction on numbers, with a set for the property.
LEMMA NumberInduction ==
  ASSUME NEW T, 0 \in T, \A n \in Nat : n \in T => n + 1 \in T
  PROVE  Nat \subseteq T
<1> DEFINE Left == Nat \ T
<1>1. SUFFICES ASSUME Left # {} PROVE FALSE
  OBVIOUS
<1>2. PICK n \in Left : \A m \in Left : n <= m
  <2> HIDE DEF Left
  <2>1. Left \subseteq Nat
    BY DEF Left
  <2> QED BY <1>1, <2>1, LeastNumber
<1>3. n # 0 /\ n - 1 \in Nat /\ n - 1 \notin Left
  BY <1>2
<1> QED BY <1>2, <1>3

\* AnswersIn is the function its recursion describes.
AnswersUpTo(g, box, i) ==
  IF i = 0 THEN <<>>
  ELSE IF box[i].kind = "answer" THEN Append(g[i - 1], box[i])
  ELSE g[i - 1]

LEMMA AnswersInIsDefined ==
  ASSUME NEW box \in Seq(Message)
  PROVE  \E g : /\ g = [i \in 0..Len(box) |-> AnswersUpTo(g, box, i)]
                /\ AnswersIn(box) = g[Len(box)]
<1> DEFINE Upto(g, n) == g = [i \in 0..n |-> AnswersUpTo(g, box, i)]
           T == {n \in Nat : \E g : Upto(g, n)}
<1>1. 0 \in T
  <2> DEFINE z == [i \in 0..0 |-> <<>>]
  <2>1. z = [i \in 0..0 |-> AnswersUpTo(z, box, i)]
    BY DEF AnswersUpTo
  <2> QED BY <2>1
<1>2. ASSUME NEW n \in Nat, n \in T PROVE n + 1 \in T
  <2>1. PICK g : g = [i \in 0..n |-> AnswersUpTo(g, box, i)]
    BY <1>2
  <2> DEFINE h == [i \in 0..(n + 1) |-> IF i <= n THEN g[i]
                                        ELSE AnswersUpTo(g, box, n + 1)]
  <2>2. ASSUME NEW i \in 0..(n + 1) PROVE h[i] = AnswersUpTo(h, box, i)
    <3>1. CASE i = 0
      BY <3>1, <2>1 DEF AnswersUpTo
    <3>2. CASE i # 0
      <4>1. i - 1 \in 0..n /\ h[i - 1] = g[i - 1]
        BY <3>2
      <4>2. AnswersUpTo(h, box, i) = AnswersUpTo(g, box, i)
        BY <3>2, <4>1 DEF AnswersUpTo
      <4>3. h[i] = AnswersUpTo(g, box, i)
        <5>1. CASE i <= n
          BY <5>1, <2>1
        <5>2. CASE i = n + 1
          BY <5>2
        <5> QED BY <5>1, <5>2
      <4> QED BY <4>2, <4>3
    <3> QED BY <3>1, <3>2
  <2>3. h = [i \in 0..(n + 1) |-> AnswersUpTo(h, box, i)]
    <3> HIDE DEF h
    <3>1. DOMAIN h = 0..(n + 1) /\ h = [i \in 0..(n + 1) |-> h[i]]
      BY DEF h
    <3> QED BY <3>1, <2>2
  <2>4. Upto(h, n + 1)
    BY <2>3
  <2> HIDE DEF Upto, h
  <2> QED BY <2>4
<1>3. Len(box) \in T
  <2> HIDE DEF T
  <2> QED BY <1>1, <1>2, NumberInduction
<1> DEFINE Is(g) == Upto(g, Len(box))
<1>4. \E g : Is(g)
  BY <1>3
<1>5. Is(CHOOSE g : Is(g))
  BY <1>4
<1>6. AnswersIn(box) = (CHOOSE g : Is(g))[Len(box)]
  BY DEF AnswersIn, AnswersUpTo
<1> HIDE DEF Is
<1>7. \E g : Is(g) /\ AnswersIn(box) = g[Len(box)]
  BY <1>5, <1>6
<1> QED BY <1>7 DEF Is

\* What the answers of an inbox are: its answers, and no two for the same
\* coroutine if there were none before.
Single(q) == \A i, j \in DOMAIN q :
               IsAnswer(q[i]) /\ IsAnswer(q[j]) => (q[i].co = q[j].co => i = j)

AnswersOf(box, q) == \A k \in DOMAIN q :
                       IsAnswer(q[k]) /\ \E i \in DOMAIN box : box[i] = q[k]

LEMMA AnswersInFacts ==
  ASSUME NEW box \in Seq(Message)
  PROVE  /\ AnswersIn(box) \in Seq(Message)
         /\ AnswersOf(box, AnswersIn(box))
         /\ Single(box) => Single(AnswersIn(box))
<1>1. PICK g : /\ g = [i \in 0..Len(box) |-> AnswersUpTo(g, box, i)]
               /\ AnswersIn(box) = g[Len(box)]
  BY AnswersInIsDefined
<1> DEFINE Fine(i) == /\ g[i] \in Seq(Message)
                      /\ \A k \in DOMAIN g[i] :
                           IsAnswer(g[i][k]) /\ \E j \in 1..i : box[j] = g[i][k]
                      /\ Single(box) => Single(g[i])
           T == {n \in Nat : n <= Len(box) => Fine(n)}
<1>2. 0 \in T
  <2>1. g[0] = <<>>
    BY <1>1 DEF AnswersUpTo
  <2>2. g[0] \in Seq(Message) /\ \A k \in DOMAIN g[0] : FALSE
    BY <2>1
  <2> QED BY <2>2 DEF Single
<1>3. ASSUME NEW n \in Nat, n \in T PROVE n + 1 \in T
  <2>1. SUFFICES ASSUME n + 1 <= Len(box) PROVE Fine(n + 1)
    OBVIOUS
  <2>2. Fine(n) /\ n + 1 \in DOMAIN box /\ box[n + 1] \in Message
    BY <1>3, <2>1
  <2>3. g[n + 1] = IF box[n + 1].kind = "answer" THEN Append(g[n], box[n + 1]) ELSE g[n]
    <3>1. g[n + 1] = AnswersUpTo(g, box, n + 1)
      <4>1. n + 1 \in 0..Len(box)
        BY <2>1
      <4> QED BY <1>1, <4>1
    <3>2. n + 1 # 0 /\ (n + 1) - 1 = n
      OBVIOUS
    <3> QED BY <3>1, <3>2 DEF AnswersUpTo
  <2>4. CASE box[n + 1].kind # "answer"
    BY <2>2, <2>3, <2>4
  <2>5. CASE box[n + 1].kind = "answer"
    <3>1. g[n + 1] = Append(g[n], box[n + 1])
      BY <2>3, <2>5
    <3> DEFINE q == g[n]
               m == box[n + 1]
    <3>2. /\ q \in Seq(Message) /\ m \in Message
          /\ \A k \in DOMAIN q : IsAnswer(q[k]) /\ \E j \in 1..n : box[j] = q[k]
          /\ Single(box) => Single(q)
      BY <2>2
    <3>3. /\ Append(q, m) \in Seq(Message)
          /\ Append(q, m)[Len(q) + 1] = m
          /\ \A i \in DOMAIN q : Append(q, m)[i] = q[i]
          /\ \A i \in DOMAIN Append(q, m) : i \in DOMAIN q \/ i = Len(q) + 1
      BY <3>2, AppendFacts
    <3>4. \A k \in DOMAIN Append(q, m) : /\ IsAnswer(Append(q, m)[k])
                                         /\ \E j \in 1..(n + 1) : box[j] = Append(q, m)[k]
      BY <3>2, <3>3, <2>5 DEF IsAnswer
    <3>5. Single(box) => Single(Append(q, m))
      <4>1. SUFFICES ASSUME Single(box), NEW i \in DOMAIN Append(q, m),
                            NEW j \in DOMAIN Append(q, m),
                            Append(q, m)[i].co = Append(q, m)[j].co
                     PROVE  i = j
        BY DEF Single
      <4>2. ASSUME NEW k \in DOMAIN q, q[k].co = m.co PROVE FALSE
        <5>1. PICK l \in 1..n : box[l] = q[k]
          BY <3>2
        <5>2. l \in DOMAIN box /\ n + 1 \in DOMAIN box /\ l # n + 1
          BY <2>2
        <5>3. IsAnswer(box[l]) /\ IsAnswer(box[n + 1]) /\ box[l].co = box[n + 1].co
          BY <5>1, <3>2, <2>5, <4>2 DEF IsAnswer
        <5> QED BY <5>2, <5>3, <4>1 DEF Single
      <4>3. CASE i \in DOMAIN q /\ j \in DOMAIN q
        BY <4>1, <4>3, <3>2, <3>3 DEF Single
      <4>4. CASE i \in DOMAIN q /\ j = Len(q) + 1
        BY <4>1, <4>2, <4>4, <3>3
      <4>5. CASE i = Len(q) + 1 /\ j \in DOMAIN q
        BY <4>1, <4>2, <4>5, <3>3
      <4> QED BY <4>3, <4>4, <4>5, <3>3
    <3> HIDE DEF q, m
    <3> QED BY <3>1, <3>3, <3>4, <3>5 DEF q, m
  <2> QED BY <2>4, <2>5
<1>4. Len(box) \in T
  <2> HIDE DEF T
  <2> QED BY <1>2, <1>3, NumberInduction
<1>5. Fine(Len(box))
  BY <1>4
<1>6. DOMAIN box = 1..Len(box)
  OBVIOUS
<1> HIDE DEF T
<1> QED BY <1>1, <1>5, <1>6 DEF AnswersOf

-----------------------------------------------------------------------------
(* What the actions are made of. *)

\* The task in c goes on to wait as j, or ends.
GoesOn(s, c) == /\ conn[s] = "up"
                /\ \E j \in Job \ {"none"} : Ask(s, c, OpOf(j), j)
                /\ UNCHANGED free
Stops(s, c) == Ends(s, c) /\ UNCHANGED sent

LEMMA OpOfTypes == \A j \in Job \ {"none"} : OpOf(j) \in Op
  BY DEF Job, OpOf, Op

LEMMA ContinueIs ==
  ASSUME NEW s, NEW c, NEW a, Continue(s, c, a)
  PROVE  /\ job[s][c] # "none"
         /\ GoesOn(s, c) \/ Stops(s, c)
<1>1. OpOf("reg_create") = "create" /\ OpOf("get_wlist") = "wlist"
  BY DEF OpOf
<1>2. "reg_create" \in Job \ {"none"} /\ "get_wlist" \in Job \ {"none"}
  BY DEF Job
<1> QED BY <1>1, <1>2 DEF Continue, GoesOn, Stops

\* What a GetServers makes of an answer.
Reads(s, c, a) ==
  IF job[s][c] = "get"
  THEN /\ svr_set' = [svr_set EXCEPT ![s] = IF a.ok THEN a.children ELSE {}]
       /\ read' = [read EXCEPT ![s] = IF a.ok THEN a.version ELSE 0]
  ELSE UNCHANGED <<svr_set, read>>

LEMMA ContinueReads ==
  ASSUME NEW s, NEW c, NEW a, Continue(s, c, a)
  PROVE  Reads(s, c, a)
  BY DEF Continue, Reads

LEMMA AskTypes ==
  ASSUME TypeOK, NEW s \in Server, NEW c \in CoId, NEW j \in Job \ {"none"},
         NEW op, op = OpOf(j), Ask(s, c, op, j)
  PROVE  /\ sent' \in [Server -> Seq(Request)]
         /\ job' \in [Server -> [CoId -> Job]]
         /\ job'[s][c] = j
         /\ \A d \in CoId \ {c} : job'[s][d] = job[s][d]
         /\ sent'[s] = Append(sent[s], [op |-> op, co |-> c])
         /\ \A t \in Server \ {s} : job'[t] = job[t] /\ sent'[t] = sent[t]
<1>1. [op |-> op, co |-> c] \in Request
  BY OpOfTypes DEF Request
<1>2. sent \in [Server -> Seq(Request)] /\ job \in [Server -> [CoId -> Job]]
  BY DEF TypeOK
<1>3. Append(sent[s], [op |-> op, co |-> c]) \in Seq(Request)
  BY <1>1, <1>2, AppendFacts
<1> QED BY <1>2, <1>3 DEF Ask

\* The two calls a task is started with.
LEMMA BootAsks ==
  ASSUME TypeOK, NEW s \in Server, Boot(s)
  PROVE  /\ 1 \in CoId /\ "reg_wlist" \in Job \ {"none"} /\ OpOf("reg_wlist") = "wlist"
         /\ sent' \in [Server -> Seq(Request)] /\ job' \in [Server -> [CoId -> Job]]
         /\ job'[s][1] = "reg_wlist"
         /\ \A d \in CoId \ {1} : job'[s][d] = job[s][d]
         /\ sent'[s] = Append(sent[s], [op |-> "wlist", co |-> 1])
         /\ \A t \in Server \ {s} : job'[t] = job[t] /\ sent'[t] = sent[t]
<1> DEFINE c == 1
           j == "reg_wlist"
           op == "wlist"
<1>1. c \in CoId /\ j \in Job \ {"none"} /\ OpOf(j) = op
  BY DiscoveryAssumption DEF CoId, Job, OpOf
<1>2. Ask(s, c, op, j)
  BY DEF Boot
<1> HIDE DEF c, j, op
<1>3. /\ sent' \in [Server -> Seq(Request)] /\ job' \in [Server -> [CoId -> Job]]
      /\ job'[s][c] = j
      /\ \A d \in CoId \ {c} : job'[s][d] = job[s][d]
      /\ sent'[s] = Append(sent[s], [op |-> op, co |-> c])
      /\ \A t \in Server \ {s} : job'[t] = job[t] /\ sent'[t] = sent[t]
  BY <1>1, <1>2, AskTypes
<1> QED BY <1>1, <1>3 DEF c, j, op

LEMMA GetAsks ==
  ASSUME TypeOK, NEW s \in Server, NEW c \in CoId, Ask(s, c, "list", "get")
  PROVE  /\ "get" \in Job \ {"none"} /\ OpOf("get") = "list"
         /\ sent' \in [Server -> Seq(Request)] /\ job' \in [Server -> [CoId -> Job]]
         /\ job'[s][c] = "get"
         /\ \A d \in CoId \ {c} : job'[s][d] = job[s][d]
         /\ sent'[s] = Append(sent[s], [op |-> "list", co |-> c])
         /\ \A t \in Server \ {s} : job'[t] = job[t] /\ sent'[t] = sent[t]
<1> DEFINE j == "get"
           op == "list"
<1>1. j \in Job \ {"none"} /\ OpOf(j) = op /\ Ask(s, c, op, j)
  BY DEF Job, OpOf
<1> HIDE DEF j, op
<1>2. /\ sent' \in [Server -> Seq(Request)] /\ job' \in [Server -> [CoId -> Job]]
      /\ job'[s][c] = j
      /\ \A d \in CoId \ {c} : job'[s][d] = job[s][d]
      /\ sent'[s] = Append(sent[s], [op |-> op, co |-> c])
      /\ \A t \in Server \ {s} : job'[t] = job[t] /\ sent'[t] = sent[t]
  BY <1>1, AskTypes
<1> QED BY <1>1, <1>2 DEF j, op

LEMMA EndsTypes ==
  ASSUME TypeOK, NEW s \in Server, NEW c \in CoId, Ends(s, c)
  PROVE  /\ free' \in [Server -> Seq(CoId)]
         /\ job' \in [Server -> [CoId -> Job]]
         /\ job'[s][c] = "none"
         /\ \A d \in CoId \ {c} : job'[s][d] = job[s][d]
         /\ free'[s] = Append(free[s], c)
         /\ \A t \in Server \ {s} : job'[t] = job[t] /\ free'[t] = free[t]
<1>1. free \in [Server -> Seq(CoId)] /\ job \in [Server -> [CoId -> Job]]
  BY DEF TypeOK
<1>2. Append(free[s], c) \in Seq(CoId)
  BY <1>1, AppendFacts
<1>3. "none" \in Job
  BY DEF Job
<1> QED BY <1>1, <1>2, <1>3 DEF Ends

LEMMA ContinueTypes ==
  ASSUME TypeOK, NEW s \in Server, NEW c \in CoId, NEW a, Continue(s, c, a),
         a.children \subseteq Server, a.version \in Nat
  PROVE  /\ sent' \in [Server -> Seq(Request)]
         /\ job' \in [Server -> [CoId -> Job]]
         /\ free' \in [Server -> Seq(CoId)]
         /\ svr_set' \in [Server -> SUBSET Server]
         /\ read' \in [Server -> Nat]
<1>1. /\ sent' \in [Server -> Seq(Request)]
      /\ job' \in [Server -> [CoId -> Job]]
      /\ free' \in [Server -> Seq(CoId)]
  <2>1. CASE GoesOn(s, c)
    BY <2>1, AskTypes DEF GoesOn, TypeOK
  <2>2. CASE Stops(s, c)
    BY <2>2, EndsTypes DEF Stops, TypeOK
  <2> QED BY <2>1, <2>2, ContinueIs
<1>2. svr_set' \in [Server -> SUBSET Server] /\ read' \in [Server -> Nat]
  <2>1. svr_set \in [Server -> SUBSET Server] /\ read \in [Server -> Nat]
    BY DEF TypeOK
  <2>2. /\ (IF a.ok THEN a.children ELSE {}) \in SUBSET Server
        /\ (IF a.ok THEN a.version ELSE 0) \in Nat
    OBVIOUS
  <2>3. Reads(s, c, a)
    BY ContinueReads
  <2> QED BY <2>1, <2>2, <2>3 DEF Reads
<1> QED BY <1>1, <1>2

LEMMA TakesTypes ==
  ASSUME TypeOK, NEW s \in Server, NEW c \in CoId, Takes(s, c)
  PROVE  free' \in [Server -> Seq(CoId)] /\ inc' \in [Server -> 0..MaxCo]
<1>1. free \in [Server -> Seq(CoId)] /\ inc \in [Server -> 0..MaxCo]
  BY DEF TypeOK
<1>2. c \in 0..MaxCo
  BY DiscoveryAssumption DEF CoId
<1>3. free[s] # <<>> => Tail(free[s]) \in Seq(CoId)
  BY <1>1, HeadTailFacts
<1> QED BY <1>1, <1>2, <1>3 DEF Takes

LEMMA AnswerTypes ==
  ASSUME TypeOK, NEW op \in Op, NEW c \in CoId
  PROVE  /\ \A ok \in BOOLEAN : Answer(ok, op, c) \in Message
         /\ Failed(op, c) \in Message
         /\ Event \in Message /\ ~ IsAnswer(Event)
         /\ \A ok \in BOOLEAN : IsAnswer(Answer(ok, op, c))
         /\ IsAnswer(Failed(op, c))
  BY DEF TypeOK, Answer, Failed, Event, Message, Registered, IsAnswer

LEMMA MessageTypes ==
  ASSUME NEW m \in Message
  PROVE  /\ m.kind \in {"answer", "watch"}
         /\ IsAnswer(m) => /\ m.op \in Op /\ m.co \in CoId /\ m.ok \in BOOLEAN
                           /\ m.children \subseteq Server /\ m.version \in Nat
         /\ ~ IsAnswer(m) <=> m = Event
  BY DEF Message, Event, IsAnswer

\* The inbox of t after the event of a change.
Warned(t) == IF t \in Fired THEN Append(inbox[t], Event) ELSE inbox[t]

LEMMA WarnedTypes ==
  ASSUME TypeOK, NEW t \in Server
  PROVE  /\ Warned(t) \in Seq(Message)
         /\ inbox[t] \o (IF t \in Fired THEN <<Event>> ELSE <<>>) = Warned(t)
<1>1. inbox[t] \in Seq(Message) /\ Event \in Message
  BY DEF TypeOK, Message
<1>2. CASE t \in Fired
  <2>1. Warned(t) = Append(inbox[t], Event)
    BY <1>2 DEF Warned
  <2>2. inbox[t] \o <<Event>> = Append(inbox[t], Event)
    BY <1>1
  <2> QED BY <1>1, <1>2, <2>1, <2>2, AppendFacts
<1>3. CASE t \notin Fired
  <2>1. inbox[t] \o <<>> = inbox[t]
    BY <1>1
  <2> QED BY <1>1, <1>3, <2>1 DEF Warned
<1> QED BY <1>2, <1>3

LEMMA NotifyNobody ==
  ASSUME TypeOK, Notify(Nobody)
  PROVE  inbox' = [t \in Server |-> Warned(t)]
<1>1. ASSUME NEW t \in Server
      PROVE  inbox[t] \o (IF t \in Fired THEN <<Event>> ELSE <<>>) \o Nobody[t] = Warned(t)
  <2>1. Warned(t) \o <<>> = Warned(t)
    BY WarnedTypes
  <2>2. Nobody[t] = <<>>
    BY DEF Nobody
  <2> QED BY <2>1, <2>2, WarnedTypes
<1> QED BY <1>1 DEF Notify

LEMMA NotifyOne ==
  ASSUME TypeOK, NEW s \in Server, NEW m \in Message, Notify(To(s, m))
  PROVE  inbox' = [t \in Server |-> IF t = s THEN Append(Warned(t), m) ELSE Warned(t)]
<1>1. ASSUME NEW t \in Server
      PROVE  inbox[t] \o (IF t \in Fired THEN <<Event>> ELSE <<>>) \o To(s, m)[t]
               = IF t = s THEN Append(Warned(t), m) ELSE Warned(t)
  <2>1. Warned(t) \o <<>> = Warned(t) /\ Warned(t) \o <<m>> = Append(Warned(t), m)
    BY WarnedTypes
  <2>2. To(s, m)[t] = IF t = s THEN <<m>> ELSE <<>>
    BY DEF To, Nobody
  <2> QED BY <2>1, <2>2, WarnedTypes
<1> QED BY <1>1 DEF Notify

LEMMA NotifyTypes ==
  ASSUME TypeOK, NEW answers, Notify(answers)
  PROVE  /\ version' = version + 1 /\ version' \in Nat \ {0}
         /\ watch' \in [Server -> Nat]
         /\ \A t \in Server : watch'[t] = IF t \in Fired THEN 0 ELSE watch[t]
  BY DEF TypeOK, Notify

-----------------------------------------------------------------------------
(* Types. *)

LEMMA BootTypes ==
  ASSUME TypeOK, NEW s \in Server, Boot(s)
  PROVE  TypeOK'
<1>1. boots' \in 1..MaxBoots
  BY DiscoveryAssumption DEF Boot, TypeOK
<1>2. /\ conn' \in [Server -> {"off", "up", "broken", "expired"}]
      /\ session' \in [Server -> 0..MaxBoots] /\ alive' \subseteq 1..MaxBoots
      /\ inc' \in [Server -> 0..MaxCo]
  BY <1>1, DiscoveryAssumption DEF Boot, TypeOK
<1>3. sent' \in [Server -> Seq(Request)] /\ job' \in [Server -> [CoId -> Job]]
  BY BootAsks
<1> QED BY <1>1, <1>2, <1>3 DEF Boot, TypeOK

LEMMA StopTypes ==
  ASSUME TypeOK, NEW s \in Server, Stop(s)
  PROVE  TypeOK'
<1>1. [c \in CoId |-> "none"] \in [CoId -> Job]
  BY DEF Job
<1>2. <<>> \in Seq(CoId) /\ <<>> \in Seq(Request) /\ <<>> \in Seq(Message)
  OBVIOUS
<1>3. /\ conn' \in [Server -> {"off", "up", "broken", "expired"}]
      /\ job' \in [Server -> [CoId -> Job]]
      /\ free' \in [Server -> Seq(CoId)]
      /\ sent' \in [Server -> Seq(Request)]
      /\ inbox' \in [Server -> Seq(Message)]
  BY <1>1, <1>2 DEF Stop, TypeOK
<1>4. /\ svr_set' \in [Server -> SUBSET Server]
      /\ watch' \in [Server -> Nat] /\ wanted' \in [Server -> BOOLEAN]
      /\ read' \in [Server -> Nat]
  BY DEF Stop, TypeOK
<1> QED BY <1>3, <1>4 DEF Stop, TypeOK, zk, bounds

LEMMA ProcessTypes ==
  ASSUME TypeOK, NEW s \in Server, Process(s)
  PROVE  /\ TypeOK'
         /\ sent[s] # <<>> /\ Head(sent[s]) \in Request
<1> DEFINE q == Head(sent[s])
<1>1. /\ sent[s] # <<>> /\ q \in Request /\ Tail(sent[s]) \in Seq(Request)
      /\ sent' = [sent EXCEPT ![s] = Tail(sent[s])]
  BY HeadTailFacts DEF Process, TypeOK
<1>2. q.op \in Op /\ q.co \in CoId
  BY <1>1 DEF Request
<1>3. sent' \in [Server -> Seq(Request)]
  BY <1>1 DEF TypeOK
<1>4. /\ inbox' \in [Server -> Seq(Message)] /\ watch' \in [Server -> Nat]
      /\ owner' \in [Server -> 0..MaxBoots] /\ version' \in Nat \ {0}
  <2>1. \A ok \in BOOLEAN : Answer(ok, q.op, q.co) \in Message
    BY <1>2, AnswerTypes
  <2>2. \A ok \in BOOLEAN : Append(inbox[s], Answer(ok, q.op, q.co)) \in Seq(Message)
    BY <2>1, AppendFacts DEF TypeOK
  <2>3. CASE /\ q.op \in {"list", "wlist"}
             /\ inbox' = [inbox EXCEPT ![s] = Append(@, Answer(TRUE, q.op, q.co))]
             /\ watch' = [watch EXCEPT ![s] = IF q.op = "wlist" THEN version ELSE @]
             /\ UNCHANGED <<owner, version>>
    BY <2>2, <2>3 DEF TypeOK
  <2>4. CASE /\ q.op = "create" /\ s \notin Registered
             /\ owner' = [owner EXCEPT ![s] = session[s]]
             /\ Notify(To(s, Answer(TRUE, q.op, q.co)))
    <3> DEFINE m == Answer(TRUE, q.op, q.co)
    <3>0. m \in Message
      BY <2>1
    <3> HIDE DEF m
    <3>1. ASSUME NEW t \in Server PROVE Append(Warned(t), m) \in Seq(Message)
      BY <3>0, WarnedTypes, AppendFacts
    <3>2. inbox' \in [Server -> Seq(Message)]
      <4>1. Notify(To(s, m))
        BY <2>4 DEF m
      <4> QED BY <3>0, <3>1, <4>1, NotifyOne, WarnedTypes
    <3>3. owner' \in [Server -> 0..MaxBoots]
      BY <2>4 DEF TypeOK
    <3> QED BY <3>2, <3>3, <2>4, NotifyTypes
  <2>5. CASE /\ q.op = "create" /\ s \in Registered
             /\ inbox' = [inbox EXCEPT ![s] = Append(@, Answer(FALSE, q.op, q.co))]
             /\ UNCHANGED <<owner, version, watch>>
    BY <2>2, <2>5 DEF TypeOK
  <2> QED BY <2>3, <2>4, <2>5 DEF Process
<1> QED BY <1>1, <1>3, <1>4 DEF Process, TypeOK, client, bounds

\* Deliver, by what is delivered.
DeliversEvent(s) ==
  /\ Head(inbox[s]) = Event
  /\ wanted' = [wanted EXCEPT ![s] = FALSE]
  /\ StartGetServers(s)
DeliversAnswer(s, m) ==
  /\ IsAnswer(m)
  /\ wanted' = [wanted EXCEPT ![s] = @ \/ (m.ok /\ m.op = "wlist")]
  /\ Complete(s, m)
  /\ UNCHANGED inc
Delivered(s) ==
  /\ conn[s] \in {"up", "broken"} /\ inbox[s] # <<>>
  /\ inbox' = [inbox EXCEPT ![s] = Tail(@)]
  /\ UNCHANGED <<conn, session, watch, zk, bounds>>

LEMMA DeliverIs ==
  ASSUME TypeOK, NEW s \in Server, Deliver(s)
  PROVE  /\ Delivered(s)
         /\ Head(inbox[s]) \in Message
         /\ Head(inbox[s]) = inbox[s][1] /\ 1 \in DOMAIN inbox[s]
         /\ DeliversEvent(s) \/ DeliversAnswer(s, Head(inbox[s]))
<1>1. inbox[s] # <<>> /\ inbox[s] \in Seq(Message)
  BY DEF Deliver, TypeOK
<1>2. /\ Head(inbox[s]) \in Message
      /\ Head(inbox[s]) = inbox[s][1] /\ 1 \in DOMAIN inbox[s]
  BY <1>1, HeadTailFacts
<1>3. IsAnswer(Head(inbox[s])) \/ Head(inbox[s]) = Event
  BY <1>2, MessageTypes
<1> QED BY <1>2, <1>3 DEF Deliver, Delivered, DeliversEvent, DeliversAnswer, IsAnswer, Event

\* Complete continues the task, or finds none.
LEMMA CompleteIs ==
  ASSUME NEW s \in Server, NEW m \in Message, IsAnswer(m), Complete(s, m)
  PROVE  \/ /\ job[s][m.co] = "none"
            /\ UNCHANGED <<job, free, svr_set, sent, read, confused>>
         \/ \E a : /\ Continue(s, m.co, a)
                   /\ a.children \subseteq Server /\ a.version \in Nat
                   /\ SameType(m.op, job[s][m.co]) => a = m /\ UNCHANGED confused
                   /\ confused' \in {confused, TRUE}
<1>1. m.children \subseteq Server /\ m.version \in Nat
  BY MessageTypes
<1>2. CASE job[s][m.co] # "none" /\ m.ok /\ ~ SameType(m.op, job[s][m.co])
  <2>1. PICK seen \in SUBSET Server :
          Continue(s, m.co, [m EXCEPT !.children = seen, !.version = 0])
    BY <1>2 DEF Complete
  <2>2. confused' = TRUE
    BY <1>2 DEF Complete
  <2> DEFINE a == [m EXCEPT !.children = seen, !.version = 0]
  <2>3. a.children = seen /\ a.version = 0
    BY DEF Message, Event, IsAnswer
  <2>4. Continue(s, m.co, a)
    BY <2>1
  <2> HIDE DEF a
  <2>5. confused' \in {confused, TRUE}
    BY <2>2
  <2>6. SameType(m.op, job[s][m.co]) => a = m /\ UNCHANGED confused
    BY <1>2
  <2>7. a.children \subseteq Server /\ a.version \in Nat
    BY <2>3
  <2> QED BY <2>4, <2>5, <2>6, <2>7
<1> QED BY <1>1, <1>2 DEF Complete

LEMMA DeliverTypes ==
  ASSUME TypeOK, NEW s \in Server, Deliver(s)
  PROVE  TypeOK'
<1> DEFINE m == Head(inbox[s])
<1>1. Delivered(s) /\ m \in Message
  BY DeliverIs
<1>2. inbox' \in [Server -> Seq(Message)]
  BY <1>1, HeadTailFacts DEF Delivered, TypeOK
<1>3. CASE DeliversEvent(s)
  <2>1. PICK c \in CoId : /\ Takes(s, c) /\ Ask(s, c, "list", "get")
                          /\ UNCHANGED <<svr_set, read, confused>>
    BY <1>3 DEF DeliversEvent, StartGetServers
  <2>2. sent' \in [Server -> Seq(Request)] /\ job' \in [Server -> [CoId -> Job]]
    BY <2>1, GetAsks
  <2>3. free' \in [Server -> Seq(CoId)] /\ inc' \in [Server -> 0..MaxCo]
    BY <2>1, TakesTypes
  <2> QED BY <1>1, <1>2, <1>3, <2>1, <2>2, <2>3
          DEF TypeOK, Delivered, DeliversEvent, zk, bounds
<1>4. CASE DeliversAnswer(s, m)
  <2>1. m.co \in CoId /\ m.ok \in BOOLEAN
    BY <1>1, <1>4, MessageTypes DEF DeliversAnswer
  <2>2. wanted' \in [Server -> BOOLEAN]
    BY <1>4 DEF DeliversAnswer, TypeOK
  <2>3. /\ sent' \in [Server -> Seq(Request)]
        /\ job' \in [Server -> [CoId -> Job]]
        /\ free' \in [Server -> Seq(CoId)]
        /\ svr_set' \in [Server -> SUBSET Server]
        /\ read' \in [Server -> Nat]
        /\ confused' \in BOOLEAN
    <3> HIDE DEF m
    <3>1. CASE UNCHANGED <<job, free, svr_set, sent, read, confused>>
      BY <3>1 DEF TypeOK
    <3>2. ASSUME NEW a, Continue(s, m.co, a),
                 a.children \subseteq Server, a.version \in Nat,
                 confused' \in {confused, TRUE}
          PROVE  /\ sent' \in [Server -> Seq(Request)]
                 /\ job' \in [Server -> [CoId -> Job]]
                 /\ free' \in [Server -> Seq(CoId)]
                 /\ svr_set' \in [Server -> SUBSET Server]
                 /\ read' \in [Server -> Nat]
                 /\ confused' \in BOOLEAN
      BY <2>1, <3>2, ContinueTypes DEF TypeOK
    <3> QED BY <1>1, <1>4, <3>1, <3>2, CompleteIs DEF DeliversAnswer
  <2> QED BY <1>1, <1>2, <1>4, <2>2, <2>3
          DEF TypeOK, Delivered, DeliversAnswer, zk, bounds
<1> QED BY <1>3, <1>4, DeliverIs

LEMMA TimeOutTypes ==
  ASSUME TypeOK, NEW s \in Server, NEW c \in CoId, TimeOut(s, c)
  PROVE  TypeOK'
<1> DEFINE a == Failed(OpOf(job[s][c]), c)
<1>1. Continue(s, c, a) /\ time_outs' = time_outs + 1
  BY DEF TimeOut
<1>2. a.children \subseteq Server /\ a.version \in Nat
  BY DEF Failed
<1> HIDE DEF a
<1>3. /\ sent' \in [Server -> Seq(Request)]
      /\ job' \in [Server -> [CoId -> Job]]
      /\ free' \in [Server -> Seq(CoId)]
      /\ svr_set' \in [Server -> SUBSET Server]
      /\ read' \in [Server -> Nat]
  BY <1>1, <1>2, ContinueTypes
<1>4. time_outs' \in Nat
  BY <1>1 DEF TypeOK
<1> QED BY <1>3, <1>4 DEF TimeOut, TypeOK, zk

\* What Break puts into the inbox: an error for each thing that was asked.
BreakAsked(s) == AnswersIn(inbox[s]) \o sent[s]

LEMMA BreakInbox ==
  ASSUME TypeOK, NEW s \in Server, Break(s)
  PROVE  /\ inbox'[s] \in Seq(Message)
         /\ DOMAIN inbox'[s] = DOMAIN BreakAsked(s)
         /\ \A i \in DOMAIN BreakAsked(s) :
              inbox'[s][i] = Failed(BreakAsked(s)[i].op, BreakAsked(s)[i].co)
         /\ inbox' = [inbox EXCEPT ![s] = inbox'[s]]
         /\ \A i \in DOMAIN BreakAsked(s) :
              \/ i \in DOMAIN AnswersIn(inbox[s]) /\ BreakAsked(s)[i] = AnswersIn(inbox[s])[i]
              \/ /\ i - Len(AnswersIn(inbox[s])) \in DOMAIN sent[s]
                 /\ BreakAsked(s)[i] = sent[s][i - Len(AnswersIn(inbox[s]))]
<1> DEFINE q == AnswersIn(inbox[s])
           asked == BreakAsked(s)
<1>1. /\ inbox[s] \in Seq(Message) /\ sent[s] \in Seq(Request)
      /\ q \in Seq(Message) /\ AnswersOf(inbox[s], q)
  BY AnswersInFacts DEF TypeOK
<1>2. inbox' = [inbox EXCEPT ![s] =
                  [i \in DOMAIN asked |-> Failed(asked[i].op, asked[i].co)]]
  BY DEF Break, BreakAsked
<1>3. asked = q \o sent[s]
  BY DEF BreakAsked
<1> HIDE DEF q, asked
<1>4. /\ DOMAIN asked = 1..(Len(q) + Len(sent[s]))
      /\ \A i \in DOMAIN asked :
           \/ i \in DOMAIN q /\ asked[i] = q[i]
           \/ i - Len(q) \in DOMAIN sent[s] /\ asked[i] = sent[s][i - Len(q)]
  BY <1>1, <1>3
<1>5. ASSUME NEW i \in DOMAIN asked
      PROVE  asked[i].op \in Op /\ asked[i].co \in CoId
  <2>1. CASE i \in DOMAIN q /\ asked[i] = q[i]
    <3>1. IsAnswer(q[i]) /\ q[i] \in Message
      BY <1>1, <2>1 DEF AnswersOf
    <3> QED BY <2>1, <3>1, MessageTypes
  <2>2. CASE i - Len(q) \in DOMAIN sent[s] /\ asked[i] = sent[s][i - Len(q)]
    <3>1. asked[i] \in Request
      BY <1>1, <2>2
    <3> QED BY <3>1 DEF Request
  <2> QED BY <1>4, <2>1, <2>2
<1>6. \A i \in DOMAIN asked : Failed(asked[i].op, asked[i].co) \in Message
  BY <1>5, AnswerTypes
<1> DEFINE box == [i \in DOMAIN asked |-> Failed(asked[i].op, asked[i].co)]
<1>7. box \in Seq(Message) /\ DOMAIN box = DOMAIN asked
  <2>1. Len(q) + Len(sent[s]) \in Nat
    BY <1>1
  <2> QED BY <1>4, <1>6, <2>1
<1>8. inbox'[s] = box
  BY <1>2 DEF TypeOK
<1> QED BY <1>2, <1>4, <1>7, <1>8 DEF q, asked

LEMMA BreakTypes ==
  ASSUME TypeOK, NEW s \in Server, Break(s)
  PROVE  TypeOK'
<1>1. inbox' \in [Server -> Seq(Message)]
  BY BreakInbox DEF TypeOK
<1>2. sent' \in [Server -> Seq(Request)]
  BY DEF Break, TypeOK
<1>3. conn' \in [Server -> {"off", "up", "broken", "expired"}] /\ faults' \in Nat
  <2>1. conn \in [Server -> {"off", "up", "broken", "expired"}] /\ faults \in Nat
    BY DEF TypeOK
  <2> QED BY <2>1 DEF Break
<1>4. watch' \in [Server -> Nat]
  <2>1. version - 1 \in Nat /\ version \in Nat
    BY DEF TypeOK
  <2>2. (CASE ~ wanted[s] -> 0
           [] wanted[s] /\ Contains(inbox[s], Event) -> version - 1
           [] OTHER -> version) \in Nat
    BY <2>1
  <2> QED BY <2>2 DEF Break, TypeOK
<1> QED BY <1>1, <1>2, <1>3, <1>4 DEF Break, TypeOK, client, zk

LEMMA HealTypes ==
  ASSUME TypeOK, NEW s \in Server, Heal(s)
  PROVE  TypeOK'
<1>1. <<Event>> \in Seq(Message)
  BY DEF Message
<1>2. inbox' \in [Server -> Seq(Message)] /\ watch' \in [Server -> Nat]
  <2>1. CASE UNCHANGED <<inbox, watch>>
    BY <2>1 DEF TypeOK
  <2>2. CASE /\ inbox' = [inbox EXCEPT ![s] = <<Event>>]
             /\ watch' = [watch EXCEPT ![s] = 0]
    BY <1>1, <2>2 DEF TypeOK
  <2> QED BY <2>1, <2>2 DEF Heal
<1>3. conn' \in [Server -> {"off", "up", "broken", "expired"}]
  BY DEF Heal, TypeOK
<1> QED BY <1>2, <1>3 DEF Heal, TypeOK, client, zk, bounds

LEMMA ExpireTypes ==
  ASSUME TypeOK, NEW x \in alive, Expire(x)
  PROVE  TypeOK'
<1>1. owner' \in [Server -> 0..MaxBoots] /\ alive' \subseteq 1..MaxBoots
  BY DiscoveryAssumption DEF Expire, TypeOK, NoSession
<1>2. /\ inbox' \in [Server -> Seq(Message)] /\ watch' \in [Server -> Nat]
      /\ version' \in Nat \ {0}
  <2>1. CASE Notify(Nobody)
    BY <2>1, NotifyNobody, NotifyTypes, WarnedTypes
  <2>2. CASE UNCHANGED <<inbox, watch, version>>
    BY <2>2 DEF TypeOK
  <2> QED BY <2>1, <2>2 DEF Expire
<1> QED BY <1>1, <1>2 DEF Expire, TypeOK, client, bounds

LEMMA NextTypes ==
  ASSUME TypeOK, [Next]_vars
  PROVE  TypeOK'
<1>1. CASE UNCHANGED vars
  BY <1>1 DEF vars, client, zk, bounds, TypeOK
<1> QED
  BY <1>1, BootTypes, StopTypes, ProcessTypes, DeliverTypes, TimeOutTypes,
     BreakTypes, HealTypes, ExpireTypes DEF Next

-----------------------------------------------------------------------------
(* The pool of coroutines, and servers that do not run. *)

LEMMA PoolElsewhere ==
  ASSUME NEW t, PoolOf(t), free'[t] = free[t], inc'[t] = inc[t], job'[t] = job[t]
  PROVE  PoolOf(t)'
  BY DEF PoolOf

LEMMA OffElsewhere ==
  ASSUME NEW t, OffOf(t), conn'[t] = conn[t], free'[t] = free[t], job'[t] = job[t],
         sent'[t] = sent[t], inbox'[t] = inbox[t], watch'[t] = watch[t]
  PROVE  OffOf(t)'
  BY DEF OffOf

LEMMA PoolGoesOn ==
  ASSUME TypeOK, NEW s \in Server, PoolOf(s), NEW c \in CoId, job[s][c] # "none",
         GoesOn(s, c), inc' = inc
  PROVE  PoolOf(s)'
<1>1. PICK j \in Job \ {"none"} : Ask(s, c, OpOf(j), j)
  BY DEF GoesOn
<1>2. /\ job'[s][c] = j
      /\ \A d \in CoId \ {c} : job'[s][d] = job[s][d]
  BY <1>1, AskTypes
<1>3. free' = free /\ free[s] \in Seq(CoId) /\ inc[s] \in 0..MaxCo
  BY DEF GoesOn, TypeOK
<1>4. \A i \in DOMAIN free[s] : free[s][i] \in CoId \ {c}
  BY <1>3 DEF PoolOf
<1> QED BY <1>2, <1>3, <1>4 DEF PoolOf, CoId

LEMMA PoolStops ==
  ASSUME TypeOK, NEW s \in Server, PoolOf(s), NEW c \in CoId, job[s][c] # "none",
         Stops(s, c), inc' = inc
  PROVE  PoolOf(s)'
<1>1. /\ job'[s][c] = "none"
      /\ \A d \in CoId \ {c} : job'[s][d] = job[s][d]
      /\ free'[s] = Append(free[s], c)
  BY EndsTypes DEF Stops
<1>2. free[s] \in Seq(CoId) /\ inc[s] \in 0..MaxCo /\ c \in Int
  BY DEF TypeOK, CoId
<1>3. /\ \A i \in DOMAIN free[s] : free[s][i] \in CoId \ {c}
      /\ c <= inc[s]
  BY <1>2 DEF PoolOf
<1>4. /\ free'[s][Len(free[s]) + 1] = c
      /\ \A i \in DOMAIN free[s] : free'[s][i] = free[s][i]
      /\ \A i \in DOMAIN free'[s] : i \in DOMAIN free[s] \/ i = Len(free[s]) + 1
  BY <1>1, <1>2, AppendFacts
<1>5. \A i, j \in DOMAIN free'[s] : free'[s][i] = free'[s][j] => i = j
  BY <1>3, <1>4 DEF PoolOf
<1>6. \A i \in DOMAIN free'[s] : free'[s][i] <= inc'[s] /\ job'[s][free'[s][i]] = "none"
  BY <1>1, <1>3, <1>4 DEF PoolOf
<1>7. \A d \in CoId : d > inc'[s] => job'[s][d] = "none"
  BY <1>1 DEF PoolOf
<1> QED BY <1>5, <1>6, <1>7 DEF PoolOf

LEMMA PoolTakes ==
  ASSUME TypeOK, NEW s \in Server, PoolOf(s), NEW c \in CoId, Takes(s, c),
         Ask(s, c, "list", "get")
  PROVE  /\ PoolOf(s)'
         /\ job[s][c] = "none"
         /\ \A t \in Server \ {s} : free'[t] = free[t] /\ inc'[t] = inc[t]
<1>2. /\ job'[s][c] = "get"
      /\ \A d \in CoId \ {c} : job'[s][d] = job[s][d]
  BY GetAsks
<1>3. free[s] \in Seq(CoId) /\ inc[s] \in 0..MaxCo /\ c \in Int
  BY DEF TypeOK, CoId
<1>4. free \in [Server -> Seq(CoId)] /\ inc \in [Server -> 0..MaxCo]
  BY DEF TypeOK
<1>5. CASE /\ free[s] # <<>> /\ c = Head(free[s])
           /\ free' = [free EXCEPT ![s] = Tail(@)]
           /\ UNCHANGED inc
  <2>1. /\ 1 \in DOMAIN free[s] /\ c = free[s][1]
        /\ free'[s] = Tail(free[s])
        /\ \A i \in DOMAIN free'[s] : /\ i + 1 \in DOMAIN free[s]
                                      /\ free'[s][i] = free[s][i + 1]
                                      /\ i \in Nat /\ i + 1 # 1
    BY <1>3, <1>4, <1>5, HeadTailFacts
  <2>2. \A i \in DOMAIN free'[s] : free'[s][i] \in CoId \ {c}
    BY <1>3, <2>1 DEF PoolOf
  <2>3. job[s][c] = "none" /\ c <= inc[s]
    BY <2>1 DEF PoolOf
  <2>4. \A i, j \in DOMAIN free'[s] : free'[s][i] = free'[s][j] => i = j
    BY <2>1 DEF PoolOf
  <2>5. \A i \in DOMAIN free'[s] : free'[s][i] <= inc'[s] /\ job'[s][free'[s][i]] = "none"
    BY <1>2, <1>5, <2>1, <2>2 DEF PoolOf
  <2>6. \A d \in CoId : d > inc'[s] => job'[s][d] = "none"
    BY <1>2, <1>3, <1>5, <2>3 DEF PoolOf
  <2> QED BY <1>4, <1>5, <2>3, <2>4, <2>5, <2>6 DEF PoolOf
<1>6. CASE /\ free[s] = <<>> /\ c = inc[s] + 1
           /\ inc' = [inc EXCEPT ![s] = c]
           /\ UNCHANGED free
  <2>1. job[s][c] = "none"
    BY <1>3, <1>6 DEF PoolOf
  <2>2. \A i \in DOMAIN free'[s] : FALSE
    BY <1>6
  <2>3. ASSUME NEW d \in CoId, d > inc'[s] PROVE job'[s][d] = "none"
    <3>1. inc'[s] = inc[s] + 1 /\ inc[s] \in Int /\ d \in Int
      BY <1>3, <1>4, <1>6 DEF CoId
    <3>2. d # c /\ d > inc[s]
      BY <1>6, <2>3, <3>1
    <3> QED BY <1>2, <3>2 DEF PoolOf
  <2> QED BY <1>4, <1>6, <2>1, <2>2, <2>3 DEF PoolOf
<1> QED BY <1>5, <1>6 DEF Takes

Basics == TypeOK /\ PoolInv

\* A task of s goes on or ends, and nothing but its wait is touched elsewhere.
LEMMA PoolContinues ==
  ASSUME Basics, NEW s \in Server, NEW c \in CoId, NEW a, Continue(s, c, a),
         inc' = inc, conn[s] # "off", conn' = conn, watch' = watch,
         \A t \in Server \ {s} : inbox'[t] = inbox[t]
  PROVE  PoolInv'
<1>1. job[s][c] # "none" /\ (GoesOn(s, c) \/ Stops(s, c))
  BY ContinueIs
<1>2. PoolOf(s)'
  BY <1>1, PoolGoesOn, PoolStops DEF Basics, PoolInv
<1>3. OffOf(s)'
  BY DEF OffOf
<1>4. ASSUME NEW t \in Server \ {s} PROVE PoolOf(t)' /\ OffOf(t)'
  <2>1. job'[t] = job[t] /\ free'[t] = free[t] /\ sent'[t] = sent[t]
    <3>1. CASE GoesOn(s, c)
      BY <3>1, AskTypes DEF GoesOn, Basics
    <3>2. CASE Stops(s, c)
      BY <3>2, EndsTypes DEF Stops, Basics
    <3> QED BY <1>1, <3>1, <3>2
  <2> QED BY <2>1, PoolElsewhere, OffElsewhere DEF Basics, PoolInv
<1> QED BY <1>2, <1>3, <1>4 DEF PoolInv

\* Where nothing is watched, no event goes.
LEMMA NotFired ==
  ASSUME NEW t \in Server, conn[t] = "off"
  PROVE  t \notin Fired /\ Warned(t) = inbox[t]
  BY DEF Fired, Warned

LEMMA BootPool ==
  ASSUME Basics, NEW s \in Server, Boot(s)
  PROVE  PoolInv'
<1>1. /\ \A d \in CoId \ {1} : job'[s][d] = job[s][d]
      /\ \A t \in Server \ {s} : job'[t] = job[t] /\ sent'[t] = sent[t]
  BY BootAsks DEF Basics
<1>2. /\ inc'[s] = 1 /\ conn'[s] = "up" /\ free' = free /\ inbox' = inbox /\ watch' = watch
      /\ \A t \in Server \ {s} : inc'[t] = inc[t] /\ conn'[t] = conn[t]
  BY DEF Boot, Basics, TypeOK
<1>3. free[s] = <<>> /\ \A c \in CoId : job[s][c] = "none"
  BY DEF Boot, Basics, PoolInv, OffOf
<1>4. PoolOf(s)'
  <2>1. \A i \in DOMAIN free'[s] : FALSE
    BY <1>2, <1>3
  <2>2. \A d \in CoId : d > inc'[s] => job'[s][d] = "none"
    BY <1>1, <1>2, <1>3
  <2> QED BY <2>1, <2>2 DEF PoolOf
<1>5. OffOf(s)'
  BY <1>2 DEF OffOf
<1>6. ASSUME NEW t \in Server \ {s} PROVE PoolOf(t)' /\ OffOf(t)'
  BY <1>1, <1>2, PoolElsewhere, OffElsewhere DEF Basics, PoolInv
<1> QED BY <1>4, <1>5, <1>6 DEF PoolInv

LEMMA StopPool ==
  ASSUME Basics, NEW s \in Server, Stop(s)
  PROVE  PoolInv'
<1>1. /\ free'[s] = <<>> /\ job'[s] = [c \in CoId |-> "none"]
      /\ sent'[s] = <<>> /\ inbox'[s] = <<>> /\ watch'[s] = 0
  BY DEF Stop, Basics, TypeOK
<1>2. \A i \in DOMAIN free'[s] : FALSE
  BY <1>1
<1>3. PoolOf(s)' /\ OffOf(s)'
  BY <1>1, <1>2 DEF PoolOf, OffOf
<1>4. ASSUME NEW t \in Server \ {s} PROVE PoolOf(t)' /\ OffOf(t)'
  <2>1. /\ conn'[t] = conn[t] /\ job'[t] = job[t] /\ free'[t] = free[t]
        /\ sent'[t] = sent[t] /\ inbox'[t] = inbox[t] /\ watch'[t] = watch[t]
        /\ inc'[t] = inc[t]
    BY DEF Stop, Basics, TypeOK
  <2> QED BY <2>1, PoolElsewhere, OffElsewhere DEF Basics, PoolInv
<1> QED BY <1>3, <1>4 DEF PoolInv

\* What Process and Expire do, server by server.
ProcessesQuietly(s, m) ==
  /\ UNCHANGED <<owner, version>>
  /\ inbox'[s] = Append(inbox[s], m)
  /\ watch'[s] = IF m.op = "wlist" THEN version ELSE watch[s]
  /\ \A t \in Server \ {s} : inbox'[t] = inbox[t] /\ watch'[t] = watch[t]
Changes(t) == watch'[t] = IF t \in Fired THEN 0 ELSE watch[t]
ProcessesChange(s, m) ==
  /\ m.op = "create" /\ version' = version + 1
  /\ inbox'[s] = Append(Warned(s), m) /\ Changes(s)
  /\ \A t \in Server \ {s} : inbox'[t] = Warned(t) /\ Changes(t)
Replies(s, m) ==
  /\ m \in Message /\ IsAnswer(m)
  /\ m.op = Head(sent[s]).op /\ m.co = Head(sent[s]).co
  /\ m.version = version /\ m.children = Registered

LEMMA ProcessIs ==
  ASSUME TypeOK, NEW s \in Server, Process(s)
  PROVE  /\ conn[s] = "up" /\ sent[s] # <<>> /\ sent'[s] = Tail(sent[s])
         /\ \A t \in Server \ {s} : sent'[t] = sent[t]
         /\ UNCHANGED <<conn, job, free, inc, svr_set, read, faults, time_outs, confused>>
         /\ \E m : Replies(s, m) /\ (ProcessesQuietly(s, m) \/ ProcessesChange(s, m))
<1> DEFINE q == Head(sent[s])
<1>1. q.op \in Op /\ q.co \in CoId
  BY ProcessTypes DEF Request
<1>2. /\ conn[s] = "up" /\ sent[s] # <<>> /\ sent'[s] = Tail(sent[s])
      /\ \A t \in Server \ {s} : sent'[t] = sent[t]
      /\ UNCHANGED <<conn, job, free, inc, svr_set, read, faults, time_outs, confused>>
  BY DEF Process, TypeOK, client, bounds
<1>3. ASSUME NEW ok \in BOOLEAN PROVE Replies(s, Answer(ok, q.op, q.co))
  <2>1. Answer(ok, q.op, q.co) \in Message /\ IsAnswer(Answer(ok, q.op, q.co))
    BY <1>1, AnswerTypes
  <2> QED BY <2>1 DEF Replies, Answer
<1>4. CASE /\ q.op \in {"list", "wlist"}
           /\ inbox' = [inbox EXCEPT ![s] = Append(@, Answer(TRUE, q.op, q.co))]
           /\ watch' = [watch EXCEPT ![s] = IF q.op = "wlist" THEN version ELSE @]
           /\ UNCHANGED <<owner, version>>
  <2>1. ProcessesQuietly(s, Answer(TRUE, q.op, q.co))
    BY <1>4 DEF ProcessesQuietly, Answer, TypeOK
  <2> QED BY <1>2, <1>3, <2>1
<1>5. CASE /\ q.op = "create" /\ s \notin Registered
           /\ Notify(To(s, Answer(TRUE, q.op, q.co)))
  <2> DEFINE m == Answer(TRUE, q.op, q.co)
  <2>1. Replies(s, m) /\ m.op = "create"
    BY <1>3, <1>5 DEF Answer
  <2> HIDE DEF m
  <2>2. Notify(To(s, m)) /\ m \in Message
    BY <1>5, <2>1 DEF m, Replies
  <2>3. ProcessesChange(s, m)
    BY <2>1, <2>2, NotifyOne, NotifyTypes DEF ProcessesChange, Changes
  <2> QED BY <1>2, <2>1, <2>3
<1>6. CASE /\ q.op = "create" /\ s \in Registered
           /\ inbox' = [inbox EXCEPT ![s] = Append(@, Answer(FALSE, q.op, q.co))]
           /\ UNCHANGED <<owner, version, watch>>
  <2>1. ProcessesQuietly(s, Answer(FALSE, q.op, q.co))
    BY <1>6 DEF ProcessesQuietly, Answer, TypeOK
  <2> QED BY <1>2, <1>3, <2>1
<1> QED BY <1>4, <1>5, <1>6 DEF Process

LEMMA ExpireIs ==
  ASSUME TypeOK, NEW x \in alive, Expire(x)
  PROVE  /\ UNCHANGED <<conn, job, free, inc, svr_set, sent, read, faults, time_outs, confused>>
         /\ \/ UNCHANGED <<owner, version, inbox, watch>>
            \/ /\ version' = version + 1
               /\ \A t \in Server : inbox'[t] = Warned(t) /\ Changes(t)
<1>1. UNCHANGED <<conn, job, free, inc, svr_set, sent, read, faults, time_outs, confused>>
  BY DEF Expire, client, bounds
<1>2. CASE \E s \in Server : owner[s] = x
  <2>1. Notify(Nobody)
    BY <1>2 DEF Expire
  <2> QED BY <1>1, <2>1, NotifyNobody, NotifyTypes DEF Changes
<1>3. CASE ~ \E s \in Server : owner[s] = x
  <2>1. owner' = owner
    BY <1>3 DEF Expire, TypeOK
  <2> QED BY <1>1, <1>3, <2>1 DEF Expire
<1> QED BY <1>2, <1>3

LEMMA ProcessPool ==
  ASSUME Basics, NEW s \in Server, Process(s)
  PROVE  PoolInv'
<1>1. PICK m : /\ conn[s] = "up" /\ UNCHANGED <<conn, job, free, inc>>
               /\ \A t \in Server \ {s} : sent'[t] = sent[t]
               /\ ProcessesQuietly(s, m) \/ ProcessesChange(s, m)
  BY ProcessIs DEF Basics
<1>2. ASSUME NEW t \in Server PROVE PoolOf(t)'
  BY <1>1, PoolElsewhere DEF Basics, PoolInv
<1>3. OffOf(s)'
  BY <1>1 DEF OffOf
<1>4. ASSUME NEW t \in Server \ {s} PROVE OffOf(t)'
  <2>1. SUFFICES ASSUME conn[t] = "off" PROVE OffOf(t)'
    BY <1>1 DEF OffOf
  <2>2. inbox'[t] = inbox[t] /\ watch'[t] = watch[t]
    BY <1>1, <2>1, NotFired DEF ProcessesQuietly, ProcessesChange, Changes
  <2> QED BY <1>1, <2>2, OffElsewhere DEF Basics, PoolInv
<1> QED BY <1>2, <1>3, <1>4 DEF PoolInv

LEMMA ExpirePool ==
  ASSUME Basics, NEW x \in alive, Expire(x)
  PROVE  PoolInv'
<1>1. /\ UNCHANGED <<conn, job, free, inc, sent>>
      /\ \/ UNCHANGED <<inbox, watch>>
         \/ \A t \in Server : inbox'[t] = Warned(t) /\ Changes(t)
  BY ExpireIs DEF Basics
<1>2. ASSUME NEW t \in Server PROVE PoolOf(t)' /\ OffOf(t)'
  <2>1. PoolOf(t)'
    BY <1>1, PoolElsewhere DEF Basics, PoolInv
  <2>2. CASE conn[t] # "off"
    BY <1>1, <2>1, <2>2 DEF OffOf
  <2>3. CASE conn[t] = "off"
    <3>1. inbox'[t] = inbox[t] /\ watch'[t] = watch[t]
      BY <1>1, <2>3, NotFired DEF Changes
    <3> QED BY <1>1, <2>1, <3>1, OffElsewhere DEF Basics, PoolInv
  <2> QED BY <2>2, <2>3
<1> QED BY <1>2 DEF PoolInv

LEMMA DeliverPool ==
  ASSUME Basics, NEW s \in Server, Deliver(s)
  PROVE  PoolInv'
<1> DEFINE m == Head(inbox[s])
<1>1. Delivered(s) /\ m \in Message
  BY DeliverIs DEF Basics
<1>2. /\ conn[s] # "off" /\ conn' = conn /\ watch' = watch
      /\ \A t \in Server \ {s} : inbox'[t] = inbox[t]
  BY <1>1 DEF Delivered, Basics, TypeOK
<1>3. CASE DeliversEvent(s)
  <2>1. PICK c \in CoId : Takes(s, c) /\ Ask(s, c, "list", "get")
    BY <1>3 DEF DeliversEvent, StartGetServers
  <2>2. \A t \in Server \ {s} : job'[t] = job[t] /\ sent'[t] = sent[t]
    BY <2>1, GetAsks DEF Basics
  <2>3. PoolOf(s)' /\ \A t \in Server \ {s} : free'[t] = free[t] /\ inc'[t] = inc[t]
    BY <2>1, PoolTakes DEF Basics, PoolInv
  <2>4. OffOf(s)'
    BY <1>2 DEF OffOf
  <2>5. ASSUME NEW t \in Server \ {s} PROVE PoolOf(t)' /\ OffOf(t)'
    BY <1>2, <2>2, <2>3, PoolElsewhere, OffElsewhere DEF Basics, PoolInv
  <2> QED BY <2>3, <2>4, <2>5 DEF PoolInv
<1>4. CASE DeliversAnswer(s, m)
  <2>1. IsAnswer(m) /\ Complete(s, m) /\ inc' = inc /\ m.co \in CoId
    BY <1>1, <1>4, MessageTypes DEF DeliversAnswer
  <2> HIDE DEF m
  <2>2. CASE UNCHANGED <<job, free, svr_set, sent, read, confused>>
    <3>1. OffOf(s)'
      BY <1>2 DEF OffOf
    <3>2. ASSUME NEW t \in Server \ {s} PROVE OffOf(t)'
      BY <1>2, <2>2, OffElsewhere DEF Basics, PoolInv
    <3>3. ASSUME NEW t \in Server PROVE PoolOf(t)'
      BY <2>1, <2>2, PoolElsewhere DEF Basics, PoolInv
    <3> QED BY <3>1, <3>2, <3>3 DEF PoolInv
  <2>3. CASE \E a : Continue(s, m.co, a)
    BY <1>2, <2>1, <2>3, PoolContinues
  <2> QED BY <1>1, <2>1, <2>2, <2>3, CompleteIs
<1> QED BY <1>3, <1>4, DeliverIs DEF Basics

LEMMA TimeOutPool ==
  ASSUME Basics, NEW s \in Server, NEW c \in CoId, TimeOut(s, c)
  PROVE  PoolInv'
<1>1. /\ Continue(s, c, Failed(OpOf(job[s][c]), c))
      /\ inc' = inc /\ conn[s] # "off" /\ conn' = conn /\ watch' = watch /\ inbox' = inbox
  BY DEF TimeOut
<1> QED BY <1>1, PoolContinues

LEMMA BreakPool ==
  ASSUME Basics, NEW s \in Server, Break(s)
  PROVE  PoolInv'
<1>1. UNCHANGED <<job, free, inc>> /\ conn'[s] = "broken"
  BY DEF Break, client, Basics, TypeOK
<1>2. ASSUME NEW t \in Server \ {s}
      PROVE  /\ conn'[t] = conn[t] /\ sent'[t] = sent[t]
             /\ inbox'[t] = inbox[t] /\ watch'[t] = watch[t]
  BY DEF Break, Basics, TypeOK
<1>3. ASSUME NEW t \in Server PROVE PoolOf(t)'
  BY <1>1, PoolElsewhere DEF Basics, PoolInv
<1>4. OffOf(s)'
  BY <1>1 DEF OffOf
<1>5. ASSUME NEW t \in Server \ {s} PROVE OffOf(t)'
  BY <1>1, <1>2, OffElsewhere DEF Basics, PoolInv
<1> QED BY <1>3, <1>4, <1>5 DEF PoolInv

LEMMA HealPool ==
  ASSUME Basics, NEW s \in Server, Heal(s)
  PROVE  PoolInv'
<1>1. UNCHANGED <<job, free, inc, sent>> /\ conn'[s] # "off"
  BY DEF Heal, client, Basics, TypeOK
<1>2. ASSUME NEW t \in Server \ {s}
      PROVE  conn'[t] = conn[t] /\ inbox'[t] = inbox[t] /\ watch'[t] = watch[t]
  BY DEF Heal, Basics, TypeOK
<1>3. ASSUME NEW t \in Server PROVE PoolOf(t)'
  BY <1>1, PoolElsewhere DEF Basics, PoolInv
<1>4. OffOf(s)'
  BY <1>1 DEF OffOf
<1>5. ASSUME NEW t \in Server \ {s} PROVE OffOf(t)'
  BY <1>1, <1>2, OffElsewhere DEF Basics, PoolInv
<1> QED BY <1>3, <1>4, <1>5 DEF PoolInv

LEMMA NextBasics ==
  ASSUME Basics, [Next]_vars
  PROVE  Basics'
<1>1. TypeOK'
  BY NextTypes DEF Basics
<1>2. PoolInv'
  <2>1. CASE UNCHANGED vars
    BY <2>1 DEF vars, client, Basics, PoolInv, PoolOf, OffOf
  <2> QED
    BY <2>1, BootPool, StopPool, ProcessPool, DeliverPool, TimeOutPool,
       BreakPool, HealPool, ExpirePool DEF Next
<1> QED BY <1>1, <1>2 DEF Basics

-----------------------------------------------------------------------------
(* What is asked is waited for: facts about one inbox, one queue of requests *)
(* and the coroutines of one server.                                         *)

LEMMA AskedEvent ==
  ASSUME NEW box \in Seq(Message), NEW out \in Seq(Request), NEW jobs,
         Asked(box, out, jobs)
  PROVE  Asked(Append(box, Event), out, jobs)
<1>1. Event \in Message /\ ~ IsAnswer(Event)
  BY DEF Message, Event, IsAnswer
<1>2. /\ \A i \in DOMAIN box : Append(box, Event)[i] = box[i]
      /\ Append(box, Event)[Len(box) + 1] = Event
      /\ \A i \in DOMAIN Append(box, Event) : i \in DOMAIN box \/ i = Len(box) + 1
  BY <1>1, AppendFacts
<1> DEFINE b == Append(box, Event)
<1>3. \A i \in DOMAIN b : IsAnswer(b[i]) => i \in DOMAIN box /\ b[i] = box[i]
  BY <1>1, <1>2
<1> HIDE DEF b
<1>4. Asked(b, out, jobs)
  BY <1>3 DEF Asked
<1> QED BY <1>4 DEF b

LEMMA AskedAnswer ==
  ASSUME NEW box \in Seq(Message), NEW out \in Seq(Request), NEW jobs,
         Asked(box, out, jobs), out # <<>>, NEW m \in Message, IsAnswer(m),
         m.op = Head(out).op, m.co = Head(out).co
  PROVE  Asked(Append(box, m), Tail(out), jobs)
<1> DEFINE b == Append(box, m)
           o == Tail(out)
<1>1. /\ 1 \in DOMAIN out /\ m.op = out[1].op /\ m.co = out[1].co
      /\ \A i \in DOMAIN o : i + 1 \in DOMAIN out /\ o[i] = out[i + 1] /\ i \in Nat /\ i + 1 # 1
  BY HeadTailFacts
<1>2. /\ \A i \in DOMAIN box : b[i] = box[i]
      /\ b[Len(box) + 1] = m
      /\ \A i \in DOMAIN b : i \in DOMAIN box \/ i = Len(box) + 1
  BY AppendFacts
<1> HIDE DEF b, o
<1>3. Waits(jobs, m)
  BY <1>1 DEF Asked, Waits
<1>4. \A i \in DOMAIN b : IsAnswer(b[i]) => Waits(jobs, b[i])
  BY <1>2, <1>3 DEF Asked
<1>5. \A i \in DOMAIN o : Waits(jobs, o[i])
  BY <1>1 DEF Asked
<1>6. \A i, j \in DOMAIN b : IsAnswer(b[i]) /\ IsAnswer(b[j])
                               => (b[i].co = b[j].co => i = j)
  BY <1>1, <1>2 DEF Asked
<1>7. \A i, j \in DOMAIN o : o[i].co = o[j].co => i = j
  <2>1. SUFFICES ASSUME NEW i \in DOMAIN o, NEW j \in DOMAIN o, o[i].co = o[j].co
                 PROVE  i = j
    OBVIOUS
  <2>2. i + 1 = j + 1
    BY <1>1, <2>1 DEF Asked
  <2> QED BY <1>1, <2>2
<1>8. \A i \in DOMAIN b, j \in DOMAIN o : IsAnswer(b[i]) => b[i].co # o[j].co
  BY <1>1, <1>2 DEF Asked
<1>9. Asked(b, o, jobs)
  BY <1>4, <1>5, <1>6, <1>7, <1>8 DEF Asked
<1> QED BY <1>9 DEF b, o

LEMMA AskedTail ==
  ASSUME NEW box \in Seq(Message), NEW out \in Seq(Request), NEW jobs,
         Asked(box, out, jobs), box # <<>>
  PROVE  /\ Asked(Tail(box), out, jobs)
         /\ IsAnswer(Head(box)) => /\ Clear(Tail(box), out, Head(box).co)
                                   /\ Waits(jobs, Head(box))
<1> DEFINE b == Tail(box)
<1>1. /\ 1 \in DOMAIN box /\ Head(box) = box[1]
      /\ \A i \in DOMAIN b : i + 1 \in DOMAIN box /\ b[i] = box[i + 1] /\ i \in Nat /\ i + 1 # 1
  BY HeadTailFacts
<1> HIDE DEF b
<1>2. \A i, j \in DOMAIN b : IsAnswer(b[i]) /\ IsAnswer(b[j])
                               => (b[i].co = b[j].co => i = j)
  <2>1. SUFFICES ASSUME NEW i \in DOMAIN b, NEW j \in DOMAIN b,
                        IsAnswer(b[i]), IsAnswer(b[j]), b[i].co = b[j].co
                 PROVE  i = j
    OBVIOUS
  <2>2. i + 1 = j + 1
    BY <1>1, <2>1 DEF Asked
  <2> QED BY <1>1, <2>2
<1>3. Asked(b, out, jobs)
  BY <1>1, <1>2 DEF Asked
<1>4. IsAnswer(Head(box)) => Clear(b, out, Head(box).co) /\ Waits(jobs, Head(box))
  BY <1>1 DEF Asked, Clear
<1> QED BY <1>3, <1>4 DEF b

LEMMA AskedIdle ==
  ASSUME NEW box, NEW out, NEW jobs, Asked(box, out, jobs), NEW c, jobs[c] = "none"
  PROVE  Clear(box, out, c)
  BY DEF Asked, Clear, Waits

LEMMA AskedEnds ==
  ASSUME NEW box \in Seq(Message), NEW out \in Seq(Request), NEW jobs, NEW new,
         Asked(box, out, jobs), NEW c \in CoId, Clear(box, out, c),
         \A d \in CoId \ {c} : new[d] = jobs[d]
  PROVE  Asked(box, out, new)
<1>1. \A i \in DOMAIN box : IsAnswer(box[i]) => box[i].co \in CoId
  BY MessageTypes
<1>2. \A i \in DOMAIN out : out[i].co \in CoId
  <2>1. \A i \in DOMAIN out : out[i] \in Request
    OBVIOUS
  <2> QED BY <2>1 DEF Request
<1> QED BY <1>1, <1>2 DEF Asked, Clear, Waits

LEMMA AskedAsks ==
  ASSUME NEW box \in Seq(Message), NEW out \in Seq(Request), NEW jobs,
         Asked(box, out, jobs), NEW c \in CoId, Clear(box, out, c),
         NEW j \in Job \ {"none"}, jobs[c] = j, NEW op, op = OpOf(j)
  PROVE  Asked(box, Append(out, [op |-> op, co |-> c]), jobs)
<1> DEFINE q == [op |-> op, co |-> c]
           o == Append(out, q)
<1>1. q \in Request /\ q.co = c /\ Waits(jobs, q)
  BY OpOfTypes DEF Request, Waits
<1>2. /\ \A i \in DOMAIN out : o[i] = out[i]
      /\ o[Len(out) + 1] = q
      /\ \A i \in DOMAIN o : i \in DOMAIN out \/ i = Len(out) + 1
  BY <1>1, AppendFacts
<1> HIDE DEF q, o
<1>3. Asked(box, o, jobs)
  BY <1>1, <1>2 DEF Asked, Clear
<1> QED BY <1>3 DEF q, o

(* The same of the servers. *)

LEMMA AskedElsewhere ==
  ASSUME TypeOK, NEW t \in Server, AskedOf(t), sent'[t] = sent[t], job'[t] = job[t],
         inbox'[t] = inbox[t] \/ inbox'[t] = Warned(t)
  PROVE  AskedOf(t)'
<1>1. inbox[t] \in Seq(Message) /\ sent[t] \in Seq(Request)
  BY DEF TypeOK
<1>2. Asked(Warned(t), sent[t], job[t])
  BY <1>1, AskedEvent DEF Warned, AskedOf
<1> QED BY <1>2 DEF AskedOf

LEMMA ContinuesElsewhere ==
  ASSUME TypeOK, NEW s \in Server, NEW c \in CoId, GoesOn(s, c) \/ Stops(s, c)
  PROVE  \A t \in Server \ {s} : job'[t] = job[t] /\ sent'[t] = sent[t]
<1>1. CASE GoesOn(s, c)
  BY <1>1, AskTypes DEF GoesOn
<1>2. CASE Stops(s, c)
  BY <1>2, EndsTypes DEF Stops
<1> QED BY <1>1, <1>2

LEMMA AskedContinues ==
  ASSUME TypeOK, NEW s \in Server, NEW c \in CoId, GoesOn(s, c) \/ Stops(s, c),
         NEW box \in Seq(Message), Asked(box, sent[s], job[s]), Clear(box, sent[s], c)
  PROVE  Asked(box, sent'[s], job'[s])
<1>1. sent[s] \in Seq(Request)
  BY DEF TypeOK
<1>2. CASE GoesOn(s, c)
  <2>1. PICK j \in Job \ {"none"} : Ask(s, c, OpOf(j), j)
    BY <1>2 DEF GoesOn
  <2>2. /\ job'[s][c] = j
        /\ \A d \in CoId \ {c} : job'[s][d] = job[s][d]
        /\ sent'[s] = Append(sent[s], [op |-> OpOf(j), co |-> c])
    BY <2>1, AskTypes
  <2>3. Asked(box, sent[s], job'[s])
    BY <1>1, <2>2, AskedEnds
  <2>4. Asked(box, Append(sent[s], [op |-> OpOf(j), co |-> c]), job'[s])
    BY <1>1, <2>2, <2>3, AskedAsks
  <2> QED BY <2>2, <2>4
<1>3. CASE Stops(s, c)
  <2>1. \A d \in CoId \ {c} : job'[s][d] = job[s][d]
    BY <1>3, EndsTypes DEF Stops
  <2>2. sent'[s] = sent[s]
    BY <1>3 DEF Stops
  <2> QED BY <1>1, <2>1, <2>2, AskedEnds
<1> QED BY <1>2, <1>3

LEMMA BootAsked ==
  ASSUME Basics, NEW s \in Server, Boot(s), \A t \in Server : AskedOf(t)
  PROVE  \A t \in Server : AskedOf(t)'
<1>1. /\ 1 \in CoId /\ "reg_wlist" \in Job \ {"none"} /\ OpOf("reg_wlist") = "wlist"
      /\ job'[s][1] = "reg_wlist"
      /\ \A d \in CoId \ {1} : job'[s][d] = job[s][d]
      /\ sent'[s] = Append(sent[s], [op |-> "wlist", co |-> 1])
      /\ \A t \in Server \ {s} : job'[t] = job[t] /\ sent'[t] = sent[t]
  BY BootAsks DEF Basics
<1>2. inbox' = inbox
  BY DEF Boot
<1>3. job[s][1] = "none"
  BY <1>1 DEF Boot, Basics, PoolInv, OffOf
<1>4. Clear(inbox[s], sent[s], 1)
  BY <1>3, AskedIdle DEF AskedOf
<1>5. AskedOf(s)'
  <2>1. inbox[s] \in Seq(Message) /\ sent[s] \in Seq(Request)
    BY DEF Basics, TypeOK
  <2> DEFINE new == job'[s]
  <2>2. Asked(inbox[s], sent[s], new)
    <3>1. Asked(inbox[s], sent[s], job[s])
      BY DEF AskedOf
    <3>2. \A d \in CoId \ {1} : new[d] = job[s][d]
      BY <1>1
    <3>3. 1 \in CoId
      BY <1>1
    <3> HIDE DEF new
    <3> QED BY <1>4, <2>1, <3>1, <3>2, <3>3, AskedEnds
  <2>3. Asked(inbox[s], Append(sent[s], [op |-> "wlist", co |-> 1]), job'[s])
    <3>1. /\ 1 \in CoId /\ "reg_wlist" \in Job \ {"none"} /\ OpOf("reg_wlist") = "wlist"
          /\ job'[s][1] = "reg_wlist"
      BY <1>1
    <3> QED BY <1>4, <2>1, <2>2, <3>1, AskedAsks
  <2> QED BY <1>1, <1>2, <2>3 DEF AskedOf
<1> QED BY <1>1, <1>2, <1>5, AskedElsewhere DEF Basics

LEMMA AskedNothing == \A jobs : Asked(<<>>, <<>>, jobs)
<1>1. \A i \in DOMAIN <<>> : FALSE
  OBVIOUS
<1> QED BY <1>1 DEF Asked

LEMMA StopAsked ==
  ASSUME Basics, NEW s \in Server, Stop(s), \A t \in Server : AskedOf(t)
  PROVE  \A t \in Server : AskedOf(t)'
<1>1. AskedOf(s)'
  <2>1. inbox'[s] = <<>> /\ sent'[s] = <<>>
    BY DEF Stop, Basics, TypeOK
  <2> QED BY <2>1, AskedNothing DEF AskedOf
<1>2. \A t \in Server \ {s} : sent'[t] = sent[t] /\ job'[t] = job[t] /\ inbox'[t] = inbox[t]
  BY DEF Stop, Basics, TypeOK
<1> QED BY <1>1, <1>2, AskedElsewhere DEF Basics

LEMMA ProcessAsked ==
  ASSUME Basics, NEW s \in Server, Process(s), \A t \in Server : AskedOf(t)
  PROVE  \A t \in Server : AskedOf(t)'
<1>1. PICK m : /\ Replies(s, m) /\ (ProcessesQuietly(s, m) \/ ProcessesChange(s, m))
               /\ sent[s] # <<>> /\ sent'[s] = Tail(sent[s]) /\ job' = job
               /\ \A t \in Server \ {s} : sent'[t] = sent[t]
  BY ProcessIs DEF Basics
<1>2. inbox[s] \in Seq(Message) /\ sent[s] \in Seq(Request) /\ Warned(s) \in Seq(Message)
  BY WarnedTypes DEF Basics, TypeOK
<1>3. Asked(inbox[s], sent[s], job[s]) /\ Asked(Warned(s), sent[s], job[s])
  BY <1>2, AskedEvent DEF AskedOf, Warned
<1>4. AskedOf(s)'
  <2>1. CASE ProcessesQuietly(s, m)
    <3>1. Asked(Append(inbox[s], m), Tail(sent[s]), job[s])
      BY <1>1, <1>2, <1>3, AskedAnswer DEF Replies
    <3> QED BY <1>1, <2>1, <3>1 DEF ProcessesQuietly, AskedOf
  <2>2. CASE ProcessesChange(s, m)
    <3>1. Asked(Append(Warned(s), m), Tail(sent[s]), job[s])
      BY <1>1, <1>2, <1>3, AskedAnswer DEF Replies
    <3> QED BY <1>1, <2>2, <3>1 DEF ProcessesChange, AskedOf
  <2> QED BY <1>1, <2>1, <2>2
<1>5. ASSUME NEW t \in Server \ {s} PROVE AskedOf(t)'
  <2>1. inbox'[t] = inbox[t] \/ inbox'[t] = Warned(t)
    BY <1>1 DEF ProcessesQuietly, ProcessesChange
  <2> QED BY <1>1, <2>1, AskedElsewhere DEF Basics
<1> QED BY <1>4, <1>5

LEMMA ExpireAsked ==
  ASSUME Basics, NEW x \in alive, Expire(x), \A t \in Server : AskedOf(t)
  PROVE  \A t \in Server : AskedOf(t)'
<1>1. ASSUME NEW t \in Server
      PROVE  /\ sent'[t] = sent[t] /\ job'[t] = job[t]
             /\ inbox'[t] = inbox[t] \/ inbox'[t] = Warned(t)
  BY ExpireIs DEF Basics
<1> QED BY <1>1, AskedElsewhere DEF Basics

LEMMA DeliverAsked ==
  ASSUME Basics, NEW s \in Server, Deliver(s), \A t \in Server : AskedOf(t)
  PROVE  (\A t \in Server : AskedOf(t)') /\ confused' = confused
<1> DEFINE m == Head(inbox[s])
           box == Tail(inbox[s])
<1>1. Delivered(s) /\ m \in Message
  BY DeliverIs DEF Basics
<1>2. /\ inbox[s] # <<>> /\ inbox'[s] = box
      /\ \A t \in Server \ {s} : inbox'[t] = inbox[t]
  BY <1>1 DEF Delivered, Basics, TypeOK
<1>3. inbox[s] \in Seq(Message) /\ sent[s] \in Seq(Request) /\ box \in Seq(Message)
  BY <1>2, HeadTailFacts DEF Basics, TypeOK
<1>4. /\ Asked(box, sent[s], job[s])
      /\ IsAnswer(m) => Clear(box, sent[s], m.co) /\ Waits(job[s], m)
  BY <1>2, <1>3, AskedTail DEF AskedOf
<1> HIDE DEF m, box
<1>5. SUFFICES ASSUME \A t \in Server \ {s} : job'[t] = job[t] /\ sent'[t] = sent[t] => AskedOf(t)'
               PROVE  (\A t \in Server : AskedOf(t)') /\ confused' = confused
  BY <1>2, AskedElsewhere DEF Basics
<1>6. CASE DeliversEvent(s)
  <2>1. PICK c \in CoId : Takes(s, c) /\ Ask(s, c, "list", "get") /\ confused' = confused
    BY <1>6 DEF DeliversEvent, StartGetServers
  <2>2. /\ "get" \in Job \ {"none"} /\ OpOf("get") = "list"
        /\ job'[s][c] = "get"
        /\ \A d \in CoId \ {c} : job'[s][d] = job[s][d]
        /\ sent'[s] = Append(sent[s], [op |-> "list", co |-> c])
        /\ \A t \in Server \ {s} : job'[t] = job[t] /\ sent'[t] = sent[t]
    BY <2>1, GetAsks DEF Basics
  <2>3. job[s][c] = "none"
    BY <2>1, PoolTakes DEF Basics, PoolInv
  <2>4. Clear(box, sent[s], c)
    BY <1>4, <2>3, AskedIdle
  <2>5. Asked(box, sent[s], job'[s])
    <3>1. \A d \in CoId \ {c} : job'[s][d] = job[s][d]
      BY <2>2
    <3> QED BY <1>3, <1>4, <2>4, <3>1, AskedEnds
  <2>6. Asked(box, Append(sent[s], [op |-> "list", co |-> c]), job'[s])
    <3>1. "get" \in Job \ {"none"} /\ OpOf("get") = "list" /\ job'[s][c] = "get"
      BY <2>2
    <3> QED BY <1>3, <2>4, <2>5, <3>1, AskedAsks
  <2> QED BY <1>2, <1>5, <2>1, <2>2, <2>6 DEF AskedOf
<1>7. CASE DeliversAnswer(s, m)
  <2>1. IsAnswer(m) /\ Complete(s, m) /\ m.co \in CoId
    BY <1>1, <1>7, MessageTypes DEF DeliversAnswer
  <2>2. job[s][m.co] # "none" /\ SameType(m.op, job[s][m.co])
    BY <1>4, <2>1 DEF Waits, SameType
  <2>3. Continue(s, m.co, m) /\ confused' = confused
    BY <2>1, <2>2 DEF Complete
  <2>4. GoesOn(s, m.co) \/ Stops(s, m.co)
    BY <2>3, ContinueIs
  <2>5. Asked(box, sent'[s], job'[s])
    BY <1>3, <1>4, <2>1, <2>4, AskedContinues DEF Basics
  <2>6. \A t \in Server \ {s} : job'[t] = job[t] /\ sent'[t] = sent[t]
    BY <2>1, <2>4, ContinuesElsewhere DEF Basics
  <2> QED BY <1>2, <1>5, <2>3, <2>5, <2>6 DEF AskedOf
<1> QED BY <1>6, <1>7, DeliverIs DEF m, Basics

LEMMA BreakIsAsked ==
  ASSUME Basics, NEW s \in Server, Break(s), AskedOf(s)
  PROVE  AskedOf(s)'
<1> DEFINE q == AnswersIn(inbox[s])
           out == sent[s]
           asked == BreakAsked(s)
<1>1. /\ inbox[s] \in Seq(Message) /\ out \in Seq(Request)
      /\ q \in Seq(Message) /\ AnswersOf(inbox[s], q)
      /\ Single(inbox[s]) => Single(q)
  BY AnswersInFacts DEF Basics, TypeOK
<1>2. sent'[s] = <<>> /\ job' = job
  BY DEF Break, client, Basics, TypeOK
<1>3. /\ DOMAIN inbox'[s] = DOMAIN asked
      /\ \A i \in DOMAIN asked : inbox'[s][i] = Failed(asked[i].op, asked[i].co)
      /\ \A i \in DOMAIN asked :
           \/ i \in DOMAIN q /\ asked[i] = q[i]
           \/ i - Len(q) \in DOMAIN out /\ asked[i] = out[i - Len(q)]
  BY BreakInbox DEF Basics
<1>4. DOMAIN asked = 1..(Len(q) + Len(out))
  BY <1>1 DEF BreakAsked
<1> HIDE DEF asked
<1>5. \A i \in DOMAIN q : Waits(job[s], q[i])
  BY <1>1 DEF AnswersOf, AskedOf, Asked
<1>6. \A i, j \in DOMAIN q : q[i].co = q[j].co => i = j
  BY <1>1 DEF Single, AnswersOf, AskedOf, Asked
<1>7. \A i \in DOMAIN q, j \in DOMAIN out : q[i].co # out[j].co
  BY <1>1 DEF AnswersOf, AskedOf, Asked
<1>8. /\ \A i \in DOMAIN out : Waits(job[s], out[i])
      /\ \A i, j \in DOMAIN out : out[i].co = out[j].co => i = j
  BY DEF AskedOf, Asked
<1> HIDE DEF q, out
<1>9. \A i \in DOMAIN asked : Waits(job[s], asked[i])
  BY <1>3, <1>5, <1>8
<1>10. ASSUME NEW i \in DOMAIN asked, NEW j \in DOMAIN asked, asked[i].co = asked[j].co
       PROVE  i = j
  <2>1. i \in Int /\ j \in Int /\ Len(q) \in Int
    BY <1>1, <1>4
  <2>2. CASE i \in DOMAIN q /\ j \in DOMAIN q /\ asked[i] = q[i] /\ asked[j] = q[j]
    BY <1>6, <1>10, <2>2
  <2>3. CASE /\ i - Len(q) \in DOMAIN out /\ asked[i] = out[i - Len(q)]
             /\ j - Len(q) \in DOMAIN out /\ asked[j] = out[j - Len(q)]
    <3>1. i - Len(q) = j - Len(q)
      BY <1>8, <1>10, <2>3
    <3> QED BY <2>1, <3>1
  <2> QED BY <1>3, <1>7, <1>10, <2>2, <2>3
<1>11. ASSUME NEW i \in DOMAIN asked
       PROVE  inbox'[s][i].co = asked[i].co /\ Waits(job[s], inbox'[s][i])
  <2>1. Failed(asked[i].op, asked[i].co).co = asked[i].co
    BY DEF Failed
  <2>2. Failed(asked[i].op, asked[i].co).op = asked[i].op
    BY DEF Failed
  <2>3. inbox'[s][i] = Failed(asked[i].op, asked[i].co)
    BY <1>3
  <2> QED BY <1>9, <2>1, <2>2, <2>3 DEF Waits
<1>12. \A i, j \in DOMAIN inbox'[s] : inbox'[s][i].co = inbox'[s][j].co => i = j
  BY <1>3, <1>10, <1>11
<1>13. \A i \in DOMAIN <<>> : FALSE
  OBVIOUS
<1>14. Asked(inbox'[s], <<>>, job[s])
  BY <1>3, <1>11, <1>12, <1>13 DEF Asked
<1> QED BY <1>2, <1>14 DEF AskedOf

LEMMA BreakIsAskedOfAll ==
  ASSUME Basics, NEW s \in Server, Break(s), \A t \in Server : AskedOf(t)
  PROVE  \A t \in Server : AskedOf(t)'
<1>1. \A t \in Server \ {s} : sent'[t] = sent[t] /\ job'[t] = job[t] /\ inbox'[t] = inbox[t]
  BY DEF Break, client, Basics, TypeOK
<1> QED BY <1>1, BreakIsAsked, AskedElsewhere DEF Basics

LEMMA HealAsked ==
  ASSUME Basics, NEW s \in Server, Heal(s), \A t \in Server : AskedOf(t)
  PROVE  \A t \in Server : AskedOf(t)'
<1>1. sent' = sent /\ job' = job /\ \A t \in Server \ {s} : inbox'[t] = inbox[t]
  BY DEF Heal, client, Basics, TypeOK
<1>2. CASE inbox'[s] = inbox[s]
  BY <1>1, <1>2, AskedElsewhere DEF Basics
<1>3. CASE inbox'[s] = <<Event>>
  <2>1. inbox[s] = <<>>
    BY DEF Heal
  <2>2. inbox[s] \in Seq(Message) /\ sent[s] \in Seq(Request)
    BY DEF Basics, TypeOK
  <2>3. Append(inbox[s], Event) = <<Event>>
    BY <2>1
  <2>4. Asked(<<Event>>, sent[s], job[s])
    BY <2>2, <2>3, AskedEvent DEF AskedOf
  <2> QED BY <1>1, <1>3, <2>4, AskedElsewhere DEF AskedOf, Basics
<1>4. inbox'[s] = inbox[s] \/ inbox'[s] = <<Event>>
  BY DEF Heal, Basics, TypeOK
<1> QED BY <1>2, <1>3, <1>4

\* Together: nobody is handed the answer to another request.
LEMMA NextAsked ==
  ASSUME Basics, WaitsAreAsked, OnlyTimeOutsConfuse, [Next]_vars
  PROVE  WaitsAreAsked' /\ OnlyTimeOutsConfuse'
<1>1. CASE UNCHANGED vars
  BY <1>1 DEF vars, client, bounds, WaitsAreAsked, OnlyTimeOutsConfuse, AskedOf
<1>2. ASSUME NEW s \in Server, NEW c \in CoId, TimeOut(s, c)
      PROVE  WaitsAreAsked' /\ OnlyTimeOutsConfuse'
  <2>1. time_outs' > 0
    BY <1>2 DEF TimeOut, Basics, TypeOK
  <2> QED BY <2>1 DEF WaitsAreAsked, OnlyTimeOutsConfuse
<1>3. ASSUME time_outs' = time_outs,
             (\A t \in Server : AskedOf(t)) =>
               confused' = confused /\ \A t \in Server : AskedOf(t)'
      PROVE  WaitsAreAsked' /\ OnlyTimeOutsConfuse'
  <2>1. CASE time_outs = 0
    BY <1>3, <2>1 DEF WaitsAreAsked, OnlyTimeOutsConfuse
  <2>2. CASE time_outs # 0
    <3>1. time_outs > 0
      BY <2>2 DEF Basics, TypeOK
    <3> QED BY <1>3, <3>1 DEF WaitsAreAsked, OnlyTimeOutsConfuse
  <2> QED BY <2>1, <2>2
<1>4. ASSUME NEW s \in Server, Boot(s) \/ Stop(s) \/ Process(s) \/ Break(s) \/ Heal(s)
      PROVE  WaitsAreAsked' /\ OnlyTimeOutsConfuse'
  <2>1. time_outs' = time_outs /\ confused' = confused
    BY <1>4 DEF Boot, Stop, Process, Break, Heal, bounds
  <2> QED BY <1>3, <1>4, <2>1, BootAsked, StopAsked, ProcessAsked, BreakIsAskedOfAll, HealAsked
<1>5. ASSUME NEW s \in Server, Deliver(s)
      PROVE  WaitsAreAsked' /\ OnlyTimeOutsConfuse'
  <2>1. time_outs' = time_outs
    BY <1>5 DEF Deliver, bounds
  <2> QED BY <1>3, <1>5, <2>1, DeliverAsked
<1>6. ASSUME NEW x \in alive, Expire(x)
      PROVE  WaitsAreAsked' /\ OnlyTimeOutsConfuse'
  BY <1>3, <1>6, ExpireIs, ExpireAsked DEF Basics
<1> QED BY <1>1, <1>2, <1>4, <1>5, <1>6 DEF Next

-----------------------------------------------------------------------------
(* As long as no connection was lost and no wait timed out. *)

LEMMA NextLinks ==
  ASSUME TypeOK, LinksHold, [Next]_vars
  PROVE  LinksHold'
<1>1. CASE UNCHANGED vars
  BY <1>1 DEF vars, bounds, LinksHold
<1>2. ASSUME faults' = faults,
             \A t \in Server : conn'[t] = conn[t] \/ conn'[t] \in {"off", "up"}
      PROVE  LinksHold'
  BY <1>2 DEF LinksHold
<1>3. ASSUME NEW s \in Server, Boot(s) \/ Stop(s) PROVE LinksHold'
  <2>1. /\ faults' = faults
        /\ \A t \in Server : conn'[t] = conn[t] \/ conn'[t] \in {"off", "up"}
    BY <1>3 DEF Boot, Stop, bounds, TypeOK
  <2> QED BY <1>2, <2>1
<1>4. ASSUME NEW s \in Server, Process(s) \/ Deliver(s) PROVE LinksHold'
  BY <1>2, <1>4 DEF Process, Deliver, bounds
<1>5. ASSUME NEW s \in Server, NEW c \in CoId, TimeOut(s, c) PROVE LinksHold'
  BY <1>2, <1>5 DEF TimeOut
<1>6. ASSUME NEW s \in Server, Break(s) PROVE LinksHold'
  BY <1>6 DEF Break, TypeOK, LinksHold
<1>7. ASSUME NEW s \in Server, Heal(s) PROVE LinksHold'
  <2>1. conn[s] = "broken" /\ faults' = faults
    BY <1>7 DEF Heal, bounds
  <2> QED BY <2>1 DEF LinksHold
<1>8. ASSUME NEW x \in alive, Expire(x) PROVE LinksHold'
  BY <1>2, <1>8, ExpireIs
<1> QED BY <1>1, <1>3, <1>4, <1>5, <1>6, <1>7, <1>8 DEF Next

LEMMA LeavesTail ==
  ASSUME NEW box \in Seq(Message), box # <<>>, NEW w, LeavesWatch(box, w)
  PROVE  /\ LeavesWatch(Tail(box), w)
         /\ IsAnswer(Head(box)) /\ Head(box).op = "wlist"
              => w # 0 \/ \E k \in DOMAIN Tail(box) : Tail(box)[k] = Event
<1> DEFINE b == Tail(box)
<1>1. /\ 1 \in DOMAIN box /\ Head(box) = box[1]
      /\ \A i \in DOMAIN b : i + 1 \in DOMAIN box /\ b[i] = box[i + 1] /\ i \in Nat
  BY HeadTailFacts
<1>2. \A k \in DOMAIN box : k > 1 => k - 1 \in DOMAIN b /\ b[k - 1] = box[k] /\ k \in Nat
  OBVIOUS
<1> HIDE DEF b
<1>3. ASSUME NEW i \in DOMAIN b, IsAnswer(b[i]), b[i].op = "wlist", w = 0
      PROVE  \E k \in DOMAIN b : k > i /\ b[k] = Event
  <2>1. PICK k \in DOMAIN box : k > i + 1 /\ box[k] = Event
    BY <1>1, <1>3 DEF LeavesWatch
  <2>2. k - 1 \in DOMAIN b /\ b[k - 1] = Event /\ k - 1 > i
    BY <1>1, <1>2, <2>1
  <2> QED BY <2>2
<1>4. ASSUME IsAnswer(Head(box)), Head(box).op = "wlist", w = 0
      PROVE  \E k \in DOMAIN b : b[k] = Event
  <2>1. PICK k \in DOMAIN box : k > 1 /\ box[k] = Event
    BY <1>1, <1>4 DEF LeavesWatch
  <2> QED BY <1>2, <2>1
<1>5. LeavesWatch(b, w)
  BY <1>3 DEF LeavesWatch
<1> QED BY <1>4, <1>5 DEF b

LEMMA LeavesAppend ==
  ASSUME NEW box \in Seq(Message), NEW w, NEW v, NEW m \in Message,
         LeavesWatch(box, w), w # 0 => v # 0,
         IsAnswer(m) /\ m.op = "wlist" => v # 0
  PROVE  LeavesWatch(Append(box, m), v)
<1> DEFINE b == Append(box, m)
<1>1. /\ \A i \in DOMAIN box : i \in DOMAIN b /\ b[i] = box[i]
      /\ b[Len(box) + 1] = m
      /\ \A i \in DOMAIN b : i \in DOMAIN box \/ i = Len(box) + 1
  BY AppendFacts
<1> HIDE DEF b
<1>2. LeavesWatch(b, v)
  BY <1>1 DEF LeavesWatch
<1> QED BY <1>2 DEF b

\* An event comes after all that was there.
LEMMA LeavesEvent ==
  ASSUME NEW box \in Seq(Message), NEW v
  PROVE  LeavesWatch(Append(box, Event), v)
<1> DEFINE b == Append(box, Event)
           n == Len(box) + 1
<1>1. Event \in Message /\ ~ IsAnswer(Event)
  BY DEF Message, Event, IsAnswer
<1>2. /\ \A i \in DOMAIN box : b[i] = box[i] /\ i < n
      /\ b[n] = Event /\ n \in DOMAIN b
      /\ \A i \in DOMAIN b : i \in DOMAIN box \/ i = n
  BY <1>1, AppendFacts
<1> HIDE DEF b, n
<1>3. LeavesWatch(b, v)
  BY <1>1, <1>2 DEF LeavesWatch
<1> QED BY <1>3 DEF b

LEMMA ContainsFacts ==
  ASSUME NEW box \in Seq(Message)
  PROVE  Contains(box, Event) <=> \E k \in DOMAIN box : box[k] = Event
<1>1. DOMAIN box = 1..Len(box)
  OBVIOUS
<1> QED BY <1>1 DEF Contains

Listens(s) == conn[s] = "up" =>
  Watching(s) \/ Reading(s) \/ \E c \in CoId : job[s][c] = "reg_wlist"

CalmOf(s) == WatchOf(s) /\ Listens(s) /\ VersionsOf(s)

LEMMA CalmIs ==
  AnswersLeaveWatch /\ WatchChainUnbroken /\ ListsAreOfVersions
    <=> (Undisturbed => \A s \in Server : CalmOf(s))
  BY DEF AnswersLeaveWatch, WatchChainUnbroken, ListsAreOfVersions, CalmOf, Listens

\* Where nothing happens.
LEMMA CalmElsewhere ==
  ASSUME TypeOK, NEW t \in Server, CalmOf(t), conn'[t] = conn[t], job'[t] = job[t],
         inbox'[t] = inbox[t], watch'[t] = watch[t], svr_set'[t] = svr_set[t],
         read'[t] = read[t], UNCHANGED <<owner, version>>
  PROVE  CalmOf(t)'
<1>1. WatchOf(t)'
  BY DEF CalmOf, WatchOf
<1>2. Listens(t)'
  BY DEF CalmOf, Listens, Watching, Reading
<1>3. VersionsOf(t)'
  BY DEF CalmOf, VersionsOf, Watching, Registered
<1> QED BY <1>1, <1>2, <1>3 DEF CalmOf

\* Where a change of the children is told, or not watched.
LEMMA CalmWarned ==
  ASSUME TypeOK, NEW t \in Server, CalmOf(t), OffOf(t), conn[t] \in {"off", "up"},
         conn'[t] = conn[t], job'[t] = job[t], Changes(t),
         svr_set'[t] = svr_set[t], read'[t] = read[t], version' = version + 1
  PROVE  /\ watch'[t] = 0
         /\ LeavesWatch(Warned(t), 0)
         /\ conn[t] = "up" => \/ \E k \in DOMAIN Warned(t) : Warned(t)[k] = Event
                              \/ \E c \in CoId : job[t][c] \in {"get", "get_wlist", "reg_wlist"}
         /\ \A i \in DOMAIN Warned(t) : IsAnswer(Warned(t)[i]) => Warned(t)[i].version < version'
         /\ read'[t] < version'
<1>1. inbox[t] \in Seq(Message) /\ version \in Nat /\ read[t] \in Nat /\ read[t] <= version
  BY DEF TypeOK, CalmOf, VersionsOf
<1>2. \A i \in DOMAIN inbox[t] : IsAnswer(inbox[t][i]) => inbox[t][i].version < version + 1
  <2>1. ASSUME NEW i \in DOMAIN inbox[t], IsAnswer(inbox[t][i])
        PROVE  inbox[t][i].version \in Nat
    <3>1. inbox[t][i] \in Message
      BY <1>1
    <3> QED BY <2>1, <3>1, MessageTypes
  <2> QED BY <1>1, <2>1 DEF CalmOf, VersionsOf
<1>3. read'[t] < version'
  BY <1>1
<1>4. CASE t \in Fired
  <2>1. Warned(t) = Append(inbox[t], Event) /\ watch'[t] = 0
    BY <1>4 DEF Warned, Changes
  <2>2. Event \in Message /\ ~ IsAnswer(Event)
    BY DEF Message, Event, IsAnswer
  <2> DEFINE b == Append(inbox[t], Event)
  <2>3. /\ \A i \in DOMAIN inbox[t] : b[i] = inbox[t][i]
        /\ b[Len(inbox[t]) + 1] = Event /\ Len(inbox[t]) + 1 \in DOMAIN b
        /\ \A i \in DOMAIN b : i \in DOMAIN inbox[t] \/ i = Len(inbox[t]) + 1
    BY <1>1, <2>2, AppendFacts
  <2>4. LeavesWatch(b, 0)
    BY <1>1, LeavesEvent
  <2> HIDE DEF b
  <2>5. \E k \in DOMAIN b : b[k] = Event
    BY <2>3
  <2>6. \A i \in DOMAIN b : IsAnswer(b[i]) => b[i].version < version'
    BY <1>2, <2>2, <2>3
  <2>7. Warned(t) = b
    BY <2>1 DEF b
  <2> QED BY <1>3, <2>1, <2>4, <2>5, <2>6, <2>7
<1>5. CASE t \notin Fired
  <2>1. Warned(t) = inbox[t] /\ watch'[t] = watch[t]
    BY <1>5 DEF Warned, Changes
  <2>2. watch[t] = 0
    BY <1>5 DEF Fired, Watching, OffOf
  <2>3. LeavesWatch(inbox[t], 0)
    BY <2>2 DEF CalmOf, WatchOf
  <2>4. conn[t] = "up" => \/ \E k \in DOMAIN inbox[t] : inbox[t][k] = Event
                          \/ \E c \in CoId : job[t][c] \in {"get", "get_wlist", "reg_wlist"}
    BY <1>1, <2>2, ContainsFacts DEF CalmOf, Listens, Watching, Reading
  <2> QED BY <1>2, <1>3, <2>1, <2>2, <2>3, <2>4
<1> QED BY <1>4, <1>5

LEMMA CalmChanged ==
  ASSUME TypeOK, NEW t \in Server, CalmOf(t), OffOf(t), conn[t] \in {"off", "up"},
         conn'[t] = conn[t], job'[t] = job[t], inbox'[t] = Warned(t), Changes(t),
         svr_set'[t] = svr_set[t], read'[t] = read[t], version' = version + 1
  PROVE  CalmOf(t)'
<1>1. /\ watch'[t] = 0
      /\ LeavesWatch(inbox'[t], 0)
      /\ conn[t] = "up" => \/ \E k \in DOMAIN inbox'[t] : inbox'[t][k] = Event
                           \/ \E c \in CoId : job[t][c] \in {"get", "get_wlist", "reg_wlist"}
      /\ \A i \in DOMAIN inbox'[t] : IsAnswer(inbox'[t][i]) => inbox'[t][i].version < version'
      /\ read'[t] < version'
  BY CalmWarned
<1>2. WatchOf(t)'
  BY <1>1 DEF WatchOf
<1>3. Listens(t)'
  <2>1. inbox'[t] \in Seq(Message)
    BY WarnedTypes
  <2> QED BY <1>1, <2>1, ContainsFacts DEF Listens, Reading
<1>4. VersionsOf(t)'
  <2>1. /\ \A i \in DOMAIN inbox'[t] : IsAnswer(inbox'[t][i]) => inbox'[t][i].version \in Nat
        /\ read'[t] \in Nat /\ version' \in Nat
    <3>1. inbox[t] \in Seq(Message) /\ Warned(t) \in Seq(Message)
      BY WarnedTypes DEF TypeOK
    <3>2. \A i \in DOMAIN Warned(t) : Warned(t)[i] \in Message
      BY <3>1
    <3>3. \A i \in DOMAIN inbox'[t] : IsAnswer(inbox'[t][i]) => inbox'[t][i].version \in Nat
      BY <3>2, MessageTypes
    <3> QED BY <3>3 DEF TypeOK
  <2> QED BY <1>1, <2>1 DEF VersionsOf, Watching
<1> QED BY <1>2, <1>3, <1>4 DEF CalmOf

LEMMA BootCalm ==
  ASSUME Basics, NEW s \in Server, Boot(s), \A t \in Server : CalmOf(t)
  PROVE  \A t \in Server : CalmOf(t)'
<1>1. /\ 1 \in CoId /\ "reg_wlist" \in Job \ {"none"} /\ OpOf("reg_wlist") = "wlist"
      /\ job'[s][1] = "reg_wlist"
      /\ \A d \in CoId \ {1} : job'[s][d] = job[s][d]
      /\ sent'[s] = Append(sent[s], [op |-> "wlist", co |-> 1])
      /\ \A t \in Server \ {s} : job'[t] = job[t] /\ sent'[t] = sent[t]
  BY BootAsks DEF Basics
<1>2. /\ UNCHANGED <<inbox, watch, svr_set, read, owner, version>>
      /\ \A t \in Server \ {s} : conn'[t] = conn[t]
  BY DEF Boot, Basics, TypeOK
<1>3. CalmOf(s)'
  <2>1. WatchOf(s)' /\ VersionsOf(s)'
    BY <1>2 DEF CalmOf, WatchOf, VersionsOf, Watching, Registered
  <2>2. Listens(s)'
    BY <1>1 DEF Listens
  <2> QED BY <2>1, <2>2 DEF CalmOf
<1> QED BY <1>1, <1>2, <1>3, CalmElsewhere DEF Basics

LEMMA StopCalm ==
  ASSUME Basics, NEW s \in Server, Stop(s), \A t \in Server : CalmOf(t)
  PROVE  \A t \in Server : CalmOf(t)'
<1>1. /\ inbox'[s] = <<>> /\ watch'[s] = 0 /\ read'[s] = 0 /\ conn'[s] = "off"
      /\ UNCHANGED <<owner, version>> /\ version \in Nat \ {0}
      /\ \A t \in Server \ {s} :
           /\ conn'[t] = conn[t] /\ job'[t] = job[t] /\ inbox'[t] = inbox[t]
           /\ watch'[t] = watch[t] /\ svr_set'[t] = svr_set[t] /\ read'[t] = read[t]
  BY DEF Stop, Basics, TypeOK, zk
<1>2. \A i \in DOMAIN inbox'[s] : FALSE
  BY <1>1
<1>3. CalmOf(s)'
  <2>1. WatchOf(s)'
    BY <1>2 DEF WatchOf, LeavesWatch
  <2>2. Listens(s)'
    BY <1>1 DEF Listens
  <2>3. VersionsOf(s)'
    BY <1>1, <1>2 DEF VersionsOf, Watching
  <2> QED BY <2>1, <2>2, <2>3 DEF CalmOf
<1> QED BY <1>1, <1>3, CalmElsewhere DEF Basics

LEMMA ExpireCalm ==
  ASSUME Basics, NEW x \in alive, Expire(x), \A t \in Server : CalmOf(t),
         \A t \in Server : conn[t] \in {"off", "up"}
  PROVE  \A t \in Server : CalmOf(t)'
<1>1. UNCHANGED <<conn, job, svr_set, read>>
  BY ExpireIs DEF Basics
<1>2. CASE UNCHANGED <<owner, version, inbox, watch>>
  BY <1>1, <1>2, CalmElsewhere DEF Basics
<1>3. CASE /\ version' = version + 1
           /\ \A t \in Server : inbox'[t] = Warned(t) /\ Changes(t)
  BY <1>1, <1>3, CalmChanged DEF Basics, PoolInv
<1> QED BY <1>2, <1>3, ExpireIs DEF Basics

\* An answer to s behind what was there.
LEMMA VersionsAppend ==
  ASSUME NEW box \in Seq(Message), NEW m \in Message, NEW v, NEW reg,
         \A i \in DOMAIN box : IsAnswer(box[i]) =>
           /\ box[i].version <= v
           /\ box[i].op = "list" /\ box[i].version = v => box[i].children = reg,
         m.version <= v, m.op = "list" /\ m.version = v => m.children = reg
  PROVE  \A i \in DOMAIN Append(box, m) : IsAnswer(Append(box, m)[i]) =>
           /\ Append(box, m)[i].version <= v
           /\ Append(box, m)[i].op = "list" /\ Append(box, m)[i].version = v
                => Append(box, m)[i].children = reg
<1> DEFINE b == Append(box, m)
<1>1. /\ \A i \in DOMAIN box : b[i] = box[i]
      /\ b[Len(box) + 1] = m
      /\ \A i \in DOMAIN b : i \in DOMAIN box \/ i = Len(box) + 1
  BY AppendFacts
<1> HIDE DEF b
<1>2. \A i \in DOMAIN b : IsAnswer(b[i]) =>
        /\ b[i].version <= v
        /\ b[i].op = "list" /\ b[i].version = v => b[i].children = reg
  BY <1>1
<1> QED BY <1>2 DEF b

LEMMA ProcessCalm ==
  ASSUME Basics, NEW s \in Server, Process(s), \A t \in Server : CalmOf(t),
         \A t \in Server : conn[t] \in {"off", "up"}
  PROVE  \A t \in Server : CalmOf(t)'
<1>1. PICK m : /\ Replies(s, m) /\ (ProcessesQuietly(s, m) \/ ProcessesChange(s, m))
               /\ conn[s] = "up" /\ UNCHANGED <<conn, job, svr_set, read>>
  BY ProcessIs DEF Basics
<1>2. /\ m \in Message /\ IsAnswer(m) /\ m.version = version /\ m.children = Registered
      /\ inbox[s] \in Seq(Message) /\ Warned(s) \in Seq(Message)
      /\ version \in Nat \ {0} /\ read[s] \in Nat
  BY <1>1, WarnedTypes DEF Replies, Basics, TypeOK
<1>3. CASE ProcessesQuietly(s, m)
  <2>1. /\ UNCHANGED <<owner, version>> /\ inbox'[s] = Append(inbox[s], m)
        /\ watch'[s] = IF m.op = "wlist" THEN version ELSE watch[s]
        /\ \A t \in Server \ {s} : inbox'[t] = inbox[t] /\ watch'[t] = watch[t]
    BY <1>3 DEF ProcessesQuietly
  <2>2. WatchOf(s)'
    <3>1. LeavesWatch(inbox[s], watch[s])
      BY DEF CalmOf, WatchOf
    <3>2. (watch[s] # 0 => watch'[s] # 0) /\ (IsAnswer(m) /\ m.op = "wlist" => watch'[s] # 0)
      BY <1>2, <2>1
    <3>3. LeavesWatch(Append(inbox[s], m), watch'[s])
      BY <1>2, <3>1, <3>2, LeavesAppend
    <3> QED BY <2>1, <3>3 DEF WatchOf
  <2>3. Listens(s)'
    <3>1. Contains(inbox[s], Event) => Contains(inbox'[s], Event)
      <4>1. \A i \in DOMAIN inbox[s] : i \in DOMAIN inbox'[s] /\ inbox'[s][i] = inbox[s][i]
        BY <1>2, <2>1, AppendFacts
      <4>2. inbox'[s] \in Seq(Message)
        BY <1>2, <2>1, AppendFacts
      <4> QED BY <1>2, <4>1, <4>2, ContainsFacts
    <3>2. watch[s] # 0 => watch'[s] # 0
      BY <1>2, <2>1
    <3> QED BY <1>1, <3>1, <3>2 DEF CalmOf, Listens, Watching, Reading
  <2>4. VersionsOf(s)'
    <3>1. \A i \in DOMAIN inbox[s] : IsAnswer(inbox[s][i]) =>
            /\ inbox[s][i].version <= version
            /\ inbox[s][i].op = "list" /\ inbox[s][i].version = version
                 => inbox[s][i].children = Registered
      BY DEF CalmOf, VersionsOf
    <3>2. m.version <= version /\ (m.op = "list" /\ m.version = version => m.children = Registered)
      BY <1>2
    <3>3. \A i \in DOMAIN inbox'[s] : IsAnswer(inbox'[s][i]) =>
            /\ inbox'[s][i].version <= version
            /\ inbox'[s][i].op = "list" /\ inbox'[s][i].version = version
                 => inbox'[s][i].children = Registered
      BY <1>2, <2>1, <3>1, <3>2, VersionsAppend
    <3>4. Registered' = Registered /\ version' = version
      BY <2>1 DEF Registered
    <3>5. watch'[s] # 0 => watch'[s] = version
      BY <2>1 DEF CalmOf, VersionsOf, Watching
    <3> QED BY <1>1, <3>3, <3>4, <3>5 DEF CalmOf, VersionsOf, Watching
  <2>5. CalmOf(s)'
    BY <2>2, <2>3, <2>4 DEF CalmOf
  <2> QED BY <1>1, <2>1, <2>5, CalmElsewhere DEF Basics
<1>4. CASE ProcessesChange(s, m)
  <2>1. /\ m.op = "create" /\ version' = version + 1
        /\ inbox'[s] = Append(Warned(s), m) /\ Changes(s)
        /\ \A t \in Server \ {s} : inbox'[t] = Warned(t) /\ Changes(t)
    BY <1>4 DEF ProcessesChange
  <2>2. /\ watch'[s] = 0
        /\ LeavesWatch(Warned(s), 0)
        /\ conn[s] = "up" => \/ \E k \in DOMAIN Warned(s) : Warned(s)[k] = Event
                             \/ \E c \in CoId : job[s][c] \in {"get", "get_wlist", "reg_wlist"}
        /\ \A i \in DOMAIN Warned(s) : IsAnswer(Warned(s)[i]) => Warned(s)[i].version < version'
        /\ read'[s] < version'
    BY <1>1, <2>1, CalmWarned DEF Basics, PoolInv
  <2>3. WatchOf(s)'
    <3>1. LeavesWatch(Append(Warned(s), m), 0)
      BY <1>2, <2>1, <2>2, LeavesAppend
    <3> QED BY <2>1, <2>2, <3>1 DEF WatchOf
  <2>4. Listens(s)'
    <3>1. \A i \in DOMAIN Warned(s) : i \in DOMAIN inbox'[s] /\ inbox'[s][i] = Warned(s)[i]
      BY <1>2, <2>1, AppendFacts
    <3>2. \/ \E k \in DOMAIN inbox'[s] : inbox'[s][k] = Event
          \/ \E c \in CoId : job[s][c] \in {"get", "get_wlist", "reg_wlist"}
      BY <1>1, <2>2, <3>1
    <3>3. inbox'[s] \in Seq(Message)
      BY <1>2, <2>1, AppendFacts
    <3> QED BY <1>1, <3>2, <3>3, ContainsFacts DEF Listens, Reading
  <2>5. VersionsOf(s)'
    <3>1. \A i \in DOMAIN inbox'[s] : IsAnswer(inbox'[s][i]) => inbox'[s][i].version < version'
      <4>1. /\ inbox'[s][Len(Warned(s)) + 1] = m
            /\ \A i \in DOMAIN Warned(s) : inbox'[s][i] = Warned(s)[i]
            /\ \A i \in DOMAIN inbox'[s] : i \in DOMAIN Warned(s) \/ i = Len(Warned(s)) + 1
        BY <1>2, <2>1, AppendFacts
      <4>2. m.version < version'
        BY <1>2, <2>1
      <4> QED BY <2>2, <4>1, <4>2
    <3>2. \A i \in DOMAIN inbox'[s] : IsAnswer(inbox'[s][i]) => inbox'[s][i].version \in Nat
      <4>1. Append(Warned(s), m) \in Seq(Message)
        BY <1>2, AppendFacts
      <4>2. \A i \in DOMAIN inbox'[s] : inbox'[s][i] \in Message
        BY <2>1, <4>1
      <4> QED BY <4>2, MessageTypes
    <3>3. read'[s] \in Nat /\ version' \in Nat
      BY <1>1, <1>2, <2>1
    <3> QED BY <2>2, <3>1, <3>2, <3>3 DEF VersionsOf, Watching
  <2>6. CalmOf(s)'
    BY <2>3, <2>4, <2>5 DEF CalmOf
  <2> QED BY <1>1, <2>1, <2>6, CalmChanged DEF Basics, PoolInv
<1> QED BY <1>1, <1>3, <1>4

\* Going on with the answer it waits for, a task leaves the next watch or has one.
LEMMA ContinueListens ==
  ASSUME TypeOK, NEW s \in Server, NEW m \in Message, IsAnswer(m), conn[s] = "up",
         Waits(job[s], m), Continue(s, m.co, m)
  PROVE  /\ job[s][m.co] = "get" => job'[s][m.co] = "get_wlist"
         /\ job[s][m.co] # "get" /\ m.op # "wlist" => job[s][m.co] = "reg_create"
         /\ \A d \in CoId \ {m.co} : job'[s][d] = job[s][d]
<1>1. m.co \in CoId /\ job \in [Server -> [CoId -> Job]]
  BY MessageTypes DEF TypeOK
<1>2. /\ OpOf("get") = "list" /\ OpOf("reg_wlist") = "wlist"
      /\ OpOf("get_wlist") = "wlist" /\ OpOf("reg_create") = "create"
  BY DEF OpOf
<1>3. job[s][m.co] = "get" => job'[s][m.co] = "get_wlist"
  BY <1>1 DEF Continue, Ask
<1>4. job[s][m.co] # "get" /\ m.op # "wlist" => job[s][m.co] = "reg_create"
  BY <1>2 DEF Continue, Waits
<1>5. \A d \in CoId \ {m.co} : job'[s][d] = job[s][d]
  <2>1. CASE GoesOn(s, m.co)
    BY <1>1, <2>1, AskTypes DEF GoesOn
  <2>2. CASE Stops(s, m.co)
    BY <1>1, <2>2, EndsTypes DEF Stops
  <2> QED BY <2>1, <2>2, ContinueIs
<1> QED BY <1>3, <1>4, <1>5

LEMMA DeliverCalm ==
  ASSUME Basics, NEW s \in Server, Deliver(s), \A t \in Server : CalmOf(t),
         \A t \in Server : conn[t] \in {"off", "up"}, \A t \in Server : AskedOf(t)
  PROVE  \A t \in Server : CalmOf(t)'
<1> DEFINE m == Head(inbox[s])
           box == Tail(inbox[s])
<1>1. Delivered(s) /\ m \in Message /\ m = inbox[s][1] /\ 1 \in DOMAIN inbox[s]
  BY DeliverIs DEF Basics
<1>2. /\ conn[s] = "up" /\ inbox[s] # <<>> /\ inbox'[s] = box
      /\ UNCHANGED <<conn, watch, owner, version>>
      /\ \A t \in Server \ {s} : inbox'[t] = inbox[t]
  BY <1>1 DEF Delivered, Basics, TypeOK, zk
<1>3. /\ inbox[s] \in Seq(Message) /\ sent[s] \in Seq(Request)
      /\ read[s] \in Nat /\ version \in Nat \ {0}
  BY DEF Basics, TypeOK
<1>4. /\ LeavesWatch(box, watch[s])
      /\ IsAnswer(m) /\ m.op = "wlist"
           => watch[s] # 0 \/ \E k \in DOMAIN box : box[k] = Event
  BY <1>2, <1>3, LeavesTail DEF CalmOf, WatchOf
<1>5. IsAnswer(m) => Waits(job[s], m)
  BY <1>2, <1>3, AskedTail DEF AskedOf
<1>6. \A i \in DOMAIN box : i + 1 \in DOMAIN inbox[s] /\ box[i] = inbox[s][i + 1]
  BY <1>2, <1>3, HeadTailFacts
<1>7. box \in Seq(Message) /\ (m # Event /\ Contains(inbox[s], Event) => Contains(box, Event))
  <2>0. box \in Seq(Message)
    BY <1>2, <1>3, HeadTailFacts
  <2>1. SUFFICES ASSUME m # Event, NEW k \in DOMAIN inbox[s], inbox[s][k] = Event
                 PROVE  \E i \in DOMAIN box : box[i] = Event
    BY <1>3, <2>0, ContainsFacts
  <2>2. k # 1
    BY <1>1, <2>1
  <2>3. k - 1 \in DOMAIN box /\ box[k - 1] = inbox[s][k]
    BY <1>2, <1>3, <2>2
  <2> QED BY <2>1, <2>3
<1> HIDE DEF m, box
<1>8. WatchOf(s)'
  BY <1>2, <1>4 DEF WatchOf
<1>9. \A i \in DOMAIN inbox[s] : IsAnswer(inbox[s][i]) =>
        /\ inbox[s][i].version <= version
        /\ inbox[s][i].op = "list" /\ inbox[s][i].version = version
             => inbox[s][i].children = Registered
  BY DEF CalmOf, VersionsOf
<1>10. \A i \in DOMAIN inbox'[s] : IsAnswer(inbox'[s][i]) =>
         /\ inbox'[s][i].version <= version
         /\ inbox'[s][i].op = "list" /\ inbox'[s][i].version = version
              => inbox'[s][i].children = Registered
  BY <1>2, <1>6, <1>9
<1>11. Registered' = Registered
  BY <1>2 DEF Registered
<1>12. CASE DeliversEvent(s)
  <2>1. PICK c \in CoId : Ask(s, c, "list", "get") /\ UNCHANGED <<svr_set, read>>
    BY <1>12 DEF DeliversEvent, StartGetServers
  <2>2. job'[s][c] = "get" /\ \A t \in Server \ {s} : job'[t] = job[t]
    BY <2>1, GetAsks DEF Basics
  <2>3. Listens(s)'
    BY <2>2 DEF Listens, Reading
  <2>4. VersionsOf(s)'
    BY <1>2, <1>10, <1>11, <2>1 DEF CalmOf, VersionsOf, Watching
  <2>5. CalmOf(s)'
    BY <1>8, <2>3, <2>4 DEF CalmOf
  <2> QED BY <1>2, <2>1, <2>2, <2>5, CalmElsewhere DEF Basics
<1>13. CASE DeliversAnswer(s, m)
  <2>1. IsAnswer(m) /\ Complete(s, m) /\ m.co \in CoId /\ Waits(job[s], m)
    BY <1>1, <1>5, <1>13, MessageTypes DEF DeliversAnswer
  <2>2. Continue(s, m.co, m)
    BY <2>1 DEF Complete, Waits, SameType
  <2>3. Reads(s, m.co, m)
    BY <2>2, ContinueReads
  <2>4. \A t \in Server \ {s} : job'[t] = job[t]
    BY <2>1, <2>2, ContinueIs, ContinuesElsewhere DEF Basics
  <2>5. \A t \in Server \ {s} : svr_set'[t] = svr_set[t] /\ read'[t] = read[t]
    BY <2>3 DEF Reads, Basics, TypeOK
  <2>6. Listens(s)'
    <3>1. /\ job[s][m.co] = "get" => job'[s][m.co] = "get_wlist"
          /\ job[s][m.co] # "get" /\ m.op # "wlist" => job[s][m.co] = "reg_create"
          /\ \A d \in CoId \ {m.co} : job'[s][d] = job[s][d]
      BY <1>1, <1>2, <2>1, <2>2, ContinueListens DEF Basics
    <3>2. CASE job[s][m.co] = "get"
      BY <2>1, <3>1, <3>2 DEF Listens, Reading
    <3>3. CASE m.op = "wlist"
      BY <1>2, <1>4, <1>7, <2>1, <3>3, ContainsFacts DEF Listens, Watching, Reading
    <3>4. CASE job[s][m.co] = "reg_create"
      <4>1. m # Event
        BY <2>1 DEF Event, IsAnswer
      <4>2. Contains(inbox[s], Event) => Contains(inbox'[s], Event)
        BY <1>2, <1>7, <4>1
      <4>3. \A d \in CoId : job[s][d] \in {"get", "get_wlist", "reg_wlist"}
                               => job'[s][d] = job[s][d]
        BY <3>1, <3>4
      <4>4. Listens(s)
        BY DEF CalmOf
      <4> QED BY <1>2, <4>2, <4>3, <4>4 DEF Listens, Watching, Reading
    <3> QED BY <3>1, <3>2, <3>3, <3>4
  <2>7. VersionsOf(s)'
    <3>1. m.version <= version /\ m.version \in Nat
          /\ (m.op = "list" /\ m.version = version => m.children = Registered)
      BY <1>1, <1>9, <2>1, MessageTypes
    <3>2. read'[s] <= version /\ (read'[s] = version => svr_set'[s] = Registered)
      <4>1. CASE job[s][m.co] = "get"
        <5>1. m.op = "list"
          BY <2>1, <4>1 DEF Waits, OpOf
        <5>2. /\ svr_set'[s] = IF m.ok THEN m.children ELSE {}
              /\ read'[s] = IF m.ok THEN m.version ELSE 0
          BY <2>3, <4>1 DEF Reads, Basics, TypeOK
        <5> QED BY <1>3, <3>1, <5>1, <5>2
      <4>2. CASE job[s][m.co] # "get"
        BY <2>3, <4>2 DEF Reads, CalmOf, VersionsOf
      <4> QED BY <4>1, <4>2
    <3> QED BY <1>2, <1>10, <1>11, <3>2 DEF CalmOf, VersionsOf, Watching
  <2>8. CalmOf(s)'
    BY <1>8, <2>6, <2>7 DEF CalmOf
  <2> QED BY <1>2, <2>4, <2>5, <2>8, CalmElsewhere DEF Basics
<1> QED BY <1>12, <1>13, DeliverIs DEF m, Basics

LEMMA NextCalm ==
  ASSUME IInv, [Next]_vars
  PROVE  AnswersLeaveWatch' /\ WatchChainUnbroken' /\ ListsAreOfVersions'
<1>1. Basics /\ (Undisturbed => \A t \in Server :
                    CalmOf(t) /\ AskedOf(t) /\ conn[t] \in {"off", "up"})
  BY CalmIs DEF IInv, Basics, WaitsAreAsked, LinksHold, Undisturbed
<1>2. SUFFICES Undisturbed' => \A t \in Server : CalmOf(t)'
  BY DEF AnswersLeaveWatch, WatchChainUnbroken, ListsAreOfVersions, CalmOf, Listens
<1>3. CASE UNCHANGED vars
  <2>1. /\ UNCHANGED <<conn, job, inbox, watch, svr_set, read, owner, version>>
        /\ Undisturbed' = Undisturbed
    BY <1>3 DEF vars, client, zk, bounds, Undisturbed
  <2> QED BY <1>1, <2>1, CalmElsewhere DEF Basics
<1>4. ASSUME NEW s \in Server, NEW c \in CoId, TimeOut(s, c) PROVE ~ Undisturbed'
  BY <1>1, <1>4 DEF TimeOut, Undisturbed, Basics, TypeOK
<1>5. ASSUME NEW s \in Server, Break(s) PROVE ~ Undisturbed'
  BY <1>1, <1>5 DEF Break, Undisturbed, Basics, TypeOK
<1>6. ASSUME NEW s \in Server, Heal(s) PROVE ~ Undisturbed'
  <2>1. conn[s] = "broken" /\ UNCHANGED <<faults, time_outs>>
    BY <1>6 DEF Heal, bounds
  <2> QED BY <1>1, <2>1 DEF Undisturbed
<1>7. ASSUME NEW s \in Server, Boot(s) \/ Stop(s) \/ Process(s) \/ Deliver(s), Undisturbed'
      PROVE  \A t \in Server : CalmOf(t)'
  <2>1. Undisturbed
    BY <1>7 DEF Boot, Stop, Process, Deliver, bounds, Undisturbed
  <2> QED BY <1>1, <1>7, <2>1, BootCalm, StopCalm, ProcessCalm, DeliverCalm
<1>8. ASSUME NEW x \in alive, Expire(x), Undisturbed'
      PROVE  \A t \in Server : CalmOf(t)'
  <2>1. Undisturbed
    BY <1>1, <1>8, ExpireIs DEF Undisturbed, Basics
  <2> QED BY <1>1, <1>8, <2>1, ExpireCalm
<1> QED BY <1>3, <1>4, <1>5, <1>6, <1>7, <1>8 DEF Next

-----------------------------------------------------------------------------
(* The theorems. *)

LEMMA InitIInv == Init => IInv
<1> SUFFICES ASSUME Init PROVE IInv
  OBVIOUS
<1>1. TypeOK
  <2>1. /\ <<>> \in Seq(CoId) /\ <<>> \in Seq(Request) /\ <<>> \in Seq(Message)
        /\ [c \in CoId |-> "none"] \in [CoId -> Job]
    BY DEF Job
  <2>2. /\ job \in [Server -> [CoId -> Job]] /\ free \in [Server -> Seq(CoId)]
        /\ sent \in [Server -> Seq(Request)] /\ inbox \in [Server -> Seq(Message)]
    BY <2>1 DEF Init
  <2>3. /\ session \in [Server -> 0..MaxBoots] /\ inc \in [Server -> 0..MaxCo]
        /\ owner \in [Server -> 0..MaxBoots] /\ boots \in 0..MaxBoots
    BY DiscoveryAssumption DEF Init, NoSession
  <2>4. /\ conn \in [Server -> {"off", "up", "broken", "expired"}]
        /\ svr_set \in [Server -> SUBSET Server] /\ watch \in [Server -> Nat]
        /\ read \in [Server -> Nat]
        /\ alive \subseteq 1..MaxBoots /\ version \in Nat \ {0}
        /\ faults \in Nat /\ time_outs \in Nat
    BY DEF Init
  <2>5. wanted \in [Server -> BOOLEAN] /\ confused \in BOOLEAN
    BY DEF Init
  <2> QED BY <2>2, <2>3, <2>4, <2>5 DEF TypeOK
<1>2. ASSUME NEW s \in Server
      PROVE  /\ free[s] = <<>> /\ inbox[s] = <<>> /\ sent[s] = <<>>
             /\ conn[s] = "off" /\ watch[s] = 0 /\ read[s] = 0
             /\ \A c \in CoId : job[s][c] = "none"
  BY DEF Init
<1>3. \A i \in DOMAIN <<>> : FALSE
  OBVIOUS
<1>4. PoolInv
  BY <1>2, <1>3 DEF PoolInv, PoolOf, OffOf
<1>5. WaitsAreAsked /\ OnlyTimeOutsConfuse
  <2>1. ~ confused
    BY DEF Init
  <2> QED BY <1>2, <2>1, AskedNothing DEF WaitsAreAsked, AskedOf, OnlyTimeOutsConfuse
<1>6. LinksHold
  BY <1>2 DEF LinksHold
<1>7. AnswersLeaveWatch /\ WatchChainUnbroken /\ ListsAreOfVersions
  <2>1. version = 1
    BY DEF Init
  <2> QED BY <1>2, <1>3, <2>1 DEF AnswersLeaveWatch, WatchOf, LeavesWatch,
        WatchChainUnbroken, ListsAreOfVersions, VersionsOf, Watching
<1> QED BY <1>1, <1>4, <1>5, <1>6, <1>7 DEF IInv

\* Whatever the servers, their coroutines, starts and faults: types, the pools
\* of coroutines (co_pool.h), what is asked against what is waited for
\* (zookeeper_client.cpp) and what the versions of the children say.
THEOREM Invariance == Spec => []IInv
<1>1. IInv /\ [Next]_vars => IInv'
  <2> SUFFICES ASSUME IInv, [Next]_vars PROVE IInv'
    OBVIOUS
  <2>1. Basics'
    BY NextBasics DEF IInv, Basics
  <2>2. WaitsAreAsked' /\ OnlyTimeOutsConfuse'
    BY NextAsked DEF IInv, Basics
  <2>3. LinksHold'
    BY NextLinks DEF IInv
  <2>4. AnswersLeaveWatch' /\ WatchChainUnbroken' /\ ListsAreOfVersions'
    BY NextCalm
  <2> QED BY <2>1, <2>2, <2>3, <2>4 DEF IInv, Basics
<1> QED BY <1>1, InitIInv, PTL DEF Spec

\* Every variable has its type in every state.
THEOREM TypeCorrect == Spec => []TypeOK
<1>1. IInv => TypeOK
  BY DEF IInv
<1> QED BY <1>1, Invariance, PTL

\* Unless a wait timed out, no task of GetServers or of the registration is
\* resumed with the answer to another kind of request, also after a connection
\* was lost and its requests were failed (zookeeper_client.cpp:44-77, 180-199,
\* 257-292).
THEOREM NobodyIsConfused == Spec => []OnlyTimeOutsConfuse
<1>1. IInv => OnlyTimeOutsConfuse
  BY DEF IInv
<1> QED BY <1>1, Invariance, PTL

\* As long as no connection is lost and no wait times out, every running server
\* has a watch on the children, or is about to be told of a change, or is on its
\* way to the call that leaves the watch (app_base.h:25-35, 92-94).
THEOREM ServersKeepListening == Spec => []WatchChainUnbroken
<1>1. IInv => WatchChainUnbroken
  BY DEF IInv
<1> QED BY <1>1, Invariance, PTL

\* A server at rest that has the wrong list missed a change between its reading
\* of the children and its leaving of the watch, or was never told to read them;
\* there is no other way (app_base.h:27-34).
THEOREM ListsAreStaleByTheWindow == Spec => []StaleOnlyByWindow
<1>1. ASSUME IInv PROVE StaleOnlyByWindow
  <2>1. SUFFICES ASSUME NEW s \in Server, Undisturbed, conn[s] = "up",
                        ~ Reading(s), ~ Starting(s)
                 PROVE  svr_set[s] = Registered \/ read[s] < watch[s]
    BY DEF StaleOnlyByWindow
  <2>2. watch[s] # 0
    BY <1>1, <2>1 DEF IInv, WatchChainUnbroken, Watching, Starting
  <2>3. /\ watch[s] = version /\ read[s] <= version
        /\ read[s] = version => svr_set[s] = Registered
    BY <1>1, <2>1, <2>2 DEF IInv, ListsAreOfVersions, VersionsOf, Watching
  <2>4. read[s] \in Nat /\ version \in Nat
    BY <1>1 DEF IInv, TypeOK
  <2> QED BY <2>3, <2>4
<1> QED BY <1>1, Invariance, PTL
=============================================================================
