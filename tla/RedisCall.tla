----------------------------- MODULE RedisCall -----------------------------
(* A transaction's calls of Redis() from the command to the result: the      *)
(* front end writes the command (CommandFormat), RedisActuator sends it to   *)
(* the proxy and waits, the answer is converted, received, perhaps           *)
(* rewritten, parsed (RedisReply) and freed.  What happens to the call       *)
(* between the servers and in the proxy is in Rpc and RedisProxy: here it    *)
(* ends with the answer to this command, the answer to another one, or the   *)
(* exception of a time-out.  An answer is what the proxy returns of Redis'   *)
(* reply: nothing of an error or of nil.                                     *)
EXTENDS CommandFormat, RedisReply, RedisCommands

CONSTANTS Lengths,      \* lengths of the arguments
          Numbers,      \* integers of replies
          MaxElements,  \* elements of an array of a reply
          MaxCalls      \* commands the transaction runs

ASSUME LengthsAssumption     == Lengths \subseteq Nat
ASSUME MaxElementsAssumption == MaxElements \in Nat

VARIABLES
  pc,        \* what the call has come to
  call,      \* the command: its words, its arguments and its result
  built,     \* what redisvFormatCommand made of it
  answer,    \* what the proxy answered: whose, the reply, the value Redis' reply is of
  reply_,    \* RedisActuator::_reply, a reply, Null, or Unset
  held,      \* the reply the method holds by a ReplyUPtr
  heap,      \* what the conversion allocated and nothing freed
  twice,     \* whether something was freed that was not allocated
  result,    \* what the caller is given
  calls      \* calls begun

vars == <<pc, call, built, answer, reply_, held, heap, twice, result, calls>>

Unset    == Node("uninitialised", NoText, 0, <<>>)
NoCall   == [words |-> <<>>, args |-> <<>>, wants |-> [how |-> "parse", T |-> Ty("void")]]
NoAnswer == [whose |-> "none", reply |-> Null, value |-> Unit]
NotBuilt == FormatCommand(<<>>, <<>>)

-----------------------------------------------------------------------------
(* Redis' side (external): the replies that stand for the values of a type.  *)

TextNode(type, s)  == Node(type, s, 0, <<>>)
NumberNode(n)      == Node("INTEGER", NoText, n, <<>>)
ArrayNode(e)       == Node("ARRAY", NoText, 0, e)
NilNode            == Node("NIL", NoText, 0, <<>>)

Means(value, reply) == [value |-> value, reply |-> reply]
Listed(c) == Means(Seq_([j \in DOMAIN c |-> c[j].value]),
                   ArrayNode([j \in DOMAIN c |-> c[j].reply]))

\* The sequences that take their j-th element from the j-th set.
Picks(sets) ==
  LET upto[n \in 0..Len(sets)] ==
        IF n = 0 THEN {<<>>}
        ELSE UNION {{Append(c, x) : x \in sets[n]} : c \in upto[n - 1]}
  IN  upto[Len(sets)]

UpTo(max, set) == UNION {[1..n -> set] : n \in 0..max}

\* A pair for each element, or the elements of the pairs one after the other.
Paired(c) ==
  {Listed(c),
   [Listed(c) EXCEPT !.reply =
      ArrayNode([j \in 1 .. 2 * Len(c) |->
                   c[(j + 1) \div 2].reply.element[IF j % 2 = 1 THEN 1 ELSE 2]])]}

Tuples(encodings, T, max) ==
  {Listed(c) : c \in Picks([j \in DOMAIN T.of |-> encodings[T.of[j]][max]])}

\* encodings are those of the types T is made of.
EncodingsAs(encodings, T, max) ==
  CASE T.k = "status"   -> {Means(Str(t), TextNode("STATUS", t)) : t \in Texts}
    [] T.k = "string"   -> {Means(Str(t), TextNode("STRING", t)) : t \in Texts}
    [] T.k = "void"     -> {Means(Unit, TextNode("STATUS", "OK"))}
    [] T.k = "number"   -> {Means(Num(i), NumberNode(i)) : i \in Numbers}
    [] T.k = "double"   -> {Means(Num(Numeric[t]), TextNode("STRING", t)) : t \in DOMAIN Numeric}
    [] T.k = "bool"     -> {Means(Num(b), NumberNode(b)) : b \in {0, 1}}
    [] T.k = "optional" -> {Means(NoValue, NilNode)} \cup encodings[T.of[1]][max]
    [] T.k = "tuple"    -> Tuples(encodings, T, max)
    [] T.k = "array"    -> {Listed(c) : c \in UpTo(max, encodings[T.of[1]][max - 1])}
    [] T.k = "pairs"    -> UNION {Paired(c) : c \in UpTo(max, Tuples(encodings, T, max - 1))}

EncodingsAt[n \in Nat] ==
  [T \in Types[n] |-> [max \in Int |-> EncodingsAs(EncodingsAt[n - 1], T, max)]]
Encodings(T, max) == EncodingsAt[Rank][T][max]

\* Redis writes a cursor as an unsigned number.
Cursors == {m \in Encodings(Double, 0) : m.value.n >= 0}

\* Redis' replies to a command, by how its method takes them.  That a reply is
\* nil where its type allows it is Redis' side: the proxy answers without one.
Answers(wants) ==
  LET plain == Encodings(wants.T, MaxElements)
  IN  CASE wants.how = "parse" -> plain
        [] wants.how = "set" -> {Means(Num(1), TextNode("STATUS", "OK")), Means(Num(0), NilNode)}
        [] wants.how = "georadius" ->
             {Means(NoValue, ArrayNode(<<>>))} \cup {m \in plain : ~IsNil(m.reply)}
        [] wants.how = "nonnil" -> {Means(Seq_(<<>>), NilNode)} \cup plain
        [] wants.how = "scan" ->
             {Listed(c) : c \in Picks(<<Cursors, plain>>)}
        [] wants.how = "pending" ->
             {Listed(c) : c \in Picks(<<Encodings(Number, 0), Encodings(Opt(String), 0),
                                          Encodings(Opt(String), 0),
                                          plain \cup {Means(Seq_(<<>>), NilNode)}>>)}

\* The rsp.reply() of an answer without one: all its fields are 0 or empty.
NoReply == Node("none", NoText, 0, <<>>)

\* What RedisCmd::FormattedCmd and Cmd return of Redis' reply: Yield throws an
\* error, nil is returned as nothing, and Task then answers without a reply, as
\* it does when the command was not sent.
Returned(r) == IF r.type \in {"ERROR", "NIL"} THEN NoReply ELSE r

\* Answers to other commands, which a late answer may be, and Redis' errors.
Foreign == UNION {Encodings(T, 1) : T \in {String, Number, Opt(String), Out(String)}}
Failure == Means(Thrown, TextNode("ERROR", NoText))

-----------------------------------------------------------------------------
Init ==
  /\ pc = "idle" /\ call = NoCall /\ built = NotBuilt /\ answer = NoAnswer
  /\ reply_ = Unset /\ held = Null
  /\ heap = {} /\ twice = FALSE
  /\ result = Unit /\ calls = 0

Begin == /\ pc = "idle"
         /\ calls < MaxCalls
         /\ calls' = calls + 1

\* Connection::send(format, ...): the command is written by its format.
Format(words) ==
  /\ Begin
  /\ \E lens \in [1..Taken(words, Len(words)) -> Lengths] :
       LET args == [j \in DOMAIN lens |-> [of |-> j, len |-> lens[j]]]
       IN  /\ call' = [NoCall EXCEPT !.words = words, !.args = args]
           /\ built' = FormatCommand(Spaced(words), args)
  /\ pc' = "built"
  /\ UNCHANGED <<answer, reply_, held, heap, twice, result>>

\* redisCommandFormatted sends it, unless nothing could be written: then send
\* returns, and recv takes what _reply is.
SendFormatted(section, wants) ==
  /\ pc = "built"
  /\ call.words \in section.formats
  /\ pc' = IF built.err THEN "answered" ELSE "waiting"
  /\ built' = NotBuilt
  /\ call' = [NoCall EXCEPT !.wants = wants]
  /\ UNCHANGED <<answer, reply_, held, heap, twice, result, calls>>

\* Connection::send(CmdArgs), redisCommandArgv: the arguments are sent as they are.
SendArgv(wants) ==
  /\ Begin
  /\ call' = [NoCall EXCEPT !.wants = wants]
  /\ pc' = "waiting"
  /\ UNCHANGED <<built, answer, reply_, held, heap, twice, result>>

\* The rpc returns: what the proxy has of Redis' reply is put into a message,
\* taken out again and converted.  An answer without reply is converted too, by
\* the fields it reads as, which ReplyToPb would leave as they are.
Answer(whose, m) ==
  /\ pc = "waiting"
  /\ m.reply \in Replies
  /\ answer' = [whose |-> whose, reply |-> Returned(m.reply), value |-> m.value]
  /\ \E o \in PbToReply(ReplyToPb(Returned(m.reply))) :
       /\ reply_' = o.reply
       /\ heap' = heap \cup o.heap
  /\ pc' = "answered"
  /\ UNCHANGED <<call, built, held, twice, result, calls>>

\* The rpc throws: the call ends, with _reply as it was.
AnswerTimesOut ==
  /\ pc = "waiting"
  /\ result' = Thrown
  /\ pc' = "done"
  /\ UNCHANGED <<call, built, answer, reply_, held, heap, twice, calls>>

\* RedisActuator::recv gives the reply away; the method dereferences it.
Recv ==
  /\ pc = "answered"
  /\ held' = reply_
  /\ reply_' = Null
  /\ pc' = IF reply_ \in {Null, Unset} THEN "crashed" ELSE "received"
  /\ UNCHANGED <<call, built, answer, heap, twice, result, calls>>

\* free of what a rewrite lets go, and of the reply at the end of the method.
Free(objects) ==
  /\ heap' = heap \ objects
  /\ twice' = (twice \/ ~(objects \subseteq heap))

Rewrite ==
  /\ pc = "received"
  /\ call.wants.how \in {"set", "georadius"}
  /\ IF call.wants.how = "set"
     THEN /\ held' = RewriteSet(held)
          /\ Free(IF ParseVoid(held) = Unit THEN {<<<<>>, "str">>} ELSE {})
     ELSE /\ held' = RewriteGeoradius(held)
          /\ UNCHANGED <<heap, twice>>
  /\ pc' = "rewritten"
  /\ UNCHANGED <<call, built, answer, reply_, result, calls>>

\* The method parses the reply, and its end, or the exception, frees it.  A
\* "nonnil" method asks for nil, which no reply it receives is.
Return ==
  /\ \/ pc = "rewritten"
     \/ pc = "received" /\ call.wants.how \notin {"set", "georadius"}
  /\ LET T == call.wants.T
     IN  result' = CASE call.wants.how = "scan"    -> ParseScan(T, held)
                     [] call.wants.how = "pending" -> ParsePending(T, held)
                     [] call.wants.how = "nonnil" /\ IsNil(held) -> Seq_(<<>>)
                     [] OTHER -> Parse(T, held)
  /\ Free(Freed(held))
  /\ held' = Null
  /\ pc' = "done"
  /\ UNCHANGED <<call, built, answer, reply_, calls>>

\* The transaction goes on, having used or caught what the call gave.
GoOn ==
  /\ pc = "done"
  /\ pc' = "idle"
  /\ call' = NoCall /\ answer' = NoAnswer /\ result' = Unit
  /\ UNCHANGED <<built, reply_, held, heap, twice, calls>>

Next ==
  \/ \E section \in Sections :
       \/ \E words \in section.formats : Format(words)
       \/ \E wants \in section.results :
            SendFormatted(section, wants) \/ SendArgv(wants)
  \/ /\ pc = "waiting"
     /\ \/ \E m \in Answers(call.wants) \cup {Failure, Means(Thrown, NoReply)} :
             Answer("own", m)
        \/ \E m \in Foreign : Answer("other", m)
  \/ AnswerTimesOut
  \/ Recv \/ Rewrite \/ Return \/ GoOn

Spec == Init /\ [][Next]_vars

-----------------------------------------------------------------------------
\* A formatted command has one argument for every word of its format, empty
\* values included, and redisvFormatCommand writes as many bytes as it
\* allocated (its assert(pos == totlen)).
CommandIsExact == pc = "built" => Exact(built, call.words, call.args)

\* The nodes of a reply.
NodesAt[h \in Nat] ==
  [r \in Trees[h] |-> {r} \cup UNION {NodesAt[h - 1][r.element[j]] : j \in DOMAIN r.element}]

\* Some node of a reply is of a type for which PbToReply leaves r unassigned.
HasUnassigned(r) ==
  \E node \in NodesAt[Height][r] : node.type \notin StringTypes \cup {"ARRAY"}

\* The method dereferences no reply at all (Redis::_command returns it, and no
\* method looks whether there is one) only when PbToReply took what was on the
\* stack for a failure: with a reply of strings and arrays alone, and whoever's
\* answer it is, there is a reply.
CrashNeedsUnassigned ==
  pc = "crashed" => answer.whose # "none" /\ HasUnassigned(answer.reply)

\* The cursor of a scan is cut to an int, and the value is right otherwise.
CursorCut(got, value) ==
  /\ call.wants.how = "scan" /\ got.k = "list"
  /\ got.e[2] = value.e[2]
  /\ value.e[1].n >= IntLimit
  /\ \E wraps \in 1 .. value.e[1].n : value.e[1].n = got.e[1].n + wraps * (2 * IntLimit)

\* A call that ends, with the answer to its own command, returns what Redis'
\* reply stands for, through both conversions and the parser, but for a cursor
\* too large for an int.  When the proxy answers without a reply (the command was
\* not sent, or failed, or Redis' reply is nil) it ends in an exception, whatever
\* the command: nil is never an empty value, FALSE or an empty output.
ResultIsReply ==
  pc = "done" /\ answer.whose = "own" =>
    IF answer.reply = NoReply THEN result = Thrown
    ELSE result = answer.value \/ CursorCut(result, answer.value)

\* Between two calls nothing of a reply is left allocated, and nothing was freed
\* twice: also when an element was dropped and the array with it, when the
\* parser threw, and for the string rewrite_set_reply frees itself.
RepliesAreFreedOnce ==
  /\ ~twice
  /\ pc \in {"idle", "built", "waiting", "done", "crashed"} => heap = {} /\ held = Null

=============================================================================
