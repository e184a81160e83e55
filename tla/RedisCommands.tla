--------------------------- MODULE RedisCommands ---------------------------
(* The commands of the front end by section: the formats commlib/redis/      *)
(* command.h writes them with (command.cpp LINSERT's, <<W, B, S, B, B>>),    *)
(* the results redis.cpp parses, and those of the templates of redis.hpp.  A *)
(* format is the sequence of its words, every word of letters written        *)
(* "word"; a command built of CmdArgs has none.  A result is [how, T]: T as  *)
(* Parse takes it, how what the method does with the reply around it.        *)
EXTENDS Sequences

Ty(k)          == [k |-> k, of |-> <<>>]
Opt(T)         == [k |-> "optional", of |-> <<T>>]
Tuple(Ts)      == [k |-> "tuple", of |-> Ts]
Out(T)         == [k |-> "array", of |-> <<T>>]
OutPairs(T, U) == [k |-> "pairs", of |-> <<T, U>>]

String == Ty("string")
Number == Ty("number")
Double == Ty("double")
Fields == OutPairs(String, String)
Scores == OutPairs(String, Double)
Entry  == Tuple(<<String, Fields>>)      \* an entry of a stream

By(how, Ts) == {[how |-> how, T |-> T] : T \in Ts}
Parsed(Ts)  == By("parse", Ts)

W == "word"
B == "%b"
I == "%lld"
S == "%s"
F == "%f"

-----------------------------------------------------------------------------
ServerFormats == {<<W>>, <<W, B>>, <<W, I>>, <<W, I, I>>}
ServerResults == Parsed({Ty("void"), Ty("status"), String, Number})

KeyFormats == {<<W>>, <<W, B>>, <<W, B, I>>, <<W, B, B>>, <<W, I, I>>,
               <<W, I, W, B, W, I>>}
KeyResults == Parsed({Number, Opt(String), Ty("bool"), Ty("void"), String})
KeyOutputs == Parsed({Number, Out(String)}) \cup By("scan", {Out(String)})

StringFormats == {<<W, B>>, <<W, B, B>>, <<W, B, I>>, <<W, B, I, I>>,
                  <<W, B, I, I, I>>, <<W, B, F>>, <<W, B, I, B>>}
StringResults == Parsed({Number, Opt(String), String, Double, Ty("void"), Ty("bool")})
                 \cup By("set", {Ty("bool")})
StringOutputs == Parsed({Number, Out(Opt(String)), Ty("void"), Ty("bool")})

ListFormats == {<<W, B>>, <<W, B, B>>, <<W, B, I>>, <<W, B, B, I>>,
                <<W, B, I, I>>, <<W, B, I, B>>, <<W, B, S, B, B>>}
ListResults == Parsed({Number, Opt(String), Opt(Tuple(<<String, String>>)), Ty("void")})
ListOutputs == Parsed({Number, Out(String), Opt(Tuple(<<String, String>>))})

HashFormats == {<<W, B>>, <<W, B, B>>, <<W, B, B, I>>, <<W, B, B, F>>,
                <<W, B, I, W, B, W, I>>, <<W, B, B, B>>}
HashResults == Parsed({Number, Ty("bool"), Opt(String), Double})
HashOutputs == Parsed({Number, Fields, Out(String), Out(Opt(String)), Ty("void")})
               \cup By("scan", {Fields})

SetFormats == {<<W, B>>, <<W, B, B>>, <<W, B, B, B>>, <<W, B, I>>,
               <<W, B, I, W, B, W, I>>}
SetResults == Parsed({Number, Ty("bool"), Opt(String)})
SetOutputs == Parsed({Number, Out(String)}) \cup By("scan", {Out(String)})

SortedSetFormats ==
  {<<W, B>>, <<W, B, B>>, <<W, B, I>>, <<W, B, S, S>>, <<W, B, F, B>>,
   <<W, B, W, B, W, F>>, <<W, B, B, B>>, <<W, B, I, I>>, <<W, B, I, I, W>>,
   <<W, B, B, B, W, I, I>>, <<W, B, B, B, W, W, I, I>>, <<W, B, I, W, B, W, I>>}
SortedSetResults ==
  Parsed({Number, Double, Opt(Number), Opt(Double),
          Opt(Tuple(<<String, Double>>)), Opt(Tuple(<<String, String, Double>>))})
SortedSetOutputs == Parsed({Number, Out(String), Scores}) \cup By("scan", {Scores})

LogAndGeoFormats == {<<W, B>>, <<W, B, B>>, <<W, B, F, F, B>>}
LogAndGeoResults == Parsed({Ty("bool"), Number, Ty("void"), Opt(Double)})
                    \cup By("georadius", {Opt(Number)})
GeoOutputs == Parsed({Out(Opt(String)), Out(Opt(Tuple(<<Double, Double>>))),
                      Out(String), Scores})

ScriptFormats == {<<W, W>>, <<W, W, B>>}
ScriptResults == Parsed({Ty("void"), String})
ScriptOutputs == Parsed({Number, Out(String), Out(Ty("bool"))})

StreamFormats ==
  {<<W, B>>, <<W, B, B>>, <<W, B, B, B>>, <<W, B, B, B, I, B>>, <<W, W, B, B, B>>,
   <<W, W, B, B>>, <<W, B, B, B, B, I>>, <<W, B, B, B, B, I, B>>,
   <<W, B, B, B, W, I>>, <<W, W, I, W, B, B>>, <<W, W, I, W, I, W, B, B>>}
StreamResults == Parsed({Number, Ty("void")})
StreamOutputs ==
  Parsed({Number, String, Out(Entry), Out(Tuple(<<String, String, Number, Number>>))})
  \cup By("pending", {OutPairs(String, String)})
  \cup By("nonnil", {Out(Tuple(<<String, Out(Entry)>>))})

Sections ==
  {[formats |-> ServerFormats,    results |-> ServerResults],
   [formats |-> KeyFormats,       results |-> KeyResults \cup KeyOutputs],
   [formats |-> StringFormats,    results |-> StringResults \cup StringOutputs],
   [formats |-> ListFormats,      results |-> ListResults \cup ListOutputs],
   [formats |-> HashFormats,      results |-> HashResults \cup HashOutputs],
   [formats |-> SetFormats,       results |-> SetResults \cup SetOutputs],
   [formats |-> SortedSetFormats, results |-> SortedSetResults \cup SortedSetOutputs],
   [formats |-> LogAndGeoFormats, results |-> LogAndGeoResults \cup GeoOutputs],
   [formats |-> ScriptFormats,    results |-> ScriptResults \cup ScriptOutputs],
   [formats |-> StreamFormats,    results |-> StreamResults \cup StreamOutputs]}
=============================================================================
