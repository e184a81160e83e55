----------------------------- MODULE RedisReply -----------------------------
(* A Redis reply on its way to the caller of a command: as a message between *)
(* the servers (ReplyToPb of app/redissvr/main.cpp), converted back into a   *)
(* redisReply (app/common/convert_reply_help.h), parsed into the result the  *)
(* command promises (commlib/redis/reply.h and reply.cpp) and freed          *)
(* (commlib/redis/redis_reply.h).                                            *)
(*                                                                           *)
(* A reply is a tree [type, str, integer, element].  What is allocated for   *)
(* the node at a path of the tree is named <<path, part>>, the part being    *)
(* the node itself, the copy of its string or its vector of elements.  The   *)
(* allocations themselves are taken to succeed.                              *)
(*                                                                           *)
(* What the code does by recursion on a tree is here a function for each     *)
(* height of trees, by way of the one for the height below.                  *)
EXTENDS Integers, Sequences

CONSTANTS Texts,     \* strings of replies
          Numeric,   \* the numbers that strings stand for, in decimal
          IntLimit,  \* the first number too large for an int (2^31 in the build)
          Height     \* of the highest reply that is looked at

ASSUME HeightAssumption   == Height \in Nat \ {0}
ASSUME IntLimitAssumption == IntLimit \in Nat \ {0}
ASSUME NumericAssumption  == \A text \in DOMAIN Numeric : Numeric[text] \in Int

NoText == ""

Node(type, str, integer, element) ==
  [type |-> type, str |-> str, integer |-> integer, element |-> element]

Null == Node("nullptr", NoText, 0, <<>>)      \* no reply at all

StringTypes == {"STRING", "STATUS", "ERROR"}
ReplyTypes  == StringTypes \cup {"ARRAY", "INTEGER", "NIL", "none", "nullptr"}
IsArray(r)  == r.type = "ARRAY"
IsNil(r)    == r.type = "NIL"

Strings == Texts \cup DOMAIN Numeric \cup {NoText, "OK"}

\* The replies of a height, their elements of the one below.
Trees[h \in Nat] ==
  IF h = 0 THEN {}
  ELSE [type : ReplyTypes, str : Strings, integer : Int, element : Seq(Trees[h - 1])]

Replies == Trees[Height]
Paths   == Seq(Nat)

-----------------------------------------------------------------------------
(* From one server to the other. *)

\* TransRedisCmd::ReplyToPb copies the type, the number and the string of
\* every reply, the elements of arrays only.
Copied[h \in Nat] ==
  [r \in Trees[h] |->
     [r EXCEPT !.element = IF IsArray(r) THEN [j \in DOMAIN @ |-> Copied[h - 1][@[j]]]
                           ELSE <<>>]]
ReplyToPb(r) == Copied[Height][r]

\* What freeReplyObject frees of a reply at a path: what belongs to its type.
FreedAt[h \in Nat] ==
  [r \in Trees[h] |-> [path \in Paths |->
     IF r = Null THEN {}
     ELSE {<<path, "node">>}
          \cup (IF r.type \in StringTypes THEN {<<path, "str">>} ELSE {})
          \cup (IF IsArray(r) /\ r.element # <<>>
                THEN {<<path, "element">>}
                     \cup UNION {FreedAt[h - 1][r.element[j]][Append(path, j)]
                                 : j \in DOMAIN r.element}
                ELSE {})]]
Freed(r) == FreedAt[Height][r][<<>>]

\* createStringObject, createIntegerObject and createArrayObject fill in what
\* the type calls for; the rest is what calloc left.
Created(pb) ==
  CASE pb.type \in StringTypes -> Node(pb.type, pb.str, 0, <<>>)
    [] pb.type = "INTEGER"     -> Node(pb.type, NoText, pb.integer, <<>>)
    [] pb.type = "ARRAY"       -> Node(pb.type, NoText, 0, [j \in DOMAIN pb.element |-> Null])
    [] OTHER                   -> Node(pb.type, NoText, 0, <<>>)

\* One pass of the loop over the elements, which has come to what is so far: a
\* reply, whose j-th element becomes o's, or nothing.  An array whose element
\* is dropped is dropped whole, with the elements it has.
WithElement(sofar, j, o, freed) ==
  IF sofar.reply = Null THEN sofar
  ELSE IF o.reply = Null THEN [reply |-> Null, heap |-> sofar.heap \ freed]
  ELSE [reply |-> [sofar.reply EXCEPT !.element[j] = o.reply],
        heap  |-> sofar.heap \cup o.heap]

\* The loop over the elements: what may come of an array, of what may come of
\* its elements.
WithElements(pb, path, new, freed, outcomes) ==
  LET upto[j \in 0..Len(pb.element)] ==
        IF j = 0 THEN {new}
        ELSE UNION {{WithElement(sofar, j, o, freed[sofar.reply][path])
                     : o \in outcomes[pb.element[j]][Append(path, j)]}
                    : sofar \in upto[j - 1]}
  IN  upto[Len(pb.element)]

\* What PbToReply may return for a message, and what it leaves allocated.  The
\* variable r, by which it tells failure, is assigned for strings and arrays
\* only: for any other type it holds what was on the stack, and the reply is
\* kept or dropped.
Converted[h \in Nat] ==
  [pb \in Trees[h] |-> [path \in Paths |->
     LET kept == [reply |-> Created(pb), heap |-> FreedAt[h][Created(pb)][path]]
         null == [reply |-> Null, heap |-> {}]
     IN  IF pb.type \in StringTypes THEN {kept}
         ELSE IF IsArray(pb) THEN WithElements(pb, path, kept, FreedAt[h], Converted[h - 1])
         ELSE {kept, null}]]
PbToReply(pb) == Converted[Height][pb][<<>>]

-----------------------------------------------------------------------------
(* Results.  A result type is [k, of], of being the types it is made of, of  *)
(* a lower rank; a value is [k, s, n, e].                                    *)

Rank == 6        \* the highest rank of a result of the front end

Scalars == {"status", "string", "void", "number", "double", "bool"}
Kinds   == Scalars \cup {"optional", "tuple", "array", "pairs"}

\* An Optional is of one type, the output of an array too, that of key-value
\* pairs of two, whose first is never itself sent as an array.
WellFormed(T) ==
  /\ T.k \in {"optional", "array"} => Len(T.of) = 1
  /\ T.k = "pairs" => Len(T.of) = 2 /\ T.of[1].k \in Scalars

Types[n \in Nat] ==
  IF n = 0 THEN {} ELSE {T \in [k : Kinds, of : Seq(Types[n - 1])] : WellFormed(T)}

Value(k, s, n, e) == [k |-> k, s |-> s, n |-> n, e |-> e]
Str(s)   == Value("string", s, 0, <<>>)
Num(n)   == Value("number", NoText, n, <<>>)
Seq_(e)  == Value("list", NoText, 0, e)
NoValue  == Value("none", NoText, 0, <<>>)        \* an empty Optional
Unit     == Value("void", NoText, 0, <<>>)
Thrown   == Value("exception", NoText, 0, <<>>)

\* A container or a tuple of the values e, unless parsing one of them throws.
Gather(e) == IF \E j \in DOMAIN e : e[j] = Thrown THEN Thrown ELSE Seq_(e)

\* The assignment of a long long to new_cursor, which is an int.
AsInt(n) == LET m == n % (2 * IntLimit)
          IN  IF m >= IntLimit THEN m - 2 * IntLimit ELSE m

\* reply::to_status, and parse<std::string>, which takes a status too.
ParseText(r, types) == IF r.type \in types THEN Str(r.str) ELSE Thrown

ParseVoid(r) == IF r.type = "STATUS" /\ r.str = "OK" THEN Unit ELSE Thrown

ParseNumber(r) == IF r.type = "INTEGER" THEN Num(r.integer) ELSE Thrown

\* std::stod and std::stoll throw what is not a number.
ParseDecimal(r) ==
  LET text == ParseText(r, {"STRING", "STATUS"})
  IN  IF text # Thrown /\ text.s \in DOMAIN Numeric THEN Num(Numeric[text.s])
      ELSE Thrown

ParseBool(r) == IF ParseNumber(r) \in {Num(0), Num(1)} THEN ParseNumber(r) ELSE Thrown

\* Mutant: whether the first element is an array is not looked at.
IsFlat_NotEmpty(r) == r.element # <<>>

\* detail::is_flat_array: a key-value output takes the elements two by two,
\* or, when the first of them is itself an array, one pair from each.
IsFlat(r) == r.element # <<>> /\ ~IsArray(r.element[1])

\* Elements that are of the types T is made of, one of each, or all of its first.
ParseEach(parse, T, e) == Gather([j \in DOMAIN e |-> parse[T.of[j]][e[j]]])
ParseAll(parse, T, e)  == Gather([j \in DOMAIN e |-> parse[T.of[1]][e[j]]])

\* A tuple takes an array of as many elements as it has types.
ParseTuple(parse, T, r) ==
  IF IsArray(r) /\ Len(r.element) = Len(T.of) THEN ParseEach(parse, T, r.element)
  ELSE Thrown

ParsePairs(parse, T, r) ==
  IF ~IsArray(r) THEN Thrown
  ELSE IF ~IsFlat(r) THEN Gather([j \in DOMAIN r.element |-> ParseTuple(parse, T, r.element[j])])
  ELSE IF Len(r.element) % 2 # 0 THEN Thrown
  ELSE Gather([j \in 1 .. Len(r.element) \div 2 |->
                 ParseEach(parse, T, SubSeq(r.element, 2 * j - 1, 2 * j))])

\* reply::parse<T>, with reply::to_array for the commands that have an output
\* iterator ("array", and "pairs" for one of key-value pairs); parse is what it
\* does for the types T is made of.
ParseAs(parse, T, r) ==
  CASE T.k = "status"   -> ParseText(r, {"STATUS"})
    [] T.k = "string"   -> ParseText(r, {"STRING", "STATUS"})
    [] T.k = "void"     -> ParseVoid(r)
    [] T.k = "number"   -> ParseNumber(r)
    [] T.k = "double"   -> ParseDecimal(r)
    [] T.k = "bool"     -> ParseBool(r)
    [] T.k = "optional" -> IF IsNil(r) THEN NoValue ELSE parse[T.of[1]][r]
    [] T.k = "tuple"    -> ParseTuple(parse, T, r)
    [] T.k = "array"    -> IF IsArray(r) THEN ParseAll(parse, T, r.element) ELSE Thrown
    [] T.k = "pairs"    -> ParsePairs(parse, T, r)

ParseAt[n \in Nat] == [T \in Types[n] |-> [r \in Replies |-> ParseAs(ParseAt[n - 1], T, r)]]
Parse(T, r) == ParseAt[Rank][T][r]

\* parse_scan_reply returns the cursor and fills the output.
ParseScan(T, r) ==
  IF Len(r.element) # 2 THEN Thrown
  ELSE LET cursor == ParseDecimal(r.element[1])
       IN  IF cursor = Thrown THEN Thrown
           ELSE Gather(<<Num(AsInt(cursor.n)), Parse(T, r.element[2])>>)

\* parse_xpending_reply: a number, two optional strings, and entries or nil.
ParsePending(T, r) ==
  IF ~IsArray(r) \/ Len(r.element) # 4 THEN Thrown
  ELSE LET id == [k |-> "optional", of |-> <<[k |-> "string", of |-> <<>>]>>]
       IN  Gather(<<ParseNumber(r.element[1]),
                    Parse(id, r.element[2]), Parse(id, r.element[3]),
                    IF IsNil(r.element[4]) THEN Seq_(<<>>) ELSE Parse(T, r.element[4])>>)

-----------------------------------------------------------------------------
(* Replies that are rewritten in place before they are parsed. *)

\* Mutant: the integer is set, the type is not.
RewriteSet_KeepsType(r) ==
  CASE IsNil(r)            -> Node("INTEGER", r.str, 0, r.element)
    [] ParseVoid(r) = Unit -> [r EXCEPT !.integer = 1]
    [] OTHER               -> r

\* rewrite_set_reply: nil becomes the integer 0, OK the integer 1, its string
\* freed at once; anything else throws and stays as it is.
RewriteSet(r) ==
  CASE IsNil(r)            -> Node("INTEGER", r.str, 0, r.element)
    [] ParseVoid(r) = Unit -> Node("INTEGER", r.str, 1, r.element)
    [] OTHER               -> r

\* rewrite_georadius_reply: an empty array becomes nil.
RewriteGeoradius(r) ==
  IF IsArray(r) /\ r.element = <<>> THEN [r EXCEPT !.type = "NIL"] ELSE r
=============================================================================
